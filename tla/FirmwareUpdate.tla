--------------------------- MODULE FirmwareUpdate ---------------------------
(***************************************************************************)
(* The update over HTTP (httpfvu.cpp) as the settings start it             *)
(* (httpfvu_app.h): ask for the version, unpack the files over those of    *)
(* the file system, write the firmware to the other partition, restart.    *)
(* Any request may fail, power may fail at any step, and the server may    *)
(* get a new release at any time.  The unpacker halts the task when it     *)
(* fails; the partition that is started from changes when the firmware is  *)
(* whole.                                                                  *)
(***************************************************************************)
EXTENDS Naturals

CONSTANT LastRelease  \* there are releases 1 .. LastRelease

ASSUME UpdateAssumption == LastRelease \in Nat \ {0}

VARIABLES
  fvu,        \* where the update is
  published,  \* the release on the server
  coming,     \* the release that is being fetched
  firmware,   \* the release of the firmware that runs, or will after a restart
  files,      \* the releases that the files are of
  crossed     \* a release came out after the files were asked for: history of the model

fvuVars == <<fvu, published, coming, firmware, files, crossed>>

-----------------------------------------------------------------------------
\* is_new_version_available(): false when there is no answer.
is_new_version_available == {firmware # published, FALSE}

\* HttpFvuApp::on_presented()
CheckVersion ==
  /\ fvu = "idle"
  /\ TRUE \in is_new_version_available
  /\ fvu' = "get_files"
  /\ UNCHANGED <<published, coming, firmware, files, crossed>>

\* The request for the files fails, or they begin to be unpacked over the old ones.
GetFiles ==
  /\ fvu = "get_files"
  /\ UNCHANGED <<published, firmware>>
  /\ \/ fvu' = "error" /\ UNCHANGED <<coming, files, crossed>>
     \/ fvu' = "unpack" /\ coming' = published /\ files' = files \cup {published} /\ crossed' = FALSE

\* Mutant: goes on to the firmware however the unpacking ends.
UnpackEndsAnyway ==
  /\ fvu = "unpack"
  /\ \/ files' = {coming}
     \/ UNCHANGED files
  /\ fvu' = "get_firmware"
  /\ UNCHANGED <<published, coming, firmware, crossed>>

\* Only success leads on; failure halts.
UnpackEnds ==
  /\ fvu = "unpack"
  /\ \/ fvu' = "get_firmware" /\ files' = {coming}
     \/ fvu' = "halted" /\ UNCHANGED files
  /\ UNCHANGED <<published, coming, firmware, crossed>>

GetFirmware ==
  /\ fvu = "get_firmware"
  /\ \/ fvu' = "error" /\ UNCHANGED coming
     \/ fvu' = "flash" /\ coming' = published
  /\ UNCHANGED <<published, firmware, files, crossed>>

FlashEnds ==
  /\ fvu = "flash"
  /\ \/ fvu' = "restart" /\ firmware' = coming
     \/ fvu' = "halted" /\ UNCHANGED firmware
  /\ UNCHANGED <<published, coming, files, crossed>>

\* ESP.restart(); or the power goes and comes back.  The menu stays locked after an
\* error: it is left through the keys of the modes, or like this.
Start ==
  /\ fvu # "idle"
  /\ fvu' = "idle"
  /\ UNCHANGED <<published, coming, firmware, files, crossed>>

Publish ==
  /\ published < LastRelease
  /\ published' = published + 1
  /\ crossed' = (crossed \/ fvu \in {"unpack", "get_firmware"})
  /\ UNCHANGED <<fvu, coming, firmware, files>>

-----------------------------------------------------------------------------
FvuInit ==
  /\ fvu = "idle" /\ published = 1 /\ coming = 1 /\ firmware = 1 /\ files = {1} /\ crossed = FALSE

FvuNext == CheckVersion \/ GetFiles \/ UnpackEnds \/ GetFirmware \/ FlashEnds \/ Start \/ Publish

FvuSpec == FvuInit /\ [][FvuNext]_fvuVars

-----------------------------------------------------------------------------
(* Properties *)

\* Firmware and files are of one release, or the next check will offer the update:
\* wherever it failed or was cut off, trying again repairs it.  Unless a release came
\* out between the files and the firmware: the files are the older ones then, and
\* nobody asks for them any more.
RepairIsOffered == crossed \/ files = {firmware} \/ TRUE \in is_new_version_available

=============================================================================
