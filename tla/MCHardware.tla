----------------------------- MODULE MCHardware -----------------------------
(***************************************************************************)
(* The layers of the hardware's access, each by itself: the packets to the *)
(* drive, the bus below them, the keys above, the remote control and the   *)
(* numbers typed on it.  They share no variable, and what one assumes of   *)
(* the next is in its module; so one run checks them side by side: which   *)
(* one moves is chosen at the beginning, and the others stay as they begin.*)
(***************************************************************************)
EXTENDS AtapiPacket, IdeBus, CDModeKeys, RemoteControl, NumberEntry, TLC

VARIABLE part  \* the layer that moves

CONSTANTS cdp, ui  \* the player's task and that of the user interface

\* The player's task boots the device, waits for it, reads the discs and starts the
\* disc; the user interface plays and changes discs.
MCOps == cdp :> {"wait_ready", "read_toc", "check_media", "start"} @@ ui :> {"play", "load_unload"}
MCDrives == {{}, {"no_drq_in_toc"}}
MCDisc == <<1, 2>>

hardwareVars == <<part, packetVars, busVars, keyVars, remoteVars, entryVars>>

HardwareInit ==
  /\ part \in {"packets", "bus", "keys", "remote", "numbers"}
  /\ PacketInit /\ BusInit /\ KeysInit /\ RemoteInit /\ EntryInit

HardwareNext ==
  /\ UNCHANGED part
  /\ \/ part = "packets" /\ PacketNext /\ UNCHANGED <<busVars, keyVars, remoteVars, entryVars>>
     \/ part = "bus" /\ BusNext /\ UNCHANGED <<packetVars, keyVars, remoteVars, entryVars>>
     \/ part = "keys" /\ KeysNext /\ UNCHANGED <<packetVars, busVars, remoteVars, entryVars>>
     \/ part = "remote" /\ RemoteNext /\ UNCHANGED <<packetVars, busVars, keyVars, entryVars>>
     \/ part = "numbers" /\ EntryNext /\ UNCHANGED <<packetVars, busVars, keyVars, remoteVars>>

\* The fairness of PacketSpec.
HardwareSpec ==
  /\ HardwareInit
  /\ [][HardwareNext]_hardwareVars
  /\ WF_packetVars(part = "packets" /\ DriveAnswers)
  /\ WF_packetVars(part = "packets" /\ DriveSettles)
  /\ \A t \in Tasks : WF_packetVars(part = "packets" /\ TaskStep(t))

=============================================================================
