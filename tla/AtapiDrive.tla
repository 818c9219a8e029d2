----------------------------- MODULE AtapiDrive -----------------------------
(***************************************************************************)
(* The CD drive behind ATAPI::Device, seen through the commands that       *)
(* player.cpp sends it.  The drive is not part of the firmware: its own    *)
(* moves (spinning up, running through the tracks, a hand at the tray, its *)
(* front panel buttons) are the environment.  Each command of the device   *)
(* is one atomic effect because every one of them runs under the device's  *)
(* own semaphore.                                                          *)
(*                                                                         *)
(* A disc is the sequence of the numbers of its audio tracks; a position   *)
(* on it is the number of the track that it lies in, 0 is MSF 00:00:00.    *)
(***************************************************************************)
EXTENDS Naturals, Sequences

CONSTANTS
  SlotCount,     \* slots of the changer, 1 for an ordinary drive
  Discs,         \* the discs there are; <<>> is one without audio tracks
  NoDisc,        \* what an empty slot holds
  NoMediaCodes,  \* quirk: a closed drive never names its medium
  MustSoftscan   \* quirk: no SCAN command, the firmware hops instead

MaxTracks == 99  \* of a compact disc
LeadOut == 170   \* 0xAA, the track number of the lead-out

ASSUME DriveAssumption ==
  /\ SlotCount \in Nat \ {0}
  /\ Discs \subseteq Seq(1 .. MaxTracks)
  /\ \A d \in Discs : Len(d) <= MaxTracks
  /\ NoDisc \notin Discs
  /\ NoMediaCodes \in BOOLEAN
  /\ MustSoftscan \in BOOLEAN

Slot == 0 .. SlotCount - 1
TrackNo == 0 .. LeadOut
PlayState == {"Stopped", "Starting", "Playing", "Scanning", "Paused"}
MediaTypeCode == {"DoorOpen", "Unknown", "NoDisc", "Data", "Audio"}

VARIABLES
  doorOpen,  \* the tray is out
  inSlot,    \* the disc in every slot
  curDisc,   \* the slot at the head
  target,    \* the slot the changer is bringing to the head
  busy,      \* in motion or becoming ready
  audio,     \* what the drive is doing with the disc
  pos,       \* the track under the head
  playEnd    \* where the current play command ends, 0 for the end of the disc

driveVars == <<doorOpen, inSlot, curDisc, target, busy, audio, pos, playEnd>>

DriveTypeOK ==
  /\ doorOpen \in BOOLEAN
  /\ inSlot \in [Slot -> Discs \cup {NoDisc}]
  /\ curDisc \in Slot
  /\ target \in Slot
  /\ busy \in BOOLEAN
  /\ audio \in PlayState
  /\ pos \in TrackNo
  /\ playEnd \in TrackNo

DriveInit ==
  /\ doorOpen \in BOOLEAN
  /\ inSlot \in [Slot -> Discs \cup {NoDisc}]
  /\ curDisc = 0
  /\ target = 0
  /\ busy = TRUE
  /\ audio = "Stopped"
  /\ pos = LeadOut
  /\ playEnd = 0

-----------------------------------------------------------------------------
(* What the head can reach *)

Tracks(d) == IF d = NoDisc THEN <<>> ELSE d
Loaded == IF doorOpen \/ busy THEN <<>> ELSE Tracks(inSlot[curDisc])
Numbers(album) == {album[i] : i \in DOMAIN album}

(* The answers of the drive to the queries of the player *)

check_media ==
  IF doorOpen THEN "DoorOpen"
  ELSE IF busy \/ NoMediaCodes THEN "Unknown"
  ELSE IF inSlot[curDisc] = NoDisc THEN "NoDisc"
  ELSE IF inSlot[curDisc] = <<>> THEN "Data" ELSE "Audio"

disc_in(i) == inSlot[i] # NoDisc

\* Mutant: passes the state of the drive on as it is.
query_position_raw == {[state |-> audio, track |-> pos]}

\* The possible answers to query_position().  A drive that is still starting to
\* play reports itself stopped at the lead-out, one at rest reports any track.
query_position ==
  IF audio = "Starting" THEN {[state |-> "Stopped", track |-> LeadOut]}
  ELSE IF audio = "Stopped"
       THEN [state : {"Stopped"}, track : {LeadOut} \cup Numbers(Loaded)]
  ELSE {[state |-> IF audio = "Scanning" THEN "Playing" ELSE audio, track |-> pos]}

\* wait_ready() comes back only when nothing moves any more.
wait_ready == ~busy

(* Commands *)

\* Play from track `from' to `to'; with `hold', followed at once by a pause.
\* A drive at rest may take a while until the audio starts, one that is
\* running goes on running; a start that is not on the disc is refused.
play(from, to, hold) ==
  /\ UNCHANGED <<doorOpen, inSlot, curDisc, target, busy>>
  /\ \/ \E t \in Numbers(Loaded) :
          /\ t = from \/ from = 0
          /\ pos' = t
          /\ playEnd' = to
          /\ \/ hold /\ audio' = "Paused"
             \/ ~hold /\ audio' = "Playing"
             \/ ~hold /\ audio \in {"Stopped", "Starting"} /\ audio' = "Starting"
     \/ /\ from \notin Numbers(Loaded)
        /\ audio' = IF hold /\ audio # "Stopped" THEN "Paused" ELSE audio
        /\ UNCHANGED <<pos, playEnd>>

\* At rest the head is nowhere and nothing is left to play.
Halt == audio' = "Stopped" /\ pos' = LeadOut /\ playEnd' = 0

pause(on) ==
  /\ audio' = IF on THEN (IF audio = "Stopped" THEN audio ELSE "Paused")
              ELSE (IF audio = "Paused" THEN "Playing" ELSE audio)
  /\ UNCHANGED <<doorOpen, inSlot, curDisc, target, busy, pos, playEnd>>

stop ==
  /\ Halt
  /\ UNCHANGED <<doorOpen, inSlot, curDisc, target, busy>>

scan ==
  /\ audio' = IF audio \in {"Playing", "Paused", "Scanning"} THEN "Scanning" ELSE audio
  /\ playEnd' = 0
  /\ UNCHANGED <<doorOpen, inSlot, curDisc, target, busy, pos>>

eject(open) ==
  /\ doorOpen' = open
  /\ busy' = (busy \/ (doorOpen /\ ~open))
  /\ IF open THEN Halt ELSE UNCHANGED <<audio, pos, playEnd>>
  /\ UNCHANGED <<inSlot, curDisc, target>>

load_unload(i) ==
  /\ target' = i
  /\ busy' = TRUE
  /\ Halt
  /\ UNCHANGED <<doorOpen, inSlot, curDisc>>

-----------------------------------------------------------------------------
(* The drive's own moves *)

DriveReady ==
  /\ busy
  /\ busy' = FALSE
  /\ curDisc' = target
  /\ UNCHANGED <<doorOpen, inSlot, target, audio, pos, playEnd>>

DriveStarts ==
  /\ audio = "Starting"
  /\ audio' = "Playing"
  /\ UNCHANGED <<doorOpen, inSlot, curDisc, target, busy, pos, playEnd>>

\* The head runs into the next track, or reaches the end of what it was told to play.
DriveAdvances ==
  /\ audio = "Playing"
  /\ \/ \E i \in DOMAIN Loaded \ {Len(Loaded)} :
          /\ Loaded[i] = pos
          /\ Loaded[i + 1] # playEnd
          /\ pos' = Loaded[i + 1]
          /\ UNCHANGED <<audio, playEnd>>
     \/ Halt
  /\ UNCHANGED <<doorOpen, inSlot, curDisc, target, busy>>

DriveScans ==
  /\ audio = "Scanning"
  /\ \/ pos' \in Numbers(Loaded) /\ UNCHANGED <<audio, playEnd>>
     \/ Halt
  /\ UNCHANGED <<doorOpen, inSlot, curDisc, target, busy>>

\* The drive's own buttons: play a disc at rest, hold one that plays.
PanelPlays ==
  /\ audio = "Stopped"
  /\ Loaded # <<>>
  /\ audio' = "Playing"
  /\ pos' = Loaded[1]
  /\ playEnd' = 0
  /\ UNCHANGED <<doorOpen, inSlot, curDisc, target, busy>>

PanelPauses ==
  /\ audio = "Playing"
  /\ audio' = "Paused"
  /\ UNCHANGED <<doorOpen, inSlot, curDisc, target, busy, pos, playEnd>>

HandOpens ==
  /\ ~doorOpen
  /\ ~busy
  /\ doorOpen' = TRUE
  /\ Halt
  /\ UNCHANGED <<inSlot, curDisc, target, busy>>

HandCloses ==
  /\ doorOpen
  /\ doorOpen' = FALSE
  /\ busy' = TRUE
  /\ UNCHANGED <<inSlot, curDisc, target, audio, pos, playEnd>>

HandSwaps ==
  /\ doorOpen
  /\ \E d \in Discs \cup {NoDisc} : inSlot' = [inSlot EXCEPT ![curDisc] = d]
  /\ UNCHANGED <<doorOpen, curDisc, target, busy, audio, pos, playEnd>>

=============================================================================
