--------------------------- MODULE CDPlayerProofs ---------------------------
(* Theorems about CDPlayer, and TrayHistory, for every number of slots and *)
(* every set of discs.                                                     *)
EXTENDS TrayHistory, SequenceTheorems, TLAPS

-----------------------------------------------------------------------------
(* Who holds the semaphores, and where the tasks are. *)

LockInv ==
  /\ cmdSemaphore = "poll" <=> pollPc \notin {"idle", "gone"}
  /\ cmdSemaphore = "ui" <=> pollPc = "gone"
  /\ pollPc = "gone" <=> uiPc \in {"polldown", "off"}
  /\ metaSemaphore = "meta" <=> metaPc = "fetch"
  /\ metaSemaphore = "ui" <=> metaPc = "gone"
  /\ metaPc = "gone" <=> uiPc = "off"
  /\ metaPc \in {"idle", "fetch", "gone"}

lockVars == <<cmdSemaphore, metaSemaphore, pollPc, metaPc, uiPc>>

\* A step that leaves the semaphores and the tasks alone.
LEMMA LockKept == ASSUME LockInv, UNCHANGED lockVars PROVE LockInv'
BY DEF LockInv, lockVars

\* A command finds the lock free and leaves it so: no task moves.
LEMMA CommandKeepsLocks == Command => UNCHANGED lockVars
<1> SUFFICES ASSUME Command PROVE UNCHANGED lockVars
  OBVIOUS
<1> USE DEF lockVars, AfterCommand, TrackCommand, pollVars, metaVars, uiVars
<1>1. CASE \E open \in BOOLEAN : Tray(open)  BY <1>1 DEF Tray
<1>2. CASE PlayFromOpen  BY <1>2 DEF PlayFromOpen
<1>3. CASE PlayFromStop  BY <1>3 DEF PlayFromStop
<1>4. CASE Resume  BY <1>4 DEF Resume
<1>5. CASE Pause  BY <1>5 DEF Pause
<1>6. CASE Stop  BY <1>6 DEF Stop
<1>7. CASE \E forward \in BOOLEAN : Seek(forward)  BY <1>7 DEF Seek
<1>8. CASE EndSeek  BY <1>8 DEF EndSeek
<1>9. CASE NextTrack  BY <1>9 DEF NextTrack
<1>10. CASE NextShuffled  BY <1>10 DEF NextShuffled
<1>11. CASE PrevTrack  BY <1>11 DEF PrevTrack
<1>12. CASE \E forward \in BOOLEAN : DiscCommand(forward)  BY <1>12 DEF DiscCommand
<1> QED
  BY <1>1, <1>2, <1>3, <1>4, <1>5, <1>6, <1>7, <1>8, <1>9, <1>10, <1>11, <1>12 DEF Command

\* A pass of the poll task holds _cmdSemaphore from its first step to its last.
LEMMA PollKeepsLocks == ASSUME LockInv, Poll PROVE LockInv'
<1> USE DEF LockInv, EndPass, pollVars, metaVars, uiVars
<1>1. CASE PollBegin  BY <1>1 DEF PollBegin
<1>2. CASE PollInit  BY <1>2 DEF PollInit
<1>3. CASE PollMech  BY <1>3 DEF PollMech
<1>4. CASE PollPosition  BY <1>4 DEF PollPosition
<1>5. CASE PollOpen  BY <1>5 DEF PollOpen
<1>6. CASE PollClose  BY <1>6 DEF PollClose
<1>7. CASE PollLoadToc  BY <1>7 DEF PollLoadToc
<1>8. CASE PollLoadFails  BY <1>8 DEF PollLoadFails
<1>9. CASE PollLoadPush  BY <1>9 DEF PollLoadPush
<1>10. CASE PollChangeDisc  BY <1>10 DEF PollChangeDisc
<1>11. CASE PollNoDisc  BY <1>11 DEF PollNoDisc
<1>12. CASE PollBadDisc  BY <1>12 DEF PollBadDisc
<1>13. CASE PollStop  BY <1>13 DEF PollStop
<1>14. CASE PollPlayShuffles  BY <1>14 DEF PollPlayShuffles, InPlay
<1>15. CASE PollPlayEnds  BY <1>15 DEF PollPlayEnds, InPlay
<1>16. CASE PollPlayGoesOn  BY <1>16 DEF PollPlayGoesOn, InPlay
<1>17. CASE PollFollows  BY <1>17 DEF PollFollows
<1> QED
  BY <1>1, <1>2, <1>3, <1>4, <1>5, <1>6, <1>7, <1>8, <1>9, <1>10, <1>11, <1>12,
     <1>13, <1>14, <1>15, <1>16, <1>17 DEF Poll

LEMMA LockStep == LockInv /\ [Next]_vars => LockInv'
<1> SUFFICES ASSUME LockInv, [Next]_vars PROVE LockInv'
  OBVIOUS
<1> USE DEF LockInv, pollVars, metaVars, uiVars, BesideUi
<1>1. CASE Poll  BY <1>1, PollKeepsLocks
<1>2. CASE MetaBegin  BY <1>2 DEF MetaBegin
<1>3. CASE MetaEnd  BY <1>3 DEF MetaEnd
<1>4. CASE Ui
  <2>1. CASE Command  BY <2>1, CommandKeepsLocks, LockKept
  <2>2. CASE NavBegin  BY <2>2 DEF NavBegin
  <2>3. CASE NavPlay  BY <2>3 DEF NavPlay
  <2>4. CASE NavHold  BY <2>4 DEF NavHold
  <2>5. CASE ModeBegin  BY <2>5 DEF ModeBegin
  <2>6. CASE ModeEnd  BY <2>6 DEF ModeEnd
  <2>7. CASE TearStop  BY <2>7 DEF TearStop, Commands
  <2>8. CASE TearPoll  BY <2>8 DEF TearPoll
  <2>9. CASE TearMeta  BY <2>9 DEF TearMeta
  <2>10. CASE Construct  BY <2>10 DEF Construct
  <2> QED
    BY <1>4, <2>1, <2>2, <2>3, <2>4, <2>5, <2>6, <2>7, <2>8, <2>9, <2>10 DEF Ui
<1>5. CASE Environment  BY <1>5, LockKept DEF Environment, playerVars, lockVars
<1>6. CASE UNCHANGED vars  BY <1>6, LockKept DEF vars, playerVars, lockVars
<1> QED
  BY <1>1, <1>2, <1>3, <1>4, <1>5, <1>6 DEF Next

\* _cmdSemaphore and _metaSemaphore are held by whoever is in a section that
\* they protect, and by nobody else, whatever the tasks do.
THEOREM LocksHeld == Spec => []LockInv
<1>1. Init => LockInv
  BY DEF Init, PlayerInit, LockInv
<1> QED
  BY <1>1, LockStep, PTL DEF Spec

(* A task is deleted only by TearPoll and TearMeta, which hold its semaphore.  *)

LEMMA KillStep ==
  ASSUME LockInv, [Next]_vars
  PROVE  /\ pollPc' = "gone" => pollPc \in {"idle", "gone"}
         /\ metaPc' = "gone" => metaPc \in {"idle", "gone"}
<1> USE DEF LockInv, pollVars, metaVars, uiVars, BesideUi
<1>1. CASE Poll
  <2>1. LockInv'
    BY <1>1, PollKeepsLocks
  <2>2. pollPc # "gone" /\ cmdSemaphore' # "ui"
    BY <1>1 DEF Poll, PollBegin, PollInit, PollMech, PollPosition, PollOpen, PollClose,
       PollLoadToc, PollLoadFails, PollLoadPush, PollChangeDisc, PollNoDisc, PollBadDisc,
       PollStop, PollPlayShuffles, PollPlayEnds, PollPlayGoesOn, PollFollows, InPlay, EndPass
  <2>3. metaPc' = metaPc
    BY <1>1 DEF Poll, PollBegin, PollInit, PollMech, PollPosition, PollOpen, PollClose,
       PollLoadToc, PollLoadFails, PollLoadPush, PollChangeDisc, PollNoDisc, PollBadDisc,
       PollStop, PollPlayShuffles, PollPlayEnds, PollPlayGoesOn, PollFollows
  <2> QED
    BY <2>1, <2>2, <2>3
<1>2. CASE MetaBegin \/ MetaEnd  BY <1>2 DEF MetaBegin, MetaEnd
<1>3. CASE Ui
  <2>1. CASE Command  BY <2>1, CommandKeepsLocks DEF lockVars
  <2>2. CASE NavBegin \/ NavPlay \/ NavHold \/ ModeBegin \/ ModeEnd
    BY <2>2 DEF NavBegin, NavPlay, NavHold, ModeBegin, ModeEnd
  <2>3. CASE TearStop \/ Construct  BY <2>3 DEF TearStop, Construct
  <2>4. CASE TearPoll  BY <2>4 DEF TearPoll
  <2>5. CASE TearMeta  BY <2>5 DEF TearMeta
  <2> QED
    BY <1>3, <2>1, <2>2, <2>3, <2>4, <2>5 DEF Ui
<1>4. CASE Environment \/ UNCHANGED vars
  BY <1>4 DEF Environment, vars, playerVars
<1> QED
  BY <1>1, <1>2, <1>3, <1>4 DEF Next

\* teardown_tasks() never deletes a task in the middle of a pass or of a fetch.
THEOREM KillsNothingMidway == Spec => NoTaskKilledMidway
<1>1. LockInv /\ [Next]_vars =>
        [/\ pollPc' = "gone" => pollPc \in {"idle", "gone"}
         /\ metaPc' = "gone" => metaPc \in {"idle", "gone"}]_vars
  BY KillStep
<1> QED
  BY <1>1, LocksHeld, PTL DEF Spec, NoTaskKilledMidway

LEMMA QueueUserStep ==
  ASSUME LockInv, [Next]_vars, metaPc = "fetch"
  PROVE  metaQueue' \in {metaQueue, Tail(metaQueue)}
<1> USE DEF LockInv, metaVars
<1>1. CASE Poll
  <2>1. ~PollLoadPush
    BY DEF PollLoadPush
  <2> QED
    BY <1>1, <2>1 DEF Poll, PollBegin, PollInit, PollMech, PollPosition, PollOpen,
       PollClose, PollLoadToc, PollLoadFails, PollChangeDisc, PollNoDisc, PollBadDisc,
       PollStop, PollPlayShuffles, PollPlayEnds, PollPlayGoesOn, PollFollows
<1>2. CASE MetaBegin \/ MetaEnd  BY <1>2 DEF MetaBegin, MetaEnd
<1>3. CASE Ui
  <2>1. CASE Construct  BY <2>1 DEF Construct
  <2> QED
    BY <1>3, <2>1 DEF Ui, Command, Tray, PlayFromOpen, PlayFromStop, Resume, Pause, Stop,
       Seek, EndSeek, NextTrack, NextShuffled, PrevTrack, DiscCommand, TrackCommand,
       AfterCommand, NavBegin, NavPlay, NavHold, ModeBegin, ModeEnd, BesideUi, TearStop,
       TearPoll, TearMeta
<1>4. CASE Environment \/ UNCHANGED vars
  BY <1>4 DEF Environment, vars, playerVars
<1> QED
  BY <1>1, <1>2, <1>3, <1>4 DEF Next

\* QueueNotSharedDuringFetch: while the metadata task works on the head of the queue,
\* poll_state() appends nothing to it, and no new Player takes it away.
THEOREM QueueIsNotShared == Spec => QueueNotSharedDuringFetch
<1>1. LockInv /\ [Next]_vars =>
        [metaPc = "fetch" => metaQueue' \in {metaQueue, Tail(metaQueue)}]_vars
  BY QueueUserStep
<1> QED
  BY <1>1, LocksHeld, PTL DEF Spec, QueueNotSharedDuringFetch

-----------------------------------------------------------------------------
(* Where the changer goes.                                                   *)

changeVars == <<sts, want_auto_play, next_expected_slot, target>>

DiscOnItsWay == AutoPlayPending /\ ChangeIsHeadedThere

\* change_discs() names the slot that it sends the changer to.
LEMMA ChangeDiscsIsOnItsWay ==
  ASSUME NEW forward, ChangeDiscs(forward) PROVE DiscOnItsWay'
BY DEF ChangeDiscs, load_unload, DiscOnItsWay, AutoPlayPending, ChangeIsHeadedThere

\* No other command to the drive moves the changer.
LEMMA OthersKeepTarget ==
  ASSUME \/ \E from, to, hold : play(from, to, hold)
         \/ \E on : pause(on)
         \/ stop \/ scan
         \/ \E open : eject(open)
         \/ UNCHANGED driveVars
  PROVE  UNCHANGED target
BY DEF play, pause, stop, scan, eject, driveVars

LEMMA WayStep == ASSUME DiscOnItsWay, [Next]_vars PROVE DiscOnItsWay'
<1> USE OthersKeepTarget DEF DiscOnItsWay, AutoPlayPending, ChangeIsHeadedThere,
                             machineVars, autoVars, slotVars
<1>1. CASE Poll
  <2>1. CASE PollBegin  BY <2>1 DEF PollBegin, driveVars
  <2>2. CASE PollInit  BY <2>2 DEF PollInit, eject
  <2>3. CASE PollMech  BY <2>3 DEF PollMech, driveVars
  <2>4. CASE PollPosition  BY <2>4 DEF PollPosition, driveVars
  <2>5. CASE PollOpen  BY <2>5 DEF PollOpen, driveVars
  <2>6. CASE PollClose  BY <2>6 DEF PollClose, driveVars
  <2>7. CASE PollLoadToc  BY <2>7 DEF PollLoadToc, driveVars
  <2>8. CASE PollLoadFails  BY <2>8 DEF PollLoadFails, driveVars
  <2>9. CASE PollLoadPush  BY <2>9 DEF PollLoadPush
  <2>10. CASE PollChangeDisc  BY <2>10 DEF PollChangeDisc, driveVars
  <2>a. CASE ChangeDiscs(TRUE)  BY <2>a, ChangeDiscsIsOnItsWay, Zenon
  <2>11. CASE PollNoDisc
    <3>1. CASE UNCHANGED <<driveVars, machineVars, next_expected_slot, want_auto_play>>
      BY <3>1 DEF driveVars
    <3> QED
      BY <2>11, <2>a, <3>1, Zenon DEF PollNoDisc
  <2>12. CASE PollBadDisc  BY <2>12 DEF PollBadDisc, driveVars
  <2>13. CASE PollStop  BY <2>13 DEF PollStop, driveVars
  <2>14. CASE PollPlayShuffles  BY <2>14 DEF PollPlayShuffles, InPlay
  <2>15. CASE PollPlayEnds
    <3>1. CASE UNCHANGED <<driveVars, machineVars, next_expected_slot, want_auto_play>>
      BY <3>1 DEF driveVars
    <3>2. CASE sts' = "OPEN"
      BY <3>2
    <3>3. CASE sts' = "STOP" /\ UNCHANGED want_auto_play
      BY <2>15, <3>3 DEF PollPlayEnds, InPlay
    <3> QED
      BY <2>15, <2>a, <3>1, <3>2, <3>3, Zenon DEF PollPlayEnds
  <2>16. CASE PollPlayGoesOn  BY <2>16 DEF PollPlayGoesOn, InPlay, driveVars
  <2>17. CASE PollFollows  BY <2>17 DEF PollFollows, Seeking
  <2> QED
    BY <1>1, <2>1, <2>2, <2>3, <2>4, <2>5, <2>6, <2>7, <2>8, <2>9, <2>10, <2>11, <2>12,
       <2>13, <2>14, <2>15, <2>16, <2>17 DEF Poll
<1>2. CASE MetaBegin \/ MetaEnd  BY <1>2 DEF MetaBegin, MetaEnd, driveVars
<1>3. CASE Ui
  <2> USE DEF Commands, Seeking
  <2>1. CASE Command
    <3>1. CASE \E open \in BOOLEAN : Tray(open)  BY <3>1 DEF Tray
    <3>2. CASE PlayFromOpen  BY <3>2 DEF PlayFromOpen
    <3>3. CASE PlayFromStop  BY <3>3 DEF PlayFromStop
    <3>4. CASE Resume  BY <3>4 DEF Resume
    <3>5. CASE Pause  BY <3>5 DEF Pause
    <3>6. CASE Stop  BY <3>6 DEF Stop
    <3>7. CASE \E forward \in BOOLEAN : Seek(forward)  BY <3>7 DEF Seek
    <3>8. CASE EndSeek  BY <3>8 DEF EndSeek
    <3>9. CASE NextTrack  BY <3>9 DEF NextTrack, TrackCommand
    <3>10. CASE NextShuffled  BY <3>10 DEF NextShuffled, TrackCommand
    <3>11. CASE PrevTrack  BY <3>11 DEF PrevTrack, TrackCommand
    <3>12. CASE \E forward \in BOOLEAN : DiscCommand(forward)
      BY <3>12, ChangeDiscsIsOnItsWay DEF DiscCommand
    <3> QED
      BY <2>1, <3>1, <3>2, <3>3, <3>4, <3>5, <3>6, <3>7, <3>8, <3>9, <3>10, <3>11, <3>12
         DEF Command
  <2> USE DEF BesideUi
  <2>2. CASE NavBegin  BY <2>2 DEF NavBegin
  <2>3. CASE NavPlay  BY <2>3 DEF NavPlay
  <2>4. CASE NavHold  BY <2>4 DEF NavHold
  <2>5. CASE ModeBegin  BY <2>5 DEF ModeBegin
  <2>6. CASE ModeEnd  BY <2>6 DEF ModeEnd
  <2>7. CASE TearStop  BY <2>7 DEF TearStop
  <2>8. CASE TearPoll  BY <2>8 DEF TearPoll
  <2>9. CASE TearMeta  BY <2>9 DEF TearMeta
  <2>10. CASE Construct  BY <2>10 DEF Construct
  <2> QED
    BY <1>3, <2>1, <2>2, <2>3, <2>4, <2>5, <2>6, <2>7, <2>8, <2>9, <2>10 DEF Ui
<1>4. CASE Environment
  <2>1. UNCHANGED target
    BY <1>4 DEF Environment, DriveReady, DriveStarts, DriveAdvances, DriveScans, PanelPlays,
       PanelPauses, HandOpens, HandCloses, HandSwaps
  <2> QED
    BY <1>4, <2>1 DEF Environment, playerVars
<1>5. CASE UNCHANGED vars  BY <1>5 DEF vars, playerVars, driveVars
<1> QED
  BY <1>1, <1>2, <1>3, <1>4, <1>5 DEF Next

LEMMA WayHeld == Spec => []DiscOnItsWay
<1>1. Init => DiscOnItsWay
  BY DEF Init, PlayerInit, DiscOnItsWay, AutoPlayPending, ChangeIsHeadedThere
<1>2. DiscOnItsWay /\ [Next]_vars => DiscOnItsWay'
  BY WayStep
<1> QED
  BY <1>1, <1>2, PTL DEF Spec

\* Auto-play is armed only while a disc is on its way.
THEOREM AutoPlayIsPending == Spec => []AutoPlayPending
<1>1. DiscOnItsWay => AutoPlayPending
  BY DEF DiscOnItsWay
<1> QED
  BY <1>1, WayHeld, PTL

\* In CHANGE_DISC the changer is bringing the slot that the player waits for.
THEOREM ChangeGoesThere == Spec => []ChangeIsHeadedThere
<1>1. DiscOnItsWay => ChangeIsHeadedThere
  BY DEF DiscOnItsWay
<1> QED
  BY <1>1, WayHeld, PTL

-----------------------------------------------------------------------------
(* Types                                                                     *)

\* What an album holds: at most 99 tracks, of numbers from 1 to 99.
LEMMA AlbumTracks ==
  ASSUME NEW d \in Album, NEW i \in DOMAIN d
  PROVE  i \in 1 .. MaxTracks /\ d[i] \in 1 .. MaxTracks
<1>1. d \in Seq(1 .. MaxTracks) /\ Len(d) <= MaxTracks
  BY DriveAssumption DEF Album, MaxTracks
<1>2. /\ DOMAIN d = 1 .. Len(d)
      /\ Len(d) \in Nat
      /\ d \in [1 .. Len(d) -> 1 .. MaxTracks]
  BY <1>1, LenProperties
<1>3. d[i] \in 1 .. MaxTracks
  BY <1>2
<1>4. i \in 1 .. Len(d) /\ Len(d) <= MaxTracks /\ Len(d) \in Nat
  BY <1>1, <1>2
<1>5. \A n \in Nat : n <= MaxTracks => \A k \in 1 .. n : k \in 1 .. MaxTracks
  BY DEF MaxTracks
<1> QED
  BY <1>3, <1>4, <1>5

LEMMA TracksAreAlbums ==
  ASSUME DriveTypeOK
  PROVE  /\ Loaded \in Album
         /\ \A s \in Slot : Tracks(inSlot[s]) \in Album
BY DEF DriveTypeOK, Loaded, Tracks, Album

LEMMA NumbersInRange ==
  ASSUME NEW d \in Album PROVE Numbers(d) \subseteq 1 .. MaxTracks
BY AlbumTracks DEF Numbers

LEMMA PlayType ==
  ASSUME DriveTypeOK, NEW from, NEW to \in TrackNo, NEW hold, play(from, to, hold)
  PROVE  DriveTypeOK'
<1>1. Numbers(Loaded) \subseteq TrackNo
  BY TracksAreAlbums, NumbersInRange DEF TrackNo, LeadOut, MaxTracks
<1> QED
  BY <1>1 DEF play, DriveTypeOK, PlayState

LEMMA HaltType == ASSUME DriveTypeOK, stop PROVE DriveTypeOK'
BY DEF stop, Halt, DriveTypeOK, PlayState, TrackNo, LeadOut

LEMMA PauseType == ASSUME DriveTypeOK, NEW on, pause(on) PROVE DriveTypeOK'
BY DEF pause, DriveTypeOK, PlayState

LEMMA ScanType == ASSUME DriveTypeOK, scan PROVE DriveTypeOK'
BY DEF scan, DriveTypeOK, PlayState, TrackNo, LeadOut

LEMMA EjectType == ASSUME DriveTypeOK, NEW open \in BOOLEAN, eject(open) PROVE DriveTypeOK'
BY DEF eject, Halt, DriveTypeOK, PlayState, TrackNo, LeadOut

LEMMA LoadUnloadType == ASSUME DriveTypeOK, NEW i \in Slot, load_unload(i) PROVE DriveTypeOK'
BY DEF load_unload, Halt, DriveTypeOK, PlayState, TrackNo, LeadOut

LEMMA StillType == ASSUME DriveTypeOK, UNCHANGED driveVars PROVE DriveTypeOK'
BY DEF driveVars, DriveTypeOK

LEMMA PositionType ==
  ASSUME DriveTypeOK, NEW p \in query_position
  PROVE  p \in [state : {"Stopped", "Playing", "Paused"}, track : TrackNo]
<1>1. Numbers(Loaded) \subseteq TrackNo /\ LeadOut \in TrackNo
  BY TracksAreAlbums, NumbersInRange DEF TrackNo, LeadOut, MaxTracks
<1> QED
  BY <1>1 DEF query_position, DriveTypeOK, PlayState

LEMMA EnvironmentType == ASSUME TypeOK, Environment PROVE TypeOK'
<1>1. Numbers(Loaded) \subseteq TrackNo /\ LeadOut \in TrackNo /\ 0 \in TrackNo
  <2>1. Loaded \in Album
    BY TracksAreAlbums DEF TypeOK
  <2> QED
    BY <2>1, NumbersInRange DEF TrackNo, LeadOut, MaxTracks
<1>2. \A i \in DOMAIN Loaded : Loaded[i] \in TrackNo
  BY <1>1 DEF Numbers
<1>3. DriveTypeOK'
  <2> USE <1>1 DEF DriveTypeOK, TypeOK, PlayState, Halt
  <2>1. CASE DriveReady  BY <2>1 DEF DriveReady
  <2>2. CASE DriveStarts  BY <2>2 DEF DriveStarts
  <2>3. CASE DriveAdvances
    <3>1. \A i \in DOMAIN Loaded \ {Len(Loaded)} : i + 1 \in DOMAIN Loaded
      BY TracksAreAlbums, DriveAssumption DEF Album
    <3> QED
      BY <1>2, <2>3, <3>1 DEF DriveAdvances
  <2>4. CASE DriveScans  BY <2>4 DEF DriveScans
  <2>5. CASE PanelPlays
    <3>1. Loaded # <<>> => 1 \in DOMAIN Loaded
      BY TracksAreAlbums, DriveAssumption DEF Album
    <3> QED
      BY <1>2, <2>5, <3>1 DEF PanelPlays
  <2>6. CASE PanelPauses  BY <2>6 DEF PanelPauses
  <2>7. CASE HandOpens  BY <2>7 DEF HandOpens
  <2>8. CASE HandCloses  BY <2>8 DEF HandCloses
  <2>9. CASE HandSwaps  BY <2>9 DEF HandSwaps
  <2> QED
    BY <2>1, <2>2, <2>3, <2>4, <2>5, <2>6, <2>7, <2>8, <2>9 DEF Environment
<1> QED
  BY <1>3 DEF Environment, TypeOK, playerVars, machineVars, slotVars, autoVars, trackVars,
     shuffleVars, pollVars, metaVars, uiVars

\* The metadata task works on the head of a queue that is not empty.
QueueInv == metaPc = "fetch" => metaQueue # <<>>

\* The facts about the parts of a state that the actions build on.
LEMMA PartTypes ==
  ASSUME TypeOK
  PROVE  /\ DriveTypeOK
         /\ album \in Album /\ <<>> \in Album
         /\ Numbers(album) \subseteq TrackNo
         /\ \A i \in DOMAIN album : i \in TrackNo /\ album[i] \in TrackNo
         /\ \A i \in DOMAIN album : TrackEnd(i) \in TrackNo
         /\ OtherDiscs \subseteq Slot
         /\ NewHistory \subseteq TrackNo
         /\ 0 \in TrackNo /\ 1 \in TrackNo /\ LeadOut \in TrackNo
<1>1. 1 .. MaxTracks \subseteq TrackNo /\ 0 \in TrackNo /\ 1 \in TrackNo /\ LeadOut \in TrackNo
  BY DEF TrackNo, LeadOut, MaxTracks
<1>2. DriveTypeOK /\ album \in Album /\ <<>> \in Album
  BY DEF TypeOK, album, Album
<1>3. \A i \in DOMAIN album : i \in TrackNo /\ album[i] \in TrackNo
  BY <1>1, <1>2, AlbumTracks
<1>4. Numbers(album) \subseteq TrackNo
  BY <1>3 DEF Numbers
<1>5. ASSUME NEW i \in DOMAIN album PROVE TrackEnd(i) \in TrackNo
  <2>1. DOMAIN album = 1 .. Len(album) /\ Len(album) \in Nat
    BY <1>2, DriveAssumption, LenProperties DEF Album
  <2>2. i # Len(album) => i + 1 \in DOMAIN album
    BY <2>1
  <2> QED
    BY <1>1, <1>3, <2>2 DEF TrackEnd
<1>6. OtherDiscs \subseteq Slot
  BY DriveAssumption DEF OtherDiscs, Slot, TypeOK
<1>7. NewHistory \subseteq TrackNo
  BY DEF TypeOK, NewHistory
<1> QED
  BY <1>1, <1>2, <1>3, <1>4, <1>5, <1>6, <1>7

LEMMA ChangeDiscsType ==
  ASSUME TypeOK, NEW forward, ChangeDiscs(forward)
  PROVE  /\ DriveTypeOK'
         /\ next_expected_slot' \in Slot /\ sts' \in State
         /\ want_auto_play' \in BOOLEAN
         /\ cur_track' \in TrackNo /\ abs_ts' \in TrackNo
         /\ UNCHANGED <<pre_seek_sts, slotVars, auto_play_start_pos>>
BY PartTypes, LoadUnloadType DEF ChangeDiscs, TypeOK, State

LEMMA PollType == ASSUME TypeOK, Poll PROVE TypeOK'
<1> USE PartTypes, StillType DEF TypeOK, State, Seeking, EndPass, NoPosition, MediaTypeCode,
        machineVars, slotVars, autoVars, trackVars, shuffleVars, pollVars, metaVars, uiVars
<1>a. ASSUME eject(FALSE) PROVE DriveTypeOK'
  BY <1>a, EjectType, Zenon
<1>b. ASSUME NEW from, NEW to \in TrackNo, play(from, to, FALSE) PROVE DriveTypeOK'
  BY <1>b, PlayType, Zenon
<1>c. ASSUME ChangeDiscs(TRUE)
      PROVE  /\ DriveTypeOK'
             /\ next_expected_slot' \in Slot /\ sts' \in State
             /\ want_auto_play' \in BOOLEAN
             /\ cur_track' \in TrackNo /\ abs_ts' \in TrackNo
             /\ UNCHANGED <<pre_seek_sts, slotVars, auto_play_start_pos>>
  BY <1>c, ChangeDiscsType, Zenon
<1>1. CASE PollBegin  BY <1>1 DEF PollBegin, check_media
<1>2. CASE PollInit  BY <1>2, <1>a DEF PollInit
<1>3. CASE PollMech
  <2>1. nslots' \in {1, SlotCount} /\ cur_slot' \in Slot
    BY <1>3, DriveAssumption DEF PollMech, DriveTypeOK, Slot
  <2>2. disc_present' \in [Slot -> BOOLEAN]
    BY <1>3 DEF PollMech, disc_in
  <2>3. disc' \in [Slot -> Album] /\ sts' \in State
    BY <1>3, <2>1 DEF PollMech
  <2> QED
    BY <1>3, <2>1, <2>2, <2>3 DEF PollMech
<1>4. CASE PollPosition  BY <1>4, PositionType DEF PollPosition
<1>5. CASE PollOpen  BY <1>5 DEF PollOpen
<1>6. CASE PollClose  BY <1>6 DEF PollClose
<1>7. CASE PollLoadToc  BY <1>7, TracksAreAlbums DEF PollLoadToc, DriveTypeOK
<1>8. CASE PollLoadFails
  <2>1. disc' \in [Slot -> Album]
    BY <1>8 DEF PollLoadFails
  <2>2. sts' \in State
    BY <1>8 DEF PollLoadFails
  <2>3. /\ UNCHANGED <<driveVars, pre_seek_sts, disc_present, nslots, cur_slot,
                        next_expected_slot, auto_play_start_pos, did_see_actual_playback,
                        trackVars, shuffleVars, metaVars, uiVars>>
        /\ want_auto_play' = FALSE
        /\ EndPass
    BY <1>8, Zenon DEF PollLoadFails
  <2>4. want_auto_play' \in BOOLEAN
    BY <2>3, Zenon
  <2> QED
    BY <2>1, <2>2, <2>3, <2>4
<1>9. CASE PollLoadPush
  <2>1. DriveTypeOK'
    BY <1>9, <1>b DEF PollLoadPush
  <2>2. metaQueue' \in Seq(Album)
    BY <1>9 DEF PollLoadPush
  <2>3. sts' \in State /\ want_auto_play' \in BOOLEAN /\ auto_play_start_pos' \in TrackNo
    BY <1>9 DEF PollLoadPush
  <2> QED
    BY <1>9, <2>1, <2>2, <2>3 DEF PollLoadPush
<1>10. CASE PollChangeDisc  BY <1>10 DEF PollChangeDisc
<1>11. CASE PollNoDisc
  <2>1. CASE UNCHANGED <<driveVars, machineVars, slotVars, next_expected_slot,
                         want_auto_play, auto_play_start_pos, trackVars>>
    BY <1>11, <2>1 DEF PollNoDisc
  <2>2. CASE ChangeDiscs(TRUE)
    BY <1>11, <1>c, <2>2 DEF PollNoDisc
  <2> QED
    BY <1>11, <2>1, <2>2, Zenon DEF PollNoDisc
<1>12. CASE PollBadDisc  BY <1>12 DEF PollBadDisc
<1>13. CASE PollStop  BY <1>13 DEF PollStop
<1>14. CASE PollPlayShuffles
  <2>1. DriveTypeOK'
    BY <1>14, <1>b, Zenon DEF PollPlayShuffles, Playable
  <2> QED
    BY <1>14, <2>1 DEF PollPlayShuffles, InPlay, SawPlayback
<1>15. CASE PollPlayEnds  BY <1>15, <1>c, ZenonT(30) DEF PollPlayEnds, InPlay, SawPlayback
<1>16. CASE PollPlayGoesOn  BY <1>16 DEF PollPlayGoesOn, InPlay
<1>17. CASE PollFollows
  <2>1. DriveTypeOK'
    BY <1>17, <1>b, Zenon DEF PollFollows
  <2>2. audio_sts.track \in TrackNo
    OBVIOUS
  <2> QED
    BY <1>17, <2>1, <2>2 DEF PollFollows
<1> QED
  BY <1>1, <1>2, <1>3, <1>4, <1>5, <1>6, <1>7, <1>8, <1>9, <1>10, <1>11, <1>12,
     <1>13, <1>14, <1>15, <1>16, <1>17 DEF Poll

LEMMA NavigateType ==
  ASSUME TypeOK, NEW t, Navigate(t) PROVE DriveTypeOK' /\ cur_track' \in TrackNo
<1> USE PartTypes
<1>1. ASSUME NEW hold, NEW from, play(from, 0, hold) PROVE DriveTypeOK'
  BY <1>1, PlayType
<1>2. CASE t \notin DOMAIN album /\ UNCHANGED <<driveVars, cur_track>>
  BY <1>2, StillType DEF TypeOK
<1>3. CASE play(album[t], 0, sts = "PAUSE") /\ UNCHANGED cur_track
  <2>1. DriveTypeOK'
    BY <1>1, <1>3, Zenon
  <2> QED
    BY <1>3, <2>1 DEF TypeOK
<1>4. CASE t \in DOMAIN album /\ cur_track' = t /\ UNCHANGED driveVars
  BY <1>4, StillType
<1> QED
  BY <1>2, <1>3, <1>4, Zenon DEF Navigate

LEMMA CommandType == ASSUME TypeOK, Command PROVE TypeOK'
<1> USE PartTypes, StillType DEF TypeOK, State, Seeking, Commands, TrackCommand, AfterCommand,
        machineVars, slotVars, autoVars, trackVars, pollVars, metaVars, uiVars
<1>a. ASSUME NEW from, NEW to \in TrackNo, play(from, to, FALSE) PROVE DriveTypeOK'
  BY <1>a, PlayType, Zenon
<1>b. ASSUME pause(TRUE) \/ pause(FALSE) PROVE DriveTypeOK'
  BY <1>b, PauseType, Zenon
<1>1. ASSUME NEW open \in BOOLEAN, Tray(open) PROVE TypeOK'
  <2>1. DriveTypeOK'
    BY <1>1, EjectType DEF Tray
  <2> QED
    BY <1>1, <2>1 DEF Tray
<1>2. CASE PlayFromOpen
  <2>1. DriveTypeOK'
    BY <1>2, EjectType, Zenon DEF PlayFromOpen
  <2>2. want_auto_play' \in BOOLEAN
    BY <1>2, Zenon DEF PlayFromOpen
  <2> QED
    BY <1>2, <2>1, <2>2 DEF PlayFromOpen
<1>3. CASE PlayFromStop
  <2>1. DriveTypeOK' /\ sts' \in State
    BY <1>3, <1>a DEF PlayFromStop, Playable
  <2>2. shuffle_history' \subseteq TrackNo
    BY <1>3 DEF PlayFromStop
  <2>3. did_see_actual_playback' \in BOOLEAN
    BY <1>3, Zenon DEF PlayFromStop
  <2> QED
    BY <1>3, <2>1, <2>2, <2>3 DEF PlayFromStop
<1>4. CASE Resume
  <2>1. DriveTypeOK'
    BY <1>4, <1>a, Zenon DEF Resume
  <2> QED
    BY <1>4, <2>1 DEF Resume
<1>5. CASE Pause  BY <1>5, <1>b DEF Pause
<1>6. CASE Stop  BY <1>6, HaltType DEF Stop
<1>7. ASSUME NEW forward \in BOOLEAN, Seek(forward) PROVE TypeOK'
  <2>1. DriveTypeOK'
    BY <1>7, <1>b, ScanType DEF Seek
  <2> QED
    BY <1>7, <2>1 DEF Seek
<1>8. CASE EndSeek
  <2>1. DriveTypeOK' /\ sts' \in State
    BY <1>8, <1>a, <1>b DEF EndSeek
  <2> QED
    BY <1>8, <2>1 DEF EndSeek
<1>9. CASE NextTrack
  <2>1. DriveTypeOK' /\ cur_track' \in TrackNo
    BY <1>9, NavigateType DEF NextTrack
  <2> QED
    BY <1>9, <2>1 DEF NextTrack
<1>10. CASE NextShuffled
  <2>1. ASSUME NEW hold, NEW from, play(from, 0, hold) PROVE DriveTypeOK'
    BY <2>1, PlayType
  <2>2. DriveTypeOK'
    BY <1>10, <1>a, <2>1, Zenon DEF NextShuffled, Playable
  <2> QED
    BY <1>10, <2>2 DEF NextShuffled
<1>11. CASE PrevTrack
  <2>1. DriveTypeOK' /\ cur_track' \in TrackNo
    BY <1>11, NavigateType DEF PrevTrack
  <2>2. shuffle_history' \subseteq TrackNo
    BY <1>11 DEF PrevTrack
  <2> QED
    BY <1>11, <2>1, <2>2 DEF PrevTrack
<1>12. ASSUME NEW forward \in BOOLEAN, DiscCommand(forward) PROVE TypeOK'
  BY <1>12, ChangeDiscsType DEF DiscCommand
<1> QED
  BY <1>1, <1>2, <1>3, <1>4, <1>5, <1>6, <1>7, <1>8, <1>9, <1>10, <1>11, <1>12 DEF Command

LEMMA UiType == ASSUME TypeOK, Ui PROVE TypeOK'
<1> USE PartTypes, StillType DEF TypeOK, State, PlayMode, OtherMode, BesideUi,
        machineVars, slotVars, autoVars, trackVars, shuffleVars, pollVars, metaVars, uiVars
<1>a. ASSUME NEW from, NEW to \in TrackNo, play(from, to, FALSE) PROVE DriveTypeOK'
  BY <1>a, PlayType, Zenon
<1>b. ASSUME pause(TRUE) PROVE DriveTypeOK'
  BY <1>b, PauseType, Zenon
<1>1. CASE Command  BY <1>1, CommandType
<1>2. CASE NavBegin
  <2>1. cur_track' \in TrackNo /\ uiTrack' \in TrackNo
    BY <1>2 DEF NavBegin
  <2> QED
    BY <1>2, <2>1 DEF NavBegin
<1>3. CASE NavPlay
  <2>1. DriveTypeOK'
    BY <1>3, <1>a, Zenon DEF NavPlay
  <2> QED
    BY <1>3, <2>1 DEF NavPlay
<1>4. CASE NavHold
  <2>1. DriveTypeOK'
    BY <1>4, <1>b DEF NavHold
  <2> QED
    BY <1>4, <2>1 DEF NavHold
<1>5. CASE ModeBegin
  <2>1. RequeueEnd \subseteq TrackNo
    <3>1. DOMAIN album = 1 .. Len(album) /\ Len(album) \in Nat /\ cur_track \in Nat
      BY DriveAssumption, LenProperties DEF Album, TrackNo, LeadOut
    <3>2. cur_track < Len(album) => cur_track + 1 \in DOMAIN album
      BY <3>1
    <3> QED
      BY <3>2 DEF RequeueEnd
  <2>2. DriveTypeOK'
    BY <1>5, <1>a, <2>1, Zenon DEF ModeBegin
  <2>3. play_mode' \in PlayMode /\ uiPc' \in {uiPc, "mode"} /\ shuffle_history' \subseteq TrackNo
    BY <1>5 DEF ModeBegin
  <2>4. UNCHANGED <<uiTrack, cur_track>> /\ BesideUi
    BY <1>5, Zenon DEF ModeBegin
  <2> QED
    BY <2>2, <2>3, <2>4
<1>6. CASE ModeEnd
  <2>1. DriveTypeOK'
    BY <1>6, <1>b DEF ModeEnd
  <2> QED
    BY <1>6, <2>1 DEF ModeEnd
<1>7. CASE TearStop  BY <1>7, HaltType DEF TearStop, Commands
<1>8. CASE TearPoll  BY <1>8 DEF TearPoll
<1>9. CASE TearMeta  BY <1>9, HaltType DEF TearMeta
<1>10. CASE Construct
  <2>1. DriveTypeOK' /\ cur_slot' \in Slot /\ <<>> \in Album
    BY <1>10, DriveAssumption DEF Construct, Slot
  <2>2. /\ want_auto_play' \in BOOLEAN /\ did_see_actual_playback' \in BOOLEAN
        /\ disc_present' \in [Slot -> BOOLEAN]
    BY <1>10, Zenon DEF Construct
  <2> QED
    BY <1>10, <2>1, <2>2 DEF Construct, MediaTypeCode, NoPosition
<1> QED
  BY <1>1, <1>2, <1>3, <1>4, <1>5, <1>6, <1>7, <1>8, <1>9, <1>10 DEF Ui

LEMMA QueueStep == ASSUME TypeOK, QueueInv, [Next]_vars PROVE QueueInv'
<1> USE DEF QueueInv, TypeOK, metaVars
<1>1. CASE Poll
  <2>1. CASE PollLoadPush
    BY <2>1 DEF PollLoadPush
  <2>2. CASE UNCHANGED metaVars
    BY <2>2
  <2> QED
    BY <1>1, <2>1, <2>2 DEF Poll, PollBegin, PollInit, PollMech, PollPosition, PollOpen,
       PollClose, PollLoadToc, PollLoadFails, PollChangeDisc, PollNoDisc, PollBadDisc,
       PollStop, PollPlayShuffles, PollPlayEnds, PollPlayGoesOn, PollFollows
<1>2. CASE MetaBegin  BY <1>2 DEF MetaBegin
<1>3. CASE MetaEnd  BY <1>3 DEF MetaEnd
<1>4. CASE Ui
  <2>1. CASE UNCHANGED metaVars
    BY <2>1
  <2>2. CASE TearMeta \/ Construct
    BY <2>2 DEF TearMeta, Construct
  <2> QED
    BY <1>4, <2>1, <2>2 DEF Ui, Command, Tray, PlayFromOpen, PlayFromStop, Resume, Pause, Stop,
       Seek, EndSeek, NextTrack, NextShuffled, PrevTrack, DiscCommand, TrackCommand,
       AfterCommand, NavBegin, NavPlay, NavHold, ModeBegin, ModeEnd, BesideUi, TearStop, TearPoll
<1>5. CASE Environment \/ UNCHANGED vars
  BY <1>5 DEF Environment, vars, playerVars
<1> QED
  BY <1>1, <1>2, <1>3, <1>4, <1>5 DEF Next

LEMMA TypeStep == ASSUME TypeOK, QueueInv, [Next]_vars PROVE TypeOK'
<1>1. CASE Poll  BY <1>1, PollType
<1>2. CASE MetaBegin
  BY <1>2, PartTypes, StillType DEF MetaBegin, TypeOK, machineVars, slotVars, autoVars,
     trackVars, shuffleVars, pollVars, uiVars
<1>3. CASE MetaEnd
  <2>1. metaQueue' \in Seq(Album)
    BY <1>3 DEF MetaEnd, TypeOK, QueueInv
  <2> QED
    BY <1>3, <2>1, PartTypes, StillType DEF MetaEnd, TypeOK, machineVars, slotVars, autoVars,
       trackVars, shuffleVars, pollVars, uiVars
<1>4. CASE Ui  BY <1>4, UiType
<1>5. CASE Environment  BY <1>5, EnvironmentType
<1>6. CASE UNCHANGED vars
  BY <1>6, PartTypes, StillType DEF vars, playerVars, TypeOK, machineVars, slotVars, autoVars,
     trackVars, shuffleVars, pollVars, metaVars, uiVars
<1> QED
  BY <1>1, <1>2, <1>3, <1>4, <1>5, <1>6 DEF Next

LEMMA TypeInit == Init => TypeOK /\ QueueInv
<1> SUFFICES ASSUME Init PROVE TypeOK /\ QueueInv
  OBVIOUS
<1>1. 0 \in Slot /\ <<>> \in Album /\ 0 \in TrackNo /\ 1 \in TrackNo /\ LeadOut \in TrackNo
  BY DriveAssumption DEF Slot, Album, TrackNo, LeadOut
<1>2. DriveTypeOK
  BY <1>1 DEF Init, DriveInit, DriveTypeOK, PlayState
<1>3. /\ want_auto_play \in BOOLEAN /\ did_see_actual_playback \in BOOLEAN
      /\ disc_present \in [Slot -> BOOLEAN]
  BY Zenon DEF Init, PlayerInit
<1> QED
  BY <1>1, <1>2, <1>3 DEF Init, PlayerInit, TypeOK, QueueInv, State, PlayMode, MediaTypeCode,
     NoPosition

\* Every variable keeps to its type: no slot, track or state outside the range
\* of its field is ever stored, for any set of discs and any number of slots.
THEOREM TypeCorrect == Spec => [](TypeOK /\ QueueInv)
<1>1. TypeOK /\ QueueInv /\ [Next]_vars => (TypeOK /\ QueueInv)'
  BY TypeStep, QueueStep
<1> QED
  BY <1>1, TypeInit, PTL DEF Spec

-----------------------------------------------------------------------------
(* The slot, the changer and the passes in between.                          *)

\* The states in which the changer has come to rest.
Settled == {"LOAD", "NO_DISC", "BAD_DISC"} \cup Ready

\* What a disc in its place rests on:
\* the changer rests on what it was sent to last;
RestsOnTarget ==
  /\ ~busy => target = curDisc
  /\ sts \in Settled => target = curDisc

\* the active slot is the one at the head;
ActiveAtHead ==
  /\ pollPc \in {"position", "act", "push"} /\ sts \in Settled => cur_slot = curDisc
  /\ sts \in Ready => cur_slot = curDisc

\* and a pass asks for the position of a disc that is ready, and hands an album over
\* in LOAD.
PassPlaces ==
  /\ pollPc = "position" => sts \in Ready
  /\ pollPc = "push" => sts = "LOAD"

LoadInv == RestsOnTarget /\ ActiveAtHead /\ PassPlaces

mechVars == <<doorOpen, inSlot, curDisc, target, busy>>

\* The commands that play, pause and stop leave the mechanics alone.
LEMMA AudioKeepsMech ==
  ASSUME \/ \E from, to, hold : play(from, to, hold)
         \/ \E on : pause(on)
         \/ stop \/ scan
         \/ UNCHANGED driveVars
  PROVE  UNCHANGED mechVars
BY DEF play, pause, stop, scan, driveVars, mechVars

LEMMA NavigateKeepsMech == ASSUME NEW t, Navigate(t) PROVE UNCHANGED mechVars
BY AudioKeepsMech, Zenon DEF Navigate

\* Steps that keep to the disc: they may go from one state that is ready to another.
LEMMA LoadKept ==
  ASSUME LoadInv, UNCHANGED <<disc, cur_slot, pollPc, media_type>>, UNCHANGED mechVars,
         sts' = sts \/ (sts \in Ready /\ sts' \in Ready)
  PROVE  LoadInv'
BY DEF LoadInv, RestsOnTarget, ActiveAtHead, PassPlaces, mechVars, Settled, Ready,
   Seeking, Tracks

\* The end of a pass in a state that it entered or kept.
LEMMA PassEnds ==
  ASSUME LoadInv, EndPass, UNCHANGED mechVars, UNCHANGED cur_slot,
         \/ /\ sts' \in Ready
            /\ sts \in Ready
            /\ UNCHANGED disc
         \/ /\ sts' \notin Settled
         \/ /\ sts' \in Settled \ Ready
            /\ sts \in Settled \/ ~busy
  PROVE  LoadInv'
BY DEF LoadInv, RestsOnTarget, ActiveAtHead, PassPlaces, EndPass, mechVars, Settled

LEMMA ChangeDiscsLoadInv ==
  ASSUME ChangeDiscs(TRUE) \/ ChangeDiscs(FALSE), pollPc' \in {"idle", "gone"}
  PROVE  LoadInv'
<1>1. sts' = "CHANGE_DISC" /\ busy' = TRUE
  BY DEF ChangeDiscs, load_unload
<1> QED
  BY <1>1 DEF LoadInv, RestsOnTarget, ActiveAtHead, PassPlaces, Settled, Ready, Seeking

LEMMA PollLoads == ASSUME TypeOK, LoadInv, Poll PROVE LoadInv'
<1> USE DEF machineVars, slotVars, Ready, Seeking, Settled
<1>1. CASE PollBegin
  <2>1. UNCHANGED mechVars
    BY <1>1, AudioKeepsMech DEF PollBegin
  <2>2. pollPc' \in {"init", "mech"}
    BY <1>1 DEF PollBegin
  <2> QED
    BY <1>1, <2>1, <2>2 DEF PollBegin, LoadInv, RestsOnTarget, ActiveAtHead, PassPlaces, mechVars, Tracks
<1>2. CASE PollInit
  <2>1. ~busy /\ target' = target /\ curDisc' = curDisc
    BY <1>2 DEF PollInit, wait_ready, eject
  <2> QED
    BY <1>2, <2>1 DEF PollInit, EndPass, LoadInv, RestsOnTarget, ActiveAtHead, PassPlaces
<1>3. CASE PollMech
  <2>1. UNCHANGED mechVars /\ UNCHANGED media_type /\ pollPc = "mech"
    BY <1>3, AudioKeepsMech DEF PollMech
  <2>2. cur_slot' = curDisc
    BY <1>3, DriveAssumption DEF PollMech, TypeOK, DriveTypeOK, Slot
  <2>3. /\ sts' = "OPEN" \/ (sts' = sts /\ UNCHANGED disc)
        /\ pollPc' = IF sts' \in Ready THEN "position" ELSE "act"
    BY <1>3 DEF PollMech
  <2> QED
    BY <2>1, <2>2, <2>3 DEF LoadInv, RestsOnTarget, ActiveAtHead, PassPlaces,
       mechVars, Tracks
<1>4. CASE PollPosition
  <2>1. UNCHANGED mechVars
    BY <1>4, AudioKeepsMech DEF PollPosition
  <2> QED
    BY <1>4, <2>1 DEF PollPosition, LoadInv, RestsOnTarget, ActiveAtHead, PassPlaces, mechVars
<1>5. CASE PollOpen  BY <1>5, AudioKeepsMech, PassEnds DEF PollOpen
<1>6. CASE PollClose  BY <1>6, AudioKeepsMech, PassEnds DEF PollClose, wait_ready
<1>7. CASE PollLoadToc
  <2>1. UNCHANGED mechVars
    BY <1>7, AudioKeepsMech DEF PollLoadToc
  <2> QED
    BY <1>7, <2>1 DEF PollLoadToc, LoadInv, RestsOnTarget, ActiveAtHead,
       PassPlaces, mechVars
<1>8. CASE PollLoadFails  BY <1>8, AudioKeepsMech, PassEnds DEF PollLoadFails
<1>9. CASE PollLoadPush
  <2>1. UNCHANGED mechVars
    BY <1>9, AudioKeepsMech DEF PollLoadPush
  <2>2. sts = "LOAD" /\ pollPc = "push" /\ sts' \in Ready
    BY <1>9 DEF PollLoadPush, LoadInv, PassPlaces
  <2> QED
    BY <1>9, <2>1, <2>2 DEF PollLoadPush, EndPass, LoadInv, RestsOnTarget, ActiveAtHead,
       PassPlaces, mechVars
<1>10. CASE PollChangeDisc  BY <1>10, AudioKeepsMech, PassEnds DEF PollChangeDisc, wait_ready
<1>11. CASE PollNoDisc
  <2>1. CASE UNCHANGED <<driveVars, machineVars, slotVars>>
    BY <1>11, <2>1, AudioKeepsMech, PassEnds DEF PollNoDisc
  <2>2. CASE ChangeDiscs(TRUE)
    <3>1. pollPc' = "idle"
      BY <1>11 DEF PollNoDisc, EndPass
    <3> QED
      BY <2>2, <3>1, ChangeDiscsLoadInv
  <2> QED
    BY <1>11, <2>1, <2>2, Zenon DEF PollNoDisc
<1>12. CASE PollBadDisc  BY <1>12, AudioKeepsMech, PassEnds DEF PollBadDisc
<1>13. CASE PollStop  BY <1>13, AudioKeepsMech, PassEnds DEF PollStop
<1>14. CASE PollPlayShuffles  BY <1>14, AudioKeepsMech, PassEnds DEF PollPlayShuffles, InPlay
<1>15. CASE PollPlayEnds
  <2>1. sts = "PLAY" /\ EndPass
    BY <1>15 DEF PollPlayEnds, InPlay
  <2>2. CASE UNCHANGED <<driveVars, machineVars, slotVars>>
    BY <2>1, <2>2, AudioKeepsMech, PassEnds
  <2>3. CASE sts' \in {"OPEN", "STOP"} /\ UNCHANGED <<driveVars, slotVars>>
    BY <2>1, <2>3, AudioKeepsMech, PassEnds
  <2>4. CASE ChangeDiscs(TRUE)
    BY <2>1, <2>4, ChangeDiscsLoadInv DEF EndPass
  <2>5. "OPEN" \in {"OPEN", "STOP"} /\ "STOP" \in {"OPEN", "STOP"}
    OBVIOUS
  <2> QED
    BY <1>15, <2>2, <2>3, <2>4, <2>5, Zenon DEF PollPlayEnds
<1>16. CASE PollPlayGoesOn  BY <1>16, AudioKeepsMech, PassEnds DEF PollPlayGoesOn, InPlay
<1>17. CASE PollFollows  BY <1>17, AudioKeepsMech, PassEnds DEF PollFollows
<1> QED
  BY <1>1, <1>2, <1>3, <1>4, <1>5, <1>6, <1>7, <1>8, <1>9, <1>10, <1>11, <1>12,
     <1>13, <1>14, <1>15, <1>16, <1>17 DEF Poll

\* A command finds no pass under way.
LEMMA CommandLoads == ASSUME TypeOK, LockInv, LoadInv, Command PROVE LoadInv'
<1> USE AudioKeepsMech, LoadKept DEF Ready, Seeking, Commands, TrackCommand, AfterCommand,
        slotVars, pollVars
<1>1. ASSUME NEW open \in BOOLEAN, Tray(open) PROVE LoadInv'
  <2>1. sts' \in {"OPEN", "CLOSE"} /\ UNCHANGED <<disc, cur_slot, pollPc, media_type>>
    BY <1>1 DEF Tray
  <2>2. UNCHANGED <<target, curDisc>> /\ (busy => busy')
    BY <1>1 DEF Tray, eject
  <2>3. pollPc \in {"idle", "gone"}
    BY <1>1 DEF Tray, LockInv, TypeOK
  <2> QED
    BY <2>1, <2>2, <2>3 DEF LoadInv, RestsOnTarget, ActiveAtHead, PassPlaces, Settled
<1>2. CASE PlayFromOpen
  <2>1. sts' = "CLOSE" /\ UNCHANGED <<disc, cur_slot, pollPc, media_type>>
    BY <1>2 DEF PlayFromOpen
  <2>2. UNCHANGED <<target, curDisc>> /\ (busy => busy')
    BY <1>2 DEF PlayFromOpen, eject
  <2>3. pollPc \in {"idle", "gone"}
    BY <1>2 DEF PlayFromOpen, LockInv, TypeOK
  <2> QED
    BY <2>1, <2>2, <2>3 DEF LoadInv, RestsOnTarget, ActiveAtHead, PassPlaces, Settled
<1>3. CASE PlayFromStop  BY <1>3 DEF PlayFromStop
<1>4. CASE Resume  BY <1>4 DEF Resume
<1>5. CASE Pause  BY <1>5 DEF Pause
<1>6. CASE Stop  BY <1>6 DEF Stop
<1>7. ASSUME NEW forward \in BOOLEAN, Seek(forward) PROVE LoadInv'  BY <1>7 DEF Seek
<1>8. CASE EndSeek  BY <1>8 DEF EndSeek
<1>9. CASE NextTrack  BY <1>9, NavigateKeepsMech DEF NextTrack
<1>10. CASE NextShuffled  BY <1>10 DEF NextShuffled
<1>11. CASE PrevTrack
  <2>1. UNCHANGED mechVars
    BY <1>11, NavigateKeepsMech DEF PrevTrack
  <2> QED
    BY <1>11, <2>1 DEF PrevTrack
<1>12. ASSUME NEW forward \in BOOLEAN, DiscCommand(forward) PROVE LoadInv'
  <2>1. pollPc' \in {"idle", "gone"}
    BY <1>12 DEF DiscCommand, LockInv, TypeOK
  <2>2. ChangeDiscs(TRUE) \/ ChangeDiscs(FALSE)
    <3>1. CASE forward = TRUE  BY <1>12, <3>1 DEF DiscCommand
    <3>2. CASE forward = FALSE  BY <1>12, <3>2 DEF DiscCommand
    <3> QED
      BY <3>1, <3>2
  <2> QED
    BY <2>1, <2>2, ChangeDiscsLoadInv
<1> QED
  BY <1>1, <1>2, <1>3, <1>4, <1>5, <1>6, <1>7, <1>8, <1>9, <1>10, <1>11, <1>12 DEF Command

LEMMA UiLoads == ASSUME TypeOK, LockInv, LoadInv, Ui PROVE LoadInv'
<1> USE AudioKeepsMech, LoadKept DEF BesideUi, machineVars, slotVars, pollVars
<1>1. CASE Command  BY <1>1, CommandLoads
<1>2. CASE NavBegin  BY <1>2 DEF NavBegin
<1>3. CASE NavPlay  BY <1>3 DEF NavPlay
<1>4. CASE NavHold  BY <1>4 DEF NavHold
<1>5. CASE ModeBegin  BY <1>5 DEF ModeBegin
<1>6. CASE ModeEnd  BY <1>6 DEF ModeEnd
<1>7. CASE TearStop  BY <1>7 DEF TearStop, Commands, Ready, Seeking
<1>8. CASE TearPoll
  <2>1. UNCHANGED mechVars /\ pollPc' = "gone" /\ UNCHANGED <<sts, disc, cur_slot, media_type>>
    BY <1>8 DEF TearPoll
  <2> QED
    BY <2>1 DEF LoadInv, RestsOnTarget, ActiveAtHead, PassPlaces, mechVars
<1>9. CASE TearMeta  BY <1>9 DEF TearMeta
<1>10. CASE Construct
  <2>1. UNCHANGED mechVars /\ sts' = "INIT" /\ pollPc' = "idle"
    BY <1>10 DEF Construct
  <2> QED
    BY <2>1 DEF LoadInv, RestsOnTarget, ActiveAtHead, PassPlaces, mechVars, Settled,
       Ready, Seeking
<1> QED
  BY <1>1, <1>2, <1>3, <1>4, <1>5, <1>6, <1>7, <1>8, <1>9, <1>10 DEF Ui

\* Hands and the drive's own moves do not move the changer.
LEMMA EnvironmentLoads == ASSUME TypeOK, LoadInv, Environment PROVE LoadInv'
<1>1. UNCHANGED <<sts, disc, cur_slot, pollPc, media_type>>
  BY DEF Environment, playerVars, machineVars, slotVars, pollVars
<1> USE <1>1 DEF LoadInv, RestsOnTarget, ActiveAtHead, PassPlaces
<1>2. CASE DriveReady
  <2>1. busy /\ busy' = FALSE /\ curDisc' = target /\ UNCHANGED <<doorOpen, inSlot, target>>
    BY <1>2 DEF DriveReady
  <2>2. RestsOnTarget'
    BY <2>1, <1>1 DEF LoadInv, RestsOnTarget
  <2>3. ActiveAtHead'
    BY <2>1, <1>1, <2>2 DEF LoadInv, RestsOnTarget, ActiveAtHead, Settled
  <2>4. PassPlaces'
    BY <1>1 DEF LoadInv, PassPlaces
  <2> QED
    BY <2>2, <2>3, <2>4 DEF LoadInv
<1>3. CASE DriveStarts \/ DriveAdvances \/ DriveScans \/ PanelPlays \/ PanelPauses
  <2>1. UNCHANGED mechVars
    BY <1>3 DEF DriveStarts, DriveAdvances, DriveScans, PanelPlays, PanelPauses, mechVars
  <2> QED
    BY <2>1, LoadKept
<1>4. CASE HandOpens  BY <1>4 DEF HandOpens
<1>5. CASE HandCloses  BY <1>5 DEF HandCloses
<1>6. CASE HandSwaps  BY <1>6 DEF HandSwaps
<1> QED
  BY <1>2, <1>3, <1>4, <1>5, <1>6 DEF Environment

LEMMA LoadStep == ASSUME TypeOK, LockInv, LoadInv, [Next]_vars PROVE LoadInv'
<1>1. CASE Poll  BY <1>1, PollLoads
<1>2. CASE MetaBegin \/ MetaEnd \/ UNCHANGED vars
  BY <1>2, AudioKeepsMech, LoadKept DEF MetaBegin, MetaEnd, vars, playerVars, machineVars,
     slotVars, pollVars
<1>3. CASE Ui  BY <1>3, UiLoads
<1>4. CASE Environment  BY <1>4, EnvironmentLoads
<1> QED
  BY <1>1, <1>2, <1>3, <1>4 DEF Next

LEMMA LoadHeld == Spec => []LoadInv
<1>1. Init => LoadInv
  BY DEF Init, DriveInit, PlayerInit, LoadInv, RestsOnTarget, ActiveAtHead, PassPlaces, Settled, Ready, Seeking
<1>2. TypeOK /\ LockInv /\ LoadInv /\ [Next]_vars => LoadInv'
  BY LoadStep
<1> QED
  BY <1>1, <1>2, TypeCorrect, LocksHeld, PTL DEF Spec

-----------------------------------------------------------------------------
(* What is selected when the player is stopped.                             *)

\* With the disc in its place, a stopped player is at the first track, at one that was
\* picked from the album, or where it was.
LEMMA SelectionKept ==
  ASSUME TypeOK, StoppedTrackSelectable, UNCHANGED <<disc, cur_slot>>,
         sts' = "STOP" =>
           \/ cur_track' = 1
           \/ cur_track' \in DOMAIN album
           \/ sts = "STOP" /\ cur_track' = cur_track
  PROVE  StoppedTrackSelectable'
<1> SUFFICES ASSUME sts' = "STOP", album' # <<>>
             PROVE  cur_track' \in DOMAIN album'
  BY DEF StoppedTrackSelectable
<1>1. album' = album
  BY DEF album
<1>2. album \in Seq(1 .. MaxTracks)
  BY DriveAssumption DEF TypeOK, album, Album, MaxTracks
<1>3. 1 \in DOMAIN album
  BY <1>1, <1>2, LenProperties, EmptySeq
<1> QED
  BY <1>1, <1>3 DEF StoppedTrackSelectable

\* A step that leads to another state than STOP, or stays in it with its selection.
LEMMA SelectionElsewhere ==
  ASSUME TypeOK, StoppedTrackSelectable,
         \/ sts' # "STOP"
         \/ UNCHANGED <<sts, cur_track, disc, cur_slot>>
  PROVE  StoppedTrackSelectable'
BY DEF StoppedTrackSelectable, album

LEMMA PollSelects == ASSUME TypeOK, LoadInv, StoppedTrackSelectable, Poll
                     PROVE  StoppedTrackSelectable'
<1> USE SelectionElsewhere DEF machineVars, slotVars, trackVars
<1>1. CASE PollBegin \/ PollPosition  BY <1>1 DEF PollBegin, PollPosition
<1>2. CASE PollInit \/ PollOpen \/ PollClose
  BY <1>2 DEF PollInit, PollOpen, PollClose
<1>3. CASE PollMech
  <2>1. cur_slot' = curDisc
    BY <1>3, DriveAssumption DEF PollMech, TypeOK, DriveTypeOK, Slot
  <2>2. sts' = "OPEN" \/ UNCHANGED <<sts, disc, cur_track>>
    BY <1>3 DEF PollMech
  <2>3. sts = "STOP" => cur_slot = curDisc
    BY DEF LoadInv, ActiveAtHead, Ready
  <2> QED
    BY <2>1, <2>2, <2>3
<1>4. CASE PollLoadToc \/ PollLoadFails
  BY <1>4 DEF PollLoadToc, PollLoadFails
<1>5. CASE PollLoadPush  BY <1>5, SelectionKept DEF PollLoadPush
<1>6. CASE PollChangeDisc \/ PollBadDisc
  BY <1>6 DEF PollChangeDisc, PollBadDisc
<1>7. CASE PollNoDisc
  BY <1>7 DEF PollNoDisc, ChangeDiscs
<1>8. CASE PollStop  BY <1>8 DEF PollStop
<1>9. CASE PollPlayShuffles \/ PollPlayGoesOn
  BY <1>9 DEF PollPlayShuffles, PollPlayGoesOn, InPlay
<1>10. CASE PollPlayEnds
  BY <1>10, SelectionKept DEF PollPlayEnds, InPlay, ChangeDiscs
<1>11. CASE PollFollows
  BY <1>11 DEF PollFollows, Seeking
<1> QED
  BY <1>1, <1>2, <1>3, <1>4, <1>5, <1>6, <1>7, <1>8, <1>9, <1>10, <1>11 DEF Poll

\* Stopped, navigate_to_track() selects a track of the album or none.
LEMMA NavigateSelects ==
  ASSUME NEW t, Navigate(t), sts = "STOP"
  PROVE  cur_track' \in DOMAIN album \/ cur_track' = cur_track
BY DEF Navigate

LEMMA UiSelects == ASSUME TypeOK, StoppedTrackSelectable, Ui
                   PROVE  StoppedTrackSelectable'
<1> USE SelectionElsewhere
    DEF machineVars, slotVars, trackVars, AfterCommand, TrackCommand, Commands, BesideUi
<1>1. CASE \E open \in BOOLEAN : Tray(open)  BY <1>1 DEF Tray
<1>2. CASE PlayFromOpen  BY <1>2 DEF PlayFromOpen
<1>3. CASE PlayFromStop  BY <1>3 DEF PlayFromStop
<1>4. CASE Resume \/ Pause \/ EndSeek  BY <1>4 DEF Resume, Pause, EndSeek
<1>5. CASE Stop  BY <1>5, SelectionKept DEF Stop
<1>6. CASE \E forward \in BOOLEAN : Seek(forward)  BY <1>6 DEF Seek
<1>7. CASE NextTrack \/ PrevTrack
  <2>1. sts' = sts /\ UNCHANGED <<disc, cur_slot>>
    BY <1>7 DEF NextTrack, PrevTrack
  <2>2. \E t : Navigate(t)
    <3>1. CASE NextTrack  BY <3>1 DEF NextTrack
    <3>2. CASE PrevTrack  BY <3>2 DEF PrevTrack
    <3> QED
      BY <1>7, <3>1, <3>2
  <2> QED
    BY <2>1, <2>2, NavigateSelects, SelectionKept
<1>8. CASE NextShuffled  BY <1>8 DEF NextShuffled
<1>9. CASE \E forward \in BOOLEAN : DiscCommand(forward)
  BY <1>9 DEF DiscCommand, ChangeDiscs
<1>10. CASE NavBegin  BY <1>10, SelectionKept DEF NavBegin
<1>11. CASE NavPlay \/ NavHold \/ ModeBegin \/ ModeEnd
  BY <1>11 DEF NavPlay, NavHold, ModeBegin, ModeEnd
<1>12. CASE TearStop  BY <1>12, SelectionKept DEF TearStop
<1>13. CASE TearPoll \/ TearMeta  BY <1>13 DEF TearPoll, TearMeta
<1>14. CASE Construct  BY <1>14 DEF Construct
<1> QED
  BY <1>1, <1>2, <1>3, <1>4, <1>5, <1>6, <1>7, <1>8, <1>9, <1>10, <1>11, <1>12,
     <1>13, <1>14 DEF Ui, Command

LEMMA SelectionStep ==
  ASSUME TypeOK, LoadInv, StoppedTrackSelectable, [Next]_vars
  PROVE  StoppedTrackSelectable'
<1>1. CASE Poll  BY <1>1, PollSelects
<1>2. CASE Ui  BY <1>2, UiSelects
<1>3. CASE MetaBegin \/ MetaEnd \/ Environment \/ UNCHANGED vars
  <2>1. UNCHANGED <<sts, cur_track, disc, cur_slot>>
    BY <1>3 DEF MetaBegin, MetaEnd, Environment, vars, playerVars, machineVars, slotVars,
       trackVars
  <2> QED
    BY <2>1, SelectionElsewhere
<1> QED
  BY <1>1, <1>2, <1>3 DEF Next

\* StoppedTrackSelectable: PLAY in STOP indexes a track of the album, for every changer
\* and disc, although PLAY, PAUSE and the seeks store whatever the drive reports.
THEOREM StoppedIsSelectable == Spec => []StoppedTrackSelectable
<1>1. Init => StoppedTrackSelectable
  BY DEF Init, PlayerInit, StoppedTrackSelectable
<1>2. TypeOK /\ LoadInv /\ StoppedTrackSelectable /\ [Next]_vars => StoppedTrackSelectable'
  BY SelectionStep
<1> QED
  BY <1>1, <1>2, TypeCorrect, LoadHeld, PTL DEF Spec

-----------------------------------------------------------------------------
(* Whose album it is (TrayHistory).                                          *)

\* The inductive invariant behind AlbumOfItsDisc.  As long as the tray has not been shut
\* behind it, the medium that LOAD has sampled is there to be read;
SampleHolds ==
  sts = "LOAD" /\ pollPc \in {"mech", "act"} /\ media_type = "Audio" /\ "medium" \notin shutAfter =>
    doorOpen \/ (~busy /\ Tracks(inSlot[curDisc]) # <<>>)

\* and the album is that of the disc, from the TOC on.
AlbumKept == pollPc = "push" \/ (sts \in Ready /\ pollPc # "gone")

AlbumHolds ==
  AlbumKept =>
    /\ ~doorOpen /\ "toc" \notin shutAfter => disc[cur_slot] = Tracks(inSlot[curDisc])
    /\ "medium" \notin shutAfter => NoMediaCodes \/ disc[cur_slot] # <<>>

HistoryInv == SampleHolds /\ AlbumHolds

\* A step that opens or shuts no tray and begins no pass of LOAD leaves the history alone.
LEMMA NothingToRecord ==
  ASSUME Record, UNCHANGED doorOpen, pollPc # "idle" \/ pollPc' # "mech"
  PROVE  UNCHANGED shutAfter
BY DEF Record, TrayShuts, LoadBegins

\* Steps that keep to the disc: they may go from one state that is ready to another.
LEMMA HistoryKept ==
  ASSUME HistoryInv, Record, UNCHANGED <<disc, cur_slot, pollPc, media_type>>,
         UNCHANGED mechVars, sts' = sts \/ (sts \in Ready /\ sts' \in Ready)
  PROVE  HistoryInv'
<1>1. UNCHANGED shutAfter
  BY NothingToRecord DEF mechVars
<1>2. SampleHolds'
  BY <1>1 DEF HistoryInv, SampleHolds, mechVars, Tracks, Ready, Seeking
<1>3. AlbumKept' => AlbumKept
  BY DEF AlbumKept
<1>4. AlbumHolds'
  BY <1>1, <1>3 DEF HistoryInv, AlbumHolds, mechVars, Tracks
<1> QED
  BY <1>2, <1>4 DEF HistoryInv

\* The end of a pass: in a state that is not ready, or with the disc that was ready.
LEMMA HistoryPassEnds ==
  ASSUME HistoryInv, Record, pollPc' = "idle",
         \/ sts' \notin Ready
         \/ sts \in Ready /\ pollPc # "gone" /\ UNCHANGED <<disc, cur_slot>> /\ UNCHANGED mechVars
  PROVE  HistoryInv'
<1>1. SampleHolds'
  BY DEF SampleHolds
<1>2. CASE sts' \notin Ready
  BY <1>1, <1>2 DEF HistoryInv, AlbumHolds, AlbumKept
<1>3. CASE sts \in Ready /\ pollPc # "gone" /\ UNCHANGED <<disc, cur_slot>> /\ UNCHANGED mechVars
  <2>1. UNCHANGED shutAfter
    BY <1>3, NothingToRecord DEF mechVars
  <2>2. AlbumKept
    BY <1>3 DEF AlbumKept
  <2>3. AlbumHolds'
    BY <1>3, <2>1, <2>2 DEF HistoryInv, AlbumHolds, mechVars, Tracks
  <2> QED
    BY <1>1, <2>3 DEF HistoryInv
<1> QED
  BY <1>2, <1>3

\* No pass is under way, and the state is one that has nothing to show.
LEMMA HistoryElsewhere ==
  ASSUME pollPc' \in {"idle", "gone", "init"}, sts' \notin Ready \/ pollPc' = "gone"
  PROVE  HistoryInv'
BY DEF HistoryInv, SampleHolds, AlbumHolds, AlbumKept

LEMMA ChangeDiscsHistory ==
  ASSUME ChangeDiscs(TRUE) \/ ChangeDiscs(FALSE), pollPc' \in {"idle", "gone"}
  PROVE  HistoryInv'
<1>1. sts' = "CHANGE_DISC"
  BY DEF ChangeDiscs
<1> QED
  BY <1>1, HistoryElsewhere DEF Ready, Seeking

LEMMA PollHistory ==
  ASSUME TypeOK, LoadInv, HistoryInv, Poll, Record PROVE HistoryInv'
<1> USE DEF machineVars, slotVars, Ready, Seeking
<1>1. CASE PollBegin
  <2>1. UNCHANGED mechVars /\ UNCHANGED <<sts, disc, cur_slot>> /\ pollPc = "idle"
    BY <1>1, AudioKeepsMech DEF PollBegin
  <2>2. CASE sts = "INIT"
    <3>1. pollPc' = "init"
      BY <1>1, <2>2 DEF PollBegin
    <3> QED
      BY <2>1, <2>2, <3>1, HistoryElsewhere
  <2>3. CASE sts = "LOAD"
    <3>1. pollPc' = "mech" /\ media_type' = check_media
      BY <1>1, <2>3 DEF PollBegin
    <3>2. media_type' = "Audio" => ~doorOpen /\ ~busy /\ Tracks(inSlot[curDisc]) # <<>>
      BY <3>1 DEF check_media, Tracks
    <3>3. SampleHolds'
      BY <2>1, <3>2 DEF SampleHolds, mechVars, Tracks
    <3> QED
      BY <2>1, <2>3, <3>1, <3>3 DEF HistoryInv, AlbumHolds, AlbumKept
  <2>4. CASE sts \notin {"INIT", "LOAD"}
    <3>1. pollPc' = "mech"
      BY <1>1, <2>4 DEF PollBegin
    <3>2. UNCHANGED shutAfter
      BY <1>1, <2>1, <2>4 DEF Record, TrayShuts, LoadBegins, mechVars
    <3>3. AlbumKept' => AlbumKept
      BY <2>1, <3>1 DEF AlbumKept
    <3> QED
      BY <2>1, <2>4, <3>2, <3>3 DEF HistoryInv, SampleHolds, AlbumHolds, mechVars, Tracks
  <2> QED
    BY <2>2, <2>3, <2>4
<1>2. CASE PollInit
  <2>1. pollPc' = "idle" /\ sts' = "LOAD"
    BY <1>2 DEF PollInit, EndPass
  <2> QED
    BY <2>1, HistoryElsewhere
<1>3. CASE PollMech
  <2>1. UNCHANGED mechVars /\ UNCHANGED media_type /\ pollPc = "mech"
    BY <1>3, AudioKeepsMech DEF PollMech
  <2>2. cur_slot' = curDisc
    BY <1>3, DriveAssumption DEF PollMech, TypeOK, DriveTypeOK, Slot
  <2>3. /\ sts' = "OPEN" \/ (sts' = sts /\ UNCHANGED disc)
        /\ pollPc' = IF sts' \in Ready THEN "position" ELSE "act"
    BY <1>3 DEF PollMech
  <2>4. UNCHANGED shutAfter
    BY <1>3, <2>1, NothingToRecord DEF mechVars
  <2>5. sts \in Ready => cur_slot = curDisc
    BY DEF LoadInv, ActiveAtHead
  <2>6. SampleHolds'
    BY <2>1, <2>3, <2>4 DEF HistoryInv, SampleHolds, mechVars, Tracks
  <2>7. AlbumHolds'
    BY <2>1, <2>2, <2>3, <2>4, <2>5 DEF HistoryInv, AlbumHolds, AlbumKept, mechVars, Tracks
  <2> QED
    BY <2>6, <2>7 DEF HistoryInv
<1>4. CASE PollPosition
  <2>1. UNCHANGED mechVars /\ UNCHANGED <<sts, disc, cur_slot>>
    BY <1>4, AudioKeepsMech DEF PollPosition
  <2>2. sts \in Ready /\ pollPc = "position" /\ pollPc' = "act"
    BY <1>4 DEF PollPosition, LoadInv, PassPlaces
  <2>3. UNCHANGED shutAfter
    BY <2>1, <2>2, NothingToRecord DEF mechVars
  <2> QED
    BY <2>1, <2>2, <2>3 DEF HistoryInv, SampleHolds, AlbumHolds, AlbumKept, mechVars, Tracks
<1>5. CASE PollOpen  BY <1>5, HistoryPassEnds DEF PollOpen, EndPass
<1>6. CASE PollClose  BY <1>6, HistoryPassEnds DEF PollClose, EndPass
<1>7. CASE PollLoadToc
  <2>1. UNCHANGED mechVars
    BY <1>7, AudioKeepsMech DEF PollLoadToc
  <2>2. pollPc = "act" /\ pollPc' = "push" /\ sts = "LOAD" /\ ~doorOpen
    BY <1>7 DEF PollLoadToc
  <2>3. UNCHANGED shutAfter
    BY <2>1, <2>2, NothingToRecord DEF mechVars
  <2>4. disc'[cur_slot'] = Tracks(inSlot[curDisc])
    BY <1>7 DEF PollLoadToc, TypeOK
  <2>5. "medium" \notin shutAfter => NoMediaCodes \/ Tracks(inSlot[curDisc]) # <<>>
    BY <1>7, <2>2 DEF PollLoadToc, HistoryInv, SampleHolds
  <2> QED
    BY <2>1, <2>2, <2>3, <2>4, <2>5 DEF HistoryInv, SampleHolds, AlbumHolds, mechVars, Tracks
<1>8. CASE PollLoadFails  BY <1>8, HistoryPassEnds DEF PollLoadFails, EndPass
<1>9. CASE PollLoadPush
  <2>1. UNCHANGED mechVars /\ UNCHANGED <<disc, cur_slot>>
    BY <1>9, AudioKeepsMech DEF PollLoadPush
  <2>2. pollPc = "push" /\ pollPc' = "idle"
    BY <1>9 DEF PollLoadPush, EndPass
  <2>3. UNCHANGED shutAfter
    BY <2>1, <2>2, NothingToRecord DEF mechVars
  <2> QED
    BY <2>1, <2>2, <2>3 DEF HistoryInv, SampleHolds, AlbumHolds, AlbumKept, mechVars, Tracks
<1>10. CASE PollChangeDisc  BY <1>10, HistoryPassEnds DEF PollChangeDisc, EndPass
<1>11. CASE PollNoDisc
  <2>1. pollPc' = "idle" /\ sts = "NO_DISC"
    BY <1>11 DEF PollNoDisc, EndPass
  <2>2. CASE UNCHANGED machineVars
    BY <2>1, <2>2, HistoryPassEnds
  <2>3. CASE ChangeDiscs(TRUE)
    BY <2>1, <2>3, ChangeDiscsHistory
  <2> QED
    BY <1>11, <2>2, <2>3, Zenon DEF PollNoDisc
<1>12. CASE PollBadDisc  BY <1>12, HistoryPassEnds DEF PollBadDisc, EndPass
<1>13. CASE PollStop  BY <1>13, AudioKeepsMech, HistoryPassEnds DEF PollStop, EndPass
<1>14. CASE PollPlayShuffles
  BY <1>14, AudioKeepsMech, HistoryPassEnds DEF PollPlayShuffles, InPlay, EndPass
<1>15. CASE PollPlayEnds
  <2>1. sts = "PLAY" /\ pollPc = "act" /\ pollPc' = "idle"
    BY <1>15 DEF PollPlayEnds, InPlay, EndPass
  <2>2. CASE UNCHANGED <<driveVars, machineVars, slotVars>>
    BY <2>1, <2>2, AudioKeepsMech, HistoryPassEnds
  <2>3. CASE sts' \in {"OPEN", "STOP"} /\ UNCHANGED <<driveVars, slotVars>>
    BY <2>1, <2>3, AudioKeepsMech, HistoryPassEnds
  <2>4. CASE ChangeDiscs(TRUE)
    BY <2>1, <2>4, ChangeDiscsHistory
  <2>5. "OPEN" \in {"OPEN", "STOP"} /\ "STOP" \in {"OPEN", "STOP"}
    OBVIOUS
  <2> QED
    BY <1>15, <2>2, <2>3, <2>4, <2>5, Zenon DEF PollPlayEnds
<1>16. CASE PollPlayGoesOn
  BY <1>16, AudioKeepsMech, HistoryPassEnds DEF PollPlayGoesOn, InPlay, EndPass
<1>17. CASE PollFollows  BY <1>17, AudioKeepsMech, HistoryPassEnds DEF PollFollows, EndPass
<1> QED
  BY <1>1, <1>2, <1>3, <1>4, <1>5, <1>6, <1>7, <1>8, <1>9, <1>10, <1>11, <1>12,
     <1>13, <1>14, <1>15, <1>16, <1>17 DEF Poll

\* A command finds no pass under way, and one that moves the tray leaves what was ready.
LEMMA CommandHistory ==
  ASSUME TypeOK, LockInv, HistoryInv, Command, Record PROVE HistoryInv'
<1> USE AudioKeepsMech, HistoryKept DEF Ready, Seeking, Commands, TrackCommand, AfterCommand,
        slotVars, pollVars
<1>a. pollPc' \in {"idle", "gone"}
  BY CommandKeepsLocks DEF LockInv, lockVars, Command, Tray, PlayFromOpen, PlayFromStop,
     Resume, Pause, Stop, Seek, EndSeek, NextTrack, NextShuffled, PrevTrack, DiscCommand, TypeOK
<1>1. ASSUME NEW open \in BOOLEAN, Tray(open) PROVE HistoryInv'
  <2>1. sts' \in {"OPEN", "CLOSE"}
    BY <1>1 DEF Tray
  <2> QED
    BY <1>a, <2>1, HistoryElsewhere
<1>2. CASE PlayFromOpen
  <2>1. sts' = "CLOSE"
    BY <1>2 DEF PlayFromOpen
  <2> QED
    BY <1>a, <2>1, HistoryElsewhere
<1>3. CASE PlayFromStop  BY <1>3 DEF PlayFromStop
<1>4. CASE Resume  BY <1>4 DEF Resume
<1>5. CASE Pause  BY <1>5 DEF Pause
<1>6. CASE Stop  BY <1>6 DEF Stop
<1>7. ASSUME NEW forward \in BOOLEAN, Seek(forward) PROVE HistoryInv'  BY <1>7 DEF Seek
<1>8. CASE EndSeek  BY <1>8 DEF EndSeek
<1>9. CASE NextTrack  BY <1>9, NavigateKeepsMech DEF NextTrack
<1>10. CASE NextShuffled  BY <1>10 DEF NextShuffled
<1>11. CASE PrevTrack
  <2>1. UNCHANGED mechVars
    BY <1>11, NavigateKeepsMech DEF PrevTrack
  <2> QED
    BY <1>11, <2>1 DEF PrevTrack
<1>12. ASSUME NEW forward \in BOOLEAN, DiscCommand(forward) PROVE HistoryInv'
  <2>1. sts' = "CHANGE_DISC"
    BY <1>12 DEF DiscCommand, ChangeDiscs
  <2> QED
    BY <1>a, <2>1, HistoryElsewhere
<1> QED
  BY <1>1, <1>2, <1>3, <1>4, <1>5, <1>6, <1>7, <1>8, <1>9, <1>10, <1>11, <1>12 DEF Command

LEMMA UiHistory == ASSUME TypeOK, LockInv, HistoryInv, Ui, Record PROVE HistoryInv'
<1> USE AudioKeepsMech, HistoryKept DEF BesideUi, machineVars, slotVars, pollVars
<1>1. CASE Command  BY <1>1, CommandHistory
<1>2. CASE NavBegin  BY <1>2 DEF NavBegin
<1>3. CASE NavPlay  BY <1>3 DEF NavPlay
<1>4. CASE NavHold  BY <1>4 DEF NavHold
<1>5. CASE ModeBegin  BY <1>5 DEF ModeBegin
<1>6. CASE ModeEnd  BY <1>6 DEF ModeEnd
<1>7. CASE TearStop  BY <1>7 DEF TearStop, Commands, Ready, Seeking
<1>8. CASE TearPoll
  <2>1. pollPc' = "gone"
    BY <1>8 DEF TearPoll
  <2> QED
    BY <2>1, HistoryElsewhere
<1>9. CASE TearMeta  BY <1>9 DEF TearMeta
<1>10. CASE Construct
  <2>1. sts' = "INIT" /\ pollPc' = "idle"
    BY <1>10 DEF Construct
  <2> QED
    BY <2>1, HistoryElsewhere DEF Ready, Seeking
<1> QED
  BY <1>1, <1>2, <1>3, <1>4, <1>5, <1>6, <1>7, <1>8, <1>9, <1>10 DEF Ui

\* Hands: a disc is swapped under an open tray, and a tray that is shut again while a
\* pass of LOAD is under way is on record.
LEMMA EnvironmentHistory ==
  ASSUME TypeOK, LoadInv, HistoryInv, Environment, Record PROVE HistoryInv'
<1>1. UNCHANGED <<sts, disc, cur_slot, pollPc, media_type>>
  BY DEF Environment, playerVars, machineVars, slotVars, pollVars
<1>2. AlbumKept' = AlbumKept
  BY <1>1 DEF AlbumKept
<1>3. CASE DriveReady
  <2>1. busy /\ busy' = FALSE /\ curDisc' = target /\ UNCHANGED <<doorOpen, inSlot, target>>
    BY <1>3 DEF DriveReady
  <2>2. UNCHANGED shutAfter
    BY <1>1, <2>1, NothingToRecord
  <2>3. AlbumKept => curDisc' = curDisc
    BY <2>1 DEF LoadInv, RestsOnTarget, PassPlaces, AlbumKept, Settled
  <2>4. SampleHolds'
    BY <1>1, <2>1, <2>2 DEF HistoryInv, SampleHolds
  <2>5. AlbumHolds'
    BY <1>1, <1>2, <2>1, <2>2, <2>3 DEF HistoryInv, AlbumHolds, Tracks
  <2> QED
    BY <2>4, <2>5 DEF HistoryInv
<1>4. CASE DriveStarts \/ DriveAdvances \/ DriveScans \/ PanelPlays \/ PanelPauses
  <2>1. UNCHANGED mechVars
    BY <1>4 DEF DriveStarts, DriveAdvances, DriveScans, PanelPlays, PanelPauses, mechVars
  <2> QED
    BY <1>1, <2>1, HistoryKept
<1>5. CASE HandOpens \/ HandSwaps
  <2>1. doorOpen'
    BY <1>5 DEF HandOpens, HandSwaps
  <2>2. UNCHANGED shutAfter
    BY <1>1, <2>1 DEF Record, TrayShuts, LoadBegins
  <2>3. SampleHolds'
    BY <2>1 DEF SampleHolds
  <2>4. AlbumHolds'
    BY <1>1, <1>2, <2>1, <2>2 DEF HistoryInv, AlbumHolds
  <2> QED
    BY <2>3, <2>4 DEF HistoryInv
<1>6. CASE (sts \in Unhurried \/ pollPc = "gone") /\ HandCloses
  <2>1. shutAfter' = shutAfter \cup LastRead
    BY <1>6 DEF HandCloses, Record, TrayShuts
  <2>2. SampleHolds'
    BY <1>1, <2>1 DEF SampleHolds, LastRead
  <2>3. AlbumKept => pollPc = "push"
    BY <1>6 DEF AlbumKept, Unhurried, Ready, Seeking
  <2>4. AlbumHolds'
    BY <1>1, <1>2, <2>1, <2>3 DEF HistoryInv, AlbumHolds, LastRead
  <2> QED
    BY <2>2, <2>4 DEF HistoryInv
<1> QED
  BY <1>3, <1>4, <1>5, <1>6 DEF Environment

LEMMA HistoryStep ==
  ASSUME TypeOK, LockInv, LoadInv, HistoryInv, [HistoryNext]_historyVars PROVE HistoryInv'
<1>1. CASE Poll /\ Record  BY <1>1, PollHistory
<1>2. CASE (MetaBegin \/ MetaEnd) /\ Record
  BY <1>2, AudioKeepsMech, HistoryKept DEF MetaBegin, MetaEnd, machineVars, slotVars, pollVars
<1>3. CASE Ui /\ Record  BY <1>3, UiHistory
<1>4. CASE Environment /\ Record  BY <1>4, EnvironmentHistory
<1>5. CASE UNCHANGED historyVars
  BY <1>5 DEF historyVars, vars, playerVars, driveVars, machineVars, slotVars, pollVars, HistoryInv,
     SampleHolds, AlbumHolds, AlbumKept, Tracks
<1> QED
  BY <1>1, <1>2, <1>3, <1>4, <1>5 DEF HistoryNext, Next

\* The history only watches: what holds of the player holds with it.
LEMMA HistoryIsSpec == HistorySpec => Spec
<1>1. HistoryInit => Init
  BY DEF HistoryInit
<1>2. [HistoryNext]_historyVars => [Next]_vars
  BY DEF HistoryNext, historyVars
<1> QED
  BY <1>1, <1>2, PTL DEF HistorySpec, Spec

\* AlbumOfItsDisc, for every changer and all discs: what a player that is ready shows is
\* the disc at the head, unless the tray was shut during LOAD after the look that would
\* have told the difference.
THEOREM ReadyIsItsDisc == HistorySpec => []AlbumOfItsDisc
<1>1. HistoryInit => HistoryInv
  BY DEF HistoryInit, Init, PlayerInit, HistoryInv, SampleHolds, AlbumHolds, AlbumKept, Ready,
     Seeking
<1>2. TypeOK /\ LockInv /\ LoadInv /\ HistoryInv /\ [HistoryNext]_historyVars => HistoryInv'
  BY HistoryStep
<1>3. LoadInv /\ HistoryInv => AlbumOfItsDisc
  BY DEF LoadInv, ActiveAtHead, HistoryInv, AlbumHolds, AlbumKept, AlbumOfItsDisc, album
<1> QED
  BY <1>1, <1>2, <1>3, HistoryIsSpec, TypeCorrect, LocksHeld, LoadHeld, PTL DEF HistorySpec

=============================================================================
