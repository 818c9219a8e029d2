------------------------------ MODULE CDPlayer ------------------------------
(***************************************************************************)
(* CD::Player (lib/espercdp/src/player.cpp): the CD player as its user     *)
(* sees it.  Three tasks share it:                                         *)
(*   - the poll task samples the drive and drives the state machine, all   *)
(*     of one pass under _cmdSemaphore;                                    *)
(*   - the UI task issues commands under _cmdSemaphore, but picks tracks   *)
(*     (navigate_to_track) and play modes (set_play_mode) without it;      *)
(*   - the metadata task works off _metaQueue under _metaSemaphore.        *)
(* A pass of the poll task is cut where the UI task or the drive can       *)
(* come between two of its reads; do_command is one step, because only the *)
(* UI task itself could get in between.                                    *)
(***************************************************************************)
EXTENDS AtapiDrive, FiniteSets

CONSTANT MaxQueue  \* bound: albums that wait for their metadata

ASSUME QueueAssumption == MaxQueue \in Nat \ {0}

State == {"INIT", "LOAD", "NO_DISC", "BAD_DISC", "OPEN", "CLOSE",
          "CHANGE_DISC", "STOP", "PLAY", "PAUSE", "SEEK_FF", "SEEK_REW"}
Seeking == {"SEEK_FF", "SEEK_REW"}
Ready == {"STOP", "PLAY", "PAUSE"} \cup Seeking   \* a disc has been loaded
PlayMode == {"CONTINUE", "SHUFFLE"}
Album == Discs \cup {<<>>}                        \* Album() has no tracks

VARIABLES
  sts, pre_seek_sts,
  disc, disc_present, nslots,       \* slots[i].disc, slots[i].disc_present, slots.size()
  cur_slot, next_expected_slot,
  want_auto_play, auto_play_start_pos, did_see_actual_playback,
  shuffle_history, play_mode, cur_track, abs_ts,
  cmdSemaphore, metaSemaphore,      \* who holds them
  metaQueue,
  pollPc, media_type, audio_sts,    \* the poll task and what it has sampled
  metaPc,                           \* the metadata task
  uiPc, uiTrack                     \* the UI task inside an unlocked call

machineVars == <<sts, pre_seek_sts>>
slotVars == <<disc, disc_present, nslots, cur_slot>>
autoVars == <<want_auto_play, auto_play_start_pos, did_see_actual_playback>>
trackVars == <<cur_track, abs_ts>>
shuffleVars == <<shuffle_history, play_mode>>
pollVars == <<pollPc, media_type, audio_sts>>
metaVars == <<metaSemaphore, metaQueue, metaPc>>
uiVars == <<uiPc, uiTrack>>
playerVars == <<machineVars, slotVars, next_expected_slot, autoVars, trackVars,
                shuffleVars, cmdSemaphore, pollVars, metaVars, uiVars>>
vars == <<driveVars, playerVars>>

NoPosition == [state |-> "Stopped", track |-> LeadOut]

TypeOK ==
  /\ DriveTypeOK
  /\ sts \in State
  /\ pre_seek_sts \in State
  /\ disc \in [Slot -> Album]
  /\ disc_present \in [Slot -> BOOLEAN]
  /\ nslots \in {1, SlotCount}
  /\ cur_slot \in Slot
  /\ next_expected_slot \in Slot
  /\ want_auto_play \in BOOLEAN
  /\ did_see_actual_playback \in BOOLEAN
  /\ auto_play_start_pos \in TrackNo
  /\ shuffle_history \subseteq TrackNo
  /\ play_mode \in PlayMode
  /\ cur_track \in TrackNo
  /\ abs_ts \in TrackNo
  /\ cmdSemaphore \in {"free", "poll", "ui"}
  /\ metaSemaphore \in {"free", "meta", "ui"}
  /\ metaQueue \in Seq(Album)
  /\ pollPc \in {"idle", "init", "mech", "position", "act", "push", "gone"}
  /\ media_type \in MediaTypeCode
  /\ audio_sts \in [state : {"Stopped", "Playing", "Paused"}, track : TrackNo]
  /\ metaPc \in {"idle", "fetch", "gone"}
  /\ uiPc \in {"idle", "nav", "hold", "mode", "stopped", "polldown", "off"}
  /\ uiTrack \in TrackNo

\* The members of a Player as its constructor leaves them.
PlayerInit ==
  /\ sts = "INIT" /\ pre_seek_sts = "INIT"
  /\ disc = [i \in Slot |-> <<>>]
  /\ disc_present = [i \in Slot |-> FALSE]
  /\ nslots = 1
  /\ cur_slot = 0 /\ next_expected_slot = 0
  /\ want_auto_play = FALSE
  /\ did_see_actual_playback = FALSE
  /\ auto_play_start_pos = 0
  /\ shuffle_history = {} /\ play_mode = "CONTINUE"
  /\ cur_track = 1 /\ abs_ts = 0
  /\ cmdSemaphore = "free" /\ metaSemaphore = "free"
  /\ metaQueue = <<>>
  /\ pollPc = "idle" /\ media_type = "Unknown" /\ audio_sts = NoPosition
  /\ metaPc = "idle"
  /\ uiPc = "idle" /\ uiTrack = 0

Init == DriveInit /\ PlayerInit

-----------------------------------------------------------------------------
(* What the handlers have in common *)

album == disc[cur_slot]
HasChanger == nslots > 1

\* The end position of a play command that covers the one track at index i.
TrackEnd(i) == IF i = Len(album) THEN 0 ELSE album[i + 1]

\* Give _cmdSemaphore back at the end of a pass; its locals are gone.
EndPass ==
  /\ cmdSemaphore' = "free"
  /\ pollPc' = "idle"
  /\ media_type' = "Unknown"
  /\ audio_sts' = NoPosition

\* The slots that change_discs() can go to, and how far each one is.
OtherDiscs == {i \in 0 .. nslots - 1 : disc_present[i] /\ i # cur_slot}
Distance(forward, i) ==
  IF forward THEN (i + nslots - cur_slot) % nslots ELSE (cur_slot + nslots - i) % nslots

\* Mutant: sends the changer where it was sent the last time.
ChangeDiscsStale(forward) ==
  \E i \in OtherDiscs :
    /\ \A j \in OtherDiscs : Distance(forward, i) <= Distance(forward, j)
    /\ next_expected_slot' = i
    /\ sts' = "CHANGE_DISC"
    /\ load_unload(next_expected_slot)
    /\ want_auto_play' = (want_auto_play \/ sts = "PLAY")
    /\ cur_track' = 1 /\ abs_ts' = 0
    /\ UNCHANGED <<pre_seek_sts, slotVars, auto_play_start_pos>>

\* change_discs(forward) when it returns true; it returns false, and changes
\* nothing, when there is no other disc.
ChangeDiscs(forward) ==
  \E i \in OtherDiscs :
    /\ \A j \in OtherDiscs : Distance(forward, i) <= Distance(forward, j)
    /\ next_expected_slot' = i
    /\ sts' = "CHANGE_DISC"
    /\ load_unload(i)
    /\ want_auto_play' = (want_auto_play \/ sts = "PLAY")
    /\ cur_track' = 1 /\ abs_ts' = 0
    /\ UNCHANGED <<pre_seek_sts, slotVars, auto_play_start_pos>>

\* play_next_shuffled_track() puts the current track into the history and
\* chooses among the tracks that are not in it, if there are any.
NewHistory == shuffle_history \cup {cur_track}
Playable == {i \in DOMAIN album : album[i] \notin NewHistory}

-----------------------------------------------------------------------------
(* The poll task: one pass of poll_state() *)

PollBegin ==
  /\ pollPc = "idle"
  /\ cmdSemaphore = "free"
  /\ cmdSemaphore' = "poll"
  /\ IF sts = "INIT"
     THEN pollPc' = "init" /\ UNCHANGED media_type
     ELSE pollPc' = "mech" /\ media_type' = check_media
  /\ UNCHANGED <<driveVars, machineVars, slotVars, next_expected_slot, autoVars,
                 trackVars, shuffleVars, audio_sts, metaVars, uiVars>>

PollInit ==
  /\ pollPc = "init"
  /\ wait_ready
  /\ eject(FALSE)
  /\ sts' = "LOAD"
  /\ EndPass
  /\ UNCHANGED <<pre_seek_sts, slotVars, next_expected_slot, autoVars, trackVars,
                 shuffleVars, metaVars, uiVars>>

\* query_state(): the slots follow the mechanism, and an open door overrules
\* every state but CLOSE.
PollMech ==
  /\ pollPc = "mech"
  /\ nslots' = SlotCount
  /\ IF SlotCount > 1
     THEN cur_slot' = curDisc /\ disc_present' = [i \in Slot |-> disc_in(i)]
     ELSE cur_slot' = 0 /\ disc_present' = [i \in Slot |-> media_type # "DoorOpen"]
  /\ IF (media_type = "DoorOpen" \/ doorOpen) /\ sts # "CLOSE"
     THEN sts' = "OPEN" /\ disc' = [disc EXCEPT ![cur_slot'] = <<>>]
     ELSE UNCHANGED <<sts, disc>>
  /\ pollPc' = IF sts' \in Ready THEN "position" ELSE "act"
  /\ UNCHANGED <<driveVars, pre_seek_sts, next_expected_slot, autoVars, trackVars,
                 shuffleVars, cmdSemaphore, media_type, audio_sts, metaVars, uiVars>>

PollPosition ==
  /\ pollPc = "position"
  /\ audio_sts' \in query_position
  /\ pollPc' = "act"
  /\ UNCHANGED <<driveVars, machineVars, slotVars, next_expected_slot, autoVars,
                 trackVars, shuffleVars, cmdSemaphore, media_type, metaVars, uiVars>>

PollOpen ==
  /\ pollPc = "act" /\ sts = "OPEN"
  /\ sts' = IF media_type # "DoorOpen" THEN "CLOSE" ELSE sts
  /\ EndPass
  /\ UNCHANGED <<driveVars, pre_seek_sts, slotVars, next_expected_slot, autoVars,
                 trackVars, shuffleVars, metaVars, uiVars>>

\* Two codes say "Unknown".  A drive that names no media gets past the first of
\* them, not past MTC_DOOR_CLOSED_UNKNOWN_ALT.
PollClose ==
  /\ pollPc = "act" /\ sts = "CLOSE"
  /\ wait_ready
  /\ cur_track' = 1 /\ abs_ts' = 0
  /\ \/ media_type = "DoorOpen" /\ sts' = "OPEN"
     \/ media_type = "Unknown" /\ sts' = "CLOSE"
     \/ media_type # "DoorOpen" /\ (media_type = "Unknown" => NoMediaCodes) /\ sts' = "LOAD"
  /\ EndPass
  /\ UNCHANGED <<driveVars, pre_seek_sts, slotVars, next_expected_slot, autoVars,
                 shuffleVars, metaVars, uiVars>>

\* Mutant: spares itself the work for a slot whose album it has.
PollLoadTocOnce ==
  /\ pollPc = "act" /\ sts = "LOAD"
  /\ media_type = "Audio" \/ NoMediaCodes
  /\ ~doorOpen /\ ~busy /\ disc_in(curDisc)
  /\ disc' = IF album = <<>> THEN [disc EXCEPT ![cur_slot] = Tracks(inSlot[curDisc])] ELSE disc
  /\ pollPc' = "push"
  /\ UNCHANGED <<driveVars, machineVars, disc_present, nslots, cur_slot,
                 next_expected_slot, autoVars, trackVars, shuffleVars, cmdSemaphore,
                 media_type, audio_sts, metaVars, uiVars>>

\* The TOC that read_toc() brings may be empty whatever is in the drive
\* (PollLoadFails).  One with tracks gives the album those that are audio: none, if
\* the disc is not the one whose medium was sampled, or the drive names no media.
PollLoadToc ==
  /\ pollPc = "act" /\ sts = "LOAD"
  /\ media_type = "Audio" \/ NoMediaCodes
  /\ ~doorOpen /\ ~busy /\ disc_in(curDisc)
  /\ disc' = [disc EXCEPT ![cur_slot] = Tracks(inSlot[curDisc])]
  /\ pollPc' = "push"
  /\ UNCHANGED <<driveVars, machineVars, disc_present, nslots, cur_slot,
                 next_expected_slot, autoVars, trackVars, shuffleVars, cmdSemaphore,
                 media_type, audio_sts, metaVars, uiVars>>

\* Mutant: a failed disc leaves the auto-play armed.
PollLoadFailsArmed ==
  /\ pollPc = "act" /\ sts = "LOAD"
  /\ sts' = IF media_type = "NoDisc" /\ ~NoMediaCodes THEN "NO_DISC" ELSE "BAD_DISC"
  /\ disc' = [disc EXCEPT ![cur_slot] = <<>>]
  /\ EndPass
  /\ UNCHANGED <<driveVars, pre_seek_sts, disc_present, nslots, cur_slot,
                 next_expected_slot, want_auto_play, auto_play_start_pos, did_see_actual_playback,
                 trackVars, shuffleVars, metaVars, uiVars>>

PollLoadFails ==
  /\ pollPc = "act" /\ sts = "LOAD"
  /\ sts' = IF media_type = "NoDisc" /\ ~NoMediaCodes THEN "NO_DISC" ELSE "BAD_DISC"
  /\ disc' = [disc EXCEPT ![cur_slot] = <<>>]
  /\ want_auto_play' = FALSE
  /\ EndPass
  /\ UNCHANGED <<driveVars, pre_seek_sts, disc_present, nslots, cur_slot,
                 next_expected_slot, auto_play_start_pos, did_see_actual_playback,
                 trackVars, shuffleVars, metaVars, uiVars>>

\* Mutant: does not take _metaSemaphore.
PollLoadPushBare ==
  /\ pollPc = "push"
  /\ Len(metaQueue) < MaxQueue
  /\ metaQueue' = Append(metaQueue, album)
  /\ cur_track' = 1
  /\ IF want_auto_play
     THEN /\ sts' = "PLAY"
          /\ want_auto_play' = FALSE
          /\ auto_play_start_pos' = 0
          /\ play(IF auto_play_start_pos = 0 /\ album # <<>> THEN album[1]
                  ELSE auto_play_start_pos, 0, FALSE)
     ELSE /\ sts' = "STOP"
          /\ UNCHANGED <<driveVars, want_auto_play, auto_play_start_pos>>
  /\ EndPass
  /\ UNCHANGED <<pre_seek_sts, slotVars, next_expected_slot, did_see_actual_playback,
                 abs_ts, shuffleVars, metaSemaphore, metaPc, uiVars>>

\* The album is queued for its metadata, then the disc starts or waits.  Of an album
\* without tracks front() is undefined: like 0, it may be any position, or none.
PollLoadPush ==
  /\ pollPc = "push"
  /\ metaSemaphore = "free"
  /\ Len(metaQueue) < MaxQueue
  /\ metaQueue' = Append(metaQueue, album)
  /\ cur_track' = 1
  /\ IF want_auto_play
     THEN /\ sts' = "PLAY"
          /\ want_auto_play' = FALSE
          /\ auto_play_start_pos' = 0
          /\ play(IF auto_play_start_pos = 0 /\ album # <<>> THEN album[1]
                  ELSE auto_play_start_pos, 0, FALSE)
     ELSE /\ sts' = "STOP"
          /\ UNCHANGED <<driveVars, want_auto_play, auto_play_start_pos>>
  /\ EndPass
  /\ UNCHANGED <<pre_seek_sts, slotVars, next_expected_slot, did_see_actual_playback,
                 abs_ts, shuffleVars, metaSemaphore, metaPc, uiVars>>

\* mech points at the status that wait_ready() asks for anew, so that the slot is
\* that after the wait; cur_slot follows in the next pass.
PollChangeDisc ==
  /\ pollPc = "act" /\ sts = "CHANGE_DISC"
  /\ wait_ready
  /\ sts' = IF next_expected_slot = curDisc THEN "LOAD" ELSE sts
  /\ EndPass
  /\ UNCHANGED <<driveVars, pre_seek_sts, slotVars, next_expected_slot, autoVars,
                 trackVars, shuffleVars, metaVars, uiVars>>

PollNoDisc ==
  /\ pollPc = "act" /\ sts = "NO_DISC"
  /\ \/ ChangeDiscs(TRUE)
     \/ /\ OtherDiscs = {}
        /\ UNCHANGED <<driveVars, machineVars, slotVars, next_expected_slot,
                       want_auto_play, auto_play_start_pos, trackVars>>
  /\ EndPass
  /\ UNCHANGED <<did_see_actual_playback, shuffleVars, metaVars, uiVars>>

PollBadDisc ==
  /\ pollPc = "act" /\ sts = "BAD_DISC"
  /\ sts' = IF media_type = "Audio" THEN "LOAD" ELSE sts
  /\ EndPass
  /\ UNCHANGED <<driveVars, pre_seek_sts, slotVars, next_expected_slot, autoVars,
                 trackVars, shuffleVars, metaVars, uiVars>>

\* Mutant: does not look what the drive is doing.
PollStopDeaf ==
  /\ pollPc = "act" /\ sts = "STOP"
  /\ abs_ts' = 0
  /\ UNCHANGED sts
  /\ EndPass
  /\ UNCHANGED <<driveVars, pre_seek_sts, slotVars, next_expected_slot, autoVars,
                 cur_track, shuffleVars, metaVars, uiVars>>

PollStop ==
  /\ pollPc = "act" /\ sts = "STOP"
  /\ abs_ts' = 0
  /\ sts' = IF audio_sts.state = "Playing" THEN "PLAY" ELSE sts
  /\ EndPass
  /\ UNCHANGED <<driveVars, pre_seek_sts, slotVars, next_expected_slot, autoVars,
                 cur_track, shuffleVars, metaVars, uiVars>>

\* The pass in PLAY.  A drive that is stopped or at the lead-out has reached the
\* end of what it was told to play, unless it has not been heard playing yet.
AtEnd == audio_sts.state = "Stopped" \/ audio_sts.track = LeadOut
SawPlayback == did_see_actual_playback \/ audio_sts.track # LeadOut
Shuffles == play_mode = "SHUFFLE" /\ Playable # {}
InPlay == pollPc = "act" /\ sts = "PLAY"

PollPlayShuffles ==
  /\ InPlay /\ AtEnd /\ Shuffles
  /\ \E i \in Playable : play(album[i], TrackEnd(i), FALSE)
  /\ shuffle_history' = NewHistory
  /\ did_see_actual_playback' = SawPlayback
  /\ EndPass
  /\ UNCHANGED <<machineVars, slotVars, next_expected_slot, want_auto_play,
                 auto_play_start_pos, trackVars, play_mode, metaVars, uiVars>>

\* Mutant: the end of the disc leaves the track number.
PollPlayEndsThere ==
  /\ InPlay /\ AtEnd /\ ~Shuffles
  /\ shuffle_history' = IF play_mode = "SHUFFLE" THEN NewHistory ELSE shuffle_history
  /\ did_see_actual_playback' = SawPlayback
  /\ \/ /\ ~SawPlayback
        /\ UNCHANGED <<driveVars, machineVars, slotVars, next_expected_slot,
                       want_auto_play, auto_play_start_pos, trackVars>>
     \/ \* the end came from the door: remember where to go on
        /\ SawPlayback /\ HasChanger /\ doorOpen
        /\ sts' = "OPEN"
        /\ auto_play_start_pos' = abs_ts
        /\ want_auto_play' = TRUE
        /\ UNCHANGED <<driveVars, pre_seek_sts, slotVars, next_expected_slot, trackVars>>
     \/ /\ SawPlayback /\ ~(HasChanger /\ doorOpen)
        /\ ChangeDiscs(TRUE)
     \/ /\ SawPlayback /\ ~(HasChanger /\ doorOpen) /\ OtherDiscs = {}
        /\ sts' = "STOP"
        /\ abs_ts' = 0 /\ UNCHANGED cur_track
        /\ UNCHANGED <<driveVars, pre_seek_sts, slotVars, next_expected_slot,
                       want_auto_play, auto_play_start_pos>>
  /\ EndPass
  /\ UNCHANGED <<play_mode, metaVars, uiVars>>

PollPlayEnds ==
  /\ InPlay /\ AtEnd /\ ~Shuffles
  /\ shuffle_history' = IF play_mode = "SHUFFLE" THEN NewHistory ELSE shuffle_history
  /\ did_see_actual_playback' = SawPlayback
  /\ \/ /\ ~SawPlayback
        /\ UNCHANGED <<driveVars, machineVars, slotVars, next_expected_slot,
                       want_auto_play, auto_play_start_pos, trackVars>>
     \/ \* the end came from the door: remember where to go on
        /\ SawPlayback /\ HasChanger /\ doorOpen
        /\ sts' = "OPEN"
        /\ auto_play_start_pos' = abs_ts
        /\ want_auto_play' = TRUE
        /\ UNCHANGED <<driveVars, pre_seek_sts, slotVars, next_expected_slot, trackVars>>
     \/ /\ SawPlayback /\ ~(HasChanger /\ doorOpen)
        /\ ChangeDiscs(TRUE)
     \/ /\ SawPlayback /\ ~(HasChanger /\ doorOpen) /\ OtherDiscs = {}
        /\ sts' = "STOP"
        /\ cur_track' = 1 /\ abs_ts' = 0
        /\ UNCHANGED <<driveVars, pre_seek_sts, slotVars, next_expected_slot,
                       want_auto_play, auto_play_start_pos>>
  /\ EndPass
  /\ UNCHANGED <<play_mode, metaVars, uiVars>>

PollPlayGoesOn ==
  /\ InPlay /\ ~AtEnd
  /\ did_see_actual_playback' = TRUE
  /\ IF audio_sts.state = "Paused"
     THEN sts' = "PAUSE" /\ UNCHANGED trackVars
     ELSE cur_track' = audio_sts.track /\ abs_ts' = audio_sts.track /\ UNCHANGED sts
  /\ EndPass
  /\ UNCHANGED <<driveVars, pre_seek_sts, slotVars, next_expected_slot, want_auto_play,
                 auto_play_start_pos, shuffleVars, metaVars, uiVars>>

\* PAUSE and the seeks follow the drive; a drive that cannot scan is told to hop
\* over to a later or an earlier position, which may lie beyond the last track.
PollFollows ==
  /\ pollPc = "act" /\ sts \in {"PAUSE"} \cup Seeking
  /\ cur_track' = audio_sts.track /\ abs_ts' = audio_sts.track
  /\ \/ UNCHANGED driveVars
     \/ /\ sts \in Seeking /\ MustSoftscan
        /\ \E t \in Numbers(album) \cup {LeadOut} :
             /\ IF sts = "SEEK_FF" THEN t >= abs_ts' ELSE t <= abs_ts'
             /\ play(t, 0, FALSE)
  /\ EndPass
  /\ UNCHANGED <<machineVars, slotVars, next_expected_slot, autoVars, shuffleVars,
                 metaVars, uiVars>>

Poll ==
  \/ PollBegin \/ PollInit \/ PollMech \/ PollPosition
  \/ PollOpen \/ PollClose \/ PollLoadToc \/ PollLoadFails \/ PollLoadPush
  \/ PollChangeDisc \/ PollNoDisc \/ PollBadDisc
  \/ PollStop \/ PollPlayShuffles \/ PollPlayEnds \/ PollPlayGoesOn \/ PollFollows

-----------------------------------------------------------------------------
(* The metadata task: process_metadata_queue().  The album stays at the head *)
(* of the queue, and the semaphore stays taken, while the providers work.    *)

MetaBegin ==
  /\ metaPc = "idle"
  /\ metaSemaphore = "free"
  /\ metaQueue # <<>>
  /\ metaSemaphore' = "meta"
  /\ metaPc' = "fetch"
  /\ UNCHANGED <<driveVars, machineVars, slotVars, next_expected_slot, autoVars,
                 trackVars, shuffleVars, cmdSemaphore, pollVars, metaQueue, uiVars>>

\* Mutant: does not give _metaSemaphore back.
MetaEndHolds ==
  /\ metaPc = "fetch"
  /\ metaQueue' = Tail(metaQueue)
  /\ UNCHANGED metaSemaphore
  /\ metaPc' = "idle"
  /\ UNCHANGED <<driveVars, machineVars, slotVars, next_expected_slot, autoVars,
                 trackVars, shuffleVars, cmdSemaphore, pollVars, uiVars>>

MetaEnd ==
  /\ metaPc = "fetch"
  /\ metaQueue' = Tail(metaQueue)
  /\ metaSemaphore' = "free"
  /\ metaPc' = "idle"
  /\ UNCHANGED <<driveVars, machineVars, slotVars, next_expected_slot, autoVars,
                 trackVars, shuffleVars, cmdSemaphore, pollVars, uiVars>>

-----------------------------------------------------------------------------
(* The UI task under _cmdSemaphore: do_command(), one action per command.    *)
(* A command that its state has no use for changes nothing.                  *)

Commands(states) == uiPc = "idle" /\ cmdSemaphore = "free" /\ sts \in states
AfterCommand == UNCHANGED <<nslots, disc, disc_present, cur_slot, play_mode,
                            cmdSemaphore, pollVars, metaVars, uiVars>>

\* OPEN, CLOSE and OPEN_CLOSE.
Tray(open) ==
  /\ Commands(State \ {"INIT", "CHANGE_DISC", "LOAD"})
  /\ sts' = IF open THEN "OPEN" ELSE "CLOSE"
  /\ eject(open)
  /\ UNCHANGED <<pre_seek_sts, next_expected_slot, autoVars, trackVars, shuffle_history>>
  /\ AfterCommand

PlayFromOpen ==
  /\ Commands({"OPEN"})
  /\ want_auto_play' = TRUE
  /\ sts' = "CLOSE"
  /\ eject(FALSE)
  /\ UNCHANGED <<pre_seek_sts, next_expected_slot, auto_play_start_pos,
                 did_see_actual_playback, trackVars, shuffle_history>>
  /\ AfterCommand

\* In shuffle mode PLAY draws a track, unless another one than the first has
\* been picked; the draw's own entry in the history is dropped again.
PlayFromStop ==
  /\ Commands({"STOP"})
  /\ did_see_actual_playback' = FALSE
  /\ IF play_mode = "SHUFFLE" /\ cur_track = 1
     THEN /\ shuffle_history' = {}
          /\ \/ \E i \in Playable : play(album[i], TrackEnd(i), FALSE) /\ sts' = "PLAY"
             \/ Playable = {} /\ UNCHANGED <<driveVars, sts>>
     ELSE /\ UNCHANGED shuffle_history
          /\ IF album # <<>>
             THEN /\ sts' = "PLAY"
                  /\ play(album[IF cur_track <= Len(album) THEN cur_track ELSE 1], 0, FALSE)
             ELSE UNCHANGED <<driveVars, sts>>
  /\ UNCHANGED <<pre_seek_sts, next_expected_slot, want_auto_play, auto_play_start_pos,
                 trackVars>>
  /\ AfterCommand

\* PLAY or PAUSE in PAUSE, PLAY in a seek.
Resume ==
  /\ Commands({"PAUSE"} \cup Seeking)
  /\ sts' = "PLAY"
  /\ play(abs_ts, 0, FALSE)
  /\ UNCHANGED <<pre_seek_sts, next_expected_slot, autoVars, trackVars, shuffle_history>>
  /\ AfterCommand

Pause ==
  /\ Commands({"PLAY"})
  /\ sts' = "PAUSE"
  /\ pause(TRUE)
  /\ UNCHANGED <<pre_seek_sts, next_expected_slot, autoVars, trackVars, shuffle_history>>
  /\ AfterCommand

Stop ==
  /\ Commands({"PLAY", "PAUSE"} \cup Seeking)
  /\ sts' = "STOP"
  /\ cur_track' = 1
  /\ stop
  /\ UNCHANGED <<pre_seek_sts, next_expected_slot, autoVars, abs_ts, shuffle_history>>
  /\ AfterCommand

\* start_seeking(); against the direction of a seek it starts from where that
\* seek had started.
Seek(forward) ==
  LET dir == IF forward THEN "SEEK_FF" ELSE "SEEK_REW" IN
  /\ Commands({"PLAY", "PAUSE"} \cup (Seeking \ {dir}))
  /\ pre_seek_sts' = IF sts \in Seeking THEN pre_seek_sts ELSE sts
  /\ sts' = dir
  /\ IF ~MustSoftscan THEN scan
     ELSE IF pre_seek_sts' = "PAUSE" THEN pause(FALSE) ELSE UNCHANGED driveVars
  /\ UNCHANGED <<next_expected_slot, autoVars, trackVars, shuffle_history>>
  /\ AfterCommand

\* END_SEEK, or the command of the same direction once more.
EndSeek ==
  /\ Commands(Seeking)
  /\ IF pre_seek_sts = "PLAY" THEN play(abs_ts, 0, FALSE) /\ sts' = "PLAY"
     ELSE pause(TRUE) /\ sts' = "PAUSE"
  /\ UNCHANGED <<pre_seek_sts, next_expected_slot, autoVars, trackVars, shuffle_history>>
  /\ AfterCommand

\* navigate_to_track(t) as change_tracks() calls it.
Navigate(t) ==
  \/ /\ t \notin DOMAIN album
     /\ UNCHANGED <<driveVars, cur_track>>
  \/ /\ t \in DOMAIN album /\ sts # "STOP"
     /\ play(album[t], 0, sts = "PAUSE")
     /\ UNCHANGED cur_track
  \/ /\ t \in DOMAIN album /\ sts = "STOP"
     /\ cur_track' = t
     /\ UNCHANGED driveVars

TrackCommand(states) ==
  /\ Commands(states)
  /\ album # <<>>
  /\ UNCHANGED <<pre_seek_sts, next_expected_slot, autoVars, abs_ts>>
  /\ AfterCommand

NextTrack ==
  LET next == IF cur_track + 1 <= Len(album) THEN cur_track + 1 ELSE Len(album) IN
  /\ TrackCommand({"STOP", "PLAY", "PAUSE"})
  /\ play_mode = "CONTINUE" \/ sts = "STOP"
  /\ next # cur_track
  /\ Navigate(next)
  /\ UNCHANGED <<sts, shuffle_history>>

\* In shuffle mode change_tracks() draws the next track and then navigates to
\* next_trk_no, which nothing has initialized: it may name any track or none.
NextShuffled ==
  /\ TrackCommand({"PLAY", "PAUSE"})
  /\ play_mode = "SHUFFLE"
  /\ shuffle_history' = NewHistory
  /\ sts' = IF Playable # {} THEN "PLAY" ELSE sts
  /\ \/ \E next_trk_no \in DOMAIN album : play(album[next_trk_no], 0, sts' = "PAUSE")
     \/ \E i \in Playable : play(album[i], TrackEnd(i), FALSE)
     \/ Playable = {} /\ UNCHANGED driveVars
  /\ UNCHANGED cur_track

\* Late in a track PREV goes to its start; early in it, or stopped, to the one
\* before.  rel_ts, which tells the two apart, is left to chance.
PrevTrack ==
  /\ TrackCommand({"STOP", "PLAY", "PAUSE"})
  /\ UNCHANGED sts
  /\ \/ /\ sts # "STOP"
        /\ Navigate(cur_track)
        /\ UNCHANGED shuffle_history
     \/ /\ play_mode = "CONTINUE" \/ sts = "STOP"
        /\ Navigate(IF cur_track >= 2 THEN cur_track - 1 ELSE 1)
        /\ UNCHANGED shuffle_history
     \/ /\ play_mode = "SHUFFLE" /\ sts # "STOP"
        /\ \E last \in shuffle_history :
             /\ \A t \in shuffle_history : t <= last
             /\ shuffle_history' = shuffle_history \ {last}
             /\ Navigate(last)

DiscCommand(forward) ==
  /\ Commands({"NO_DISC", "BAD_DISC", "STOP", "PLAY", "PAUSE"})
  /\ ChangeDiscs(forward)
  /\ UNCHANGED <<did_see_actual_playback, shuffle_history>>
  /\ UNCHANGED <<play_mode, cmdSemaphore, pollVars, metaVars, uiVars>>

Command ==
  \/ \E open \in BOOLEAN : Tray(open)
  \/ PlayFromOpen \/ PlayFromStop \/ Resume \/ Pause \/ Stop
  \/ \E forward \in BOOLEAN : Seek(forward)
  \/ EndSeek \/ NextTrack \/ NextShuffled \/ PrevTrack
  \/ \E forward \in BOOLEAN : DiscCommand(forward)

-----------------------------------------------------------------------------
(* The UI task without _cmdSemaphore: between two of these steps the poll    *)
(* task may run.                                                             *)

BesideUi == UNCHANGED <<machineVars, slotVars, next_expected_slot, autoVars, abs_ts,
                        cmdSemaphore, pollVars, metaVars>>

\* navigate_to_track(t), for a number entered on the remote.
NavBegin ==
  /\ uiPc = "idle"
  /\ \E t \in DOMAIN album :
       IF sts = "STOP"
       THEN cur_track' = t /\ UNCHANGED uiVars
       ELSE uiPc' = "nav" /\ uiTrack' = album[t] /\ UNCHANGED cur_track
  /\ UNCHANGED <<driveVars, shuffleVars>>
  /\ BesideUi

NavPlay ==
  /\ uiPc = "nav"
  /\ play(uiTrack, 0, FALSE)
  /\ uiPc' = "hold" /\ uiTrack' = 0
  /\ UNCHANGED <<cur_track, shuffleVars>>
  /\ BesideUi

NavHold ==
  /\ uiPc = "hold"
  /\ IF sts = "PAUSE" THEN pause(TRUE) ELSE UNCHANGED driveVars
  /\ uiPc' = "idle"
  /\ UNCHANGED <<uiTrack, cur_track, shuffleVars>>
  /\ BesideUi

\* set_play_mode() to the other mode.  The current track is queued anew: to its
\* own end for shuffling, to the end of the disc for going on.  The start of the
\* next track is read at index cur_track whether or not there is one.
OtherMode == IF play_mode = "SHUFFLE" THEN "CONTINUE" ELSE "SHUFFLE"
RequeueEnd ==
  IF OtherMode = "CONTINUE" \/ cur_track = Len(album) THEN {0}
  ELSE IF cur_track < Len(album) THEN {album[cur_track + 1]}
  ELSE {0} \cup Numbers(album)

ModeBegin ==
  /\ uiPc = "idle"
  /\ IF sts \in {"PLAY", "PAUSE"}
     THEN /\ \E end \in RequeueEnd : play(abs_ts, end, FALSE)
          /\ uiPc' = "mode"
          /\ UNCHANGED play_mode
     ELSE /\ play_mode' = OtherMode
          /\ UNCHANGED <<driveVars, uiPc>>
  /\ shuffle_history' = IF OtherMode = "SHUFFLE" THEN {} ELSE shuffle_history
  /\ UNCHANGED <<uiTrack, cur_track>>
  /\ BesideUi

ModeEnd ==
  /\ uiPc = "mode"
  /\ IF sts = "PAUSE" THEN pause(TRUE) ELSE UNCHANGED driveVars
  /\ play_mode' = OtherMode
  /\ shuffle_history' = IF OtherMode = "CONTINUE" THEN {} ELSE shuffle_history
  /\ uiPc' = "idle"
  /\ UNCHANGED <<uiTrack, cur_track>>
  /\ BesideUi

(* CDMode::teardown(): stop, take both tasks down, power the drive down.     *)

TearStop ==
  /\ Commands(State)
  /\ IF sts \in {"PLAY", "PAUSE"} \cup Seeking
     THEN sts' = "STOP" /\ cur_track' = 1 /\ stop
     ELSE UNCHANGED <<driveVars, sts, cur_track>>
  /\ uiPc' = "stopped"
  /\ UNCHANGED <<pre_seek_sts, slotVars, next_expected_slot, autoVars, abs_ts, shuffleVars,
                 cmdSemaphore, pollVars, metaVars, uiTrack>>

\* Mutant: deletes the poll task without waiting for it.
TearPollBare ==
  /\ uiPc = "stopped"
  /\ cmdSemaphore' = "ui"
  /\ pollPc' = "gone"
  /\ uiPc' = "polldown"
  /\ UNCHANGED <<driveVars, machineVars, slotVars, next_expected_slot, autoVars, trackVars,
                 shuffleVars, media_type, audio_sts, metaVars, uiTrack>>

TearPoll ==
  /\ uiPc = "stopped"
  /\ cmdSemaphore = "free"
  /\ cmdSemaphore' = "ui"
  /\ pollPc' = "gone"
  /\ uiPc' = "polldown"
  /\ UNCHANGED <<driveVars, machineVars, slotVars, next_expected_slot, autoVars, trackVars,
                 shuffleVars, media_type, audio_sts, metaVars, uiTrack>>

TearMeta ==
  /\ uiPc = "polldown"
  /\ metaSemaphore = "free"
  /\ metaSemaphore' = "ui"
  /\ metaPc' = "gone"
  /\ stop
  /\ uiPc' = "off"
  /\ UNCHANGED <<machineVars, slotVars, next_expected_slot, autoVars, trackVars,
                 shuffleVars, cmdSemaphore, pollVars, metaQueue, uiTrack>>

\* The mode is entered again: a new Player meets the drive as it is.
Construct ==
  /\ uiPc = "off"
  /\ sts' = "INIT" /\ pre_seek_sts' = "INIT"
  /\ disc' = [i \in Slot |-> <<>>]
  /\ disc_present' = [i \in Slot |-> FALSE]
  /\ nslots' = 1
  /\ cur_slot' = 0 /\ next_expected_slot' = 0
  /\ want_auto_play' = FALSE
  /\ did_see_actual_playback' = FALSE
  /\ auto_play_start_pos' = 0
  /\ shuffle_history' = {} /\ play_mode' = "CONTINUE"
  /\ cur_track' = 1 /\ abs_ts' = 0
  /\ cmdSemaphore' = "free" /\ metaSemaphore' = "free"
  /\ metaQueue' = <<>>
  /\ pollPc' = "idle" /\ media_type' = "Unknown" /\ audio_sts' = NoPosition
  /\ metaPc' = "idle"
  /\ uiPc' = "idle" /\ uiTrack' = 0
  /\ UNCHANGED driveVars

Ui ==
  \/ Command
  \/ NavBegin \/ NavPlay \/ NavHold \/ ModeBegin \/ ModeEnd
  \/ TearStop \/ TearPoll \/ TearMeta \/ Construct

-----------------------------------------------------------------------------
(* The drive and the hands at it.  A pass asks for the medium and the        *)
(* mechanism at once; to close a tray takes longer, so that the open tray    *)
(* has been noticed by then, except in the states whose passes wait: for the *)
(* drive, for the TOC (21 attempts, a second and more each), for the         *)
(* metadata task.  In these the tray comes and goes between any two steps.   *)

Unhurried == {"INIT", "OPEN", "CLOSE", "LOAD", "CHANGE_DISC"}

Environment ==
  /\ \/ DriveReady \/ DriveStarts \/ DriveAdvances \/ DriveScans
     \/ PanelPlays \/ PanelPauses
     \/ HandOpens \/ HandSwaps
     \/ (sts \in Unhurried \/ pollPc = "gone") /\ HandCloses
  /\ UNCHANGED playerVars

Next == Poll \/ MetaBegin \/ MetaEnd \/ Ui \/ Environment

Spec == Init /\ [][Next]_vars

\* The scheduler runs every task that can run, a waiting task gets a semaphore
\* that is given again and again, the drive finishes what it has begun, and the
\* poll task asks it for its readiness faster than hands can work it.
Fairness ==
  /\ SF_vars(Poll)
  /\ SF_vars(MetaBegin) /\ WF_vars(MetaEnd)
  /\ WF_vars(NavPlay) /\ WF_vars(NavHold) /\ WF_vars(ModeEnd)
  /\ SF_vars(TearPoll) /\ SF_vars(TearMeta)
  /\ WF_vars(DriveReady /\ UNCHANGED playerVars)
  /\ WF_vars(DriveStarts /\ UNCHANGED playerVars)

FairSpec == Spec /\ Fairness

-----------------------------------------------------------------------------
(* Safety *)

\* A pending auto-play belongs to a disc that is still on its way.  Once a disc
\* is ready, or has turned out not to be, none is left that a later disc could
\* be started by.
AutoPlayPending == want_auto_play => sts \in {"OPEN", "CLOSE", "LOAD", "CHANGE_DISC"}

\* What PLAY would start in STOP is a track of the album, whatever number the
\* drive reported last (the lead-out, the number of a track after a data track).
StoppedTrackSelectable ==
  sts = "STOP" /\ album # <<>> => cur_track \in DOMAIN album

\* While the player waits in CHANGE_DISC the changer is bringing just the slot
\* that it waits for.  Commands are not taken there, so that, an opened tray apart,
\* only the arrival of that slot ends the state.
ChangeIsHeadedThere == sts = "CHANGE_DISC" => next_expected_slot = target

\* teardown_tasks() deletes no task in the middle of its work, when it could
\* leave the device's semaphore or the other one taken forever.
NoTaskKilledMidway ==
  [][/\ pollPc' = "gone" => pollPc \in {"idle", "gone"}
     /\ metaPc' = "gone" => metaPc \in {"idle", "gone"}]_vars

\* The poll task never touches the queue, which is not thread safe, while the
\* metadata task is at work on its head.
QueueNotSharedDuringFetch ==
  [][metaPc = "fetch" => metaQueue' \in {metaQueue, Tail(metaQueue)}]_vars

-----------------------------------------------------------------------------
(* What the project says of the player, and what the player does not do *)

\* Pressing PLAY when stopped starts the disc.  In shuffle mode no track may be
\* left to draw: the current one counts as played, and the history is cleared
\* only afterwards.
PlayStarts == [][PlayFromStop /\ album # <<>> => sts' = "PLAY"]_vars

\* "Play all tracks and discs in sequence": no disc is left while it is still
\* starting.  did_see_actual_playback, which is there to prevent it, is not reset
\* when a disc is started by auto-play.
NoDiscSkipped ==
  [][sts = "PLAY" /\ cmdSemaphore = "poll" /\ sts' = "CHANGE_DISC" => audio # "Starting"]_vars

\* "Shuffle all tracks on the disc": in shuffle mode no track begins because it comes
\* after another on the disc.  The drive is told to stop where a drawn track ends, "to
\* receive EOP events properly"; going on after a pause it is told the end of the disc.
TracksAreDrawn ==
  [][play_mode = "SHUFFLE" /\ sts = "PLAY" /\ DriveAdvances => pos' = LeadOut]_vars

\* "The CD is not really useful as we cannot seem to read or play it": what LOAD lets
\* pass has something to play.  It asks whether the TOC has tracks, the album takes
\* only those of audio; a drive that names no media is not asked for a disc of audio.
ReadyIsPlayable == sts \in Ready => album # <<>>

-----------------------------------------------------------------------------
(* Liveness *)

Leaving == uiPc \in {"stopped", "polldown", "off"}

\* The states that take no commands end by themselves, unless the mode is left.
LoadingEnds ==
  \A s \in {"INIT", "LOAD", "CHANGE_DISC"} : sts = s ~> sts # s \/ Leaving

\* A drive that plays while the player stands in STOP, after the player lost a
\* race with it or because of its own buttons, is noticed.
PlayingIsNoticed ==
  sts = "STOP" /\ audio = "Playing" ~> sts # "STOP" \/ audio # "Playing" \/ Leaving

\* Leaving the CD mode comes to its end.
TeardownEnds == uiPc = "stopped" ~> uiPc = "off"

=============================================================================
