----------------------------- MODULE MCCDPlayer -----------------------------
(* Instances of CDPlayer for TLC. *)
EXTENDS CDPlayer

\* The discs: two tracks, or data alone; a single track.
MCDiscs == {<<1, 2>>, <<>>}
MCSingles == {<<1>>}

\* Two states that differ only in what nobody reads before it is set again are
\* one to TLC: a sample that the rest of the pass has no use for, where an idle
\* changer was told to go, the content of a queue of albums.
MCView ==
  <<driveVars, sts, IF sts \in Seeking THEN pre_seek_sts ELSE "INIT",
    slotVars, IF sts = "CHANGE_DISC" THEN next_expected_slot ELSE 0, autoVars,
    trackVars, IF play_mode = "SHUFFLE" \/ uiPc = "mode" THEN shuffle_history ELSE {},
    play_mode, cmdSemaphore, metaSemaphore, Len(metaQueue), metaPc, uiVars,
    pollPc,
    IF pollPc = "mech" \/ sts \in {"OPEN", "CLOSE", "LOAD", "BAD_DISC"}
      THEN media_type ELSE "Unknown",
    audio_sts.state, IF sts = "STOP" THEN 0 ELSE audio_sts.track>>

\* The drive's own buttons stay untouched.
NoPanel == audio' \notin {"Playing", "Paused"} \/ audio' = audio \/ audio = "Starting"

\* The single drive stays in the CD mode: who leaves it stops the disc first,
\* and the liveness instance follows that to its end.  Once a disc is ready, the
\* metadata task is done with it before anything but a pass of the poll task
\* happens; the other instances mix the two.
MetaDone == metaQueue = <<>> /\ metaPc = "idle"
SingleNext ==
  \/ Poll \/ MetaBegin \/ MetaEnd
  \/ /\ sts \in Ready => MetaDone
     /\ \/ Command \/ NavBegin \/ NavPlay \/ NavHold \/ ModeBegin \/ ModeEnd
        \/ Environment
SingleSpec == Init /\ [][SingleNext]_vars

DiscsStay == inSlot' = inSlot
LiveInit == Init /\ (\A i \in Slot : inSlot[i] # NoDisc)

\* For the liveness properties: one disc that stays in the drive, the keys that
\* move the tray and start and stop the disc or pick a track, and the panel.
LiveNext ==
  \/ Poll \/ MetaBegin \/ MetaEnd
  \/ \E open \in BOOLEAN : Tray(open)
  \/ PlayFromStop \/ Pause \/ Resume \/ Stop
  \/ NavBegin \/ NavPlay \/ NavHold
  \/ Environment /\ DiscsStay

\* A changer that stays shut but for a hand at its tray.
ChangerLiveNext ==
  \/ Poll \/ MetaBegin \/ MetaEnd
  \/ \E forward \in BOOLEAN : DiscCommand(forward)
  \/ PlayFromOpen \/ PlayFromStop \/ Pause \/ Resume \/ Stop
  \/ Environment /\ DiscsStay /\ NoPanel
ChangerLiveSpec == LiveInit /\ [][ChangerLiveNext]_vars /\ Fairness

\* Nothing but PLAY in STOP is pressed: all else the player starts by itself.
PlayOnNext ==
  \/ Poll \/ MetaBegin \/ MetaEnd
  \/ PlayFromStop
  \/ Environment /\ DiscsStay /\ NoPanel
PlayOnSpec == LiveInit /\ [][PlayOnNext]_vars

\* The same with PAUSE, once the player has seen the track, and with the mode chosen
\* while it is stopped.
PauseNext ==
  \/ PlayOnNext
  \/ abs_ts = pos /\ Pause
  \/ Resume
  \/ sts = "STOP" /\ ModeBegin
PauseSpec == LiveInit /\ [][PauseNext]_vars

====
