---------------------------- MODULE MCTrayHistory ----------------------------
(* The changer, an instance of TrayHistory for TLC. *)
EXTENDS MCCDPlayer, TrayHistory

\* Two discs that differ, and one of data.  The second has one track after a track of
\* data, where the number of a track is not its place in the album.
MCAll == {<<1>>, <<2>>, <<>>}

MCHistoryView == <<MCView, shutAfter>>

\* All commands but seeking, which is left to `single' with the panel and the calls that
\* do without the lock: none of them changes discs or albums.  The last slot holds a disc
\* for good, the others are given the other one, data or nothing.
Stock ==
  {s \in [Slot -> Discs \cup {NoDisc}] : \A i \in Slot : s[i] = <<2>> <=> i = SlotCount - 1}
ChangerNext ==
  \/ Poll \/ MetaBegin \/ MetaEnd
  \/ Command /\ sts' \notin Seeking
  \/ Environment /\ NoPanel
ChangerSpec ==
  /\ HistoryInit /\ inSlot \in Stock
  /\ [][ChangerNext /\ inSlot' \in Stock /\ Record]_historyVars

=============================================================================
