----------------------------- MODULE TrayHistory -----------------------------
(***************************************************************************)
(* CDPlayer with a history variable: whether the tray was shut while a     *)
(* pass of the poll task was busy with what had been in it before.  It     *)
(* records and constrains nothing; what the player shows of a disc can be  *)
(* told right from stale only by it.                                       *)
(***************************************************************************)
EXTENDS CDPlayer

VARIABLE shutAfter  \* what the pass that loads the disc had just read when the tray was shut

historyVars == <<vars, shutAfter>>

\* What the pass under way has read of the disc last: its medium with check_media(),
\* then the table of contents.
LastRead ==
  IF pollPc = "push" THEN {"toc"}
  ELSE IF pollPc \in {"mech", "act"} THEN {"medium"} ELSE {}

TrayShuts == doorOpen /\ ~doorOpen'
LoadBegins == sts = "LOAD" /\ pollPc = "idle" /\ pollPc' = "mech"

Record ==
  shutAfter' = IF TrayShuts THEN shutAfter \cup LastRead
               ELSE IF LoadBegins THEN {} ELSE shutAfter

HistoryInit == Init /\ shutAfter = {}
HistoryNext == Next /\ Record
HistorySpec == HistoryInit /\ [][HistoryNext]_historyVars

-----------------------------------------------------------------------------

\* A disc that is ready is shown as what it is: the album of the active slot is that
\* of the disc at the head, filed under the slot that it is in, however changer, hands
\* and keys come between the three looks of LOAD at it (slot, medium, TOC) and until
\* the open tray is noticed.  Only a tray that was shut after the TOC had been read,
\* while LOAD waited for the metadata task, leaves the album of the disc before; and
\* only one that was shut after the medium had been looked at, in the slow attempts
\* of read_toc(), lets a disc without audio pass, as does a drive that names no media.
AlbumOfItsDisc ==
  sts \in Ready /\ pollPc # "gone" =>
    /\ ~doorOpen /\ "toc" \notin shutAfter =>
         cur_slot = curDisc /\ album = Tracks(inSlot[curDisc])
    /\ "medium" \notin shutAfter => NoMediaCodes \/ album # <<>>

=============================================================================
