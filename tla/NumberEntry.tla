----------------------------- MODULE NumberEntry -----------------------------
(***************************************************************************)
(* The number of a track as it is typed on the remote control: the digits, *)
(* ENTER and PLAY in CDMode::on_remote_key_pressed(), the time that runs   *)
(* out in CDMode::loop(), the keys of the tracks while the player stands.  *)
(* The player loads, plays and stops, and the disc changes, between them.  *)
(***************************************************************************)
EXTENDS Integers, FiniteSetsExt

CONSTANTS
  Digits,   \* that are typed
  Sizes,    \* numbers of tracks that a disc may have
  MaxTyped  \* bound of what is typed in a row

ASSUME EntryAssumption == Digits \subseteq 0 .. 9 /\ Sizes \subseteq 0 .. 99 /\ MaxTyped \in Nat

VARIABLES
  mode_sts,  \* of the player: "STOP", "PLAY" (or pause, or seeking), "other"
  size,      \* tracks->size() of the disc in the active slot
  entered_digits,
  since,     \* since last_digit_time: "less" than digit_timeout, "as_long", "more"; "zero"
  must_show_title_stopped,
  typed,     \* digits typed in a row, as a number: history of the model
  offered,   \* the tracks there were when the last of them was typed: history
  went       \* the number last gone to, what was typed, the tracks offered: history

entryVars == <<mode_sts, size, entered_digits, since, must_show_title_stopped, typed, offered, went>>

-----------------------------------------------------------------------------
\* commit_entered_digits(); navigate_to_track() leaves a number alone that is no track's.
CommitNumber(number, row, tracks) ==
  /\ went' = IF number \in 1 .. size THEN [number |-> number, typed |-> row, size |-> tracks] ELSE went
  /\ must_show_title_stopped' = (must_show_title_stopped \/ mode_sts = "STOP")
  /\ entered_digits' = 0 /\ since' = "zero" /\ typed' = 0 /\ offered' = tracks
  /\ UNCHANGED <<mode_sts, size>>

\* Mutant: the last track's number is taken for a typo too.
LastIsTypo(number, digit) == IF number >= size THEN digit ELSE number

\* The number with a digit more; "is the user fixing a typo?"
Entered(number, digit) == IF number > size THEN digit ELSE number

\* One digit: gone to at once when no other could follow.
DigitKey ==
  \E digit \in Digits :
    LET begun == since = "less"
        row == (IF begun THEN typed * 10 ELSE 0) + digit
        number == Entered((IF begun THEN entered_digits * 10 ELSE 0) + digit, digit)
    IN  /\ row <= MaxTyped
        /\ IF number * 10 > size THEN CommitNumber(number, row, size)
           ELSE /\ entered_digits' = number /\ since' = "less" /\ typed' = row /\ offered' = size
                /\ UNCHANGED <<mode_sts, size, must_show_title_stopped, went>>

\* ENTER or PLAY after digits, late as they may be
EnterKey == entered_digits # 0 /\ CommitNumber(entered_digits, typed, offered)

\* prev_trk_button(), next_trk_button(): the first time only the title is shown.
TrackButton ==
  /\ mode_sts = "STOP"
  /\ must_show_title_stopped' = TRUE
  /\ UNCHANGED <<mode_sts, size, entered_digits, since, typed, offered, went>>

\* A pass of loop(), as far as the number and the title go
EntryPass ==
  IF mode_sts = "other"
  THEN /\ must_show_title_stopped' = FALSE /\ entered_digits' = 0 /\ typed' = 0
       /\ UNCHANGED <<mode_sts, size, since, offered, went>>
  ELSE IF entered_digits # 0 /\ since = "more" THEN CommitNumber(entered_digits, typed, offered)
  ELSE /\ must_show_title_stopped' = (must_show_title_stopped /\ mode_sts = "STOP")
       /\ UNCHANGED <<mode_sts, size, entered_digits, since, typed, offered, went>>

-----------------------------------------------------------------------------
ClockRuns ==
  /\ since' = CASE since = "less" -> "as_long" [] since = "as_long" -> "more" [] OTHER -> since
  /\ UNCHANGED <<mode_sts, size, entered_digits, must_show_title_stopped, typed, offered, went>>

\* Plays, stops, opens; while it does neither of the first two the disc may change.
PlayerMoves ==
  /\ mode_sts' \in {"STOP", "PLAY", "other"}
  /\ size' \in IF mode_sts = "other" THEN Sizes ELSE {size}
  /\ UNCHANGED <<entered_digits, since, must_show_title_stopped, typed, offered, went>>

EntryInit ==
  /\ mode_sts = "other" /\ size = 0
  /\ entered_digits = 0 /\ since = "zero" /\ must_show_title_stopped = FALSE
  /\ typed = 0 /\ offered = 0 /\ went = [number |-> 0, typed |-> 0, size |-> 0]

EntryNext == DigitKey \/ EnterKey \/ TrackButton \/ EntryPass \/ ClockRuns \/ PlayerMoves

EntrySpec == EntryInit /\ [][EntryNext]_entryVars

-----------------------------------------------------------------------------
(* Properties *)

\* The track that is gone to is the one that was typed: of the last digits typed in a
\* row, as many as make the number of a track of the disc that they were typed for,
\* however long one waits and whichever disc it is gone to on.
EndsOf(row) == {row % 10, row % 100, row % 1000}
NumberAsTyped == went.number = Max({n \in EndsOf(went.typed) : n <= went.size})

=============================================================================
