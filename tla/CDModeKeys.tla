----------------------------- MODULE CDModeKeys -----------------------------
(***************************************************************************)
(* The keys of the CD mode: the Button objects (keypad.cpp) and the chain  *)
(* of questions that CDMode::loop() asks them (cd_mode.cpp).  Each         *)
(* question reads the keypad's last value anew and changes the state of    *)
(* the button; keys go down and up, and time passes, between two of them.  *)
(* The player and the remote control are the environment.                  *)
(***************************************************************************)
EXTENDS Naturals, Sequences

CONSTANT KeysInUse  \* the keys that are pressed

Keys == {"stopEject", "playPause", "rewind", "forward", "prevTrackDisc", "nextTrackDisc", "playMode"}

ASSUME KeysAssumption == KeysInUse \subseteq Keys

VARIABLES
  down,       \* the keys that the keypad's last value shows pressed
  button,     \* key -> its Button
  question,   \* the next one of the chain, 0 before the pass
  sts,        \* of the player
  pre_seek,   \* pre_seek_sts
  sts_now,    \* what the pass has read of sts
  seek_from_button,
  answers     \* key -> commands given since it was pressed: history of the model

chainVars == <<button, question, sts_now, seek_from_button>>
keyVars == <<down, chainVars, sts, pre_seek, answers>>

Seeking == {"SEEK_FF", "SEEK_REW"}
Playing == {"PLAY", "PAUSE"} \cup Seeking

-----------------------------------------------------------------------------
(* Button *)

\* cur_state, the two flags, and whether changed_at is 500 ms ago
Up == [cur_state |-> FALSE, click_flag |-> FALSE, hold_flag |-> FALSE, long |-> FALSE]

\* Mutant: a key that was held is clicked when it goes up.
get_state_click(b, pressed) ==
  LET now == IF b.cur_state # pressed THEN [b EXCEPT !.cur_state = pressed, !.long = FALSE] ELSE b
      After(state, click, hold) ==
        [state |-> state, button |-> [now EXCEPT !.click_flag = click, !.hold_flag = hold]]
  IN  CASE pressed /\ now.long -> After(IF b.hold_flag THEN "HOLD_CONTINUES" ELSE "HELD", b.click_flag, TRUE)
        [] pressed /\ ~now.long -> After("PRESSED", TRUE, b.hold_flag)
        [] OTHER -> After(IF b.click_flag THEN "CLICKED" ELSE "RELEASED", FALSE, FALSE)

get_state(b, pressed) ==
  LET now == IF b.cur_state # pressed THEN [b EXCEPT !.cur_state = pressed, !.long = FALSE] ELSE b
      After(state, click, hold) ==
        [state |-> state, button |-> [now EXCEPT !.click_flag = click, !.hold_flag = hold]]
  IN  CASE pressed /\ now.long -> After(IF b.hold_flag THEN "HOLD_CONTINUES" ELSE "HELD", FALSE, TRUE)
        [] pressed /\ ~now.long -> After("PRESSED", TRUE, b.hold_flag)
        [] OTHER -> After(IF b.click_flag THEN "CLICKED" ELSE "RELEASED", FALSE, FALSE)

\* is_clicked(), is_held() and is_pressed() as sets of states
Clicked == {"CLICKED"}
Held == {"HELD"}
Pressed == {"PRESSED", "HELD", "HOLD_CONTINUES"}
NotPressed == {"CLICKED", "RELEASED"}

-----------------------------------------------------------------------------
(* The player *)

\* What becomes of sts by do_command(), as CDPlayer has it in detail.
Commanded(cmd) ==
  /\ pre_seek' = IF cmd \in Seeking /\ sts \in {"PLAY", "PAUSE"} THEN sts ELSE pre_seek
  /\ CASE cmd = "STOP" /\ sts \in Playing -> sts' = "STOP"
       [] cmd = "PLAY" /\ sts = "STOP" -> sts' \in {"STOP", "PLAY"}
       [] cmd = "PLAY" /\ sts \in Playing -> sts' = "PLAY"
       [] cmd = "PAUSE" /\ sts \in {"PLAY", "PAUSE"} -> sts' = "PAUSE"
       [] cmd \in Seeking /\ sts \in Playing -> sts' = IF sts = cmd THEN pre_seek ELSE cmd
       [] cmd = "END_SEEK" /\ sts \in Seeking -> sts' = pre_seek
       [] cmd = "OPEN_CLOSE" -> sts' = "other"
       [] cmd \in {"PREV_DISC", "NEXT_DISC"} -> sts' \in {sts, "other"}
       [] OTHER -> UNCHANGED sts

\* By itself it stops, plays, loads or is open.
PlayerGoesOn ==
  /\ sts' \in {"STOP", "PLAY", "other"}
  /\ UNCHANGED <<down, chainVars, pre_seek, answers>>

\* Keys of the remote control come between two passes.
RemoteKey ==
  /\ question = 0
  /\ \E cmd \in {"PLAY", "STOP"} \cup Seeking : Commanded(cmd)
  /\ UNCHANGED <<down, chainVars, answers>>

-----------------------------------------------------------------------------
(* The keypad *)

KeyGoesDown ==
  /\ \E k \in KeysInUse \ down :
       /\ down' = down \cup {k}
       /\ answers' = [answers EXCEPT ![k] = 0]
  /\ UNCHANGED <<chainVars, sts, pre_seek>>

KeyGoesUp ==
  /\ \E k \in down : down' = down \ {k}
  /\ UNCHANGED <<chainVars, sts, pre_seek, answers>>

\* 500 ms since a button was seen to go down
TimePasses ==
  /\ \E k \in Keys : /\ button[k].cur_state /\ ~button[k].long
                     /\ button' = [button EXCEPT ![k].long = TRUE]
  /\ UNCHANGED <<down, question, sts, pre_seek, sts_now, seek_from_button, answers>>

-----------------------------------------------------------------------------
(* CDMode::loop() *)

\* The questions in their order: the key, what is asked, the command of the branch.
Question(key, asked, cmd) == [key |-> key, asked |-> asked, cmd |-> cmd]
Chain ==
  <<Question("stopEject", Clicked, "stop_or_eject"),
    Question("playPause", Clicked, "play_or_pause"),
    Question("forward", Pressed, "SEEK_FF"),
    Question("rewind", Pressed, "SEEK_REW"),
    Question("forward", NotPressed, "end_of_SEEK_FF"),
    Question("rewind", NotPressed, "end_of_SEEK_REW"),
    Question("prevTrackDisc", Clicked, "PREV_TRACK"),
    Question("prevTrackDisc", Held, "PREV_DISC"),
    Question("nextTrackDisc", Clicked, "NEXT_TRACK"),
    Question("nextTrackDisc", Held, "NEXT_DISC"),
    Question("playMode", Clicked, "SHUFFLE")>>

\* What else the branch depends on.
Branch(cmd) ==
  CASE cmd \in Seeking -> sts_now \notin Seeking
    [] cmd = "end_of_SEEK_FF" -> sts_now = "SEEK_FF" /\ seek_from_button
    [] cmd = "end_of_SEEK_REW" -> sts_now = "SEEK_REW" /\ seek_from_button
    [] OTHER -> TRUE

Command(cmd) ==
  CASE cmd = "stop_or_eject" -> IF sts_now \in Playing THEN "STOP" ELSE "OPEN_CLOSE"
    [] cmd = "play_or_pause" -> IF sts_now = "PLAY" THEN "PAUSE" ELSE "PLAY"
    [] cmd \in {"end_of_SEEK_FF", "end_of_SEEK_REW"} -> "END_SEEK"
    [] OTHER -> cmd

PassBegins ==
  /\ question = 0
  /\ question' = 1
  /\ sts_now' = sts
  /\ UNCHANGED <<down, button, sts, pre_seek, seek_from_button, answers>>

\* One question: the branch is taken and the pass is over, or the next is asked.
Ask ==
  /\ question # 0
  /\ LET q == Chain[question]
         look == get_state(button[q.key], q.key \in down)
         next == IF question = Len(Chain) THEN 0 ELSE question + 1
     IN  /\ button' = [button EXCEPT ![q.key] = look.button]
         /\ IF look.state \in q.asked /\ Branch(q.cmd)
            THEN /\ question' = 0 /\ sts_now' = "other"
                 /\ LET cmd == Command(q.cmd)
                    IN  /\ Commanded(cmd)
                        /\ seek_from_button' = IF cmd = "END_SEEK" THEN FALSE ELSE seek_from_button \/ cmd \in Seeking
                 /\ answers' = [answers EXCEPT ![q.key] = IF @ < 2 THEN @ + 1 ELSE @]
            ELSE /\ question' = next /\ sts_now' = IF next = 0 THEN "other" ELSE sts_now
                 /\ UNCHANGED <<seek_from_button, sts, pre_seek, answers>>
  /\ UNCHANGED down

LoopStep == PassBegins \/ Ask

-----------------------------------------------------------------------------
KeysInit ==
  /\ down = {} /\ button = [k \in Keys |-> Up]
  /\ question = 0 /\ sts = "STOP" /\ pre_seek = "PLAY" /\ sts_now = "other"
  /\ seek_from_button = FALSE
  /\ answers = [k \in Keys |-> 0]

KeysNext == PlayerGoesOn \/ RemoteKey \/ KeyGoesDown \/ KeyGoesUp \/ TimePasses \/ LoopStep

KeysSpec == KeysInit /\ [][KeysNext]_keyVars

-----------------------------------------------------------------------------
(* Properties *)

\* One press of a key is one command, although a pass of the loop asks twice about a key
\* that means one thing clicked and another held; the keys that seek apart, whose
\* release is a command too.
OnePressOneCommand == \A k \in Keys \ {"forward", "rewind"} : answers[k] <= 1

=============================================================================
