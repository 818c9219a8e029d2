---------------------------- MODULE KeysProofs -----------------------------
(***************************************************************************)
(* What is proved of what the listener touches: the infrared remote        *)
(* control, the keys of the CD mode and the numbers typed on it; for any   *)
(* codes, keys, digits and discs.                                          *)
(***************************************************************************)
EXTENDS RemoteControl, CDModeKeys, NumberEntry, TLAPS

-----------------------------------------------------------------------------
(* The remote control *)

\* The flag that is up, and the code that is about to be taken, stand for a new code each.
CountInv ==
  /\ news \in Nat /\ acts \in Nat
  /\ new_code_flag \in BOOLEAN /\ rslt \in BOOLEAN /\ recent \in BOOLEAN
  /\ rc \in {"ask", "flag", "clear", "code"} /\ rx \in {"idle", "flag", "code", "ts"}
  /\ rc = "clear" /\ rslt => new_code_flag
  /\ acts <= news
  /\ new_code_flag \/ rc = "code" => acts + 1 <= news
  /\ new_code_flag /\ rc = "code" => acts + 2 <= news

\* Once has_new_code() has found the time to be recent it stays so until code() is taken;
\* and while it is, the code noted last is one that was heard.
FreshInv ==
  /\ rc = "code" => rslt
  /\ rc # "ask" /\ rslt => recent
  /\ recent => last_received_code \in heard
  /\ rx # "idle" => code \in heard
  /\ rx = "ts" => last_received_code = code

RemoteInv == CountInv /\ FreshInv

LEMMA RemoteInit_Inv ==
  ASSUME RemoteInit
  PROVE  RemoteInv
  <1>1. CountInv
    <2>1. news = 0 /\ acts = 0
      BY DEF RemoteInit
    <2>2. ~new_code_flag /\ rc # "code"
      BY Zenon DEF RemoteInit
    <2>3. /\ new_code_flag \in BOOLEAN /\ rslt \in BOOLEAN /\ recent \in BOOLEAN
          /\ rc \in {"ask", "flag", "clear", "code"} /\ rx \in {"idle", "flag", "code", "ts"}
          /\ rc = "clear" /\ rslt => new_code_flag
      BY Zenon DEF RemoteInit
    <2>4. acts <= news
      BY <2>1
    <2> QED BY <2>1, <2>2, <2>3, <2>4 DEF CountInv
  <1>2. FreshInv
    BY Zenon DEF RemoteInit, FreshInv
  <1> QED BY <1>1, <1>2 DEF RemoteInv

LEMMA RemoteNext_Count ==
  ASSUME CountInv, [RemoteNext]_remoteVars
  PROVE  CountInv'
  <1> USE DEF CountInv, noted, rxVars, rcVars
  <1>1. CASE FrameComes
    BY <1>1 DEF FrameComes
  <1>2. CASE SetFlag
    <2>1. CASE IsNew(code)
      BY <1>2, <2>1 DEF SetFlag
    <2>2. CASE ~IsNew(code)
      BY <1>2, <2>2 DEF SetFlag
    <2> QED BY <2>1, <2>2
  <1>3. CASE SetCode
    BY <1>3 DEF SetCode
  <1>10. CASE SetTs
    BY <1>10 DEF SetTs
  <1>4. CASE AskTs
    BY <1>4 DEF AskTs
  <1>5. CASE AskFlag
    BY <1>5 DEF AskFlag
  <1>6. CASE ClearFlag
    BY <1>6 DEF ClearFlag
  <1>7. CASE TakeCode
    BY <1>7 DEF TakeCode
  <1>8. CASE Quiet
    BY <1>8 DEF Quiet
  <1>9. CASE UNCHANGED remoteVars
    BY <1>9 DEF remoteVars
  <1> QED
    BY <1>1, <1>2, <1>3, <1>4, <1>5, <1>6, <1>7, <1>8, <1>9, <1>10 DEF RemoteNext

LEMMA RemoteNext_Fresh ==
  ASSUME CountInv, FreshInv, [RemoteNext]_remoteVars
  PROVE  FreshInv'
  <1> USE DEF FreshInv, noted, rxVars, rcVars
  <1>1. CASE FrameComes
    BY <1>1 DEF FrameComes
  <1>2. CASE SetFlag \/ SetCode \/ SetTs
    BY <1>2 DEF SetFlag, SetCode, SetTs
  <1>3. CASE AskTs \/ AskFlag
    BY <1>3 DEF AskTs, AskFlag, CountInv
  <1>4. CASE ClearFlag \/ TakeCode
    BY <1>4 DEF ClearFlag, TakeCode
  <1>5. CASE Quiet
    BY <1>5 DEF Quiet
  <1>6. CASE UNCHANGED remoteVars
    BY <1>6 DEF remoteVars
  <1> QED
    BY <1>1, <1>2, <1>3, <1>4, <1>5, <1>6 DEF RemoteNext

\* Remote::update() beside has_new_code() and code(), in any interleaving and for any
\* number of frames: no key is acted on more often than it came, nor once its time is over.
THEOREM KeysOnce == RemoteSpec => []EachKeyOnce
  <1>1. RemoteInit => RemoteInv
    BY RemoteInit_Inv
  <1>2. RemoteInv /\ [RemoteNext]_remoteVars => RemoteInv'
    BY RemoteNext_Count, RemoteNext_Fresh DEF RemoteInv
  <1>3. RemoteInv => EachKeyOnce
    <2> SUFFICES ASSUME RemoteInv
                 PROVE  EachKeyOnce
      OBVIOUS
    <2>1. acts <= news
      BY DEF RemoteInv, CountInv
    <2>2. rc = "code" => last_received_code \in heard
      BY DEF RemoteInv, FreshInv
    <2> QED BY <2>1, <2>2 DEF EachKeyOnce, NotMultiplied
  <1> QED BY <1>1, <1>2, <1>3, PTL DEF RemoteSpec

-----------------------------------------------------------------------------
(* The keys of the CD mode *)

Buttons == [cur_state : BOOLEAN, click_flag : BOOLEAN, hold_flag : BOOLEAN, long : BOOLEAN]
CommandKeys == Keys \ {"forward", "rewind"}

KeysTypeOK ==
  /\ down \subseteq Keys /\ button \in [Keys -> Buttons]
  /\ question \in 0 .. 11 /\ answers \in [Keys -> 0 .. 2]

\* A button of which a press was answered has spent its click and, as long as the key
\* stays down, its hold.
SpentButton(b, pressed) ==
  /\ ~b.click_flag
  /\ pressed => b.hold_flag /\ b.cur_state /\ b.long

KeysInv ==
  /\ KeysTypeOK
  /\ \A k \in CommandKeys : answers[k] <= 1 /\ (answers[k] = 1 => SpentButton(button[k], k \in down))

\* Chain is what each question asks for.
LEMMA Questions ==
  /\ Len(Chain) = 11
  /\ \A i \in 1 .. 11 : Chain[i].key \in Keys
  /\ \A i \in 1 .. 11 : Chain[i].key \in CommandKeys => Chain[i].asked \in {Clicked, Held}
  <1>1. Chain = <<Question("stopEject", Clicked, "stop_or_eject"),
                  Question("playPause", Clicked, "play_or_pause"),
                  Question("forward", Pressed, "SEEK_FF"),
                  Question("rewind", Pressed, "SEEK_REW"),
                  Question("forward", NotPressed, "end_of_SEEK_FF"),
                  Question("rewind", NotPressed, "end_of_SEEK_REW"),
                  Question("prevTrackDisc", Clicked, "PREV_TRACK"),
                  Question("prevTrackDisc", Held, "PREV_DISC"),
                  Question("nextTrackDisc", Clicked, "NEXT_TRACK"),
                  Question("nextTrackDisc", Held, "NEXT_DISC"),
                  Question("playMode", Clicked, "SHUFFLE")>>
    BY DEF Chain
  <1>2. /\ Chain[1].key = "stopEject" /\ Chain[2].key = "playPause" /\ Chain[3].key = "forward"
        /\ Chain[4].key = "rewind" /\ Chain[5].key = "forward" /\ Chain[6].key = "rewind"
        /\ Chain[7].key = "prevTrackDisc" /\ Chain[8].key = "prevTrackDisc"
        /\ Chain[9].key = "nextTrackDisc" /\ Chain[10].key = "nextTrackDisc" /\ Chain[11].key = "playMode"
    BY <1>1 DEF Question
  <1>3. /\ Chain[1].asked = Clicked /\ Chain[2].asked = Clicked
        /\ Chain[7].asked = Clicked /\ Chain[8].asked = Held
        /\ Chain[9].asked = Clicked /\ Chain[10].asked = Held /\ Chain[11].asked = Clicked
    BY <1>1 DEF Question
  <1>4. Len(Chain) = 11
    BY <1>1
  <1>5. \A i \in 1 .. 11 : i \in {1, 2, 3, 4, 5, 6, 7, 8, 9, 10, 11}
    OBVIOUS
  <1> QED BY <1>2, <1>3, <1>4, <1>5 DEF Keys, CommandKeys

\* What get_state() does to the button, now that it has seen the key.
After(b, click, hold) == [b EXCEPT !.click_flag = click, !.hold_flag = hold]

LEMMA AfterLook ==
  ASSUME NEW b \in Buttons, NEW click \in BOOLEAN, NEW hold \in BOOLEAN
  PROVE  /\ After(b, click, hold) \in Buttons
         /\ After(b, click, hold).click_flag = click /\ After(b, click, hold).hold_flag = hold
         /\ After(b, click, hold).cur_state = b.cur_state /\ After(b, click, hold).long = b.long
  BY DEF Buttons, After

\* Which looks answer, and what they leave: the press is spent then, and a press that is
\* spent gives no answer and stays spent.
LEMMA Looks ==
  ASSUME NEW b \in Buttons, NEW pressed \in BOOLEAN
  PROVE  /\ get_state(b, pressed).button \in Buttons
         /\ get_state(b, pressed).state \in Clicked \cup Held => SpentButton(get_state(b, pressed).button, pressed)
         /\ SpentButton(b, pressed)
              => /\ get_state(b, pressed).state \notin Clicked \cup Held
                 /\ SpentButton(get_state(b, pressed).button, pressed)
  <1> DEFINE now == IF b.cur_state # pressed THEN [b EXCEPT !.cur_state = pressed, !.long = FALSE] ELSE b
             look == get_state(b, pressed)
  <1>1. now \in Buttons /\ now.cur_state = pressed /\ now.click_flag = b.click_flag /\ now.hold_flag = b.hold_flag
        /\ (now.long => b.long /\ b.cur_state = pressed) /\ (b.cur_state = pressed => now = b)
    BY DEF Buttons
  <1>2. /\ b.cur_state \in BOOLEAN /\ b.click_flag \in BOOLEAN /\ b.hold_flag \in BOOLEAN /\ b.long \in BOOLEAN
        /\ now.long \in BOOLEAN
    BY <1>1 DEF Buttons
  <1>3. CASE pressed /\ now.long
    <2>1. look = [state |-> IF b.hold_flag THEN "HOLD_CONTINUES" ELSE "HELD", button |-> After(now, FALSE, TRUE)]
      BY <1>3 DEF get_state, After
    <2>2. look.button = After(now, FALSE, TRUE) /\ look.state = IF b.hold_flag THEN "HOLD_CONTINUES" ELSE "HELD"
      BY <2>1
    <2> HIDE DEF now, look
    <2>3. /\ After(now, FALSE, TRUE) \in Buttons
          /\ After(now, FALSE, TRUE).click_flag = FALSE /\ After(now, FALSE, TRUE).hold_flag = TRUE
          /\ After(now, FALSE, TRUE).cur_state = now.cur_state /\ After(now, FALSE, TRUE).long = now.long
      BY <1>1, AfterLook
    <2>4. SpentButton(look.button, pressed)
      BY <1>1, <1>3, <2>2, <2>3 DEF SpentButton
    <2>5. SpentButton(b, pressed) => look.state \notin Clicked \cup Held
      BY <1>3, <2>2 DEF SpentButton, Clicked, Held
    <2> QED BY <2>2, <2>3, <2>4, <2>5 DEF look
  <1>4. CASE pressed /\ ~now.long
    <2>1. look = [state |-> "PRESSED", button |-> After(now, TRUE, b.hold_flag)]
      BY <1>4 DEF get_state, After
    <2>2. look.button = After(now, TRUE, b.hold_flag) /\ look.state = "PRESSED"
      BY <2>1
    <2>3. After(now, TRUE, b.hold_flag) \in Buttons
      BY <1>1, <1>2, AfterLook
    <2>4. ~SpentButton(b, pressed)
      BY <1>1, <1>2, <1>4 DEF SpentButton
    <2> HIDE DEF now, look
    <2> QED BY <2>2, <2>3, <2>4 DEF look, Clicked, Held
  <1>5. CASE ~pressed
    <2>1. look = [state |-> IF b.click_flag THEN "CLICKED" ELSE "RELEASED", button |-> After(now, FALSE, FALSE)]
      BY <1>5 DEF get_state, After
    <2>2. look.button = After(now, FALSE, FALSE) /\ look.state = IF b.click_flag THEN "CLICKED" ELSE "RELEASED"
      BY <2>1
    <2> HIDE DEF now, look
    <2>3. After(now, FALSE, FALSE) \in Buttons /\ After(now, FALSE, FALSE).click_flag = FALSE
      BY <1>1, AfterLook
    <2>4. SpentButton(look.button, pressed)
      BY <1>5, <2>2, <2>3 DEF SpentButton
    <2>5. SpentButton(b, pressed) => look.state \notin Clicked \cup Held
      BY <2>2 DEF SpentButton, Clicked, Held
    <2> QED BY <2>2, <2>3, <2>4, <2>5 DEF look
  <1> QED BY <1>2, <1>3, <1>4, <1>5

LEMMA Ask_Inv ==
  ASSUME KeysInv, Ask
  PROVE  KeysInv'
  <1> DEFINE q == Chain[question]
             key == q.key
             pressed == key \in down
             look == get_state(button[key], pressed)
             next == IF question = Len(Chain) THEN 0 ELSE question + 1
  <1>1. key \in Keys /\ question \in 1 .. 11 /\ (key \in CommandKeys => q.asked \in {Clicked, Held}) /\ next \in 0 .. 11
    BY Questions DEF Ask, KeysInv, KeysTypeOK
  <1>2. button' = [button EXCEPT ![key] = look.button] /\ down' = down
    BY DEF Ask
  <1>3. \/ /\ look.state \in q.asked /\ question' = 0
           /\ answers' = [answers EXCEPT ![key] = IF @ < 2 THEN @ + 1 ELSE @]
        \/ /\ look.state \notin q.asked \/ ~Branch(q.cmd)
           /\ question' = next /\ answers' = answers
    BY DEF Ask
  <1>4. button[key] \in Buttons /\ pressed \in BOOLEAN
    BY <1>1 DEF KeysInv, KeysTypeOK
  <1>5. /\ look.button \in Buttons
        /\ look.state \in Clicked \cup Held => SpentButton(look.button, pressed)
        /\ SpentButton(button[key], pressed)
             => look.state \notin Clicked \cup Held /\ SpentButton(look.button, pressed)
    BY <1>4, Looks
  <1>6. button'[key] = look.button /\ (key \in down') = pressed
    BY <1>1, <1>2 DEF KeysInv, KeysTypeOK
  <1>7. \A k \in Keys \ {key} : button'[k] = button[k] /\ answers'[k] = answers[k]
    BY <1>1, <1>2, <1>3 DEF KeysInv, KeysTypeOK
  <1> HIDE DEF look, next, key, q
  <1>8. KeysTypeOK'
    BY <1>1, <1>2, <1>3, <1>5 DEF KeysInv, KeysTypeOK
  <1>9. CASE key \in CommandKeys
    <2>1. q.asked \subseteq Clicked \cup Held
      BY <1>1, <1>9
    <2>2. answers[key] \in {0, 1} /\ (answers[key] = 1 => SpentButton(button[key], pressed))
      BY <1>1, <1>9 DEF KeysInv, KeysTypeOK
    <2>3. answers'[key] <= 1 /\ (answers'[key] = 1 => SpentButton(look.button, pressed))
      <3>1. CASE answers[key] = 1
        BY <1>3, <1>5, <2>1, <2>2, <3>1
      <3>2. CASE answers[key] = 0 /\ answers' = answers
        BY <3>2
      <3>3. CASE answers[key] = 0 /\ look.state \in q.asked /\ answers' = [answers EXCEPT ![key] = IF @ < 2 THEN @ + 1 ELSE @]
        <4>1. SpentButton(look.button, pressed)
          BY <1>5, <2>1, <3>3
        <4>2. answers'[key] = 1
          BY <1>1, <3>3 DEF KeysInv, KeysTypeOK
        <4> QED BY <4>1, <4>2
      <3> QED BY <1>3, <2>2, <3>1, <3>2, <3>3
    <2>4. answers'[key] <= 1 /\ (answers'[key] = 1 => SpentButton(button'[key], key \in down'))
      BY <1>6, <2>3
    <2>5. ASSUME NEW k \in CommandKeys, k # key
          PROVE  answers'[k] <= 1 /\ (answers'[k] = 1 => SpentButton(button'[k], k \in down'))
      BY <1>2, <1>7, <2>5 DEF KeysInv, CommandKeys
    <2> QED BY <1>8, <2>4, <2>5 DEF KeysInv
  <1>10. CASE key \notin CommandKeys
    <2>1. ASSUME NEW k \in CommandKeys
          PROVE  answers'[k] <= 1 /\ (answers'[k] = 1 => SpentButton(button'[k], k \in down'))
      BY <1>2, <1>7, <1>10 DEF KeysInv, CommandKeys
    <2> QED BY <1>8, <2>1 DEF KeysInv
  <1> QED BY <1>9, <1>10

LEMMA KeysNext_Inv ==
  ASSUME KeysInv, [KeysNext]_keyVars
  PROVE  KeysInv'
  <1> USE KeysAssumption DEF KeysInv, KeysTypeOK, SpentButton, CommandKeys
  <1>1. CASE PlayerGoesOn \/ RemoteKey \/ UNCHANGED keyVars
    BY <1>1 DEF PlayerGoesOn, RemoteKey, chainVars, keyVars
  <1>2. CASE KeyGoesDown
    BY <1>2 DEF KeyGoesDown, chainVars
  <1>3. CASE KeyGoesUp
    BY <1>3 DEF KeyGoesUp, chainVars
  <1>4. CASE TimePasses
    <2>1. PICK k \in Keys : button' = [button EXCEPT ![k].long = TRUE]
      BY <1>4 DEF TimePasses
    <2>2. button' = [button EXCEPT ![k] = [button[k] EXCEPT !.long = TRUE]] /\ button[k] \in Buttons
      BY <2>1
    <2>3. [button[k] EXCEPT !.long = TRUE] \in Buttons
      BY <2>2 DEF Buttons
    <2>4. \A j \in Keys : /\ button'[j] \in Buttons
                          /\ button'[j].click_flag = button[j].click_flag
                          /\ button'[j].hold_flag = button[j].hold_flag
                          /\ button'[j].cur_state = button[j].cur_state
                          /\ button[j].long => button'[j].long
      BY <2>2, <2>3 DEF Buttons
    <2>5. button' \in [Keys -> Buttons]
      BY <2>2, <2>3
    <2> QED BY <1>4, <2>4, <2>5 DEF TimePasses
  <1>5. CASE PassBegins
    BY <1>5 DEF PassBegins
  <1>6. CASE Ask
    BY <1>6, Ask_Inv
  <1> QED BY <1>1, <1>2, <1>3, <1>4, <1>5, <1>6 DEF KeysNext, LoopStep

\* Keys go down and up between any two questions of the loop, and a press may be seen at
\* the one that asks for a click or at the one that asks for a hold: never at both.
THEOREM PressesAnsweredOnce == KeysSpec => []OnePressOneCommand
  <1>1. KeysInit => KeysInv
    BY DEF KeysInit, KeysInv, KeysTypeOK, SpentButton, CommandKeys, Up, Buttons
  <1>2. KeysInv /\ [KeysNext]_keyVars => KeysInv'
    BY KeysNext_Inv
  <1>3. KeysInv => OnePressOneCommand
    BY DEF KeysInv, OnePressOneCommand, CommandKeys
  <1> QED BY <1>1, <1>2, <1>3, PTL DEF KeysSpec

-----------------------------------------------------------------------------
(* The numbers typed *)

\* The largest of the numbers that the last digits of row make, on a disc of so many tracks.
Fits(number, row, tracks) ==
  /\ number \in EndsOf(row) /\ number <= tracks
  /\ \A n \in EndsOf(row) : n <= tracks => n <= number

EntryTypeOK ==
  /\ size \in 0 .. 99 /\ offered \in 0 .. 99 /\ typed \in Nat /\ entered_digits \in 0 .. 9
  /\ went \in [number : 0 .. 99, typed : Nat, size : 0 .. 99]

\* A number that waits for another digit is one digit, the last that was typed.
EntryInv ==
  /\ EntryTypeOK
  /\ entered_digits = typed % 10
  /\ entered_digits # 0 => Fits(entered_digits, typed, offered)
  /\ Fits(went.number, went.typed, went.size)

LEMMA EndsTypes ==
  ASSUME NEW row \in Nat
  PROVE  EndsOf(row) \subseteq Nat
  BY DEF EndsOf

LEMMA FitsIsMax ==
  ASSUME NEW number \in Nat, NEW row \in Nat, NEW tracks \in Nat, Fits(number, row, tracks)
  PROVE  number = Max({n \in EndsOf(row) : n <= tracks})
  <1> DEFINE S == {n \in EndsOf(row) : n <= tracks}
  <1>1. S \subseteq Nat
    BY EndsTypes
  <1>2. number \in S /\ \A y \in S : number >= y
    BY <1>1 DEF Fits
  <1> HIDE DEF S
  <1>3. \A x \in S : (\A y \in S : x >= y) => x = number
    BY <1>1, <1>2
  <1>4. Max(S) \in S /\ \A y \in S : Max(S) >= y
    BY <1>2 DEF Max
  <1> QED BY <1>3, <1>4 DEF S

\* The last digits of a row with a digit more.
LEMMA DigitMore ==
  ASSUME NEW t \in Nat, NEW d \in 0 .. 9
  PROVE  /\ (t * 10 + d) % 10 = d
         /\ (t * 10 + d) % 100 = (t % 10) * 10 + d
         /\ (t * 10 + d) % 1000 = (t % 100) * 10 + d
         /\ t % 10 \in 0 .. 9 /\ t % 100 \in Nat
         /\ t % 100 = t % 10 \/ t % 100 >= 10
  OBVIOUS

LEMMA OneDigit ==
  ASSUME NEW d \in 0 .. 9
  PROVE  d % 10 = d /\ d % 100 = d /\ d % 1000 = d
  OBVIOUS

\* What Entered() makes of a digit that follows others fits, if it is no more than the tracks.
LEMMA EnteredFits ==
  ASSUME NEW t \in Nat, NEW d \in 0 .. 9, size \in 0 .. 99,
         Entered((t % 10) * 10 + d, d) <= size
  PROVE  Fits(Entered((t % 10) * 10 + d, d), t * 10 + d, size)
  <1> DEFINE e == t % 10
             row == t * 10 + d
  <1>1. EndsOf(row) = {d, e * 10 + d, (t % 100) * 10 + d}
    <2>1. row % 10 = d
      OBVIOUS
    <2>2. row % 100 = e * 10 + d
      OBVIOUS
    <2>3. row % 1000 = (t % 100) * 10 + d
      OBVIOUS
    <2> QED BY <2>1, <2>2, <2>3 DEF EndsOf
  <1>2. e \in 0 .. 9 /\ t % 100 \in Nat /\ (t % 100 = e \/ t % 100 >= 10)
    BY DigitMore
  <1> HIDE DEF e, row
  <1>3. CASE e * 10 + d > size
    <2>1. Entered(e * 10 + d, d) = d
      BY <1>3 DEF Entered
    <2>2. (t % 100) * 10 + d > size
      BY <1>2, <1>3
    <2> QED BY <1>1, <1>2, <1>3, <2>1, <2>2 DEF Fits, e, row
  <1>4. CASE ~(e * 10 + d > size)
    <2>1. Entered(e * 10 + d, d) = e * 10 + d /\ e * 10 + d <= size /\ e * 10 + d >= d
      BY <1>2, <1>4 DEF Entered
    <2>2. (t % 100) * 10 + d > size \/ (t % 100) * 10 + d = e * 10 + d
      BY <1>2, <1>4
    <2> QED BY <1>1, <1>2, <2>1, <2>2 DEF Fits, e, row
  <1> QED BY <1>3, <1>4

LEMMA Commit_Inv ==
  ASSUME EntryInv, NEW number \in 0 .. 99, NEW row \in Nat, NEW tracks \in 0 .. 99,
         number # 0 /\ number <= size => Fits(number, row, tracks),
         CommitNumber(number, row, tracks)
  PROVE  EntryInv'
  <1>1. /\ entered_digits' = 0 /\ typed' = 0 /\ offered' = tracks /\ size' = size
        /\ went' = IF number \in 1 .. size THEN [number |-> number, typed |-> row, size |-> tracks] ELSE went
    BY DEF CommitNumber
  <1>2. 0 % 10 = 0
    BY OneDigit
  <1>3. CASE number \in 1 .. size
    BY <1>1, <1>2, <1>3 DEF EntryInv, EntryTypeOK
  <1>4. CASE number \notin 1 .. size
    BY <1>1, <1>2, <1>4 DEF EntryInv, EntryTypeOK
  <1> QED BY <1>3, <1>4

LEMMA DigitKey_Inv ==
  ASSUME EntryInv, DigitKey
  PROVE  EntryInv'
  <1>1. PICK digit \in Digits :
          LET begun == since = "less"
              row == (IF begun THEN typed * 10 ELSE 0) + digit
              number == Entered((IF begun THEN entered_digits * 10 ELSE 0) + digit, digit)
          IN  IF number * 10 > size THEN CommitNumber(number, row, size)
              ELSE /\ entered_digits' = number /\ since' = "less" /\ typed' = row /\ offered' = size
                   /\ UNCHANGED <<mode_sts, size, must_show_title_stopped, went>>
    BY DEF DigitKey
  <1> DEFINE t == IF since = "less" THEN typed ELSE 0
             row == t * 10 + digit
             number == Entered((t % 10) * 10 + digit, digit)
  <1>2. digit \in 0 .. 9 /\ size \in 0 .. 99 /\ t \in Nat /\ typed \in Nat /\ entered_digits = typed % 10
    BY EntryAssumption DEF EntryInv, EntryTypeOK
  <1>3. t % 10 \in 0 .. 9 /\ 0 % 10 = 0
    BY <1>2, OneDigit
  <1>4. /\ row = (IF since = "less" THEN typed * 10 ELSE 0) + digit
        /\ number = Entered((IF since = "less" THEN entered_digits * 10 ELSE 0) + digit, digit)
    BY <1>2, <1>3
  <1>5. \/ number * 10 > size /\ CommitNumber(number, row, size)
        \/ /\ ~(number * 10 > size) /\ UNCHANGED <<size, went>>
           /\ entered_digits' = number /\ typed' = row /\ offered' = size
    BY <1>1, <1>4
  <1>6. number \in 0 .. 99 /\ (number = (t % 10) * 10 + digit \/ number = digit)
    BY <1>2, <1>3 DEF Entered
  <1>7. number <= size => Fits(number, row, size)
    BY <1>2, EnteredFits
  <1>8. row \in Nat /\ row % 10 = digit
    BY <1>2, DigitMore, SMTT(30)
  <1> HIDE DEF t, row, number
  <1>9. CASE number * 10 > size /\ CommitNumber(number, row, size)
    BY <1>2, <1>6, <1>7, <1>8, <1>9, Commit_Inv
  <1>10. CASE /\ ~(number * 10 > size) /\ UNCHANGED <<size, went>>
              /\ entered_digits' = number /\ typed' = row /\ offered' = size
    <2>1. number = digit /\ number <= size /\ number \in 0 .. 9
      BY <1>2, <1>3, <1>6, <1>10
    <2> QED BY <1>2, <1>7, <1>8, <1>10, <2>1 DEF EntryInv, EntryTypeOK
  <1> QED BY <1>5, <1>9, <1>10

LEMMA EntryNext_Inv ==
  ASSUME EntryInv, [EntryNext]_entryVars
  PROVE  EntryInv'
  <1>1. CASE DigitKey
    BY <1>1, DigitKey_Inv
  <1>2. CASE entered_digits # 0 /\ CommitNumber(entered_digits, typed, offered)
    <2>1. entered_digits \in 0 .. 99 /\ typed \in Nat /\ offered \in 0 .. 99
      BY DEF EntryInv, EntryTypeOK
    <2>2. Fits(entered_digits, typed, offered)
      BY <1>2 DEF EntryInv
    <2> QED BY <1>2, <2>1, <2>2, Commit_Inv
  <1>3. CASE TrackButton \/ ClockRuns \/ UNCHANGED entryVars
    BY <1>3 DEF TrackButton, ClockRuns, entryVars, EntryInv, EntryTypeOK
  <1>4. CASE EntryPass /\ ~(entered_digits # 0 /\ CommitNumber(entered_digits, typed, offered))
    <2>1. UNCHANGED <<size, offered, went>>
      BY <1>4 DEF EntryPass
    <2>2. (entered_digits' = 0 /\ typed' = 0) \/ UNCHANGED <<entered_digits, typed>>
      BY <1>4 DEF EntryPass
    <2>3. 0 % 10 = 0
      BY OneDigit
    <2> QED BY <2>1, <2>2, <2>3 DEF EntryInv, EntryTypeOK
  <1>5. CASE PlayerMoves
    BY <1>5, EntryAssumption DEF PlayerMoves, EntryInv, EntryTypeOK
  <1> QED BY <1>1, <1>2, <1>3, <1>4, <1>5 DEF EntryNext, EnterKey

\* Digits, ENTER, the time that runs out and changes of the disc in any order, for any
\* digits and discs: the number that is gone to is what the last digits say.
THEOREM NumbersAsTyped == EntrySpec => []NumberAsTyped
  <1>1. EntryInit => EntryInv
    <2> SUFFICES ASSUME EntryInit PROVE EntryInv
      OBVIOUS
    <2>1. EndsOf(0) = {0} /\ 0 % 10 = 0
      BY OneDigit DEF EndsOf
    <2> QED BY <2>1 DEF EntryInit, EntryInv, EntryTypeOK, Fits
  <1>2. EntryInv /\ [EntryNext]_entryVars => EntryInv'
    BY EntryNext_Inv
  <1>3. EntryInv => NumberAsTyped
    <2> SUFFICES ASSUME EntryInv PROVE NumberAsTyped
      OBVIOUS
    <2>1. went.number \in Nat /\ went.typed \in Nat /\ went.size \in Nat
      BY DEF EntryInv, EntryTypeOK
    <2>2. Fits(went.number, went.typed, went.size)
      BY DEF EntryInv
    <2> QED BY <2>1, <2>2, FitsIsMax DEF NumberAsTyped
  <1> QED BY <1>1, <1>2, <1>3, PTL DEF EntrySpec

=============================================================================
