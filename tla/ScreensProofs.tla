--------------------------- MODULE ScreensProofs ---------------------------
(***************************************************************************)
(* What is proved of what the listener sees: the update over HTTP, the     *)
(* screen of the Bluetooth mode and the menus of the settings; for any     *)
(* releases, devices and menus.                                            *)
(***************************************************************************)
EXTENDS FirmwareUpdate, BluetoothScreen, Menus, SequenceTheorems, TLAPS

-----------------------------------------------------------------------------
(* The update over HTTP *)

\* From the check on an update is under way, and halted or not through it stays needed.
Needed == fvu \in {"get_files", "unpack", "get_firmware", "flash", "error", "halted"}

FvuTypeOK ==
  /\ fvu \in {"idle", "get_files", "unpack", "get_firmware", "flash", "error", "halted", "restart"}
  /\ published \in Nat /\ coming \in Nat /\ firmware \in Nat

\* The firmware is never newer than what is published, and older while an update is
\* needed.
ReleaseInv ==
  /\ FvuTypeOK
  /\ firmware <= published
  /\ Needed => firmware < published
  /\ fvu = "flash" => coming <= published

\* As long as no release has crossed the update, the files are unpacked of the release
\* that is published, and the firmware that follows is of that release.
FilesInv ==
  /\ ~crossed /\ fvu = "unpack" => coming = published
  /\ ~crossed /\ fvu = "get_firmware" => coming = published /\ files = {coming}
  /\ ~crossed /\ fvu = "flash" => files = {coming}

\* What the property says, without the set of answers.
Offered == crossed \/ files = {firmware} \/ firmware # published

LEMMA OfferedIs == RepairIsOffered <=> Offered
  BY DEF RepairIsOffered, Offered, is_new_version_available

LEMMA FvuInit_Inv ==
  ASSUME FvuInit
  PROVE  ReleaseInv /\ FilesInv /\ Offered
  <1>1. ReleaseInv
    BY DEF FvuInit, ReleaseInv, FvuTypeOK, Needed
  <1>2. FilesInv /\ Offered
    BY Zenon DEF FvuInit, FilesInv, Offered
  <1> QED BY <1>1, <1>2

LEMMA FvuNext_Release ==
  ASSUME ReleaseInv, [FvuNext]_fvuVars
  PROVE  ReleaseInv'
  <1> USE DEF ReleaseInv, FvuTypeOK, Needed
  <1>1. CASE CheckVersion
    <2>1. firmware # published
      BY <1>1, Zenon DEF CheckVersion, is_new_version_available
    <2> QED BY <1>1, <2>1 DEF CheckVersion
  <1>2. CASE GetFiles
    BY <1>2 DEF GetFiles
  <1>3. CASE UnpackEnds
    BY <1>3 DEF UnpackEnds
  <1>4. CASE GetFirmware
    BY <1>4 DEF GetFirmware
  <1>5. CASE FlashEnds
    BY <1>5 DEF FlashEnds
  <1>6. CASE Start
    BY <1>6 DEF Start
  <1>7. CASE Publish
    BY <1>7 DEF Publish
  <1>8. CASE UNCHANGED fvuVars
    BY <1>8 DEF fvuVars
  <1> QED
    BY <1>1, <1>2, <1>3, <1>4, <1>5, <1>6, <1>7, <1>8 DEF FvuNext

LEMMA FvuNext_Files ==
  ASSUME FilesInv, [FvuNext]_fvuVars
  PROVE  FilesInv'
  <1> USE DEF FilesInv
  <1>1. CASE CheckVersion
    BY <1>1, Zenon DEF CheckVersion
  <1>2. CASE GetFiles
    BY <1>2, Zenon DEF GetFiles
  <1>3. CASE UnpackEnds
    BY <1>3, Zenon DEF UnpackEnds
  <1>4. CASE GetFirmware
    BY <1>4, Zenon DEF GetFirmware
  <1>5. CASE FlashEnds
    BY <1>5, Zenon DEF FlashEnds
  <1>6. CASE Start
    BY <1>6, Zenon DEF Start
  <1>7. CASE Publish
    BY <1>7, Zenon DEF Publish
  <1>8. CASE UNCHANGED fvuVars
    BY <1>8, Zenon DEF fvuVars
  <1> QED
    BY <1>1, <1>2, <1>3, <1>4, <1>5, <1>6, <1>7, <1>8 DEF FvuNext

\* What makes firmware or files another release leaves either an update that is still
\* needed, or the two of one release.
LEMMA FvuNext_Offered ==
  ASSUME ReleaseInv, FilesInv, Offered, [FvuNext]_fvuVars
  PROVE  Offered'
  <1>1. CASE CheckVersion \/ Start \/ GetFirmware \/ UNCHANGED fvuVars
    BY <1>1, Zenon DEF CheckVersion, Start, GetFirmware, fvuVars, Offered
  <1>2. CASE GetFiles \/ UnpackEnds
    <2>1. Needed /\ UNCHANGED <<firmware, published>>
      BY <1>2, Zenon DEF GetFiles, UnpackEnds, Needed
    <2>2. firmware # published
      BY <2>1 DEF ReleaseInv, FvuTypeOK
    <2> QED BY <2>1, <2>2, Zenon DEF Offered
  <1>3. CASE FlashEnds
    BY <1>3, Zenon DEF FlashEnds, FilesInv, Offered
  <1>4. CASE Publish
    <2>1. published' = published + 1 /\ UNCHANGED firmware
      BY <1>4, Zenon DEF Publish
    <2>2. firmware' # published'
      BY <2>1 DEF ReleaseInv, FvuTypeOK
    <2> QED BY <2>2, Zenon DEF Offered
  <1> QED
    BY <1>1, <1>2, <1>3, <1>4 DEF FvuNext

\* update_file_system() and update_firmware() may fail, and the power may go, anywhere:
\* what is left is of one release, or is_new_version_available() offers the update again.
THEOREM AlwaysRepaired == FvuSpec => []RepairIsOffered
  <1> DEFINE UpdateInv == ReleaseInv /\ FilesInv /\ Offered
  <1>1. FvuInit => UpdateInv
    BY FvuInit_Inv
  <1>2. UpdateInv /\ [FvuNext]_fvuVars => UpdateInv'
    BY FvuNext_Release, FvuNext_Files, FvuNext_Offered
  <1>3. UpdateInv => RepairIsOffered
    BY OfferedIs
  <1> HIDE DEF UpdateInv
  <1> QED BY <1>1, <1>2, <1>3, PTL DEF FvuSpec

-----------------------------------------------------------------------------
(* The screen of the Bluetooth mode *)

Texts == Devices \cup {NoText}
Writing == cb # NoCall

BtTypeOK ==
  /\ peer \in Devices \cup {NoDevice}
  /\ pin \in BOOLEAN /\ fresh \in BOOLEAN /\ settled \in BOOLEAN
  /\ state \in [connection : {"DISCONNECTED", "PAIRING_PIN", "CONNECTED", "PLAYING", "WAIT"},
                device_name : Texts \cup {BtDevice}, artist : Texts, title : Texts]
  /\ ui \in {"loop", "update", "pairing", "delay", "play?", "off"}
  /\ \/ cb = NoCall
     \/ cb \in [pc : {"write", "update"}, kind : {"status", "title", "artist", "volume"},
                of : Devices, plays : BOOLEAN]

\* No connection on the screen and no text of one: what a pass without a phone leaves.
NoLink == ~InLink(state) /\ state.title = NoText /\ state.artist = NoText

\* When a pass has gone by in which nobody came, went or called back, no phone is on the
\* screen unless one is there; and a PIN is asked for only then.
AloneInv ==
  /\ settled => fresh
  /\ fresh /\ peer = NoDevice /\ ~Writing => NoLink
  /\ pin => peer = NoDevice /\ ~Writing /\ NoLink
  /\ ui = "off" => peer = NoDevice

\* A phone that is there owns the texts, the callback that runs and, once the
\* connection is on the screen, the name.
PeerInv ==
  peer # NoDevice =>
    /\ state.title \in {peer, NoText} /\ state.artist \in {peer, NoText}
    /\ InLink(state) => state.device_name \in {peer, BtDevice}
    /\ Writing => cb.of = peer /\ InLink(state)
    /\ ui \in {"pairing", "play?"} => ~InLink(state)

\* What the labels show is renewed before the next pass.
LabelsInv ==
  peer # NoDevice /\ ui \in {"loop", "delay"} /\ InLink(state)
    => \A l \in labels : l[2] \in {peer, BtDevice, NoText}

BtInv == BtTypeOK /\ AloneInv /\ PeerInv /\ LabelsInv

LEMMA ShownTexts ==
  ASSUME BtTypeOK
  PROVE  \A l \in Shown(state) : l[2] \in {NoText, state.device_name, state.title, state.artist}
  <1>1. state.connection \in {"DISCONNECTED", "PAIRING_PIN", "CONNECTED", "PLAYING", "WAIT"}
    BY DEF BtTypeOK
  <1> QED BY <1>1 DEF Shown

\* The same of what is shown next.
LEMMA ShownNext ==
  ASSUME BtTypeOK, PeerInv, peer # NoDevice, InLink(state)
  PROVE  \A l \in Shown(state) : l[2] \in {peer, BtDevice, NoText}
  BY ShownTexts DEF PeerInv

LEMMA BtInit_Inv ==
  ASSUME BtInit
  PROVE  BtInv
  BY DEF BtInit, BtInv, BtTypeOK, AloneInv, PeerInv, LabelsInv, NoLink, InLink, Writing, Texts

\* A pass and what follows it.
LEMMA Pass_Inv ==
  ASSUME BtInv, Pass
  PROVE  BtInv'
  <1> USE DEF BtInv, BtTypeOK, AloneInv, PeerInv, LabelsInv, NoLink, InLink, Writing, Texts
  <1>1. CASE peer # NoDevice
    <2>1. PICK name \in {NoText, peer} :
            /\ state' = set_connected(state, name)
            /\ ui' = IF InLink(state) /\ state.device_name = name THEN "delay" ELSE "update"
      BY <1>1 DEF Pass
    <2>2. CASE InLink(state) /\ state.device_name = name
      <3>1. state' = state /\ ui' = "delay"
        BY <2>1, <2>2 DEF set_connected
      <3> QED BY <1>1, <3>1 DEF Pass
    <2>3. CASE ~(InLink(state) /\ state.device_name = name)
      <3>1. /\ ui' = "update"
            /\ state' = [state EXCEPT !.connection = IF InLink(state) THEN @ ELSE "CONNECTED",
                                      !.device_name = IF name = NoText THEN BtDevice ELSE name]
        BY <2>1, <2>3 DEF set_connected
      <3>2. /\ UNCHANGED <<peer, pin, cb, settled, labels>> /\ fresh' = TRUE /\ ui = "loop"
        BY DEF Pass
      <3>3. state'.connection \in {"CONNECTED", "PLAYING"} /\ state'.device_name \in {peer, BtDevice}
        BY <3>1
      <3>4. UNCHANGED <<state.title, state.artist>>
        BY <3>1
      <3>5. BtTypeOK'
        <4> DEFINE c == IF InLink(state) THEN state.connection ELSE "CONNECTED"
                   n == IF name = NoText THEN BtDevice ELSE name
        <4>1. c \in {"CONNECTED", "PLAYING"} /\ n \in Texts \cup {BtDevice}
          BY <1>1
        <4>2. state' = [state EXCEPT !.connection = c, !.device_name = n]
          BY <3>1
        <4> HIDE DEF c, n
        <4> QED BY <3>1, <3>2, <4>1, <4>2, ZenonT(30)
      <3> QED BY <1>1, <3>1, <3>2, <3>3, <3>4, <3>5
    <2> QED BY <2>2, <2>3
  <1>2. CASE peer = NoDevice /\ pin /\ state' = set_pairing(state) /\ ui' = "pairing"
    BY <1>2 DEF Pass, set_pairing
  <1>3. CASE peer = NoDevice /\ ~pin /\ state' = set_disconnected(state) /\ ui' = "update"
    BY <1>3 DEF Pass, set_disconnected
  <1> QED BY <1>1, <1>2, <1>3 DEF Pass

LEMMA Ui_Inv ==
  ASSUME BtInv, Update \/ ConfirmPin \/ Delay \/ RemoteKey
  PROVE  BtInv'
  <1> USE DEF BtInv, BtTypeOK, AloneInv, PeerInv, LabelsInv, NoLink, InLink, Writing, Texts
  <1>1. CASE Update
    <2>1. BtTypeOK' /\ AloneInv' /\ PeerInv'
      BY <1>1 DEF Update
    <2>2. LabelsInv'
      BY <1>1, ShownNext DEF Update
    <2> QED BY <2>1, <2>2
  <1>2. CASE ConfirmPin
    <2>1. CASE ui' = "delay" /\ UNCHANGED state
      BY <1>2, <2>1 DEF ConfirmPin
    <2>2. CASE ui' = "update" /\ state' = set_wait(state)
      BY <1>2, <2>2 DEF ConfirmPin, set_wait
    <2> QED BY <1>2, <2>1, <2>2 DEF ConfirmPin
  <1>3. CASE Delay
    BY <1>3 DEF Delay
  <1>4. CASE RemoteKey
    <2>1. CASE peer # NoDevice /\ InLink(state) /\ labels' = Shown(state) /\ UNCHANGED state
      BY <1>4, <2>1, ShownNext DEF RemoteKey
    <2>2. CASE peer = NoDevice /\ pin /\ state' = set_wait(state)
      BY <1>4, <2>2 DEF RemoteKey, set_wait
    <2> QED BY <1>4, <2>1, <2>2 DEF RemoteKey
  <1> QED BY <1>1, <1>2, <1>3, <1>4

LEMMA Mode_Inv ==
  ASSUME BtInv, Teardown \/ SetupMode \/ PhoneGoes \/ PhoneComes
  PROVE  BtInv'
  <1> USE DEF BtInv, BtTypeOK, AloneInv, PeerInv, LabelsInv, NoLink, InLink, Writing, Texts
  <1>1. CASE Teardown
    BY <1>1 DEF Teardown, set_wait
  <1>2. CASE SetupMode
    BY <1>2 DEF SetupMode, set_disconnected
  <1>3. CASE PhoneGoes
    BY <1>3, ZenonT(30) DEF PhoneGoes
  <1>4. CASE PhoneComes
    BY <1>4, BluetoothAssumption DEF PhoneComes
  <1> QED BY <1>1, <1>2, <1>3, <1>4

\* What the sink calls back with is of the phone that is there, if one is.
LEMMA CallBack_Inv ==
  ASSUME BtInv, CallBack \/ CallBackWrites \/ CallBackEnds
  PROVE  BtInv'
  <1> USE DEF BtInv, BtTypeOK, AloneInv, PeerInv, LabelsInv, NoLink, InLink, Writing, Texts
  <1>1. CASE CallBack
    BY <1>1 DEF CallBack, NoCall
  <1>2. CASE CallBackWrites
    <2>1. /\ Writing /\ cb.pc = "write" /\ cb' = [cb EXCEPT !.pc = "update"]
          /\ UNCHANGED <<peer, pin, labels, ui, fresh, settled>>
      BY <1>2 DEF CallBackWrites, NoCall
    <2>2. cb' \in [pc : {"write", "update"}, kind : {"status", "title", "artist", "volume"},
                   of : Devices, plays : BOOLEAN] /\ cb'.of = cb.of /\ Writing'
      BY <2>1 DEF NoCall
    <2>3. CASE cb.kind = "status" /\ state' = set_playing(state, cb.plays)
      BY <2>1, <2>2, <2>3 DEF set_playing
    <2>4. CASE cb.kind = "volume" /\ state' = state
      BY <2>1, <2>2, <2>4
    <2>5. CASE cb.kind \in {"title", "artist"} /\ \E text \in {NoText, cb.of} : state' = update_metadata(state, cb.kind, text)
      <3>1. PICK text \in {NoText, cb.of} : state' = [state EXCEPT ![cb.kind] = text]
        BY <2>5 DEF update_metadata
      <3>2. CASE cb.kind = "title"
        <4>1. state' = [state EXCEPT !.title = text]
          BY <3>1, <3>2
        <4> QED BY <2>1, <2>2, <4>1
      <3>3. CASE cb.kind = "artist"
        <4>1. state' = [state EXCEPT !.artist = text]
          BY <3>1, <3>3
        <4> QED BY <2>1, <2>2, <4>1
      <3> QED BY <2>5, <3>2, <3>3
    <2> QED BY <1>2, <2>1, <2>3, <2>4, <2>5 DEF CallBackWrites
  <1>3. CASE CallBackEnds
    BY <1>3, ShownNext, ZenonT(30) DEF CallBackEnds, NoCall
  <1> QED BY <1>1, <1>2, <1>3

LEMMA BtNext_Inv ==
  ASSUME BtInv, [BtNext]_btVars
  PROVE  BtInv'
  <1>1. CASE UNCHANGED btVars
    BY <1>1 DEF btVars, BtInv, BtTypeOK, AloneInv, PeerInv, LabelsInv, NoLink, InLink, Writing
  <1> QED BY <1>1, Pass_Inv, Ui_Inv, Mode_Inv, CallBack_Inv DEF BtNext

\* loop() and the callbacks of the A2DP sink write into one view without a lock, for any
\* number of phones that come and go: the texts are never those of a phone that was.
THEOREM TextsOfPeer == BtSpec => []ScreenOfPeer
  <1>1. BtInit => BtInv
    BY BtInit_Inv
  <1>2. BtInv /\ [BtNext]_btVars => BtInv'
    BY BtNext_Inv
  <1>3. BtInv => ScreenOfPeer
    BY DEF BtInv, LabelsInv, ScreenOfPeer
  <1> QED BY <1>1, <1>2, <1>3, PTL DEF BtSpec

-----------------------------------------------------------------------------
(* The menus *)

Characters == 0 .. Foreign
Wheel == 0 .. WheelLength - 1

\* The nodes of the menus by how deep they go.
Leaves == [kind : {"source", "networks", "switch", "text", "message", "language", "update", "erase",
                   "detail", "network_in_use", "open_network", "network", "password", "no_password",
                   "connect"}, sub : {<<>>}]
Lists1 == Leaves \cup [kind : {"list"}, sub : Seq(Leaves)]
Lists2 == Lists1 \cup [kind : {"list"}, sub : Seq(Lists1)]
Nodes == Lists2 \cup [kind : {"list"}, sub : Seq(Lists2)]

\* A list has one of its items selected, or none when it has none; an editor's cursor is
\* in its text or behind it, and the wheel on one of its characters.
ListViews ==
  {v \in [kind : {"list"}, sub : Seq(Nodes), selection : Int] :
     IF v.sub = <<>> THEN v.selection = -1 ELSE v.selection \in 0 .. Len(v.sub) - 1}
Editors ==
  {v \in [kind : {"text", "password"}, text : Seq(Characters), pos : Nat, wheel : Wheel,
          lower : BOOLEAN, last : NumberKeys \cup {"none"}] : v.pos <= Len(v.text)}
OtherViews == [kind : {"box"}, okAction : {"pop", "root", "restart"}] \cup [kind : {"update"}, locked : BOOLEAN]
Views == ListViews \cup Editors \cup OtherViews

MenusTypeOK == views \in Seq(Views) /\ pref \in Seq(Characters)

\* No view is put on top of an editor.
EditorOnTop == \A i \in DOMAIN views : IsEditor(views[i]) => i = Len(views)

MenusInv == MenusTypeOK /\ views # <<>> /\ EditorOnTop

-----------------------------------------------------------------------------
(* The editor *)

LEMMA WheelIsCharacters == Wheel \subseteq Characters /\ WheelLength \in Nat /\ WheelLength > 1
  BY MenusAssumption DEF Wheel, Characters, Foreign

LEMMA UpdateLabels ==
  ASSUME NEW e \in Editors
  PROVE  update_labels(e) \in Editors /\ update_labels(e).kind = e.kind
  <1>1. CASE e.pos < Len(e.text)
    <2> DEFINE c == e.text[e.pos + 1]
               low == IsLower(c)
               wh == IF c = Foreign THEN e.wheel ELSE c
    <2>1. c \in Characters
      BY <1>1 DEF Editors
    <2>2. wh \in Wheel
      BY <2>1, MenusAssumption DEF Editors, Characters, Wheel, Foreign
    <2>3. low \in BOOLEAN
      BY DEF IsLower
    <2>4. update_labels(e) = [e EXCEPT !.wheel = wh, !.lower = low]
      BY <1>1 DEF update_labels, move_wheel_to_char, Editors
    <2> HIDE DEF wh, low
    <2> QED BY <2>2, <2>3, <2>4 DEF Editors
  <1>2. CASE ~(e.pos < Len(e.text))
    BY <1>2 DEF update_labels
  <1> QED BY <1>1, <1>2

LEMMA SetCharacter ==
  ASSUME NEW e \in Editors
  PROVE  set_cur_char_from_wheel(e) \in Editors /\ set_cur_char_from_wheel(e).kind = e.kind
  <1> DEFINE t == IF e.pos < Len(e.text) THEN [e.text EXCEPT ![e.pos + 1] = e.wheel] ELSE Append(e.text, e.wheel)
             e1 == [e EXCEPT !.text = t]
  <1>1. e.text \in Seq(Characters) /\ e.wheel \in Characters /\ e.pos \in 0 .. Len(e.text)
    BY WheelIsCharacters DEF Editors
  <1>2. t \in Seq(Characters) /\ Len(t) >= Len(e.text)
    BY <1>1
  <1> HIDE DEF t
  <1>3. e1 \in Editors /\ e1.kind = e.kind
    BY <1>1, <1>2, SMTT(30) DEF Editors
  <1>4. set_cur_char_from_wheel(e) = update_labels(e1)
    BY DEF set_cur_char_from_wheel, t, Editors
  <1> QED BY <1>3, <1>4, UpdateLabels

LEMMA Moved ==
  ASSUME NEW e \in Editors, NEW p \in 0 .. Len(e.text)
  PROVE  MoveTo(e, p) \in Editors /\ MoveTo(e, p).kind = e.kind
  <1>1. [e EXCEPT !.pos = p] \in Editors /\ [e EXCEPT !.pos = p].kind = e.kind
    BY DEF Editors
  <1> QED BY <1>1, UpdateLabels DEF MoveTo

LEMMA WheelTurns ==
  ASSUME NEW w \in Wheel, NEW by \in {1, -1}
  PROVE  (w + by + WheelLength) % WheelLength \in Wheel
  BY WheelIsCharacters DEF Wheel

LEMMA TurnedEditor ==
  ASSUME NEW e \in Editors, NEW by \in {1, -1}
  PROVE  Turned(e, by) \in Editors /\ Turned(e, by).kind = e.kind
  <1> DEFINE w == (e.wheel + by + WheelLength) % WheelLength
  <1>1. w \in Wheel
    BY WheelTurns DEF Editors
  <1>2. Turned(e, by) = set_cur_char_from_wheel([e EXCEPT !.wheel = w])
    BY DEF Turned, Editors
  <1> HIDE DEF w
  <1>3. [e EXCEPT !.wheel = w] \in Editors /\ [e EXCEPT !.wheel = w].kind = e.kind
    BY <1>1 DEF Editors
  <1> QED BY <1>2, <1>3, SetCharacter

LEMMA Deleted ==
  ASSUME NEW e \in Editors
  PROVE  Delete(e) \in Editors /\ Delete(e).kind = e.kind
  <1>1. e.text \in Seq(Characters) /\ e.pos \in 0 .. Len(e.text) /\ Len(e.text) \in Nat
    BY DEF Editors
  <1>2. CASE e.pos < Len(e.text)
    <2> DEFINE t == RemoveAt(e.text, e.pos + 1)
    <2>1. t \in Seq(Characters) /\ Len(t) = Len(e.text) - 1
      <3> DEFINE a == SubSeq(e.text, 1, e.pos)
                 b == SubSeq(e.text, e.pos + 2, Len(e.text))
      <3>1. a \in Seq(Characters) /\ Len(a) = e.pos
        BY <1>1, <1>2
      <3>2. b \in Seq(Characters) /\ Len(b) = Len(e.text) - e.pos - 1
        <4>1. \A i \in e.pos + 2 .. Len(e.text) : e.text[i] \in Characters
          BY <1>1, <1>2
        <4> QED BY <1>1, <1>2, <4>1, SubSeqProperties
      <3>3. t = a \o b
        <4>1. (e.pos + 1) - 1 = e.pos /\ (e.pos + 1) + 1 = e.pos + 2
          BY <1>1
        <4> QED BY <4>1 DEF RemoveAt
      <3> HIDE DEF a, b, t
      <3> QED BY <1>1, <3>1, <3>2, <3>3
    <2>2. Delete(e) = update_labels([e EXCEPT !.text = t])
      BY <1>2 DEF Delete, Editors
    <2> HIDE DEF t
    <2>3. [e EXCEPT !.text = t] \in Editors /\ [e EXCEPT !.text = t].kind = e.kind
      BY <1>1, <1>2, <2>1 DEF Editors
    <2> QED BY <2>2, <2>3, UpdateLabels
  <1>3. CASE e.pos = Len(e.text) /\ e.pos > 0
    <2> DEFINE t == Front(e.text)
               e1 == [e EXCEPT !.text = t, !.pos = e.pos - 1]
    <2>1. t \in Seq(Characters) /\ Len(t) = Len(e.text) - 1
      BY <1>1, <1>3 DEF Front
    <2>2. Delete(e) = update_labels(e1)
      BY <1>3 DEF Delete, Editors
    <2> HIDE DEF t
    <2>3. e1 \in Editors /\ e1.kind = e.kind
      <3>1. e.pos - 1 \in Nat /\ e.pos - 1 <= Len(t)
        BY <1>1, <1>3, <2>1
      <3>2. e1.text = t /\ e1.pos = e.pos - 1 /\ e1.kind = e.kind
        BY DEF Editors
      <3>3. e1 \in [kind : {"text", "password"}, text : Seq(Characters), pos : Nat, wheel : Wheel,
                    lower : BOOLEAN, last : NumberKeys \cup {"none"}]
        BY <2>1, <3>1 DEF Editors
      <3> QED BY <3>1, <3>2, <3>3 DEF Editors
    <2> QED BY <2>2, <2>3, UpdateLabels
  <1>4. CASE e.pos = Len(e.text) /\ e.pos = 0
    BY <1>4 DEF Delete
  <1> QED BY <1>1, <1>2, <1>3, <1>4

\* A key for letters or symbols leaves the wheel on a character of it.
LEMMA WheelStays ==
  ASSUME NEW e \in Editors, NEW k \in NumberKeys
  PROVE  WheelAt(e, k) \in Wheel
  <1>1. e.wheel \in Wheel /\ FirstSymbol \in Wheel /\ Blank \in Wheel /\ WheelLength \in Nat
    BY MenusAssumption DEF Editors, Wheel, Blank
  <1>2. CASE k \in {"NUM_0", "NUM_1"}
    BY <1>1, <1>2 DEF WheelAt, Wheel
  <1>3. CASE k \notin {"NUM_0", "NUM_1"}
    <2>1. k \in DOMAIN Letters /\ WheelAt(e, k) = handle_letter_button(e, Letters[k])
      BY <1>3 DEF WheelAt, NumberKeys
    <2> DEFINE l == Letters[k]
    <2>2. l \in [upper : (1 .. FirstSymbol) \X (1 .. FirstSymbol), lower : (1 .. FirstSymbol) \X (1 .. FirstSymbol)]
      BY <2>1, MenusAssumption
    <2> HIDE DEF l
    <2>3. /\ l.upper[1] \in 1 .. FirstSymbol /\ l.upper[2] \in 1 .. FirstSymbol
          /\ l.lower[1] \in 1 .. FirstSymbol /\ l.lower[2] \in 1 .. FirstSymbol
      BY <2>2
    <2>4. handle_letter_button(e, l) \in Wheel
      BY <1>1, <2>3 DEF handle_letter_button, Wheel
    <2> QED BY <2>1, <2>4 DEF l
  <1> QED BY <1>2, <1>3

LEMMA TypedEditor ==
  ASSUME NEW e \in Editors, NEW k \in NumberKeys
  PROVE  Typed(e, k) \in Editors /\ Typed(e, k).kind = e.kind
  <1> DEFINE p == IF k # e.last /\ e.pos = Len(e.text) - 1 THEN e.pos + 1 ELSE e.pos
             e1 == [e EXCEPT !.pos = p, !.last = k]
             w == WheelAt(e1, k)
  <1>1. p \in 0 .. Len(e.text)
    BY DEF Editors
  <1>2. Typed(e, k) = set_cur_char_from_wheel([e1 EXCEPT !.wheel = w])
    BY DEF Typed, Editors
  <1> HIDE DEF p
  <1>3. e1 \in Editors /\ e1.kind = e.kind
    <2>1. e1.text = e.text /\ e1.pos = p /\ e1.kind = e.kind
      BY DEF Editors
    <2>2. p \in Nat /\ p <= Len(e.text)
      BY <1>1 DEF Editors
    <2>3. e1 \in [kind : {"text", "password"}, text : Seq(Characters), pos : Nat, wheel : Wheel,
                  lower : BOOLEAN, last : NumberKeys \cup {"none"}]
      BY <2>2 DEF Editors
    <2> QED BY <2>1, <2>2, <2>3 DEF Editors
  <1> HIDE DEF e1
  <1>4. w \in Wheel
    BY <1>3, WheelStays
  <1> HIDE DEF w
  <1>5. [e1 EXCEPT !.wheel = w] \in Editors /\ [e1 EXCEPT !.wheel = w].kind = e.kind
    BY <1>3, <1>4 DEF Editors
  <1> QED BY <1>2, <1>5, SetCharacter

\* Whatever a key makes of an editor is one.
LEMMA EditedEditor ==
  ASSUME NEW e \in Editors, NEW k
  PROVE  Edited(e, k) \in Editors /\ Edited(e, k).kind = e.kind
  <1>1. CASE k \in NumberKeys
    BY <1>1, TypedEditor DEF Edited
  <1>2. CASE k \notin NumberKeys
    <2> DEFINE other == CASE k = "LEFT" -> MoveTo(e, IF e.pos > 0 THEN e.pos - 1 ELSE 0)
                          [] k = "RIGHT" -> MoveTo(e, IF e.pos < Len(e.text) THEN e.pos + 1 ELSE Len(e.text))
                          [] k = "DOWN" -> Turned(e, 1)
                          [] k = "UP" -> Turned(e, -1)
                          [] k = "DEL" -> Delete(e)
                          [] OTHER -> e
    <2>1. Len(e.text) \in Nat /\ e.pos \in 0 .. Len(e.text)
      BY DEF Editors
    <2>2. (IF e.pos > 0 THEN e.pos - 1 ELSE 0) \in 0 .. Len(e.text)
      BY <2>1
    <2>3. (IF e.pos < Len(e.text) THEN e.pos + 1 ELSE Len(e.text)) \in 0 .. Len(e.text)
      BY <2>1
    <2>4. other \in Editors /\ other.kind = e.kind
      <3>1. CASE k = "LEFT" BY <3>1, <2>2, Moved
      <3>2. CASE k = "RIGHT" BY <3>2, <2>3, Moved
      <3>3. CASE k = "DOWN" BY <3>3, TurnedEditor
      <3>4. CASE k = "UP" BY <3>4, TurnedEditor
      <3>5. CASE k = "DEL" BY <3>5, Deleted
      <3>6. CASE k \notin {"LEFT", "RIGHT", "DOWN", "UP", "DEL"} BY <3>6
      <3> QED BY <3>1, <3>2, <3>3, <3>4, <3>5, <3>6
    <2>5. Edited(e, k) = [other EXCEPT !.last = "none"]
      BY <1>2 DEF Edited
    <2> HIDE DEF other
    <2> QED BY <2>4, <2>5 DEF Editors
  <1> QED BY <1>1, <1>2

-----------------------------------------------------------------------------
(* The navigator *)

LEMMA ViewKinds ==
  ASSUME NEW v \in Views
  PROVE  /\ v.kind = "list" => v \in ListViews
         /\ IsEditor(v) => v \in Editors
         /\ v.kind = "box" => v.okAction \in {"pop", "root", "restart"}
  BY DEF Views, ListViews, Editors, OtherViews, IsEditor

LEMMA LevelsOfNodes == Leaves \subseteq Lists1 /\ Lists1 \subseteq Lists2 /\ Lists2 \subseteq Nodes
  BY DEF Lists1, Lists2, Nodes

LEMMA NodeSub ==
  ASSUME NEW n \in Nodes
  PROVE  n.sub \in Seq(Nodes)
  <1>1. CASE n \in Leaves
    <2>1. n.sub = <<>>
      BY <1>1 DEF Leaves
    <2> QED BY <2>1, EmptySeq
  <1>2. CASE n \in [kind : {"list"}, sub : Seq(Leaves)]
    <2>1. n.sub \in Seq(Leaves)
      BY <1>2
    <2> QED BY <2>1, LevelsOfNodes, SeqMonotonic
  <1>3. CASE n \in [kind : {"list"}, sub : Seq(Lists1)]
    <2>1. n.sub \in Seq(Lists1)
      BY <1>3
    <2> QED BY <2>1, LevelsOfNodes, SeqMonotonic
  <1>4. CASE n \in [kind : {"list"}, sub : Seq(Lists2)]
    <2>1. n.sub \in Seq(Lists2)
      BY <1>4
    <2> QED BY <2>1, LevelsOfNodes, SeqMonotonic
  <1> QED BY <1>1, <1>2, <1>3, <1>4 DEF Nodes, Lists2, Lists1

LEMMA RootMenu == root.sub \in Seq(Nodes)
  <1>1. /\ Item("source") \in Leaves /\ Item("networks") \in Leaves /\ Item("switch") \in Leaves
        /\ Item("text") \in Leaves /\ Item("message") \in Leaves /\ Item("language") \in Leaves
        /\ Item("update") \in Leaves /\ Item("erase") \in Leaves /\ Item("detail") \in Leaves
    BY DEF Item, Node, Leaves
  <1> DEFINE sources == Node("list", <<Item("source")>>)
             switches == Node("list", <<Item("switch"), Item("text"), Item("message")>>)
             erasing == Node("list", <<Item("erase")>>)
             general == Node("list", <<Item("language"), Item("update"), erasing>>)
  <1>2. sources \in Lists1
    <2>1. <<Item("source")>> \in Seq(Leaves)
      BY <1>1
    <2> QED BY <2>1 DEF Node, Lists1
  <1>3. switches \in Lists1
    <2>1. <<Item("switch"), Item("text"), Item("message")>> \in Seq(Leaves)
      BY <1>1
    <2> QED BY <2>1 DEF Node, Lists1
  <1>4. erasing \in Lists1
    <2>1. <<Item("erase")>> \in Seq(Leaves)
      BY <1>1
    <2> QED BY <2>1 DEF Node, Lists1
  <1>5. general \in Lists2
    <2> HIDE DEF erasing
    <2>1. <<Item("language"), Item("update"), erasing>> \in Seq(Lists1)
      BY <1>1, <1>4, LevelsOfNodes
    <2> QED BY <2>1 DEF Node, Lists2
  <1>6. settings_menu \in Nodes
    <2> HIDE DEF switches, general
    <2>1. <<Item("networks"), switches, general, Item("detail")>> \in Seq(Lists2)
      BY <1>1, <1>3, <1>5, LevelsOfNodes
    <2>2. settings_menu = Node("list", <<Item("networks"), switches, general, Item("detail")>>)
      BY DEF settings_menu, switches, general
    <2> QED BY <2>1, <2>2 DEF Node, Nodes
  <1> HIDE DEF sources
  <1>7. <<sources, settings_menu>> \in Seq(Nodes)
    BY <1>2, <1>6, LevelsOfNodes
  <1> QED BY <1>7 DEF root, Node, sources

LEMMA NetworkMenus ==
  /\ \A found \in Scans : found \in Seq(Nodes)
  /\ \A kind : NetworkMenu(kind) \in Seq(Nodes)
  <1>1. \A k \in {"network_in_use", "open_network", "network", "password", "no_password", "connect", "detail"} :
          Item(k) \in Nodes
    BY LevelsOfNodes DEF Item, Node, Leaves
  <1>2. ASSUME NEW found \in Scans PROVE found \in Seq(Nodes)
    <2>1. CASE found = <<>>
      BY <2>1, EmptySeq
    <2>2. CASE \E n \in {"network_in_use", "open_network", "network"} : found = <<Item(n)>>
      BY <1>1, <2>2
    <2>3. CASE found = <<Item("network_in_use"), Item("network")>>
      BY <1>1, <2>3
    <2> QED BY <2>1, <2>2, <2>3 DEF Scans
  <1>3. ASSUME NEW kind PROVE NetworkMenu(kind) \in Seq(Nodes)
    <2>1. Item(IF kind = "network" THEN "password" ELSE "no_password") \in Nodes
      BY <1>1
    <2> QED BY <1>1, <2>1 DEF NetworkMenu
  <1> QED BY <1>2, <1>3

\* What is presented and how: the views that the handlers make.
LEMMA NewViews ==
  /\ \A sub \in Seq(Nodes) : ListView(sub) \in Views /\ ~IsEditor(ListView(sub))
  /\ \A a \in {"pop", "root", "restart"} : Box(a) \in Views /\ ~IsEditor(Box(a))
  /\ \A b \in BOOLEAN : UpdateScreen(b) \in Views /\ ~IsEditor(UpdateScreen(b))
  /\ \A kind \in {"text", "password"}, text \in Seq(Characters) : Editor(kind, text) \in Editors
  <1>1. ASSUME NEW sub \in Seq(Nodes) PROVE ListView(sub) \in Views /\ ~IsEditor(ListView(sub))
    <2>1. CASE sub = <<>>
      BY <2>1 DEF ListView, Views, ListViews, IsEditor
    <2>2. CASE sub # <<>>
      <3>1. 0 \in 0 .. Len(sub) - 1
        BY <2>2
      <3> QED BY <2>2, <3>1 DEF ListView, Views, ListViews, IsEditor
    <2> QED BY <2>1, <2>2
  <1>2. \A a \in {"pop", "root", "restart"} : Box(a) \in Views /\ ~IsEditor(Box(a))
    BY DEF Box, Views, OtherViews, IsEditor
  <1>3. \A b \in BOOLEAN : UpdateScreen(b) \in Views /\ ~IsEditor(UpdateScreen(b))
    BY DEF UpdateScreen, Views, OtherViews, IsEditor
  <1>4. ASSUME NEW kind \in {"text", "password"}, NEW text \in Seq(Characters)
        PROVE  Editor(kind, text) \in Editors
    <2>1. 0 \in Wheel /\ Len(text) \in Nat
      BY WheelIsCharacters DEF Wheel
    <2> QED BY <2>1 DEF Editor, Editors
  <1> QED BY <1>1, <1>2, <1>3, <1>4

LEMMA Pushed ==
  ASSUME MenusInv, NEW v \in Views, ~IsEditor(current), views' = Append(views, v), pref' \in Seq(Characters)
  PROVE  MenusInv'
  <1>1. views \in Seq(Views) /\ views' \in Seq(Views) /\ Len(views') = Len(views) + 1 /\ Len(views) \in Nat
    BY DEF MenusInv, MenusTypeOK
  <1>2. \A i \in 1 .. Len(views) : views'[i] = views[i]
    BY <1>1
  <1>3. \A i \in 1 .. Len(views) : ~IsEditor(views[i])
    BY <1>1 DEF MenusInv, EditorOnTop, Last, current
  <1> QED BY <1>1, <1>2, <1>3 DEF MenusInv, MenusTypeOK, EditorOnTop

LEMMA Popped ==
  ASSUME MenusInv, Len(views) > 1, views' = Front(views), pref' \in Seq(Characters)
  PROVE  MenusInv'
  <1>1. views \in Seq(Views) /\ Len(views) \in Nat
    BY DEF MenusInv, MenusTypeOK
  <1>2. views' \in Seq(Views) /\ Len(views') = Len(views) - 1 /\ \A i \in 1 .. Len(views) - 1 : views'[i] = views[i]
    BY <1>1 DEF Front
  <1>3. \A i \in 1 .. Len(views) - 1 : ~IsEditor(views[i])
    BY <1>1 DEF MenusInv, EditorOnTop
  <1> QED BY <1>1, <1>2, <1>3, SMTT(30) DEF MenusInv, MenusTypeOK, EditorOnTop

LEMMA Changed ==
  ASSUME MenusInv, NEW v \in Views, SetCurrent(v)
  PROVE  MenusInv'
  <1>1. views \in Seq(Views) /\ Len(views) \in Nat \ {0}
    BY DEF MenusInv, MenusTypeOK
  <1> DEFINE front == Front(views)
  <1>2. /\ front \in Seq(Views) /\ Len(front) = Len(views) - 1
        /\ \A i \in 1 .. Len(views) - 1 : front[i] = views[i]
    <2>1. \A i \in 1 .. Len(views) - 1 : views[i] \in Views
      BY <1>1
    <2>2. front = SubSeq(views, 1, Len(views) - 1)
      BY DEF Front
    <2> DEFINE n == Len(views) - 1
    <2>3. n \in Nat
      BY <1>1
    <2> HIDE DEF front, n
    <2>4. front = SubSeq(views, 1, n) /\ \A i \in 1 .. n : views[i] \in Views
      BY <2>1, <2>2 DEF n
    <2>5. front \in Seq(Views) /\ Len(front) = n /\ \A i \in 1 .. n : front[i] = views[i]
      BY <2>3, <2>4
    <2> QED BY <2>5 DEF n
  <1>3. views' = Append(front, v) /\ UNCHANGED pref
    BY DEF SetCurrent
  <1> HIDE DEF front
  <1>4. views' \in Seq(Views) /\ Len(views') = Len(views) /\ \A i \in 1 .. Len(views) - 1 : views'[i] = views[i]
    BY <1>1, <1>2, <1>3
  <1> QED BY <1>1, <1>3, <1>4 DEF MenusInv, MenusTypeOK, EditorOnTop

\* The view at the bottom, alone.
LEMMA Alone ==
  ASSUME NEW v \in Views, views' = <<v>>, pref' \in Seq(Characters)
  PROVE  MenusInv'
  BY DEF MenusInv, MenusTypeOK, EditorOnTop

LEMMA CurrentView ==
  ASSUME MenusInv
  PROVE  current \in Views /\ Len(views) \in Nat \ {0} /\ current = views[Len(views)]
  <1>1. views \in Seq(Views) /\ Len(views) \in Nat \ {0}
    BY DEF MenusInv, MenusTypeOK
  <1>2. current = views[Len(views)]
    BY DEF current, Last
  <1> QED BY <1>1, <1>2

LEMMA TrimmedText ==
  ASSUME NEW t \in Seq(Characters)
  PROVE  Trimmed(t) \in Seq(Characters)
  <1>1. CASE t # <<>> /\ Last(t) = Blank
    <2>1. Front(t) \in Seq(Characters)
      BY <1>1 DEF Front
    <2> QED BY <1>1, <2>1 DEF Trimmed
  <1>2. CASE ~(t # <<>> /\ Last(t) = Blank)
    BY <1>2 DEF Trimmed
  <1> QED BY <1>1, <1>2

LEMMA Pop_Inv ==
  ASSUME MenusInv, pop
  PROVE  MenusInv'
  <1>1. CASE can_go_up
    <2>1. views' = Front(views) /\ on_dismissed(current) /\ Len(views) > 1
      BY <1>1 DEF pop, can_go_up
    <2>2. current.kind = "text" => current.text \in Seq(Characters)
      BY CurrentView, ViewKinds DEF Editors, IsEditor
    <2>3. pref' \in Seq(Characters)
      BY <2>1, <2>2, TrimmedText DEF on_dismissed, MenusInv, MenusTypeOK
    <2> QED BY <2>1, <2>3, Popped
  <1>2. CASE ~can_go_up
    <2>1. UNCHANGED <<views, pref>>
      BY <1>2 DEF pop, menuVars
    <2> QED BY <2>1 DEF MenusInv, MenusTypeOK, EditorOnTop
  <1> QED BY <1>1, <1>2

LEMMA FromRoot_Inv ==
  ASSUME MenusInv, FromRoot
  PROVE  MenusInv'
  <1>1. ListView(root.sub) \in Views
    BY RootMenu, NewViews
  <1> QED BY <1>1, Alone DEF FromRoot, MenusInv, MenusTypeOK

LEMMA Present_Inv ==
  ASSUME MenusInv, ~IsEditor(current), NEW v \in Views, Present(v)
  PROVE  MenusInv'
  BY Pushed DEF Present, PushView, MenusInv, MenusTypeOK

LEMMA CheckForUpdates_Inv ==
  ASSUME MenusInv, ~IsEditor(current), CheckForUpdates
  PROVE  MenusInv'
  <1>1. CASE views' = views \o <<UpdateScreen(FALSE), Box("root")>> /\ UNCHANGED pref
    <2> DEFINE a == UpdateScreen(FALSE)
               b == Box("root")
    <2>1. a \in Views /\ b \in Views /\ ~IsEditor(a) /\ ~IsEditor(b)
      BY NewViews
    <2>2. views' = views \o <<a, b>>
      BY <1>1
    <2> HIDE DEF a, b
    <2>3. views \in Seq(Views) /\ Len(views) \in Nat
      BY DEF MenusInv, MenusTypeOK
    <2>4. /\ views' \in Seq(Views) /\ Len(views') = Len(views) + 2
          /\ views'[Len(views) + 1] = a /\ views'[Len(views) + 2] = b
          /\ \A i \in 1 .. Len(views) : views'[i] = views[i]
      BY <2>1, <2>2, <2>3
    <2>5. \A i \in 1 .. Len(views) : ~IsEditor(views[i])
      BY <2>3, CurrentView DEF MenusInv, EditorOnTop
    <2>6. \A i \in DOMAIN views' : ~IsEditor(views'[i])
      <3>1. DOMAIN views' = 1 .. Len(views) + 2
        BY <2>4
      <3>2. \A i \in 1 .. Len(views) + 2 : i \in 1 .. Len(views) \/ i = Len(views) + 1 \/ i = Len(views) + 2
        BY <2>3
      <3> QED BY <2>1, <2>4, <2>5, <3>1, <3>2
    <2>7. views' # <<>>
      BY <2>3, <2>4
    <2> QED BY <1>1, <2>4, <2>6, <2>7 DEF MenusInv, MenusTypeOK, EditorOnTop
  <1>2. CASE FromRoot
    BY <1>2, FromRoot_Inv
  <1>3. CASE Present(UpdateScreen(TRUE))
    BY <1>3, Present_Inv, NewViews
  <1> QED BY <1>1, <1>2, <1>3 DEF CheckForUpdates

LEMMA Execute_Inv ==
  ASSUME MenusInv, ~IsEditor(current), NEW node \in Nodes, Execute(node)
  PROVE  MenusInv'
  <1> DEFINE k == node.kind
  <1>1. CASE k = "list"
    BY <1>1, NodeSub, NewViews, Present_Inv DEF Execute
  <1>2. CASE k = "networks"
    <2>1. PICK found \in Scans : Present(ListView(found))
      BY <1>2 DEF Execute
    <2> QED BY <2>1, NetworkMenus, NewViews, Present_Inv
  <1>3. CASE k \in {"network", "open_network"}
    BY <1>3, NetworkMenus, NewViews, Present_Inv DEF Execute
  <1>4. CASE k = "network_in_use"
    BY <1>4, Pop_Inv DEF Execute
  <1>5. CASE k = "text"
    <2>1. Present(update_labels(Editor("text", pref)))
      BY <1>5 DEF Execute
    <2>2. Editor("text", pref) \in Editors
      BY NewViews DEF MenusInv, MenusTypeOK
    <2> QED BY <2>1, <2>2, UpdateLabels, Present_Inv DEF Views
  <1>6. CASE k = "password"
    <2>1. Present(Editor("password", <<>>))
      BY <1>6 DEF Execute
    <2>2. <<>> \in Seq(Characters)
      BY EmptySeq
    <2>3. Editor("password", <<>>) \in Editors
      BY <2>2, NewViews
    <2> QED BY <2>1, <2>3, Present_Inv DEF Views
  <1>7. CASE k = "connect"
    <2>1. PICK okAction \in {"root", "pop"} : Present(Box(okAction))
      BY <1>7 DEF Execute
    <2> QED BY <2>1, NewViews, Present_Inv
  <1>8. CASE k \in {"message", "language"}
    BY <1>8, NewViews, Present_Inv DEF Execute
  <1>9. CASE k = "erase"
    <2>1. pref' = <<>> /\ views' = Append(views, Box("restart"))
      BY <1>9 DEF Execute, PushView
    <2> QED BY <2>1, EmptySeq, NewViews, Pushed
  <1>10. CASE k = "update"
    BY <1>10, CheckForUpdates_Inv DEF Execute
  <1>11. CASE k = "source"
    BY <1>11, FromRoot_Inv DEF Execute
  <1>12. CASE k \notin {"list", "networks", "network", "open_network", "network_in_use", "text", "password",
                        "connect", "message", "language", "erase", "update", "source"}
    <2>1. UNCHANGED <<views, pref>>
      BY <1>12 DEF Execute, menuVars
    <2> QED BY <2>1 DEF MenusInv, MenusTypeOK, EditorOnTop
  <1> HIDE DEF k
  <1> QED BY <1>1, <1>2, <1>3, <1>4, <1>5, <1>6, <1>7, <1>8, <1>9, <1>10, <1>11, <1>12

\* Up and down go round the items of a list.
LEMMA SelectedList ==
  ASSUME NEW v \in ListViews, NEW k
  PROVE  Selected(v, k) \in ListViews
  <1> DEFINE n == Len(v.sub)
  <1>1. n \in Nat /\ v.selection \in Int /\ (n = 0 <=> v.sub = <<>>)
    BY DEF ListViews
  <1>2. CASE n = 0 \/ k \notin {"UP", "DOWN"}
    BY <1>2 DEF Selected
  <1>3. CASE n > 0 /\ k \in {"UP", "DOWN"}
    <2>1. v.sub # <<>> /\ v.selection \in 0 .. n - 1
      BY <1>1, <1>3 DEF ListViews
    <2> DEFINE d == (v.selection + 1) % n
               u == (v.selection + n - 1) % n
    <2>2. d \in 0 .. n - 1 /\ u \in 0 .. n - 1
      <3> HIDE DEF n
      <3> QED BY <1>1, <1>3, <2>1
    <2>3. Selected(v, k) = [v EXCEPT !.selection = d] \/ Selected(v, k) = [v EXCEPT !.selection = u]
      BY <1>1, <1>3 DEF Selected, ListViews
    <2> HIDE DEF d, u
    <2> QED BY <2>1, <2>2, <2>3 DEF ListViews
  <1> QED BY <1>1, <1>2, <1>3

LEMMA ListKey_Inv ==
  ASSUME MenusInv, NEW k, ListKey(k)
  PROVE  MenusInv'
  <1>1. current \in ListViews /\ ~IsEditor(current)
    BY CurrentView, ViewKinds DEF ListKey, IsEditor
  <1>2. CASE k = "ENTER" /\ current.sub # <<>>
    <2>1. current.sub[current.selection + 1] \in Nodes
      BY <1>1, <1>2 DEF ListViews
    <2> QED BY <1>1, <1>2, <2>1, Execute_Inv DEF ListKey
  <1>3. CASE k = "ENTER" /\ current.sub = <<>>
    BY <1>3, FromRoot_Inv DEF ListKey
  <1>4. CASE k = "LEFT"
    BY <1>4, Pop_Inv DEF ListKey
  <1>5. CASE k \notin {"ENTER", "LEFT"}
    <2>1. SetCurrent(Selected(current, k))
      BY <1>5 DEF ListKey
    <2> QED BY <1>1, <2>1, SelectedList, Changed DEF Views
  <1> QED BY <1>2, <1>3, <1>4, <1>5

LEMMA EditorKey_Inv ==
  ASSUME MenusInv, NEW k, EditorKey(k)
  PROVE  MenusInv'
  <1>1. CASE k = "ENTER"
    BY <1>1, Pop_Inv DEF EditorKey
  <1>2. CASE k # "ENTER"
    <2>1. current \in Editors /\ SetCurrent(Edited(current, k))
      BY <1>2, CurrentView, ViewKinds DEF EditorKey
    <2> QED BY <2>1, EditedEditor, Changed DEF Views
  <1> QED BY <1>1, <1>2

LEMMA BoxKey_Inv ==
  ASSUME MenusInv, NEW k, BoxKey(k)
  PROVE  MenusInv'
  <1>1. current.okAction \in {"pop", "root", "restart"}
    BY CurrentView, ViewKinds DEF BoxKey
  <1>2. CASE current.okAction = "pop"
    BY <1>2, Pop_Inv DEF BoxKey
  <1>3. CASE current.okAction = "root"
    <2>1. pop_to_root
      BY <1>3 DEF BoxKey
    <2>2. Head(views) \in Views
      BY DEF MenusInv, MenusTypeOK
    <2> QED BY <2>1, <2>2, Alone DEF pop_to_root, MenusInv, MenusTypeOK
  <1>4. CASE current.okAction = "restart"
    BY <1>4, FromRoot_Inv DEF BoxKey
  <1> QED BY <1>1, <1>2, <1>3, <1>4

LEMMA MenusInit_Inv ==
  ASSUME MenusInit
  PROVE  MenusInv
  <1>1. ListView(root.sub) \in Views
    BY RootMenu, NewViews
  <1>2. Foreign \in Characters
    BY MenusAssumption DEF Foreign, Characters
  <1>3. pref \in Seq(Characters)
    <2>1. CASE pref = <<>>
      BY <2>1, EmptySeq
    <2>2. CASE pref = <<Foreign>>
      BY <1>2, <2>2
    <2> QED BY <2>1, <2>2 DEF MenusInit
  <1> QED BY <1>1, <1>3 DEF MenusInit, MenusInv, MenusTypeOK, EditorOnTop

LEMMA MenusNext_Inv ==
  ASSUME MenusInv, [MenusNext]_menuVars
  PROVE  MenusInv'
  <1>1. CASE UNCHANGED menuVars
    BY <1>1 DEF menuVars, MenusInv, MenusTypeOK, EditorOnTop
  <1> QED BY <1>1, ListKey_Inv, EditorKey_Inv, BoxKey_Inv, FromRoot_Inv DEF MenusNext, LeaveSettings

\* Whatever keys are pressed, in whichever menus and editors, for any wheel and letters:
\* a list has one of its items selected, and a wheel stands on one of its characters.
THEOREM MenusTypes == MenusSpec => []MenusTypeOK
  <1>1. MenusInit => MenusInv
    BY MenusInit_Inv
  <1>2. MenusInv /\ [MenusNext]_menuVars => MenusInv'
    BY MenusNext_Inv
  <1>3. MenusInv => MenusTypeOK
    BY DEF MenusInv
  <1> QED BY <1>1, <1>2, <1>3, PTL DEF MenusSpec

\* The cursor of an editor never leaves its text.
THEOREM CursorStays == MenusSpec => []CursorInText
  <1>1. MenusInit => MenusInv
    BY MenusInit_Inv
  <1>2. MenusInv /\ [MenusNext]_menuVars => MenusInv'
    BY MenusNext_Inv
  <1>3. MenusInv => CursorInText
    BY CurrentView, ViewKinds DEF Editors, CursorInText
  <1> QED BY <1>1, <1>2, <1>3, PTL DEF MenusSpec

\* What closes the editor of a preference closes nothing else.
LEMMA TextKept ==
  ASSUME MenusInv, MenusNext, NEW i \in DOMAIN views, views[i].kind = "text", Len(views') < i, ~LeaveSettings
  PROVE  pref' = Trimmed(views[i].text)
  <1>1. i = Len(views) /\ current = views[i] /\ IsEditor(current) /\ Len(views) \in Nat \ {0}
    BY CurrentView DEF MenusInv, EditorOnTop, IsEditor
  <1>2. PICK k \in Keys : EditorKey(k)
    BY <1>1 DEF MenusNext, ListKey, BoxKey, IsEditor
  <1>3. k = "ENTER"
    <2>1. SUFFICES ASSUME SetCurrent(Edited(current, k)) PROVE FALSE
      BY <1>2 DEF EditorKey
    <2>2. views \in Seq(Views) /\ Edited(current, k) \in Views
      BY <1>1, CurrentView, ViewKinds, EditedEditor DEF MenusInv, MenusTypeOK, Views
    <2>3. Front(views) \in Seq(Views) /\ Len(Front(views)) = Len(views) - 1
      BY <1>1, <2>2 DEF Front
    <2>4. Len(views') = Len(views)
      BY <1>1, <2>1, <2>2, <2>3 DEF SetCurrent
    <2> QED BY <1>1, <2>4
  <1>4. pop
    BY <1>2, <1>3 DEF EditorKey
  <1>5. can_go_up
    <2>1. SUFFICES ASSUME UNCHANGED views PROVE FALSE
      BY <1>4 DEF pop, menuVars
    <2> QED BY <1>1, <2>1
  <1> QED BY <1>1, <1>4, <1>5 DEF pop, on_dismissed

\* pop(), pop_to_root() and what restarts never drop an editor without its on_dismissed().
THEOREM EditedIsStored == MenusSpec => TextIsKept
  <1>1. MenusInit => MenusInv
    BY MenusInit_Inv
  <1>2. MenusInv /\ [MenusNext]_menuVars => MenusInv'
    BY MenusNext_Inv
  <1>3. MenusInv /\ [MenusNext]_menuVars
          => [\A i \in DOMAIN views :
                views[i].kind = "text" /\ Len(views') < i
                  => LeaveSettings \/ pref' = Trimmed(views[i].text)]_menuVars
    BY TextKept
  <1> QED BY <1>1, <1>2, <1>3, PTL DEF MenusSpec, TextIsKept

=============================================================================
