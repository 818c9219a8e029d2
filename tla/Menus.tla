------------------------------- MODULE Menus -------------------------------
(***************************************************************************)
(* The menus of the settings mode: the navigator and its stack of views,   *)
(* the lists, the text editor, the message boxes (menus/framework.h), the  *)
(* menus of networks (wifi_menus.h) and the update screen (httpfvu_app.h). *)
(* One key at a time is handled; a key's handler does all its work, the    *)
(* scan for networks and an update included, before the next one.          *)
(*                                                                         *)
(* A character is its place on the input wheel; Foreign stands for those   *)
(* that a stored text may have and the wheel has not.                      *)
(***************************************************************************)
EXTENDS Integers, Sequences, SequencesExt

CONSTANTS
  WheelLength,  \* characters of the wheel; a blank is the first, 0
  Letters,      \* number key -> its letters: [upper, lower : first and last]
  FirstSymbol,  \* 53: where the key for symbols begins
  MaxText       \* bound of the length of a text

ASSUME MenusAssumption ==
  /\ WheelLength \in Nat /\ FirstSymbol \in 1 .. WheelLength - 1
  /\ \A k \in DOMAIN Letters : Letters[k] \in [upper : (1 .. FirstSymbol) \X (1 .. FirstSymbol),
                                               lower : (1 .. FirstSymbol) \X (1 .. FirstSymbol)]
  /\ MaxText \in Nat

VARIABLES
  views,      \* back_stack with the current view on top
  pref        \* the preference that is a text

menuVars == <<views, pref>>

Blank == 0
Foreign == WheelLength
Text == Seq(0 .. Foreign)

-----------------------------------------------------------------------------
(* Menus and views *)

Node(kind, sub) == [kind |-> kind, sub |-> sub]
Item(kind) == Node(kind, <<>>)

\* One of each kind of what the menus of the program hold.
settings_menu ==
  Node("list", <<Item("networks"),
                 Node("list", <<Item("switch"), Item("text"), Item("message")>>),
                 Node("list", <<Item("language"), Item("update"), Node("list", <<Item("erase")>>)>>),
                 Item("detail")>>)
root == Node("list", <<Node("list", <<Item("source")>>), settings_menu>>)

\* What a scan finds: nothing, the network that the device is in, others.
Scans == {<<>>} \cup {<<Item(n)>> : n \in {"network_in_use", "open_network", "network"}}
         \cup {<<Item("network_in_use"), Item("network")>>}
NetworkMenu(kind) == <<Item("detail"), Item(IF kind = "network" THEN "password" ELSE "no_password"), Item("connect")>>

\* A list when it is presented: its first item is selected, if there is one.
ListView(sub) == [kind |-> "list", sub |-> sub, selection |-> IF sub = <<>> THEN -1 ELSE 0]
Box(okAction) == [kind |-> "box", okAction |-> okAction]
UpdateScreen(locked) == [kind |-> "update", locked |-> locked]

current == Last(views)
PushView(view) == views' = Append(views, view)

-----------------------------------------------------------------------------
(* The text editor *)

IsLower(c) == \E k \in DOMAIN Letters : c \in Letters[k].lower[1] .. Letters[k].lower[2]

move_wheel_to_char(e, c) == [e EXCEPT !.wheel = IF c = Foreign THEN @ ELSE c]

update_labels(e) ==
  IF e.pos < Len(e.text)
  THEN [move_wheel_to_char(e, e.text[e.pos + 1]) EXCEPT !.lower = IsLower(e.text[e.pos + 1])]
  ELSE e

set_cur_char_from_wheel(e) ==
  update_labels([e EXCEPT !.text = IF e.pos < Len(@) THEN [@ EXCEPT ![e.pos + 1] = e.wheel] ELSE Append(@, e.wheel)])

\* on_presented(): the cursor behind the last character
Editor(kind, text) ==
  [kind |-> kind, text |-> text, pos |-> Len(text), wheel |-> 0, lower |-> FALSE, last |-> "none"]

MoveTo(e, pos) == update_labels([e EXCEPT !.pos = pos])
Turned(e, by) == set_cur_char_from_wheel([e EXCEPT !.wheel = (@ + by + WheelLength) % WheelLength])

\* Mutant: leaves the cursor where it was.
DeleteThere(e) ==
  CASE e.pos < Len(e.text) -> update_labels([e EXCEPT !.text = RemoveAt(@, e.pos + 1)])
    [] e.pos = Len(e.text) /\ e.pos > 0 -> update_labels([e EXCEPT !.text = Front(@)])
    [] OTHER -> e

Delete(e) ==
  CASE e.pos < Len(e.text) -> update_labels([e EXCEPT !.text = RemoveAt(@, e.pos + 1)])
    [] e.pos = Len(e.text) /\ e.pos > 0 -> update_labels([e EXCEPT !.text = Front(@), !.pos = @ - 1])
    [] OTHER -> e

\* Where the wheel goes when a key with letters is pressed: through the upper ones
\* and the lower ones, and round.
handle_letter_button(e, l) ==
  LET w == e.wheel
  IN  CASE w = l.upper[2] -> l.lower[1]
        [] w = l.lower[2] -> l.upper[1]
        [] w \in l.upper[1] .. l.upper[2] - 1 \/ w \in l.lower[1] .. l.lower[2] - 1 -> w + 1
        [] OTHER -> IF e.lower THEN l.lower[1] ELSE l.upper[1]

WheelAt(e, k) ==
  CASE k = "NUM_0" -> Blank
    [] k = "NUM_1" -> IF e.wheel < FirstSymbol \/ e.wheel = WheelLength - 1 THEN FirstSymbol ELSE e.wheel + 1
    [] OTHER -> handle_letter_button(e, Letters[k])

\* Another key than the last one, behind the last character: on to the next place.
Typed(e, k) ==
  LET advanced == [e EXCEPT !.pos = IF k # e.last /\ e.pos = Len(e.text) - 1 THEN @ + 1 ELSE @, !.last = k]
  IN  set_cur_char_from_wheel([advanced EXCEPT !.wheel = WheelAt(advanced, k)])

NumberKeys == {"NUM_0", "NUM_1"} \cup DOMAIN Letters

\* What any key but ENTER makes of an editor.
Edited(e, k) ==
  LET other == CASE k = "LEFT" -> MoveTo(e, IF e.pos > 0 THEN e.pos - 1 ELSE 0)
                 [] k = "RIGHT" -> MoveTo(e, IF e.pos < Len(e.text) THEN e.pos + 1 ELSE Len(e.text))
                 [] k = "DOWN" -> Turned(e, 1)
                 [] k = "UP" -> Turned(e, -1)
                 [] k = "DEL" -> Delete(e)
                 [] OTHER -> e
  IN  IF k \in NumberKeys THEN Typed(e, k) ELSE [other EXCEPT !.last = "none"]

\* on_dismissed(): a blank at the end goes.
Trimmed(text) == IF text # <<>> /\ Last(text) = Blank THEN Front(text) ELSE text

-----------------------------------------------------------------------------
(* The navigator *)

IsEditor(view) == view.kind \in {"text", "password"}

\* The editor of a preference stores it; that of a password leaves it with the network.
on_dismissed(view) == pref' = IF view.kind = "text" THEN Trimmed(view.text) ELSE pref

can_go_up == Len(views) > 1 /\ ~(current.kind = "update" /\ current.locked)

\* Mutant: lets go of a view without dismissing it.
pop_undismissed ==
  IF can_go_up THEN views' = Front(views) /\ UNCHANGED pref
  ELSE UNCHANGED menuVars

pop ==
  IF can_go_up THEN views' = Front(views) /\ on_dismissed(current)
  ELSE UNCHANGED menuVars

\* The views in between are dismissed, the one on top is not: always a message box.
pop_to_root == views' = <<Head(views)>> /\ UNCHANGED pref

\* The device restarts, or the settings mode is left and entered again.
FromRoot == views' = <<ListView(root.sub)>> /\ UNCHANGED pref

-----------------------------------------------------------------------------
(* execute() of the nodes *)

Present(view) == PushView(view) /\ UNCHANGED pref

\* A new version is installed and started, or fails to be, and the screen stays.
CheckForUpdates ==
  \/ views' = views \o <<UpdateScreen(FALSE), Box("root")>> /\ UNCHANGED pref
  \/ FromRoot
  \/ Present(UpdateScreen(TRUE))

Execute(node) ==
  CASE node.kind = "list" -> Present(ListView(node.sub))
    [] node.kind = "networks" -> \E found \in Scans : Present(ListView(found))
    [] node.kind \in {"network", "open_network"} -> Present(ListView(NetworkMenu(node.kind)))
    [] node.kind = "network_in_use" -> pop
    [] node.kind = "text" -> Present(update_labels(Editor("text", pref)))
    [] node.kind = "password" -> Present(Editor("password", <<>>))
    [] node.kind = "connect" -> \E okAction \in {"root", "pop"} : Present(Box(okAction))
    [] node.kind = "message" -> Present(Box("pop"))
    [] node.kind = "language" -> Present(Box("restart"))
    [] node.kind = "erase" -> pref' = <<>> /\ PushView(Box("restart"))
    [] node.kind = "update" -> CheckForUpdates
    [] node.kind = "source" -> FromRoot
    [] OTHER -> UNCHANGED menuVars

-----------------------------------------------------------------------------
(* Keys *)

Keys == {"LEFT", "RIGHT", "UP", "DOWN", "ENTER", "DEL", "other"} \cup NumberKeys

\* down() and up(): round, and nowhere in a list without items.
Selected(view, k) ==
  LET n == Len(view.sub)
  IN  CASE n = 0 \/ k \notin {"UP", "DOWN"} -> view
        [] n > 0 /\ k = "DOWN" -> [view EXCEPT !.selection = (@ + 1) % n]
        [] OTHER -> [view EXCEPT !.selection = (@ + n - 1) % n]

SetCurrent(view) == views' = Append(Front(views), view) /\ UNCHANGED pref

\* ENTER in an empty list calls what is before the first element: the device restarts.
ListKey(k) ==
  /\ current.kind = "list"
  /\ CASE k = "ENTER" /\ current.sub # <<>> -> Execute(current.sub[current.selection + 1])
       [] k = "ENTER" /\ current.sub = <<>> -> FromRoot
       [] k = "LEFT" -> pop
       [] OTHER -> SetCurrent(Selected(current, k))

EditorKey(k) ==
  /\ IsEditor(current)
  /\ IF k = "ENTER" THEN pop
     ELSE Len(Edited(current, k).text) <= MaxText /\ SetCurrent(Edited(current, k))

BoxKey(k) ==
  /\ current.kind = "box" /\ k = "ENTER"
  /\ CASE current.okAction = "pop" -> pop
       [] current.okAction = "root" -> pop_to_root
       [] current.okAction = "restart" -> FromRoot

\* The mode key, or standby.
LeaveSettings == FromRoot

MenusInit ==
  /\ views = <<ListView(root.sub)>>
  /\ pref \in {<<>>, <<Foreign>>}

MenusNext == (\E k \in Keys : ListKey(k) \/ EditorKey(k) \/ BoxKey(k)) \/ LeaveSettings

MenusSpec == MenusInit /\ [][MenusNext]_menuVars

-----------------------------------------------------------------------------
(* Properties *)

\* The cursor of an editor is inside the text or right behind it, whatever was typed,
\* deleted and moved: update_labels() takes the text apart there.
CursorInText == IsEditor(current) => current.pos \in 0 .. Len(current.text)

\* A preference that was edited is kept when its editor is closed, in whichever way the
\* navigator does it; only to leave the settings altogether gives the text up.
TextIsKept ==
  [][\A i \in DOMAIN views :
       views[i].kind = "text" /\ Len(views') < i => LeaveSettings \/ pref' = Trimmed(views[i].text)]_menuVars

=============================================================================
