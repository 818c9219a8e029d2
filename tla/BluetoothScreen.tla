-------------------------- MODULE BluetoothScreen --------------------------
(***************************************************************************)
(* The Bluetooth mode (bluetooth_mode.cpp): a pass of loop() shows what    *)
(* the A2DP sink says of the connection, while the sink's own task calls   *)
(* back with the status, the texts and the volume of the phone and writes  *)
(* into the same view.  Nothing is locked.                                 *)
(*                                                                         *)
(* A name or a text is the device that it is of.  The volume is left out,  *)
(* its calls are not.                                                      *)
(***************************************************************************)
EXTENDS Naturals

CONSTANTS
  Devices,    \* phones
  NoDevice    \* none of them

ASSUME BluetoothAssumption == NoDevice \notin Devices

VARIABLES
  peer, pin,   \* of the sink: who is connected, and whether a PIN is to be confirmed
  cur_sts,     \* plays, as far as the mode has heard
  state,       \* of the view
  labels,      \* what the labels show
  ui,          \* where the UI task is
  cb,          \* the callback that runs
  fresh,       \* since this pass began, nobody has come, gone or called back
  settled      \* nor since the one before

btVars == <<peer, pin, cur_sts, state, labels, ui, cb, fresh, settled>>

NoText == "no_text"
BtDevice == "BT_Device"
NoCall == [pc |-> "idle", kind |-> "none", of |-> NoDevice, plays |-> FALSE]

-----------------------------------------------------------------------------
(* The view *)

InLink(s) == s.connection \in {"CONNECTED", "PLAYING"}

set_wait(s) == [s EXCEPT !.connection = "WAIT", !.artist = NoText, !.title = NoText]

\* Mutant: keeps the texts.
set_disconnected_kept(s) == [s EXCEPT !.connection = "DISCONNECTED"]

set_disconnected(s) == [s EXCEPT !.connection = "DISCONNECTED", !.artist = NoText, !.title = NoText]
set_pairing(s) == [s EXCEPT !.connection = "PAIRING_PIN"]

\* The name may not have come yet.
set_connected(s, name) ==
  IF InLink(s) /\ s.device_name = name THEN s
  ELSE [s EXCEPT !.connection = IF InLink(s) THEN @ ELSE "CONNECTED",
                 !.device_name = IF name = NoText THEN BtDevice ELSE name]

update_metadata(s, kind, text) == [s EXCEPT ![kind] = text]
set_playing(s, plays) == [s EXCEPT !.connection = IF plays THEN "PLAYING" ELSE "CONNECTED"]

\* update()
Shown(s) ==
  CASE s.connection = "DISCONNECTED" -> {<<"Bluetooth", NoText>>}
    [] s.connection = "PAIRING_PIN" -> {<<"PIN", NoText>>, <<"name", s.device_name>>}
    [] s.connection = "CONNECTED" -> {<<"name", s.device_name>>}
    [] s.connection = "PLAYING" /\ s.title = NoText -> {<<"name", s.device_name>>}
    [] s.connection = "PLAYING" /\ s.title # NoText -> {<<"name", s.device_name>>, <<"title", s.title>>, <<"artist", s.artist>>}
    [] s.connection = "WAIT" -> {<<"wait", NoText>>}

-----------------------------------------------------------------------------
(* The UI task: loop(), the remote control, teardown() and setup() *)

Pass ==
  /\ ui = "loop"
  /\ \/ \E name \in {NoText, peer} :
          /\ peer # NoDevice
          /\ state' = set_connected(state, name)
          /\ ui' = IF InLink(state) /\ state.device_name = name THEN "delay" ELSE "update"
     \/ peer = NoDevice /\ pin /\ state' = set_pairing(state) /\ ui' = "pairing"
     \/ peer = NoDevice /\ ~pin /\ state' = set_disconnected(state) /\ ui' = "update"
  /\ fresh' = TRUE
  /\ UNCHANGED <<peer, pin, cur_sts, labels, cb, settled>>

\* update() after PIN or name; with a PIN on the screen PLAY is asked for.
Update ==
  /\ ui \in {"update", "pairing"}
  /\ labels' = Shown(state)
  /\ ui' = IF ui = "pairing" THEN "play?" ELSE "delay"
  /\ UNCHANGED <<peer, pin, cur_sts, state, cb, fresh, settled>>

ConfirmPin ==
  /\ ui = "play?"
  /\ \/ ui' = "delay" /\ UNCHANGED state
     \/ ui' = "update" /\ state' = set_wait(state)
  /\ UNCHANGED <<peer, pin, cur_sts, labels, cb, fresh, settled>>

Delay ==
  /\ ui = "delay"
  /\ ui' = "loop"
  /\ settled' = fresh
  /\ UNCHANGED <<peer, pin, cur_sts, state, labels, cb, fresh>>

\* on_remote_key_pressed(): the volume is shown; a PIN is confirmed with PLAY or ENTER.
\* The other keys, and those of the panel, are commands to the phone.
RemoteKey ==
  /\ ui = "loop"
  /\ \/ peer # NoDevice /\ InLink(state) /\ labels' = Shown(state) /\ UNCHANGED state
     \/ peer = NoDevice /\ pin /\ state' = set_wait(state) /\ labels' = Shown(state')
  /\ UNCHANGED <<peer, pin, cur_sts, ui, cb, fresh, settled>>

Teardown ==
  /\ ui = "loop"
  /\ ui' = "off"
  /\ peer' = NoDevice /\ pin' = FALSE
  /\ state' = set_wait(state) /\ labels' = Shown(state')
  /\ UNCHANGED <<cur_sts, cb, fresh, settled>>

\* The mode is made anew: nothing sets cur_sts before the phone tells.
SetupMode ==
  /\ ui = "off" /\ cb = NoCall
  /\ ui' = "loop"
  /\ cur_sts' \in BOOLEAN
  /\ state' = [set_disconnected(state) EXCEPT !.device_name = NoText] /\ labels' = Shown(state')
  /\ settled' = FALSE /\ fresh' = FALSE
  /\ UNCHANGED <<peer, pin, cb>>

-----------------------------------------------------------------------------
(* The sink's task *)

\* avrc_rn_playstatus_callback(), avrc_metadata_callback(), avrc_volume_callback()
CallBack ==
  /\ cb = NoCall /\ peer # NoDevice
  /\ \E kind \in {"status", "title", "artist", "volume"}, plays \in BOOLEAN :
       /\ cur_sts' = IF kind = "status" THEN plays ELSE cur_sts
       /\ cb' = IF InLink(state) THEN [pc |-> "write", kind |-> kind, of |-> peer, plays |-> plays] ELSE cb
  /\ UNCHANGED <<peer, pin, state, labels, ui, fresh, settled>>

CallBackWrites ==
  /\ cb.pc = "write"
  /\ cb' = [cb EXCEPT !.pc = "update"]
  /\ state' \in CASE cb.kind = "status" -> {set_playing(state, cb.plays)}
                  [] cb.kind = "volume" -> {state}
                  [] OTHER -> {update_metadata(state, cb.kind, text) : text \in {NoText, cb.of}}
  /\ UNCHANGED <<peer, pin, cur_sts, labels, ui, fresh, settled>>

CallBackEnds ==
  /\ cb.pc = "update"
  /\ cb' = NoCall
  /\ labels' = Shown(state)
  /\ fresh' = FALSE /\ settled' = FALSE
  /\ UNCHANGED <<peer, pin, cur_sts, state, ui>>

\* A phone goes at any time.  Until the next one is found, or asks to be paired, and
\* until the PIN is through, there is a pass at least: 125 ms.
PhoneGoes ==
  /\ peer # NoDevice
  /\ peer' = NoDevice
  /\ fresh' = FALSE /\ settled' = FALSE
  /\ UNCHANGED <<pin, cur_sts, state, labels, ui, cb>>

PhoneComes ==
  /\ ui # "off" /\ peer = NoDevice /\ settled /\ cb = NoCall
  /\ \/ peer' \in Devices /\ pin' = FALSE
     \/ UNCHANGED peer /\ pin' = ~pin
  /\ fresh' = FALSE /\ settled' = FALSE
  /\ UNCHANGED <<cur_sts, state, labels, ui, cb>>

-----------------------------------------------------------------------------
BtInit ==
  /\ peer = NoDevice /\ pin = FALSE
  /\ cur_sts \in BOOLEAN
  /\ state = [connection |-> "DISCONNECTED", device_name |-> NoText, artist |-> NoText, title |-> NoText]
  /\ labels = Shown(state)
  /\ ui = "loop" /\ cb = NoCall
  /\ fresh = FALSE /\ settled = FALSE

BtNext ==
  \/ Pass \/ Update \/ ConfirmPin \/ Delay \/ RemoteKey \/ Teardown \/ SetupMode
  \/ CallBack \/ CallBackWrites \/ CallBackEnds
  \/ PhoneGoes \/ PhoneComes

BtSpec == BtInit /\ [][BtNext]_btVars

-----------------------------------------------------------------------------
(* Properties *)

\* When neither task is in the middle of something and the screen shows a connection,
\* the name, the title and the artist on it are those of the phone that is connected,
\* not of one that was, however its last callbacks and the passes of loop() met.
ScreenOfPeer ==
  peer # NoDevice /\ ui = "loop" /\ cb = NoCall /\ InLink(state)
    => \A l \in labels : l[2] \in {peer, BtDevice, NoText}

=============================================================================
