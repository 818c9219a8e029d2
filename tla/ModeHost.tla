------------------------------ MODULE ModeHost ------------------------------
(***************************************************************************)
(* The mode host (firm/include/mode_host.h) with what the modes' setup()   *)
(* and teardown() do to the devices they share: the audio router, the      *)
(* SPDIF transceiver on the I2C bus, the I2S output of the processor, the  *)
(* source that writes to it, and the network interface.                    *)
(*                                                                         *)
(* Two tasks switch modes, one at a time under modeSwitchSema: the main    *)
(* task, which boots and then runs loop(), and the one that waits for      *)
(* firmware updates from the network.  A switch is played step by step     *)
(* from the scripts below; a restart may come between any two steps, and a *)
(* write to the transceiver may get lost, which nobody notices.            *)
(***************************************************************************)
EXTENDS Naturals, Sequences

Mode == {"CD", "NET_RADIO", "BLUETOOTH", "SETTINGS", "STANDBY"}
Screen == Mode \cup {"BOOT", "UPDATE", "RECOVERY"}
Route == {"BYPASS", "NONE", "SPDIF", "CPU"}

VARIABLES
  current_route,
  routing, routeStep,  \* activate_route(): where to, and how far it is
  bypassed,            \* the relay has taken the output off
  unmuted, by_lock,    \* the level of the DAC's pin, unless the transceiver sets it
  i2s,                 \* the processor drives the bus
  inited,              \* the transceiver has answered
  aif, told,           \* the transceiver drives the bus, resp. was told to
  source,              \* what writes to the I2S stream
  wlan,                \* the network interface is on
  activeMode, cur_mode, req_mode,
  last_mode,           \* in the NVRAM
  modeSwitchSema,      \* who holds it
  switchPc, switchStep,
  mainPc, otaPc

routeVars == <<current_route, routing, routeStep>>
chipVars == <<inited, aif, told>>
outVars == <<bypassed, unmuted, by_lock, i2s>>
modeVars == <<activeMode, cur_mode, req_mode, last_mode>>
switchVars == <<switchPc, switchStep>>
vars == <<routeVars, chipVars, outVars, source, wlan, modeVars, modeSwitchSema,
          switchVars, mainPc, otaPc>>

LevelsOK ==
  /\ bypassed \in BOOLEAN /\ unmuted \in BOOLEAN /\ by_lock \in BOOLEAN
  /\ i2s \in BOOLEAN
  /\ inited \in BOOLEAN /\ aif \in BOOLEAN /\ told \in BOOLEAN
  /\ wlan \in BOOLEAN

TypeOK ==
  /\ LevelsOK
  /\ current_route \in Route
  /\ routing \in Route \cup {"no"}
  /\ routeStep \in 1 .. 6
  /\ source \in {"none", "stream", "a2dp"}
  /\ activeMode \in Screen
  /\ cur_mode \in Mode \cup {"MAX_INVALID"}
  /\ req_mode \in Mode \cup {"MAX_INVALID"}
  /\ last_mode \in Mode
  /\ modeSwitchSema \in {"free", "main", "ota"}
  /\ switchPc \in {"no", "teardown", "setup"}
  /\ switchStep \in 1 .. 4
  /\ mainPc \in {"wlan", "recover", "spdif", "mode", "loop"}
  /\ otaPc \in {"absent", "idle", "wait", "switch", "run"}

\* The pins are low after a reset, and with them the relay that is off when high.
\* The transceiver and the NVRAM keep what they had.
Init ==
  /\ current_route = "NONE" /\ routing = "no" /\ routeStep = 1
  /\ bypassed = TRUE /\ unmuted = FALSE /\ by_lock = FALSE /\ i2s = FALSE
  /\ inited = FALSE /\ aif \in BOOLEAN /\ told = FALSE
  /\ source = "none" /\ wlan = FALSE
  /\ activeMode = "BOOT" /\ cur_mode = "MAX_INVALID" /\ req_mode = "MAX_INVALID"
  /\ last_mode \in Mode \ {"STANDBY"}
  /\ modeSwitchSema = "free" /\ switchPc = "no" /\ switchStep = 1
  /\ mainPc = "wlan" /\ otaPc = "absent"

\* At any time; also what an update ends with, whether it succeeds or fails.
Restart ==
  /\ current_route' = "NONE" /\ routing' = "no" /\ routeStep' = 1
  /\ bypassed' = TRUE /\ unmuted' = FALSE /\ by_lock' = FALSE /\ i2s' = FALSE
  /\ inited' = FALSE /\ told' = FALSE
  /\ source' = "none" /\ wlan' = FALSE
  /\ activeMode' = "BOOT" /\ cur_mode' = "MAX_INVALID" /\ req_mode' = "MAX_INVALID"
  /\ modeSwitchSema' = "free" /\ switchPc' = "no" /\ switchStep' = 1
  /\ mainPc' = "wlan" /\ otaPc' = "absent"
  /\ UNCHANGED <<aif, last_mode>>

-----------------------------------------------------------------------------
(* Scripts, entry by entry what activate_route(), setup() and teardown() do *)

\* Mutant: muting is taken for releasing, and the transceiver stays on the bus.
RouteOpsHeld(next) ==
  IF next = "SPDIF" THEN <<"relay", "i2s_off", "chip_on", "hax_on">>
  ELSE IF next = "CPU" THEN <<"relay", "hax_off", "i2s_on", "unmute">>
  ELSE <<"relay", "hax_off", "mute", "i2s_off">>

\* Mutant: the transceiver's lock keeps the pin when nobody is to be heard.
RouteOpsLocked(next) ==
  IF next = "SPDIF" THEN <<"relay", "i2s_off", "chip_on", "hax_on">>
  ELSE IF next = "CPU" THEN <<"relay", "hax_off", "chip_off", "i2s_on", "unmute">>
  ELSE <<"relay", "mute", "chip_off", "i2s_off">>

\* activate_route(next)
RouteOps(next) ==
  IF next = "SPDIF" THEN <<"relay", "i2s_off", "chip_on", "hax_on">>
  ELSE IF next = "CPU" THEN <<"relay", "hax_off", "chip_off", "i2s_on", "unmute">>
  ELSE <<"relay", "hax_off", "mute", "chip_off", "i2s_off">>

\* setup() of a mode; the name of a route stands for its activation
Setup(m) ==
  CASE m = "CD" -> <<"SPDIF">>
    [] m = "NET_RADIO" -> <<"CPU">>
    [] m = "BLUETOOTH" -> <<"CPU", "wlan_off", "a2dp">>
    [] m = "STANDBY" -> <<"BYPASS", "wlan_off">>
    [] OTHER -> <<>>

\* Mutant: the stream goes on until its bus is gone.
TeardownLate(m) ==
  CASE m = "CD" -> <<"NONE">>
    [] m = "NET_RADIO" -> <<"NONE", "quiet">>
    [] m = "BLUETOOTH" -> <<"quiet", "NONE", "wlan_on">>
    [] m = "STANDBY" -> <<"NONE", "wlan_on">>
    [] OTHER -> <<>>

\* Mutant: the CD mode leaves its route to the next one.
TeardownQuick(m) ==
  CASE m = "CD" -> <<>>
    [] m = "NET_RADIO" -> <<"quiet", "NONE">>
    [] m = "BLUETOOTH" -> <<"quiet", "NONE", "wlan_on">>
    [] m = "STANDBY" -> <<"NONE", "wlan_on">>
    [] OTHER -> <<>>

\* teardown() of a mode
Teardown(m) ==
  CASE m = "CD" -> <<"NONE">>
    [] m = "NET_RADIO" -> <<"quiet", "NONE">>
    [] m = "BLUETOOTH" -> <<"quiet", "NONE", "wlan_on">>
    [] m = "STANDBY" -> <<"NONE", "wlan_on">>
    [] OTHER -> <<>>

Script == IF switchPc = "teardown" THEN Teardown(activeMode) ELSE Setup(activeMode)

-----------------------------------------------------------------------------
(* The steps of activate_route() *)

RouteStep(op) ==
  /\ routing # "no"
  /\ routeStep <= Len(RouteOps(routing))
  /\ RouteOps(routing)[routeStep] = op
  /\ routeStep' = routeStep + 1
  /\ UNCHANGED <<current_route, routing, inited, source, wlan, modeVars, modeSwitchSema,
                 switchVars, mainPc, otaPc>>

SetRelay ==
  /\ RouteStep("relay")
  /\ bypassed' = (routing = "BYPASS")
  /\ UNCHANGED <<aif, told, unmuted, by_lock, i2s>>

\* The lock of the transceiver takes the pin over, or its level does again.
SetMutingHax ==
  \E on \in BOOLEAN :
    /\ RouteStep(IF on THEN "hax_on" ELSE "hax_off")
    /\ by_lock' = on
    /\ UNCHANGED <<aif, told, bypassed, unmuted, i2s>>

SetMute ==
  \E mute \in BOOLEAN :
    /\ RouteStep(IF mute THEN "mute" ELSE "unmute")
    /\ unmuted' = ~mute
    /\ UNCHANGED <<aif, told, bypassed, by_lock, i2s>>

\* write(): nobody hears of one that got lost.
Write(level) == {aif, level}

\* set_enabled()
SetChip ==
  \E on \in BOOLEAN :
    /\ RouteStep(IF on THEN "chip_on" ELSE "chip_off")
    /\ told' = on
    /\ aif' \in IF inited THEN Write(on) ELSE {aif}
    /\ UNCHANGED outVars

SetI2S ==
  \E on \in BOOLEAN :
    /\ RouteStep(IF on THEN "i2s_on" ELSE "i2s_off")
    /\ i2s' = on
    /\ UNCHANGED <<aif, told, bypassed, unmuted, by_lock>>

RouteDone ==
  /\ routing # "no"
  /\ routeStep > Len(RouteOps(routing))
  /\ current_route' = routing
  /\ routing' = "no" /\ routeStep' = 1
  /\ switchStep' = switchStep + 1
  /\ UNCHANGED <<chipVars, outVars, source, wlan, modeVars, modeSwitchSema, switchPc,
                 mainPc, otaPc>>

(* The steps of setup() and teardown() *)

ScriptStep(op) ==
  /\ switchPc # "no"
  /\ routing = "no"
  /\ switchStep <= Len(Script)
  /\ Script[switchStep] = op
  /\ UNCHANGED <<current_route, routeStep, chipVars, outVars, modeVars, modeSwitchSema,
                 switchPc, mainPc, otaPc>>

\* Nothing happens when the route is the current one.
ActivateRoute ==
  \E next \in Route :
    /\ ScriptStep(next)
    /\ IF next = current_route
       THEN switchStep' = switchStep + 1 /\ UNCHANGED routing
       ELSE routing' = next /\ UNCHANGED switchStep
    /\ UNCHANGED <<source, wlan>>

SetSource ==
  \E on \in BOOLEAN :
    /\ ScriptStep(IF on THEN "a2dp" ELSE "quiet")
    /\ source' = IF on THEN "a2dp" ELSE "none"
    /\ switchStep' = switchStep + 1
    /\ UNCHANGED <<routing, wlan>>

SetWlan ==
  \E on \in BOOLEAN :
    /\ ScriptStep(IF on THEN "wlan_on" ELSE "wlan_off")
    /\ wlan' = on
    /\ switchStep' = switchStep + 1
    /\ UNCHANGED <<routing, source>>

DeviceStep ==
  \/ SetRelay \/ SetMutingHax \/ SetMute \/ SetChip \/ SetI2S \/ RouteDone
  \/ ActivateRoute \/ SetSource \/ SetWlan

-----------------------------------------------------------------------------
(* Switching *)

BesideSwitch == UNCHANGED <<routeVars, chipVars, outVars, wlan>>

\* The mode that the holder of the lock puts on.
Incoming ==
  IF modeSwitchSema = "ota" THEN "UPDATE"
  ELSE IF mainPc = "recover" THEN "RECOVERY" ELSE req_mode

\* The old mode is deleted, the new one takes its place.
TornDown ==
  /\ switchPc = "teardown"
  /\ routing = "no"
  /\ switchStep > Len(Teardown(activeMode))
  /\ activeMode' = Incoming
  /\ switchPc' = "setup" /\ switchStep' = 1
  /\ UNCHANGED <<cur_mode, req_mode, last_mode, source, modeSwitchSema, mainPc, otaPc>>
  /\ BesideSwitch

SetUp ==
  /\ switchPc = "setup"
  /\ routing = "no"
  /\ switchStep > Len(Setup(activeMode))
  /\ switchPc' = "no" /\ switchStep' = 1
  /\ modeSwitchSema' = "free"
  /\ UNCHANGED <<activeMode, req_mode, source>>
  /\ BesideSwitch

\* Mutant: remembers the standby mode as well.
SwitchEndsAll ==
  /\ SetUp
  /\ modeSwitchSema = "main" /\ mainPc = "loop"
  /\ cur_mode' = req_mode
  /\ last_mode' = req_mode
  /\ UNCHANGED <<mainPc, otaPc>>

\* The end of switch_to_req_mode_locked()
SwitchEnds ==
  /\ SetUp
  /\ modeSwitchSema = "main" /\ mainPc = "loop"
  /\ cur_mode' = req_mode
  /\ last_mode' = IF req_mode = "STANDBY" THEN last_mode ELSE req_mode
  /\ UNCHANGED <<mainPc, otaPc>>

\* Mutant: the controls stay alive.
SetExternalLive(task) ==
  /\ modeSwitchSema = "free"
  /\ modeSwitchSema' = task
  /\ UNCHANGED <<cur_mode, req_mode>>
  /\ switchPc' = "teardown" /\ switchStep' = 1
  /\ UNCHANGED <<activeMode, last_mode, source>>
  /\ BesideSwitch

\* set_external_mode(), until teardown
SetExternal(task) ==
  /\ modeSwitchSema = "free"
  /\ modeSwitchSema' = task
  /\ cur_mode' = "MAX_INVALID"
  /\ req_mode' = "MAX_INVALID"
  /\ switchPc' = "teardown" /\ switchStep' = 1
  /\ UNCHANGED <<activeMode, last_mode, source>>
  /\ BesideSwitch

-----------------------------------------------------------------------------
(* The main task *)

\* setup(): the network, then the update task if there is one, and the recovery
\* screen after a panic.
BootWlan ==
  /\ mainPc = "wlan"
  /\ wlan' = TRUE
  /\ \/ mainPc' = "spdif" /\ otaPc' \in {"absent", "idle"}
     \/ mainPc' = "recover" /\ otaPc' = "idle"
  /\ UNCHANGED <<routeVars, chipVars, outVars, source, modeVars, modeSwitchSema, switchVars>>

Recover ==
  /\ mainPc = "recover"
  /\ SetExternal("main")
  /\ UNCHANGED <<mainPc, otaPc>>

RecoverEnds ==
  /\ SetUp
  /\ modeSwitchSema = "main" /\ mainPc = "recover"
  /\ mainPc' = "loop"
  /\ UNCHANGED <<cur_mode, last_mode, otaPc>>

\* WM8805::initialize()
BootSpdif ==
  /\ mainPc = "spdif"
  /\ inited' \in BOOLEAN
  /\ aif' \in IF inited' THEN Write(FALSE) ELSE {aif}
  /\ mainPc' = "mode"
  /\ UNCHANGED <<routeVars, told, outVars, source, wlan, modeVars, modeSwitchSema,
                 switchVars, otaPc>>

\* activate_last_used_mode(), without the lock
BootMode ==
  /\ mainPc = "mode"
  /\ req_mode' = last_mode
  /\ mainPc' = "loop"
  /\ UNCHANGED <<routeVars, chipVars, outVars, source, wlan, activeMode, cur_mode, last_mode,
                 modeSwitchSema, switchVars, otaPc>>

LoopBegin ==
  /\ mainPc = "loop"
  /\ modeSwitchSema = "free"
  /\ modeSwitchSema' = "main"
  /\ UNCHANGED <<modeVars, source, switchVars, mainPc, otaPc>>
  /\ BesideSwitch

\* What the mode's own loop() and one key can ask for: the menu of the settings;
\* the keys of the modes, which also the mode switch goes to, as far as the
\* preferences include them.  Keys are inert while cur_mode is not valid.
Menu == IF activeMode = "SETTINGS" THEN {"CD", "NET_RADIO", "BLUETOOTH"} ELSE {}
Keys ==
  IF cur_mode = "MAX_INVALID" THEN {}
  ELSE {"CD", "NET_RADIO", "BLUETOOTH"} \cup
       IF cur_mode = "STANDBY" THEN {last_mode} ELSE {"STANDBY", "SETTINGS"}

\* Mutant: does not give the lock back when there is nothing to switch.
LoopPassHolds ==
  /\ mainPc = "loop"
  /\ modeSwitchSema = "main" /\ switchPc = "no"
  /\ req_mode' \in {req_mode} \cup Menu \cup Keys
  /\ source' \in IF activeMode = "NET_RADIO" THEN {"none", "stream"} ELSE {source}
  /\ IF req_mode' = cur_mode
     THEN UNCHANGED <<modeSwitchSema, switchPc>>
     ELSE switchPc' = "teardown" /\ UNCHANGED modeSwitchSema
  /\ UNCHANGED <<activeMode, cur_mode, last_mode, switchStep, mainPc, otaPc>>
  /\ BesideSwitch

\* One pass of loop(); in the radio mode a key may start or stop a station.
LoopPass ==
  /\ mainPc = "loop"
  /\ modeSwitchSema = "main" /\ switchPc = "no"
  /\ req_mode' \in {req_mode} \cup Menu \cup Keys
  /\ source' \in IF activeMode = "NET_RADIO" THEN {"none", "stream"} ELSE {source}
  /\ IF req_mode' = cur_mode
     THEN modeSwitchSema' = "free" /\ UNCHANGED switchPc
     ELSE switchPc' = "teardown" /\ UNCHANGED modeSwitchSema
  /\ UNCHANGED <<activeMode, cur_mode, last_mode, switchStep, mainPc, otaPc>>
  /\ BesideSwitch

(* The update task *)

OtaBegins ==
  /\ otaPc = "idle"
  /\ wlan
  /\ otaPc' = "wait"
  /\ UNCHANGED <<modeVars, source, modeSwitchSema, switchVars, mainPc>>
  /\ BesideSwitch

OtaTakes ==
  /\ otaPc = "wait"
  /\ SetExternal("ota")
  /\ otaPc' = "switch"
  /\ UNCHANGED mainPc

OtaShown ==
  /\ SetUp
  /\ modeSwitchSema = "ota"
  /\ otaPc' = "run"
  /\ UNCHANGED <<cur_mode, last_mode, mainPc>>

Next ==
  \/ DeviceStep \/ TornDown \/ SwitchEnds
  \/ BootWlan \/ Recover \/ RecoverEnds \/ BootSpdif \/ BootMode
  \/ LoopBegin \/ LoopPass
  \/ OtaBegins \/ OtaTakes \/ OtaShown
  \/ Restart

Spec == Init /\ [][Next]_vars

\* Both tasks run; the update task has the higher priority of the two, so that
\* loop(), which takes the lock again and again, does not keep it out.
Fairness ==
  /\ WF_vars(DeviceStep) /\ WF_vars(TornDown) /\ WF_vars(SwitchEnds)
  /\ WF_vars(RecoverEnds) /\ WF_vars(OtaShown)
  /\ WF_vars(LoopPass)
  /\ SF_vars(OtaTakes)

FairSpec == Spec /\ Fairness

-----------------------------------------------------------------------------
(* Properties *)

\* The transceiver is not on without having been told so: no write that was to
\* turn it off has been lost since.
Trusted == aif => told

\* "When disabled, the transceiver must release the bus completely to allow
\* another device to push sound data through": at no step of any switch do the
\* transceiver and the processor drive the bus together.
OneBusDriver == Trusted => ~(aif /\ i2s)

\* A route that has been activated is in effect, and stays so: nothing is heard
\* without one, whatever was in effect before, and the relay is off just for standby.
RouteInEffect ==
  routing = "no" =>
    /\ i2s <=> current_route = "CPU"
    /\ by_lock <=> current_route = "SPDIF"
    /\ ~by_lock => (unmuted <=> current_route = "CPU")
    /\ current_route = "BYPASS" => bypassed
    /\ current_route \in {"SPDIF", "CPU"} => ~bypassed

\* Nobody writes to an I2S stream that has been ended, in no step of any switch; and
\* while it is Bluetooth that writes, the network, which shares its antenna, is off.
SourceHasBus == source # "none" => i2s /\ (source = "a2dp" => ~wlan)

\* Whenever the power goes, the device wakes up in a mode that it can be used in.
WakesUp == last_mode \in {"CD", "NET_RADIO", "BLUETOOTH", "SETTINGS"}

\* The screen of an update is not deleted under it: once setup() is through and
\* nothing else has been asked for, no key and no menu asks for another mode.  What
\* setup() itself asks for, the recovery screen or the last mode, does replace it.
UpdateKeepsScreen ==
  [][activeMode = "UPDATE" /\ mainPc = "loop" /\ cur_mode = req_mode =>
       \/ activeMode' = "UPDATE" /\ cur_mode' = req_mode'
       \/ activeMode' = "BOOT"]_vars

\* Only the active mode is heard, and a mode goes and comes in silence.  What
\* a transceiver does that did not hear it was to be off is not the modes' doing.
Heard ==
  IF bypassed \/ ~(by_lock \/ unmuted) \/ ~(i2s \/ aif) \/ ~Trusted THEN "silence"
  ELSE IF i2s /\ aif THEN "clash" ELSE IF i2s THEN "cpu" ELSE "cd"
VoiceOf(m) ==
  IF m = "CD" THEN "cd" ELSE IF m \in {"NET_RADIO", "BLUETOOTH"} THEN "cpu" ELSE "silence"
Bus == INSTANCE AudioBus WITH
  Modes <- Screen, Off <- "BOOT", Silence <- "silence", VoiceOf <- VoiceOf,
  mode <- activeMode, voice <- Heard
BusSpec == Bus!Spec

\* An update that has begun gets its screen, whatever the user does meanwhile.
UpdateIsShown == otaPc = "wait" ~> activeMode = "UPDATE" \/ otaPc = "absent"

=============================================================================
