--------------------------- MODULE ModeHostProofs ---------------------------
(* Theorems about the mode host and the audio path under it. *)
EXTENDS ModeHost, TLAPS

\* An activate_route() that has got past the step that frees the bus has freed it.
BusInv ==
  /\ ~(i2s /\ told)
  /\ routing = "SPDIF" /\ routeStep >= 3 => ~i2s
  /\ routing = "CPU" /\ routeStep >= 4 => ~told

\* The program counters, the lock and the two modes of the host agree.
HostInv ==
  /\ cur_mode \in Mode => req_mode \in Mode
  /\ modeSwitchSema = "ota" <=> otaPc = "switch"
  /\ modeSwitchSema = "free" => switchPc = "no"
  /\ modeSwitchSema = "ota" => switchPc # "no"
  /\ switchPc = "no" => routing = "no" /\ switchStep = 1
  /\ routing = "no" => routeStep = 1
  /\ routing # "no" => switchStep <= 3
  /\ mainPc = "recover" /\ modeSwitchSema = "main" => switchPc # "no"
  /\ mainPc \in {"wlan", "spdif", "mode"} => modeSwitchSema # "main"
  /\ mainPc = "loop" /\ modeSwitchSema = "main" /\ switchPc # "no" => req_mode \in Mode
  /\ mainPc = "wlan" => otaPc = "absent"
  /\ last_mode # "STANDBY"

IInv == TypeOK /\ BusInv /\ HostInv

-----------------------------------------------------------------------------
(* Where the operations stand in the scripts *)

\* Only one entry takes the bus for the transceiver and only one for the processor;
\* the entry before each of them frees it.
ScriptFacts(next, k) ==
  /\ RouteOps(next)[k] = "chip_on" => next = "SPDIF" /\ k = 3
  /\ RouteOps(next)[k] = "i2s_on" => next = "CPU" /\ k = 4
  /\ next = "SPDIF" /\ k = 2 => RouteOps(next)[k] = "i2s_off"
  /\ next = "CPU" /\ k = 3 => RouteOps(next)[k] = "chip_off"

\* It holds of every entry of every script of the router.
LEMMA RouteScripts ==
  ASSUME NEW next \in Route
  PROVE  /\ Len(RouteOps(next)) \in 4 .. 5
         /\ \A k \in 1 .. Len(RouteOps(next)) : ScriptFacts(next, k)
<1> DEFINE cd == <<"relay", "i2s_off", "chip_on", "hax_on">>
           cpu == <<"relay", "hax_off", "chip_off", "i2s_on", "unmute">>
           off == <<"relay", "hax_off", "mute", "chip_off", "i2s_off">>
<1>1. CASE next = "SPDIF"
  <2>1. RouteOps(next) = cd
    BY <1>1 DEF RouteOps
  <2>2. Len(cd) = 4
    OBVIOUS
  <2>3. /\ cd[1] = "relay" /\ cd[2] = "i2s_off" /\ cd[3] = "chip_on"
        /\ cd[4] = "hax_on"
    OBVIOUS
  <2> HIDE DEF cd
  <2>4. Len(RouteOps(next)) \in 4 .. 5
    BY <2>1, <2>2
  <2>5. ASSUME NEW k \in 1 .. 4
        PROVE  ScriptFacts(next, k)
    <3>1. k = 1 \/ k = 2 \/ k = 3 \/ k = 4
      OBVIOUS
    <3> QED
      BY <1>1, <2>1, <2>3, <3>1 DEF ScriptFacts
  <2> QED
    BY <2>1, <2>2, <2>4, <2>5
<1>2. CASE next = "CPU"
  <2>1. RouteOps(next) = cpu
    BY <1>2 DEF RouteOps
  <2>2. Len(cpu) = 5
    OBVIOUS
  <2>3. /\ cpu[1] = "relay" /\ cpu[2] = "hax_off" /\ cpu[3] = "chip_off"
        /\ cpu[4] = "i2s_on" /\ cpu[5] = "unmute"
    OBVIOUS
  <2> HIDE DEF cpu
  <2>4. Len(RouteOps(next)) \in 4 .. 5
    BY <2>1, <2>2
  <2>5. ASSUME NEW k \in 1 .. 5
        PROVE  ScriptFacts(next, k)
    <3>1. k = 1 \/ k = 2 \/ k = 3 \/ k = 4 \/ k = 5
      OBVIOUS
    <3> QED
      BY <1>2, <2>1, <2>3, <3>1 DEF ScriptFacts
  <2> QED
    BY <2>1, <2>2, <2>4, <2>5
<1>3. CASE next \in {"NONE", "BYPASS"}
  <2>1. RouteOps(next) = off
    BY <1>3 DEF RouteOps
  <2>2. Len(off) = 5
    OBVIOUS
  <2>3. /\ off[1] = "relay" /\ off[2] = "hax_off" /\ off[3] = "mute"
        /\ off[4] = "chip_off" /\ off[5] = "i2s_off"
    OBVIOUS
  <2> HIDE DEF off
  <2>4. Len(RouteOps(next)) \in 4 .. 5
    BY <2>1, <2>2
  <2>5. ASSUME NEW k \in 1 .. 5
        PROVE  ScriptFacts(next, k)
    <3>1. k = 1 \/ k = 2 \/ k = 3 \/ k = 4 \/ k = 5
      OBVIOUS
    <3> QED
      BY <1>3, <2>1, <2>3, <3>1 DEF ScriptFacts
  <2> QED
    BY <2>1, <2>2, <2>4, <2>5
<1> QED
  BY <1>1, <1>2, <1>3 DEF Route

\* A script of a mode has at most three steps.
LEMMA ModeScripts ==
  ASSUME NEW m \in Screen
  PROVE  Len(Setup(m)) \in 0 .. 3 /\ Len(Teardown(m)) \in 0 .. 3
  BY DEF Setup, Teardown, Screen, Mode

-----------------------------------------------------------------------------
(* The invariant *)

LEMMA InitIInv == Init => IInv
<1>1. Init => LevelsOK
  BY DEF Init, LevelsOK
<1>2. Init => BusInv /\ HostInv
  BY DEF Init, BusInv, HostInv, Mode
<1> QED
  BY <1>1, <1>2 DEF Init, IInv, TypeOK, Route, Mode, Screen

\* Only the entries for the two ends of the bus move them.
BusMoves(op) ==
  /\ told' => told \/ op = "chip_on"
  /\ i2s' => i2s \/ op = "i2s_on"
  /\ op = "chip_off" => ~told'
  /\ op = "i2s_off" => ~i2s'

\* A step of the router that moves the two ends of the bus as its script says keeps
\* the invariant.
LEMMA RouteStepKeeps ==
  ASSUME IInv, NEW op, RouteStep(op), LevelsOK', BusMoves(op)
  PROVE  IInv'
<1>1. routing \in Route /\ routeStep \in 1 .. 6
  BY DEF IInv, TypeOK, RouteStep
<1>2. routeStep \in 1 .. Len(RouteOps(routing)) /\ Len(RouteOps(routing)) \in 4 .. 5
  BY <1>1, RouteScripts DEF RouteStep
<1>7. RouteOps(routing)[routeStep] = op /\ routing' = routing /\ routeStep' = routeStep + 1
  BY DEF RouteStep
<1>3. ScriptFacts(routing, routeStep)
  BY <1>1, <1>2, RouteScripts
<1>4. HostInv'
  BY DEF IInv, HostInv, RouteStep, modeVars, switchVars
<1>5. TypeOK'
  BY <1>1, <1>2 DEF IInv, TypeOK, RouteStep, modeVars, switchVars
<1>6. BusInv'
  <2>1. CASE op = "chip_on"
    <3>1. routing = "SPDIF" /\ routeStep = 3
      BY <1>3, <1>7, <2>1 DEF ScriptFacts
    <3>2. ~i2s
      BY <3>1 DEF IInv, BusInv
    <3>3. ~i2s'
      BY <2>1, <3>2 DEF BusMoves
    <3> QED
      BY <1>7, <3>1, <3>3 DEF BusInv
  <2>2. CASE op = "i2s_on"
    <3>1. routing = "CPU" /\ routeStep = 4
      BY <1>3, <1>7, <2>2 DEF ScriptFacts
    <3>2. ~told
      BY <3>1 DEF IInv, BusInv
    <3>3. ~told'
      BY <2>2, <3>2 DEF BusMoves
    <3> QED
      BY <1>7, <3>1, <3>3 DEF BusInv
  <2>3. CASE op \notin {"chip_on", "i2s_on"}
    <3>1. (told' => told) /\ (i2s' => i2s)
      BY <2>3 DEF BusMoves
    <3>2. routing = "SPDIF" /\ routeStep = 2 => ~i2s'
      BY <1>3, <1>7 DEF ScriptFacts, BusMoves
    <3>3. routing = "CPU" /\ routeStep = 3 => ~told'
      BY <1>3, <1>7 DEF ScriptFacts, BusMoves
    <3> QED
      BY <1>1, <1>7, <3>1, <3>2, <3>3 DEF IInv, BusInv
  <2> QED
    BY <2>1, <2>2, <2>3
<1> QED
  BY <1>4, <1>5, <1>6 DEF IInv

LEMMA RouteKeeps ==
  ASSUME IInv, SetRelay \/ SetMutingHax \/ SetMute \/ SetChip \/ SetI2S \/ RouteDone
  PROVE  IInv'
<1>1. CASE SetRelay
  <2>1. LevelsOK'
    BY <1>1 DEF SetRelay, RouteStep, LevelsOK, TypeOK, IInv
  <2>2. PICK op \in {"relay"} : RouteStep(op) /\ UNCHANGED <<told, i2s>>
    BY <1>1 DEF SetRelay
  <2> QED
    BY <2>1, <2>2, RouteStepKeeps DEF BusMoves
<1>2. CASE SetMutingHax
  <2>1. LevelsOK'
    BY <1>2 DEF SetMutingHax, RouteStep, LevelsOK, TypeOK, IInv
  <2>2. PICK op \in {"hax_on", "hax_off"} : RouteStep(op) /\ UNCHANGED <<told, i2s>>
    BY <1>2 DEF SetMutingHax
  <2> QED
    BY <2>1, <2>2, RouteStepKeeps DEF BusMoves
<1>3. CASE SetMute
  <2>1. LevelsOK'
    BY <1>3 DEF SetMute, RouteStep, LevelsOK, TypeOK, IInv
  <2>2. PICK op \in {"mute", "unmute"} : RouteStep(op) /\ UNCHANGED <<told, i2s>>
    BY <1>3 DEF SetMute
  <2> QED
    BY <2>1, <2>2, RouteStepKeeps DEF BusMoves
<1>4. CASE SetChip
  <2>1. LevelsOK'
    BY <1>4 DEF SetChip, Write, RouteStep, LevelsOK, TypeOK, IInv, outVars
  <2>2. PICK on \in BOOLEAN :
          /\ RouteStep(IF on THEN "chip_on" ELSE "chip_off")
          /\ told' = on
          /\ UNCHANGED i2s
    BY <1>4 DEF SetChip, outVars
  <2>3. CASE on
    <3>1. RouteStep("chip_on")
      BY <2>2, <2>3
    <3> QED
      BY <2>1, <2>2, <3>1, RouteStepKeeps DEF BusMoves
  <2>4. CASE ~on
    <3>1. RouteStep("chip_off") /\ ~told'
      BY <2>2, <2>4
    <3> QED
      BY <2>1, <2>2, <3>1, RouteStepKeeps DEF BusMoves
  <2> QED
    BY <2>3, <2>4
<1>5. CASE SetI2S
  <2>1. LevelsOK'
    BY <1>5 DEF SetI2S, RouteStep, LevelsOK, TypeOK, IInv, outVars
  <2>2. PICK on \in BOOLEAN :
          /\ RouteStep(IF on THEN "i2s_on" ELSE "i2s_off")
          /\ i2s' = on
          /\ UNCHANGED told
    BY <1>5 DEF SetI2S, outVars
  <2>3. CASE on
    <3>1. RouteStep("i2s_on")
      BY <2>2, <2>3
    <3> QED
      BY <2>1, <2>2, <3>1, RouteStepKeeps DEF BusMoves
  <2>4. CASE ~on
    <3>1. RouteStep("i2s_off") /\ ~i2s'
      BY <2>2, <2>4
    <3> QED
      BY <2>1, <2>2, <3>1, RouteStepKeeps DEF BusMoves
  <2> QED
    BY <2>3, <2>4
<1>6. CASE RouteDone
  <2>1. LevelsOK'
    BY <1>6 DEF RouteDone, LevelsOK, TypeOK, IInv, chipVars, outVars
  <2>2. switchStep \in 1 .. 3
    BY <1>6 DEF RouteDone, TypeOK, HostInv, IInv
  <2>3. BusInv'
    BY <1>6 DEF RouteDone, BusInv, IInv, chipVars, outVars
  <2> QED
    BY <1>6, <2>1, <2>2, <2>3 DEF RouteDone, TypeOK, HostInv, IInv, modeVars
<1> QED
  BY <1>1, <1>2, <1>3, <1>4, <1>5, <1>6

\* A step of setup() or teardown() is one of at most three.
LEMMA ScriptKeeps ==
  ASSUME IInv, ActivateRoute \/ SetSource \/ SetWlan
  PROVE  IInv'
<1> USE DEF IInv, TypeOK
<1>1. activeMode \in Screen /\ Len(Script) \in 0 .. 3
  BY ModeScripts DEF Script
<1>2. CASE ActivateRoute
  <2>1. PICK next \in Route :
          /\ ScriptStep(next)
          /\ \/ switchStep' = switchStep + 1 /\ UNCHANGED routing
             \/ routing' = next /\ UNCHANGED switchStep
          /\ UNCHANGED <<source, wlan>>
    BY <1>2 DEF ActivateRoute
  <2>2. LevelsOK'
    BY <2>1 DEF ScriptStep, LevelsOK, chipVars, outVars
  <2>3. routeStep = 1 /\ routeStep' = 1
    BY <2>1 DEF HostInv, ScriptStep
  <2>4. switchStep \in 1 .. 3
    BY <1>1, <2>1 DEF ScriptStep
  <2> QED
    BY <2>1, <2>2, <2>3, <2>4 DEF ScriptStep, BusInv, HostInv, modeVars, chipVars, outVars
<1>3. CASE SetSource
  <2>1. LevelsOK'
    BY <1>3 DEF SetSource, ScriptStep, LevelsOK, chipVars, outVars
  <2> QED
    BY <1>1, <1>3, <2>1
    DEF SetSource, ScriptStep, BusInv, HostInv, modeVars, chipVars, outVars
<1>4. CASE SetWlan
  <2>1. LevelsOK'
    BY <1>4 DEF SetWlan, ScriptStep, LevelsOK, chipVars, outVars
  <2>2. PICK op : ScriptStep(op) /\ switchStep' = switchStep + 1 /\ UNCHANGED <<routing, source>>
    BY <1>4 DEF SetWlan
  <2>3. BusInv'
    BY <2>2 DEF ScriptStep, BusInv, chipVars, outVars
  <2>4. switchStep \in 1 .. 3
    BY <1>1, <2>2 DEF ScriptStep
  <2> QED
    BY <2>1, <2>2, <2>3, <2>4 DEF ScriptStep, HostInv, modeVars
<1> QED
  BY <1>2, <1>3, <1>4

LEMMA SwitchKeeps ==
  ASSUME IInv, TornDown \/ SwitchEnds \/ RecoverEnds \/ OtaShown
  PROVE  IInv'
<1> USE DEF BesideSwitch, routeVars, chipVars, outVars, IInv, TypeOK
<1>1. LevelsOK'
  BY DEF LevelsOK, TornDown, SwitchEnds, RecoverEnds, OtaShown, SetUp
<1>2. CASE TornDown
  <2>1. Incoming \in Screen
    BY <1>2 DEF TornDown, Incoming, Screen, BusInv, HostInv
  <2> QED
    BY <1>1, <1>2, <2>1 DEF TornDown, BusInv, HostInv
<1>3. CASE SwitchEnds
  BY <1>1, <1>3 DEF SwitchEnds, SetUp, Mode, BusInv, HostInv
<1>4. CASE RecoverEnds
  BY <1>1, <1>4 DEF RecoverEnds, SetUp, BusInv, HostInv
<1>5. CASE OtaShown
  BY <1>1, <1>5 DEF OtaShown, SetUp, BusInv, HostInv
<1> QED
  BY <1>2, <1>3, <1>4, <1>5

LEMMA BootKeeps ==
  ASSUME IInv, BootWlan \/ Recover \/ BootSpdif \/ BootMode \/ Restart
  PROVE  IInv'
<1> USE DEF routeVars, chipVars, outVars, modeVars, switchVars, IInv, TypeOK
<1>1. CASE BootWlan
  <2>1. LevelsOK'
    BY <1>1 DEF BootWlan, LevelsOK
  <2>2. BusInv'
    BY <1>1 DEF BootWlan, BusInv
  <2>3. HostInv'
    BY <1>1 DEF BootWlan, HostInv
  <2> QED
    BY <1>1, <2>1, <2>2, <2>3 DEF BootWlan
<1>2. CASE Recover
  <2>1. LevelsOK'
    BY <1>2 DEF Recover, SetExternal, BesideSwitch, LevelsOK
  <2> QED
    BY <1>2, <2>1 DEF Recover, SetExternal, BesideSwitch, BusInv, HostInv
<1>3. CASE BootSpdif
  <2>1. LevelsOK'
    BY <1>3 DEF BootSpdif, Write, LevelsOK
  <2> QED
    BY <1>3, <2>1 DEF BootSpdif, BusInv, HostInv
<1>4. CASE BootMode
  <2>1. LevelsOK'
    BY <1>4 DEF BootMode, LevelsOK
  <2> QED
    BY <1>4, <2>1 DEF BootMode, BusInv, HostInv
<1>5. CASE Restart
  <2>1. LevelsOK'
    BY <1>5 DEF Restart, LevelsOK
  <2>2. BusInv'
    BY <1>5 DEF Restart, BusInv
  <2>3. HostInv'
    BY <1>5 DEF Restart, HostInv, Mode
  <2> QED
    BY <1>5, <2>1, <2>2, <2>3 DEF Restart, Route, Screen
<1> QED
  BY <1>1, <1>2, <1>3, <1>4, <1>5

LEMMA LoopKeeps ==
  ASSUME IInv, LoopBegin \/ LoopPass \/ OtaBegins \/ OtaTakes
  PROVE  IInv'
<1> USE DEF BesideSwitch, routeVars, chipVars, outVars, modeVars, switchVars, IInv, TypeOK
<1>1. LevelsOK'
  BY DEF LevelsOK, LoopBegin, LoopPass, OtaBegins, OtaTakes, SetExternal
<1>2. CASE LoopBegin
  BY <1>1, <1>2 DEF LoopBegin, BusInv, HostInv
<1>3. CASE LoopPass
  <2>1. Menu \subseteq Mode /\ Keys \subseteq Mode
    BY DEF Menu, Keys, Mode
  <2> QED
    BY <1>1, <1>3, <2>1 DEF LoopPass, BusInv, HostInv
<1>4. CASE OtaBegins
  BY <1>1, <1>4 DEF OtaBegins, BusInv, HostInv
<1>5. CASE OtaTakes
  BY <1>1, <1>5 DEF OtaTakes, SetExternal, BusInv, HostInv
<1> QED
  BY <1>2, <1>3, <1>4, <1>5

LEMMA NextIInv == IInv /\ [Next]_vars => IInv'
<1> SUFFICES ASSUME IInv, [Next]_vars PROVE IInv'
  OBVIOUS
<1>1. CASE UNCHANGED vars
  BY <1>1 DEF vars, routeVars, chipVars, outVars, modeVars, switchVars, IInv, TypeOK,
              LevelsOK, BusInv, HostInv
<1>2. CASE Next
  BY <1>2, RouteKeeps, ScriptKeeps, SwitchKeeps, BootKeeps, LoopKeeps DEF Next, DeviceStep
<1> QED
  BY <1>1, <1>2

LEMMA Invariance == Spec => []IInv
<1> QED
  BY InitIInv, NextIInv, PTL DEF Spec

-----------------------------------------------------------------------------
(* The screen of an update *)

\* Under the screen of an update the keys are inert, what comes on is what the
\* holder of the lock asked for, and loop() does not switch to the mode that is on.
ScreenInv ==
  /\ activeMode = "UPDATE" \/ otaPc = "switch" => cur_mode = "MAX_INVALID"
  /\ switchPc = "setup" => activeMode = Incoming
  /\ modeSwitchSema = "main" /\ mainPc = "loop" /\ switchPc # "no" => cur_mode # req_mode

LEMMA ScreenStep == IInv /\ ScreenInv /\ [Next]_vars => ScreenInv'
<1> SUFFICES ASSUME IInv, ScreenInv, [Next]_vars PROVE ScreenInv'
  OBVIOUS
<1> USE DEF ScreenInv, Incoming, modeVars, switchVars
<1>1. CASE UNCHANGED vars
  BY <1>1 DEF vars
<1>2. CASE SetRelay \/ SetMutingHax \/ SetMute \/ SetChip \/ SetI2S
  <2>1. PICK op : RouteStep(op)
    BY <1>2 DEF SetRelay, SetMutingHax, SetMute, SetChip, SetI2S
  <2> QED
    BY <2>1 DEF RouteStep
<1>3. CASE RouteDone
  BY <1>3 DEF RouteDone
<1>4. CASE ActivateRoute \/ SetSource \/ SetWlan
  <2>1. PICK op : ScriptStep(op)
    BY <1>4 DEF ActivateRoute, SetSource, SetWlan
  <2> QED
    BY <2>1 DEF ScriptStep
<1>5. CASE TornDown
  BY <1>5 DEF TornDown, IInv, HostInv, TypeOK, Mode
<1>6. CASE SwitchEnds
  BY <1>6 DEF SwitchEnds, SetUp, IInv, HostInv, TypeOK, Mode
<1>7. CASE RecoverEnds \/ OtaShown
  BY <1>7 DEF RecoverEnds, OtaShown, SetUp, IInv, HostInv
<1>8. CASE BootWlan
  BY <1>8 DEF BootWlan, IInv, HostInv, TypeOK
<1>9. CASE Recover \/ OtaTakes
  BY <1>9 DEF Recover, OtaTakes, SetExternal
<1>10. CASE BootSpdif \/ BootMode
  BY <1>10 DEF BootSpdif, BootMode, IInv, HostInv, TypeOK
<1>11. CASE Restart
  BY <1>11 DEF Restart
<1>12. CASE LoopBegin \/ OtaBegins
  BY <1>12 DEF LoopBegin, OtaBegins, IInv, HostInv
<1>13. CASE LoopPass
  BY <1>13 DEF LoopPass
<1> QED
  BY <1>1, <1>2, <1>3, <1>4, <1>5, <1>6, <1>7, <1>8, <1>9, <1>10, <1>11, <1>12, <1>13
  DEF Next, DeviceStep

\* One step under the screen of an update.
KeepsScreen ==
  activeMode = "UPDATE" /\ mainPc = "loop" /\ cur_mode = req_mode =>
    \/ activeMode' = "UPDATE" /\ cur_mode' = req_mode'
    \/ activeMode' = "BOOT"

LEMMA KeepsScreenStep == IInv /\ ScreenInv /\ [Next]_vars => [KeepsScreen]_vars
<1> SUFFICES ASSUME IInv, ScreenInv, Next, activeMode = "UPDATE", mainPc = "loop",
                    cur_mode = req_mode
             PROVE  \/ activeMode' = "UPDATE" /\ cur_mode' = req_mode'
                    \/ activeMode' = "BOOT"
  BY DEF KeepsScreen
<1> USE DEF modeVars
<1>1. CASE DeviceStep
  <2>1. UNCHANGED modeVars
    BY <1>1 DEF DeviceStep, SetRelay, SetMutingHax, SetMute, SetChip, SetI2S, RouteStep,
                RouteDone, ActivateRoute, SetSource, SetWlan, ScriptStep
  <2> QED
    BY <2>1
<1>2. CASE TornDown
  BY <1>2 DEF TornDown, IInv, HostInv, TypeOK, ScreenInv, Incoming
<1>3. CASE SwitchEnds
  BY <1>3 DEF SwitchEnds, SetUp
<1>4. CASE RecoverEnds \/ OtaShown \/ BootWlan \/ Recover \/ BootSpdif \/ BootMode
  BY <1>4 DEF RecoverEnds, OtaShown, SetUp, BootWlan, Recover, BootSpdif, BootMode
<1>5. CASE LoopBegin \/ OtaBegins \/ OtaTakes
  BY <1>5 DEF LoopBegin, OtaBegins, OtaTakes, SetExternal
<1>6. CASE LoopPass
  <2>1. Menu = {} /\ Keys = {}
    BY DEF Menu, Keys, ScreenInv
  <2> QED
    BY <1>6, <2>1 DEF LoopPass
<1>7. CASE Restart
  BY <1>7 DEF Restart
<1> QED
  BY <1>1, <1>2, <1>3, <1>4, <1>5, <1>6, <1>7 DEF Next

-----------------------------------------------------------------------------
(* What of a route is in effect at each step, and what of a mode *)

\* An activate_route() leaves behind it what its steps so far are for; when none is
\* under way, the current route is in effect.
EffectInv ==
  /\ RouteInEffect
  /\ routing = "no" => (told <=> current_route = "SPDIF")
  /\ routing \in {"SPDIF", "CPU"} /\ routeStep >= 2 => ~bypassed
  /\ routing = "BYPASS" /\ routeStep >= 2 => bypassed
  /\ routing = "SPDIF" /\ routeStep >= 3 => ~i2s
  /\ routing = "SPDIF" /\ routeStep >= 4 => told
  /\ routing = "SPDIF" /\ routeStep >= 5 => by_lock
  /\ routing \in {"CPU", "NONE", "BYPASS"} /\ routeStep >= 3 => ~by_lock
  /\ routing = "CPU" /\ routeStep >= 4 => ~told
  /\ routing = "CPU" /\ routeStep >= 5 => i2s
  /\ routing = "CPU" /\ routeStep >= 6 => unmuted
  /\ routing \in {"NONE", "BYPASS"} /\ routeStep >= 4 => ~unmuted
  /\ routing \in {"NONE", "BYPASS"} /\ routeStep >= 5 => ~told
  /\ routing \in {"NONE", "BYPASS"} /\ routeStep >= 6 => ~i2s

Radios == {"NET_RADIO", "BLUETOOTH"}

\* The transceiver is told to play, and the processor given the bus, in no mode but
\* their own, which gives the route back before it is deleted.
PlaceInv ==
  /\ told \/ "SPDIF" \in {current_route, routing} => activeMode = "CD"
  /\ i2s \/ "CPU" \in {current_route, routing} => activeMode \in Radios
  /\ switchPc = "teardown" => routing \in {"no", "NONE"}
  /\ switchPc = "setup" /\ activeMode \in Radios =>
       routing = "no" \/ (routing = "CPU" /\ switchStep = 1)
  /\ switchPc = "teardown" /\ activeMode = "CD" /\ switchStep >= 2 => current_route = "NONE"
  /\ switchPc = "teardown" /\ activeMode \in Radios /\ switchStep >= 3 =>
       current_route = "NONE"

\* What writes to the I2S stream has its route from the setup() of its mode to the
\* first step of the teardown().
SourceInv ==
  /\ source # "none" =>
       /\ current_route = "CPU" /\ routing = "no"
       /\ \/ source = "stream" /\ activeMode = "NET_RADIO"
          \/ source = "a2dp" /\ activeMode = "BLUETOOTH" /\ ~wlan
       /\ \/ switchPc = "no"
          \/ switchPc = "teardown" /\ switchStep = 1
          \/ switchPc = "setup" /\ source = "a2dp" /\ switchStep = 4
  /\ activeMode \in Radios =>
       \/ current_route = "CPU" /\ routing = "no"
       \/ switchPc = "setup" /\ switchStep = 1
       \/ switchPc = "teardown" /\ switchStep >= 2
  /\ activeMode = "BLUETOOTH" /\ wlan =>
       \/ switchPc = "teardown"
       \/ switchPc = "setup" /\ switchStep <= 2
  /\ mainPc = "wlan" => activeMode = "BOOT"

AudioInv == EffectInv /\ PlaceInv /\ SourceInv

\* The scripts of the router, entry by entry.
LEMMA RouteEntries ==
  /\ LET ops == RouteOps("SPDIF") IN
       /\ Len(ops) = 4
       /\ ops[1] = "relay" /\ ops[2] = "i2s_off" /\ ops[3] = "chip_on" /\ ops[4] = "hax_on"
  /\ LET ops == RouteOps("CPU") IN
       /\ Len(ops) = 5
       /\ ops[1] = "relay" /\ ops[2] = "hax_off" /\ ops[3] = "chip_off"
       /\ ops[4] = "i2s_on" /\ ops[5] = "unmute"
  /\ \A r \in {"NONE", "BYPASS"} : LET ops == RouteOps(r) IN
       /\ Len(ops) = 5
       /\ ops[1] = "relay" /\ ops[2] = "hax_off" /\ ops[3] = "mute"
       /\ ops[4] = "chip_off" /\ ops[5] = "i2s_off"
<1> DEFINE cd == RouteOps("SPDIF")
           cpu == RouteOps("CPU")
<1>1. cd = <<"relay", "i2s_off", "chip_on", "hax_on">>
  BY DEF RouteOps
<1>2. cpu = <<"relay", "hax_off", "chip_off", "i2s_on", "unmute">>
  BY DEF RouteOps
<1> HIDE DEF cd, cpu
<1>3. /\ Len(cd) = 4
      /\ cd[1] = "relay" /\ cd[2] = "i2s_off" /\ cd[3] = "chip_on" /\ cd[4] = "hax_on"
  BY <1>1
<1>4. /\ Len(cpu) = 5
      /\ cpu[1] = "relay" /\ cpu[2] = "hax_off" /\ cpu[3] = "chip_off"
      /\ cpu[4] = "i2s_on" /\ cpu[5] = "unmute"
  BY <1>2
<1>5. ASSUME NEW r \in {"NONE", "BYPASS"}, NEW ops, ops = RouteOps(r)
      PROVE  /\ Len(ops) = 5
             /\ ops[1] = "relay" /\ ops[2] = "hax_off" /\ ops[3] = "mute"
             /\ ops[4] = "chip_off" /\ ops[5] = "i2s_off"
  <2>1. ops = <<"relay", "hax_off", "mute", "chip_off", "i2s_off">>
    BY <1>5 DEF RouteOps
  <2> QED
    BY <2>1
<1> QED
  BY <1>3, <1>4, <1>5 DEF cd, cpu

\* Where a mode's setup() takes a route, starts its source and turns the network off.
SetupFacts(m, k) ==
  /\ Setup(m)[k] = "SPDIF" => m = "CD"
  /\ Setup(m)[k] = "CPU" => m \in Radios
  /\ m \in Radios => (Setup(m)[k] \in Route <=> k = 1)
  /\ m \in Radios /\ k = 1 => Setup(m)[k] = "CPU"
  /\ Setup(m)[k] = "a2dp" => m = "BLUETOOTH" /\ k = 3
  /\ m = "BLUETOOTH" /\ k = 2 => Setup(m)[k] = "wlan_off"
  /\ Setup(m)[k] # "quiet" /\ Setup(m)[k] # "wlan_on"

\* Where its teardown() stops the source and gives the route back.
TeardownFacts(m, k) ==
  /\ Teardown(m)[k] \in Route => Teardown(m)[k] = "NONE"
  /\ m = "CD" => k = 1 /\ Teardown(m)[k] = "NONE"
  /\ m \in Radios => (Teardown(m)[k] = "quiet" <=> k = 1)
  /\ m \in Radios => (Teardown(m)[k] \in Route <=> k = 2)
  /\ Teardown(m)[k] = "quiet" => m \in Radios
  /\ Teardown(m)[k] # "a2dp" /\ Teardown(m)[k] # "wlan_off"

LEMMA SetupEntries ==
  ASSUME NEW m \in Screen, NEW k \in 1 .. Len(Setup(m))
  PROVE  SetupFacts(m, k)
<1>1. CASE m = "CD"
  <2>1. Setup(m) = <<"SPDIF">>
    BY <1>1 DEF Setup
  <2>2. k = 1
    BY <2>1
  <2>3. Setup(m)[1] = "SPDIF"
    BY <2>1
  <2> QED
    BY <1>1, <2>2, <2>3 DEF SetupFacts, Radios, Route
<1>2. CASE m = "NET_RADIO"
  <2>1. Setup(m) = <<"CPU">>
    BY <1>2 DEF Setup
  <2>2. k = 1
    BY <2>1
  <2>3. Setup(m)[1] = "CPU"
    BY <2>1
  <2> QED
    BY <1>2, <2>2, <2>3 DEF SetupFacts, Radios, Route
<1>3. CASE m = "BLUETOOTH"
  <2>1. Setup(m) = <<"CPU", "wlan_off", "a2dp">>
    BY <1>3 DEF Setup
  <2>2. k = 1 \/ k = 2 \/ k = 3
    BY <2>1
  <2>3. Setup(m)[1] = "CPU" /\ Setup(m)[2] = "wlan_off" /\ Setup(m)[3] = "a2dp"
    BY <2>1
  <2> QED
    BY <1>3, <2>2, <2>3 DEF SetupFacts, Radios, Route
<1>4. CASE m = "STANDBY"
  <2>1. Setup(m) = <<"BYPASS", "wlan_off">>
    BY <1>4 DEF Setup
  <2>2. k = 1 \/ k = 2
    BY <2>1
  <2>3. Setup(m)[1] = "BYPASS" /\ Setup(m)[2] = "wlan_off"
    BY <2>1
  <2> QED
    BY <1>4, <2>2, <2>3 DEF SetupFacts, Radios, Route
<1>5. CASE m \notin {"CD", "NET_RADIO", "BLUETOOTH", "STANDBY"}
  <2>1. Setup(m) = <<>>
    BY <1>5 DEF Setup
  <2> QED
    BY <2>1
<1> QED
  BY <1>1, <1>2, <1>3, <1>4, <1>5

LEMMA TeardownEntries ==
  ASSUME NEW m \in Screen, NEW k \in 1 .. Len(Teardown(m))
  PROVE  TeardownFacts(m, k)
<1>1. CASE m = "CD"
  <2>1. Teardown(m) = <<"NONE">>
    BY <1>1 DEF Teardown
  <2>2. k = 1
    BY <2>1
  <2>3. Teardown(m)[1] = "NONE"
    BY <2>1
  <2> QED
    BY <1>1, <2>2, <2>3 DEF TeardownFacts, Radios, Route
<1>2. CASE m = "NET_RADIO"
  <2>1. Teardown(m) = <<"quiet", "NONE">>
    BY <1>2 DEF Teardown
  <2>2. k = 1 \/ k = 2
    BY <2>1
  <2>3. Teardown(m)[1] = "quiet" /\ Teardown(m)[2] = "NONE"
    BY <2>1
  <2> QED
    BY <1>2, <2>2, <2>3 DEF TeardownFacts, Radios, Route
<1>3. CASE m = "BLUETOOTH"
  <2>1. Teardown(m) = <<"quiet", "NONE", "wlan_on">>
    BY <1>3 DEF Teardown
  <2>2. k = 1 \/ k = 2 \/ k = 3
    BY <2>1
  <2>3. Teardown(m)[1] = "quiet" /\ Teardown(m)[2] = "NONE" /\ Teardown(m)[3] = "wlan_on"
    BY <2>1
  <2> QED
    BY <1>3, <2>2, <2>3 DEF TeardownFacts, Radios, Route
<1>4. CASE m = "STANDBY"
  <2>1. Teardown(m) = <<"NONE", "wlan_on">>
    BY <1>4 DEF Teardown
  <2>2. k = 1 \/ k = 2
    BY <2>1
  <2>3. Teardown(m)[1] = "NONE" /\ Teardown(m)[2] = "wlan_on"
    BY <2>1
  <2> QED
    BY <1>4, <2>2, <2>3 DEF TeardownFacts, Radios, Route
<1>5. CASE m \notin {"CD", "NET_RADIO", "BLUETOOTH", "STANDBY"}
  <2>1. Teardown(m) = <<>>
    BY <1>5 DEF Teardown
  <2> QED
    BY <2>1
<1> QED
  BY <1>1, <1>2, <1>3, <1>4, <1>5

\* Each entry of a script of the router moves what it is named for, and that alone.
LevelMoves(op) ==
  /\ IF op = "relay" THEN bypassed' <=> routing = "BYPASS" ELSE bypassed' <=> bypassed
  /\ IF op = "hax_on" THEN by_lock'
     ELSE IF op = "hax_off" THEN ~by_lock' ELSE by_lock' <=> by_lock
  /\ IF op = "unmute" THEN unmuted'
     ELSE IF op = "mute" THEN ~unmuted' ELSE unmuted' <=> unmuted
  /\ IF op = "chip_on" THEN told' ELSE IF op = "chip_off" THEN ~told' ELSE told' <=> told
  /\ IF op = "i2s_on" THEN i2s' ELSE IF op = "i2s_off" THEN ~i2s' ELSE i2s' <=> i2s

LEMMA RouteMoves ==
  ASSUME IInv, SetRelay \/ SetMutingHax \/ SetMute \/ SetChip \/ SetI2S
  PROVE  \E op : RouteStep(op) /\ LevelMoves(op)
<1> USE DEF LevelMoves, outVars
<1>1. CASE SetRelay
  <2>1. /\ RouteStep("relay")
        /\ bypassed' <=> routing = "BYPASS"
        /\ UNCHANGED <<told, unmuted, by_lock, i2s>>
    BY <1>1 DEF SetRelay
  <2> QED
    BY <2>1
<1>2. CASE SetMutingHax
  <2>1. PICK on \in BOOLEAN :
          /\ RouteStep(IF on THEN "hax_on" ELSE "hax_off")
          /\ by_lock' = on
          /\ UNCHANGED <<told, bypassed, unmuted, i2s>>
    BY <1>2 DEF SetMutingHax
  <2>2. CASE on
    BY <2>1, <2>2
  <2>3. CASE ~on
    BY <2>1, <2>3
  <2> QED
    BY <2>2, <2>3
<1>3. CASE SetMute
  <2>1. PICK mute \in BOOLEAN :
          /\ RouteStep(IF mute THEN "mute" ELSE "unmute")
          /\ mute => ~unmuted'
          /\ ~mute => unmuted'
          /\ UNCHANGED <<told, bypassed, by_lock, i2s>>
    BY <1>3 DEF SetMute
  <2>2. CASE mute
    BY <2>1, <2>2
  <2>3. CASE ~mute
    BY <2>1, <2>3
  <2> QED
    BY <2>2, <2>3
<1>4. CASE SetChip
  <2>1. PICK on \in BOOLEAN :
          /\ RouteStep(IF on THEN "chip_on" ELSE "chip_off")
          /\ told' = on
          /\ UNCHANGED <<bypassed, unmuted, by_lock, i2s>>
    BY <1>4 DEF SetChip
  <2>2. CASE on
    BY <2>1, <2>2
  <2>3. CASE ~on
    BY <2>1, <2>3
  <2> QED
    BY <2>2, <2>3
<1>5. CASE SetI2S
  <2>1. PICK on \in BOOLEAN :
          /\ RouteStep(IF on THEN "i2s_on" ELSE "i2s_off")
          /\ i2s' = on
          /\ UNCHANGED <<told, bypassed, unmuted, by_lock>>
    BY <1>5 DEF SetI2S
  <2>2. CASE on
    BY <2>1, <2>2
  <2>3. CASE ~on
    BY <2>1, <2>3
  <2> QED
    BY <2>2, <2>3
<1> QED
  BY <1>1, <1>2, <1>3, <1>4, <1>5

LEMMA EffectRouteStep ==
  ASSUME IInv, EffectInv, NEW op, RouteStep(op), LevelMoves(op)
  PROVE  EffectInv'
<1>1. /\ routing \in Route /\ routing' = routing
      /\ routeStep' = routeStep + 1
      /\ routeStep \in 1 .. Len(RouteOps(routing))
      /\ RouteOps(routing)[routeStep] = op
  BY DEF IInv, TypeOK, RouteStep
<1> USE DEF EffectInv, RouteInEffect, LevelMoves
<1>2. CASE routing = "SPDIF"
  <2>1. /\ routeStep = 1 \/ routeStep = 2 \/ routeStep = 3 \/ routeStep = 4
        /\ routeStep = 1 => op = "relay"
        /\ routeStep = 2 => op = "i2s_off"
        /\ routeStep = 3 => op = "chip_on"
        /\ routeStep = 4 => op = "hax_on"
    BY <1>1, <1>2, RouteEntries
  <2> QED
    BY <1>1, <1>2, <2>1
<1>3. CASE routing = "CPU"
  <2>1. /\ \/ routeStep = 1 \/ routeStep = 2 \/ routeStep = 3 \/ routeStep = 4
           \/ routeStep = 5
        /\ routeStep = 1 => op = "relay"
        /\ routeStep = 2 => op = "hax_off"
        /\ routeStep = 3 => op = "chip_off"
        /\ routeStep = 4 => op = "i2s_on"
        /\ routeStep = 5 => op = "unmute"
    BY <1>1, <1>3, RouteEntries
  <2> QED
    BY <1>1, <1>3, <2>1
<1>4. CASE routing \in {"NONE", "BYPASS"}
  <2>1. /\ \/ routeStep = 1 \/ routeStep = 2 \/ routeStep = 3 \/ routeStep = 4
           \/ routeStep = 5
        /\ routeStep = 1 => op = "relay"
        /\ routeStep = 2 => op = "hax_off"
        /\ routeStep = 3 => op = "mute"
        /\ routeStep = 4 => op = "chip_off"
        /\ routeStep = 5 => op = "i2s_off"
    BY <1>1, <1>4, RouteEntries, SMTT(30)
  <2> QED
    BY <1>1, <1>4, <2>1
<1> QED
  BY <1>1, <1>2, <1>3, <1>4 DEF Route

LEMMA EffectRouteDone ==
  ASSUME IInv, EffectInv, RouteDone
  PROVE  EffectInv'
<1>1. /\ routing \in Route /\ current_route' = routing /\ routing' = "no"
      /\ routeStep \in 1 .. 6 /\ routeStep > Len(RouteOps(routing))
      /\ UNCHANGED <<told, bypassed, unmuted, by_lock, i2s>>
  BY DEF IInv, TypeOK, RouteDone, chipVars, outVars
<1>2. IF routing = "SPDIF" THEN routeStep >= 5 ELSE routeStep >= 6
  BY <1>1, RouteEntries DEF Route
<1> QED
  BY <1>1, <1>2 DEF EffectInv, RouteInEffect, Route

\* What takes no step of a route leaves the outputs alone, or is a restart.
LEMMA EffectStep ==
  ASSUME IInv, EffectInv, [Next]_vars
  PROVE  EffectInv'
<1> USE DEF routeVars, chipVars, outVars, BesideSwitch
<1>1. CASE SetRelay \/ SetMutingHax \/ SetMute \/ SetChip \/ SetI2S
  BY <1>1, RouteMoves, EffectRouteStep
<1>2. CASE RouteDone
  BY <1>2, EffectRouteDone
<1>3. CASE ActivateRoute
  <2>1. /\ routing = "no" /\ routeStep' = 1
        /\ routing' \in Route \cup {"no"}
        /\ UNCHANGED <<current_route, told, bypassed, unmuted, by_lock, i2s>>
    BY <1>3 DEF ActivateRoute, ScriptStep, IInv, HostInv, TypeOK
  <2> QED
    BY <2>1 DEF EffectInv, RouteInEffect
<1>4. CASE Restart
  BY <1>4 DEF Restart, EffectInv, RouteInEffect
<1>5. CASE \/ SetSource \/ SetWlan \/ TornDown \/ SwitchEnds \/ BootWlan \/ Recover
           \/ RecoverEnds \/ BootSpdif \/ BootMode \/ LoopBegin \/ LoopPass
           \/ OtaBegins \/ OtaTakes \/ OtaShown \/ UNCHANGED vars
  <2>1. UNCHANGED <<current_route, routing, routeStep, told, bypassed, unmuted, by_lock, i2s>>
    <3>1. CASE SetSource \/ SetWlan
      BY <3>1 DEF SetSource, SetWlan, ScriptStep
    <3>2. CASE TornDown \/ SwitchEnds \/ RecoverEnds \/ OtaShown
      BY <3>2 DEF TornDown, SwitchEnds, RecoverEnds, OtaShown, SetUp
    <3>3. CASE BootWlan \/ Recover \/ BootSpdif \/ BootMode
      BY <3>3 DEF BootWlan, Recover, BootSpdif, BootMode, SetExternal
    <3>4. CASE LoopBegin \/ LoopPass \/ OtaBegins \/ OtaTakes
      BY <3>4 DEF LoopBegin, LoopPass, OtaBegins, OtaTakes, SetExternal
    <3>5. CASE UNCHANGED vars
      BY <3>5 DEF vars
    <3> QED
      BY <1>5, <3>1, <3>2, <3>3, <3>4, <3>5
  <2> QED
    BY <2>1 DEF EffectInv, RouteInEffect
<1> QED
  BY <1>1, <1>2, <1>3, <1>4, <1>5 DEF Next, DeviceStep

\* A step of a script of a mode is where the facts about the scripts have it.
LEMMA ScriptEntry ==
  ASSUME IInv, NEW op, ScriptStep(op)
  PROVE  /\ switchStep \in 1 .. 3
         /\ \/ switchPc = "setup" /\ SetupFacts(activeMode, switchStep)
               /\ Setup(activeMode)[switchStep] = op
            \/ switchPc = "teardown" /\ TeardownFacts(activeMode, switchStep)
               /\ Teardown(activeMode)[switchStep] = op
<1>1. /\ activeMode \in Screen /\ switchStep \in 1 .. 4
      /\ switchStep <= Len(Script) /\ Script[switchStep] = op
      /\ switchPc \in {"setup", "teardown"}
  BY DEF ScriptStep, IInv, TypeOK
<1>2. Len(Setup(activeMode)) \in 0 .. 3 /\ Len(Teardown(activeMode)) \in 0 .. 3
  BY <1>1, ModeScripts
<1>3. CASE switchPc = "setup"
  <2>1. switchStep \in 1 .. Len(Setup(activeMode)) /\ Setup(activeMode)[switchStep] = op
    BY <1>1, <1>2, <1>3 DEF Script
  <2> QED
    BY <1>1, <1>2, <1>3, <2>1, SetupEntries
<1>4. CASE switchPc = "teardown"
  <2>1. switchStep \in 1 .. Len(Teardown(activeMode)) /\ Teardown(activeMode)[switchStep] = op
    BY <1>1, <1>2, <1>4 DEF Script
  <2> QED
    BY <1>1, <1>2, <1>4, <2>1, TeardownEntries
<1> QED
  BY <1>1, <1>3, <1>4

\* A step of the router moves the two ends of the bus only for their own routes.
LEMMA PlaceRouteStep ==
  ASSUME IInv, AudioInv, NEW op, RouteStep(op), LevelMoves(op)
  PROVE  PlaceInv' /\ SourceInv'
<1>1. /\ routing \in Route /\ routeStep \in 1 .. Len(RouteOps(routing))
      /\ RouteOps(routing)[routeStep] = op
      /\ UNCHANGED <<current_route, routing, source, wlan, activeMode, switchPc, switchStep,
                     mainPc>>
  BY DEF IInv, TypeOK, RouteStep, modeVars, switchVars
<1>2. ScriptFacts(routing, routeStep)
  BY <1>1, RouteScripts
<1>3. told' => told \/ routing = "SPDIF"
  BY <1>1, <1>2 DEF ScriptFacts, LevelMoves
<1>4. i2s' => i2s \/ routing = "CPU"
  BY <1>1, <1>2 DEF ScriptFacts, LevelMoves
<1> QED
  BY <1>1, <1>3, <1>4 DEF AudioInv, PlaceInv, SourceInv

LEMMA PlaceRouteDone ==
  ASSUME IInv, AudioInv, RouteDone
  PROVE  PlaceInv' /\ SourceInv'
<1>1. /\ routing \in Route /\ current_route' = routing /\ routing' = "no"
      /\ switchStep \in 1 .. 3 /\ switchStep' = switchStep + 1
      /\ switchPc \in {"setup", "teardown"}
      /\ UNCHANGED <<told, i2s, source, wlan, activeMode, switchPc, mainPc>>
  BY DEF IInv, TypeOK, HostInv, RouteDone, chipVars, outVars, modeVars
<1>2. /\ "SPDIF" \in {current_route, routing}' => routing = "SPDIF"
      /\ "CPU" \in {current_route, routing}' => routing = "CPU"
  BY <1>1
<1>3. PlaceInv'
  BY <1>1, <1>2 DEF AudioInv, PlaceInv, Radios, Route
<1>4. source = "none"
  BY <1>1 DEF AudioInv, SourceInv, Route
<1>5. activeMode \in Radios =>
        \/ current_route' = "CPU" /\ switchPc = "setup" /\ switchStep = 1
        \/ switchPc = "teardown" /\ switchStep >= 2
  BY <1>1 DEF AudioInv, PlaceInv, SourceInv, Route
<1>6. activeMode \in Radios =>
        \/ (current_route = "CPU" /\ routing = "no")'
        \/ switchPc = "teardown" /\ switchStep' >= 2
  BY <1>1, <1>5
<1> QED
  BY <1>1, <1>3, <1>4, <1>5, <1>6 DEF AudioInv, SourceInv, Radios

LEMMA PlaceActivateRoute ==
  ASSUME IInv, AudioInv, ActivateRoute
  PROVE  PlaceInv' /\ SourceInv'
<1>1. PICK next \in Route :
        /\ ScriptStep(next)
        /\ \/ next = current_route /\ switchStep' = switchStep + 1 /\ UNCHANGED routing
           \/ routing' = next /\ UNCHANGED switchStep
        /\ UNCHANGED <<source, wlan>>
  BY DEF ActivateRoute
<1>2. /\ routing = "no"
      /\ UNCHANGED <<current_route, told, i2s, activeMode, switchPc, mainPc>>
  BY <1>1 DEF ScriptStep, chipVars, outVars, modeVars
<1>3. CASE switchPc = "setup"
  <2>1. switchStep \in 1 .. 3 /\ SetupFacts(activeMode, switchStep)
        /\ Setup(activeMode)[switchStep] = next
    BY <1>1, <1>3, ScriptEntry
  <2>2. /\ next = "SPDIF" => activeMode = "CD"
        /\ next = "CPU" => activeMode \in Radios
        /\ activeMode \in Radios => switchStep = 1 /\ next = "CPU"
    BY <2>1 DEF SetupFacts
  <2>3. PlaceInv'
    <3>1. (told \/ "SPDIF" \in {current_route, routing})' => activeMode' = "CD"
      BY <1>1, <1>2, <2>2 DEF AudioInv, PlaceInv
    <3>2. (i2s \/ "CPU" \in {current_route, routing})' => activeMode' \in Radios
      BY <1>1, <1>2, <2>2 DEF AudioInv, PlaceInv
    <3> QED
      BY <1>1, <1>2, <1>3, <2>1, <2>2, <3>1, <3>2 DEF PlaceInv, Radios
  <2>4. source = "none"
    BY <1>3, <2>1, <2>2 DEF AudioInv, SourceInv
  <2> QED
    BY <1>1, <1>2, <1>3, <2>1, <2>2, <2>3, <2>4 DEF AudioInv, SourceInv, Radios
<1>4. CASE switchPc = "teardown"
  <2>1. switchStep \in 1 .. 3 /\ TeardownFacts(activeMode, switchStep)
        /\ Teardown(activeMode)[switchStep] = next
    BY <1>1, <1>4, ScriptEntry
  <2>2. next = "NONE" /\ (activeMode \in Radios => switchStep = 2)
    BY <2>1 DEF TeardownFacts
  <2>3. PlaceInv'
    BY <1>1, <1>2, <1>4, <2>1, <2>2 DEF AudioInv, PlaceInv, Radios
  <2>4. source = "none"
    BY <1>4, <2>1, <2>2 DEF AudioInv, SourceInv, Radios
  <2> QED
    BY <1>1, <1>2, <1>4, <2>1, <2>2, <2>3, <2>4 DEF AudioInv, SourceInv, Radios
<1> QED
  BY <1>1, <1>3, <1>4 DEF ScriptStep, IInv, TypeOK

LEMMA PlaceSourceWlan ==
  ASSUME IInv, AudioInv, SetSource \/ SetWlan
  PROVE  PlaceInv' /\ SourceInv'
<1> USE DEF AudioInv, PlaceInv, SourceInv, Radios
<1>1. /\ routing = "no" /\ routing' = "no" /\ switchStep' = switchStep + 1
      /\ switchStep \in 1 .. 4
      /\ UNCHANGED <<current_route, told, i2s, activeMode, switchPc, mainPc>>
  BY DEF SetSource, SetWlan, ScriptStep, IInv, TypeOK, chipVars, outVars, modeVars
<1>2. CASE SetSource
  <2>1. UNCHANGED wlan
    BY <1>2 DEF SetSource
  <2>2. CASE ScriptStep("a2dp") /\ source' = "a2dp"
    <3>1. /\ switchPc = "setup" /\ activeMode = "BLUETOOTH" /\ switchStep = 3
      BY <2>2, ScriptEntry DEF SetupFacts, TeardownFacts
    <3> QED
      BY <1>1, <2>1, <2>2, <3>1
  <2>3. CASE ScriptStep("quiet") /\ source' = "none"
    <3>1. /\ switchPc = "teardown" /\ activeMode \in Radios /\ switchStep = 1
      BY <2>3, ScriptEntry DEF SetupFacts, TeardownFacts
    <3> QED
      BY <1>1, <2>1, <2>3, <3>1
  <2> QED
    BY <1>2, <2>2, <2>3 DEF SetSource
<1>3. CASE SetWlan
  <2>1. UNCHANGED source
    BY <1>3 DEF SetWlan
  <2>2. CASE ScriptStep("wlan_on") /\ wlan'
    <3>1. switchPc = "teardown" /\ TeardownFacts(activeMode, switchStep)
          /\ Teardown(activeMode)[switchStep] = "wlan_on"
      BY <2>2, ScriptEntry DEF SetupFacts
    <3>2. activeMode # "CD" /\ (activeMode \in Radios => switchStep > 2)
      <4>1. activeMode \in Radios => switchStep # 1 /\ switchStep # 2
        BY <3>1 DEF TeardownFacts, Route
      <4> QED
        BY <1>1, <3>1, <4>1 DEF TeardownFacts
    <3>3. source = "none"
      BY <3>1, <3>2
    <3> QED
      BY <1>1, <2>1, <2>2, <3>1, <3>2, <3>3
  <2>3. CASE ScriptStep("wlan_off") /\ ~wlan'
    <3>1. switchPc = "setup" /\ SetupFacts(activeMode, switchStep)
          /\ Setup(activeMode)[switchStep] = "wlan_off"
      BY <2>3, ScriptEntry DEF TeardownFacts
    <3>2. activeMode \in Radios => switchStep # 1
      BY <3>1 DEF SetupFacts
    <3>3. source = "none"
      <4>1. source # "none" => switchStep = 4
        BY <3>1
      <4> QED
        BY <2>3, <4>1, ScriptEntry
    <3> QED
      BY <1>1, <2>1, <2>3, <3>1, <3>2, <3>3
  <2> QED
    BY <1>3, <2>2, <2>3 DEF SetWlan
<1> QED
  BY <1>2, <1>3

\* When a mode is deleted it is silent: its route is given back.
LEMMA SilentWhenTornDown ==
  ASSUME IInv, AudioInv, TornDown
  PROVE  /\ current_route \notin {"SPDIF", "CPU"} /\ routing = "no"
         /\ ~told /\ ~i2s /\ ~by_lock /\ ~unmuted /\ source = "none"
<1>1. /\ switchPc = "teardown" /\ routing = "no" /\ activeMode \in Screen
      /\ switchStep \in 1 .. 4 /\ switchStep > Len(Teardown(activeMode))
  BY DEF TornDown, IInv, TypeOK
<1>2. /\ activeMode = "CD" => switchStep >= 2
      /\ activeMode \in Radios => switchStep >= 3
  <2>1. ASSUME activeMode = "CD"
        PROVE  switchStep >= 2
    <3>1. Teardown(activeMode) = <<"NONE">>
      BY <2>1 DEF Teardown
    <3> QED
      BY <1>1, <3>1
  <2>2. ASSUME activeMode = "NET_RADIO"
        PROVE  switchStep >= 3
    <3>1. Teardown(activeMode) = <<"quiet", "NONE">>
      BY <2>2 DEF Teardown
    <3> QED
      BY <1>1, <3>1
  <2>3. ASSUME activeMode = "BLUETOOTH"
        PROVE  switchStep >= 3
    <3>1. Teardown(activeMode) = <<"quiet", "NONE", "wlan_on">>
      BY <2>3 DEF Teardown
    <3> QED
      BY <1>1, <3>1
  <2> QED
    BY <2>1, <2>2, <2>3 DEF Radios
<1>3. current_route \notin {"SPDIF", "CPU"}
  BY <1>1, <1>2 DEF AudioInv, PlaceInv, Radios
<1>4. ~told /\ ~i2s /\ ~by_lock /\ ~unmuted
  BY <1>1, <1>3 DEF AudioInv, EffectInv, RouteInEffect
<1> QED
  BY <1>1, <1>2, <1>3, <1>4 DEF AudioInv, SourceInv, Radios

LEMMA PlaceSwitch ==
  ASSUME IInv, AudioInv, TornDown \/ SwitchEnds \/ RecoverEnds \/ OtaShown
  PROVE  PlaceInv' /\ SourceInv'
<1> USE DEF BesideSwitch, routeVars, chipVars, outVars
<1>1. CASE TornDown
  <2>1. mainPc # "wlan"
    BY <1>1 DEF TornDown, IInv, HostInv, TypeOK
  <2> QED
    BY <1>1, <2>1, SilentWhenTornDown DEF TornDown, PlaceInv, SourceInv
<1>2. CASE SwitchEnds \/ RecoverEnds \/ OtaShown
  <2>1. /\ switchPc = "setup" /\ switchPc' = "no" /\ routing = "no"
        /\ activeMode \in Screen /\ switchStep \in 1 .. 4
        /\ switchStep > Len(Setup(activeMode))
        /\ UNCHANGED <<current_route, routing, told, i2s, source, wlan, activeMode>>
        /\ mainPc' # "wlan"
    BY <1>2 DEF SwitchEnds, RecoverEnds, OtaShown, SetUp, IInv, HostInv, TypeOK
  <2>2. ASSUME activeMode = "NET_RADIO"
        PROVE  switchStep >= 2
    <3>1. Setup(activeMode) = <<"CPU">>
      BY <2>2 DEF Setup
    <3> QED
      BY <2>1, <3>1
  <2>3. ASSUME activeMode = "BLUETOOTH"
        PROVE  switchStep >= 4
    <3>1. Setup(activeMode) = <<"CPU", "wlan_off", "a2dp">>
      BY <2>3 DEF Setup
    <3> QED
      BY <2>1, <3>1
  <2> QED
    BY <2>1, <2>2, <2>3 DEF AudioInv, PlaceInv, SourceInv, Radios
<1> QED
  BY <1>1, <1>2

LEMMA PlaceRest ==
  ASSUME IInv, AudioInv,
         \/ BootWlan \/ Recover \/ BootSpdif \/ BootMode \/ Restart
         \/ LoopBegin \/ LoopPass \/ OtaBegins \/ OtaTakes \/ UNCHANGED vars
  PROVE  PlaceInv' /\ SourceInv'
<1> USE DEF BesideSwitch, routeVars, chipVars, outVars, modeVars, switchVars,
            AudioInv, PlaceInv, SourceInv
<1>1. CASE BootWlan
  <2>1. /\ activeMode = "BOOT" /\ mainPc' # "wlan"
        /\ UNCHANGED <<current_route, routing, told, i2s, source, activeMode, switchPc,
                       switchStep>>
    BY <1>1 DEF BootWlan
  <2> QED
    BY <2>1 DEF Radios
<1>2. CASE BootSpdif \/ BootMode
  <2>1. /\ mainPc' # "wlan"
        /\ UNCHANGED <<current_route, routing, told, i2s, source, wlan, activeMode, switchPc,
                       switchStep>>
    BY <1>2 DEF BootSpdif, BootMode
  <2> QED
    BY <2>1 DEF Radios
<1>3. CASE Restart
  BY <1>3 DEF Restart, Radios
<1>4. CASE LoopBegin \/ OtaBegins \/ UNCHANGED vars
  BY <1>4 DEF LoopBegin, OtaBegins, vars
<1>5. CASE Recover \/ OtaTakes
  <2>1. /\ switchPc = "no" /\ switchPc' = "teardown" /\ switchStep' = 1 /\ mainPc' = mainPc
        /\ UNCHANGED <<current_route, routing, told, i2s, source, wlan, activeMode>>
        /\ routing = "no"
    BY <1>5 DEF Recover, OtaTakes, SetExternal, IInv, HostInv
  <2> QED
    BY <2>1
<1>6. CASE LoopPass
  <2>1. /\ switchPc = "no" /\ routing = "no" /\ switchStep = 1 /\ switchStep' = 1
        /\ switchPc' \in {"no", "teardown"} /\ mainPc' = mainPc
        /\ UNCHANGED <<current_route, routing, told, i2s, wlan, activeMode>>
        /\ source' \in IF activeMode = "NET_RADIO" THEN {"none", "stream"} ELSE {source}
    BY <1>6 DEF LoopPass, IInv, HostInv
  <2> QED
    BY <2>1 DEF Radios
<1> QED
  BY <1>1, <1>2, <1>3, <1>4, <1>5, <1>6

LEMMA AudioStep ==
  ASSUME IInv, AudioInv, [Next]_vars
  PROVE  AudioInv'
<1>1. EffectInv'
  BY EffectStep DEF AudioInv
<1>2. CASE SetRelay \/ SetMutingHax \/ SetMute \/ SetChip \/ SetI2S
  BY <1>1, <1>2, RouteMoves, PlaceRouteStep DEF AudioInv
<1>3. CASE RouteDone \/ ActivateRoute \/ SetSource \/ SetWlan
  BY <1>1, <1>3, PlaceRouteDone, PlaceActivateRoute, PlaceSourceWlan DEF AudioInv
<1>4. CASE TornDown \/ SwitchEnds \/ RecoverEnds \/ OtaShown
  BY <1>1, <1>4, PlaceSwitch DEF AudioInv
<1>5. CASE \/ BootWlan \/ Recover \/ BootSpdif \/ BootMode \/ Restart
           \/ LoopBegin \/ LoopPass \/ OtaBegins \/ OtaTakes \/ UNCHANGED vars
  BY <1>1, <1>5, PlaceRest DEF AudioInv
<1> QED
  BY <1>2, <1>3, <1>4, <1>5 DEF Next, DeviceStep

LEMMA AudioInvariance == Spec => []AudioInv
<1>1. Init => AudioInv
  BY DEF Init, AudioInv, EffectInv, RouteInEffect, PlaceInv, SourceInv, Radios
<1>2. IInv /\ AudioInv /\ [Next]_vars => AudioInv'
  BY AudioStep
<1> QED
  BY <1>1, <1>2, Invariance, PTL DEF Spec

-----------------------------------------------------------------------------
(* What is heard *)

\* Nothing, or the mode that is on.
LEMMA HeardIsMode ==
  ASSUME IInv, AudioInv
  PROVE  Heard \in {"silence", VoiceOf(activeMode)}
<1>1. CASE i2s /\ aif /\ Trusted
  BY <1>1 DEF Trusted, IInv, BusInv
<1>2. CASE i2s /\ ~aif
  BY <1>2 DEF Heard, VoiceOf, AudioInv, PlaceInv, Radios
<1>3. CASE ~i2s /\ aif /\ Trusted
  BY <1>3 DEF Heard, VoiceOf, Trusted, AudioInv, PlaceInv
<1>4. CASE ~Trusted \/ ~(i2s \/ aif)
  BY <1>4 DEF Heard
<1> QED
  BY <1>1, <1>2, <1>3, <1>4

\* The mode changes when the old one has been torn down, and with a restart.
LEMMA ModeMoves ==
  ASSUME [Next]_vars
  PROVE  TornDown \/ Restart \/ UNCHANGED activeMode
<1> USE DEF modeVars
<1>1. CASE SetRelay \/ SetMutingHax \/ SetMute \/ SetChip \/ SetI2S \/ RouteDone
  BY <1>1 DEF SetRelay, SetMutingHax, SetMute, SetChip, SetI2S, RouteStep, RouteDone
<1>2. CASE ActivateRoute \/ SetSource \/ SetWlan
  BY <1>2 DEF ActivateRoute, SetSource, SetWlan, ScriptStep
<1>3. CASE SwitchEnds \/ RecoverEnds \/ OtaShown
  BY <1>3 DEF SwitchEnds, RecoverEnds, OtaShown, SetUp
<1>4. CASE BootWlan \/ Recover \/ BootSpdif \/ BootMode
  BY <1>4 DEF BootWlan, Recover, BootSpdif, BootMode, SetExternal
<1>5. CASE LoopBegin \/ LoopPass \/ OtaBegins \/ OtaTakes
  BY <1>5 DEF LoopBegin, LoopPass, OtaBegins, OtaTakes, SetExternal
<1>6. CASE UNCHANGED vars
  BY <1>6 DEF vars
<1> QED
  BY <1>1, <1>2, <1>3, <1>4, <1>5, <1>6 DEF Next, DeviceStep

\* Every step of the host is one of the abstract bus, or nothing to it.
LEMMA BusStep ==
  ASSUME IInv, AudioInv, [Next]_vars
  PROVE  [Bus!Next]_<<activeMode, Heard>>
<1> USE DEF Bus!Next, Bus!Speak, Bus!Hush, Bus!Switch, Bus!Restart
<1>1. IInv' /\ AudioInv'
  BY NextIInv, AudioStep
<1>2. Heard' \in {"silence", VoiceOf(activeMode)'}
  <2>1. (Heard \in {"silence", VoiceOf(activeMode)})'
    BY <1>1, HeardIsMode, PTL
  <2> QED
    BY <2>1
<1>3. CASE TornDown
  <2>1. Heard = "silence"
    BY <1>3, SilentWhenTornDown DEF Heard
  <2>2. Heard' = "silence"
    BY <1>3, SilentWhenTornDown DEF Heard, TornDown, BesideSwitch, outVars
  <2>3. activeMode' \in Screen
    BY <1>1 DEF IInv, TypeOK
  <2> QED
    BY <2>1, <2>2, <2>3
<1>4. CASE Restart
  <2>1. Heard' = "silence"
    BY <1>4 DEF Heard, Restart
  <2> QED
    BY <1>4, <2>1 DEF Restart
<1>5. CASE UNCHANGED activeMode
  <2>1. Heard' \in {"silence", VoiceOf(activeMode)}
    BY <1>2, <1>5 DEF VoiceOf
  <2>2. Heard \in {"silence", VoiceOf(activeMode)}
    BY HeardIsMode
  <2> QED
    BY <1>5, <2>1, <2>2
<1> QED
  BY <1>3, <1>4, <1>5, ModeMoves

-----------------------------------------------------------------------------
(* Theorems *)

\* TypeOK of the mode host: every variable keeps its type.
THEOREM HostTypes == Spec => []TypeOK
<1>1. IInv => TypeOK
  BY DEF IInv
<1> QED
  BY <1>1, Invariance, PTL

\* OneBusDriver: no sequence of modes, restarts and lost writes lets activate_route()
\* put the transceiver and the processor on the bus together.
THEOREM OneDriver == Spec => []OneBusDriver
<1>1. IInv => OneBusDriver
  BY DEF IInv, BusInv, OneBusDriver, Trusted
<1> QED
  BY <1>1, Invariance, PTL

\* WakesUp: the NVRAM never holds a mode in which the device would seem dead.
THEOREM AlwaysWakesUp == Spec => []WakesUp
<1>1. IInv => WakesUp
  BY DEF IInv, HostInv, TypeOK, Mode, WakesUp
<1> QED
  BY <1>1, Invariance, PTL

\* UpdateKeepsScreen: no step of any task, device or user takes the screen of an
\* update away when setup() is through and nothing else has been asked for.
THEOREM UpdateIsKept == Spec => UpdateKeepsScreen
<1>1. Init => ScreenInv
  BY DEF Init, ScreenInv
<1>2. Spec => []ScreenInv
  BY <1>1, ScreenStep, Invariance, PTL DEF Spec
<1>3. Spec => [][KeepsScreen]_vars
  BY <1>2, KeepsScreenStep, Invariance, PTL DEF Spec
<1> QED
  BY <1>3 DEF UpdateKeepsScreen, KeepsScreen

\* RouteInEffect: whatever routes came before, and however often the processor restarted
\* in the middle of one, a route that activate_route() has finished is in effect.
THEOREM RouteTakesEffect == Spec => []RouteInEffect
<1>1. AudioInv => RouteInEffect
  BY DEF AudioInv, EffectInv
<1> QED
  BY <1>1, AudioInvariance, PTL

\* SourceHasBus: setup() and teardown() of the modes start their sources after, and stop
\* them before, the I2S stream they write to, and Bluetooth never plays with the network on.
THEOREM SourcesHaveBus == Spec => []SourceHasBus
<1>1. AudioInv => SourceHasBus
  BY DEF AudioInv, EffectInv, RouteInEffect, SourceInv, SourceHasBus
<1> QED
  BY <1>1, AudioInvariance, PTL

\* BusSpec: with all its tasks, scripts and restarts the mode host implements the bus
\* that the modes rely on, AudioBus, where only the mode that is on is heard and one
\* mode follows another in silence.
THEOREM HostImplementsBus == Spec => BusSpec
<1>1. Init => Bus!Init
  BY DEF Init, Bus!Init, Heard
<1>2. IInv /\ AudioInv /\ [Next]_vars => [Bus!Next]_<<activeMode, Heard>>
  BY BusStep
<1> QED
  BY <1>1, <1>2, Invariance, AudioInvariance, PTL DEF Spec, BusSpec, Bus!Spec

=============================================================================
