------------------------------- MODULE IdeBus -------------------------------
(***************************************************************************)
(* The IDE bus as two port expanders on the I2C bus make it (ide.cpp), the *)
(* keypad that shares one of them (keypad.cpp), and the lock of the I2C    *)
(* bus (thread_safe_i2c.cpp).  The task that holds the ATAPI device's      *)
(* semaphore reads and writes registers of the drive, a list of            *)
(* transactions each; the keypad task reads its port.  Every transaction   *)
(* may fail; the code logs that and goes on.                               *)
(***************************************************************************)
EXTENDS Naturals, Sequences

CONSTANTS
  Registers,  \* of the drive
  Bytes       \* that are written to them

ASSUME IdeAssumption == "DriveSelect" \in Registers

VARIABLES
  i2c,        \* who holds the lock of the I2C bus
  trans,      \* the transactions that the operation on the drive still makes
  sel_device, \* last_sel_device = active_device
  flags,      \* port B of the expander at 0x20: a register of the drive, the line that is low
  dir, port,  \* the ports of the one at 0x22, the data bus: direction, output
  pointer,    \* the register of the expander at 0x20 that is selected
  keyTask,    \* "idle", "setup", "select" or "request"
  did_setup,
  last_value, \* what the last value of the keypad was read from
  fault       \* whether a transaction failed "now", in this operation, or in the one "before"

driveVars == <<trans, sel_device, flags, dir, port>>
keypadVars == <<keyTask, did_setup, last_value>>
busVars == <<i2c, pointer, fault, driveVars, keypadVars>>

-----------------------------------------------------------------------------
(* Operations as lists of transactions *)

Dir(p, d) == [to |-> "dir", p |-> p, v |-> d]
Put(p, byte) == [to |-> "port", p |-> p, v |-> byte]
Flags(register, low) == [to |-> "flags", p |-> register, v |-> low]
In(p) == [to |-> "in", p |-> p, v |-> "none"]
OutputB == [to |-> "flags_direction", p |-> "B", v |-> "out"]

Released == <<Dir("A", "in"), Dir("B", "in")>>

\* Mutant: relies on the last write to have left the ports as inputs.
read_at_once(register) == <<Flags(register, "dior"), In("A"), In("B"), Flags(register, "none")>>

read(register) ==
  Released \o <<Flags(register, "dior"), In("A"), In("B"), Flags(register, "none")>>

write_internal(register, low, high) ==
  <<Flags(register, "none"), Dir("A", "out"), Dir("B", "out"), Put("A", low), Put("B", high),
    Flags(register, "diow"), Flags(register, "none")>> \o Released

ide_reset == <<OutputB, Flags("none", "rst"), Flags("none", "none")>>

ensure_sel_device == IF sel_device THEN <<>> ELSE write_internal("DriveSelect", "master", "FF")

\* The next operation.
Operate(list) ==
  /\ trans = <<>>
  /\ trans' = list
  /\ UNCHANGED <<i2c, pointer, flags, dir, port, keypadVars>>

Access(list) ==
  /\ Operate(ensure_sel_device \o list)
  /\ sel_device' = TRUE
  /\ fault' = IF fault = "now" THEN "before" ELSE "none"

BusRead == \E r \in Registers : Access(read(r))
BusWrite == \E r \in Registers, low, high \in Bytes : Access(write_internal(r, low, high))
BusReset == Operate(ide_reset) /\ UNCHANGED <<sel_device, fault>>

-----------------------------------------------------------------------------
(* Transactions *)

\* Mutant: the drive's transactions do without the lock.
MayLockKeypad(who) == who = "drive" \/ i2c = "free"

MayLock(who) == i2c = "free"

Done == trans' = Tail(trans)

\* Not more than one transaction fails in any two accesses one after the other.
Fails == fault = "none" /\ fault' = "now"

\* transact_out(): with the lock from its first byte to its last
TransactOut ==
  /\ trans # <<>> /\ Head(trans).to # "in"
  /\ MayLock("drive")
  /\ Done
  /\ LET t == Head(trans)
     IN  \/ Fails /\ UNCHANGED <<flags, dir, port, pointer>>
         \/ /\ UNCHANGED fault
            /\ flags' = IF t.to = "flags" THEN [register |-> t.p, low |-> t.v] ELSE flags
            /\ dir' = IF t.to = "dir" THEN [dir EXCEPT ![t.p] = t.v] ELSE dir
            /\ port' = IF t.to = "port" THEN [port EXCEPT ![t.p] = t.v] ELSE port
            /\ pointer' = CASE t.to = "flags" -> "OUT_B" [] t = OutputB -> "CFG_B" [] OTHER -> pointer
  /\ UNCHANGED <<i2c, sel_device, keypadVars>>

\* transact_in(): the lock is held over the selection of the register and the request;
\* when the selection fails there is no request.
TransactIn ==
  /\ trans # <<>> /\ Head(trans).to = "in"
  /\ \/ MayLock("drive") /\ i2c' = "drive" /\ UNCHANGED <<trans, fault>>
     \/ MayLock("drive") /\ Done /\ Fails /\ UNCHANGED i2c
     \/ i2c = "drive" /\ Done /\ i2c' = "free" /\ (Fails \/ UNCHANGED fault)
  /\ UNCHANGED <<pointer, sel_device, flags, dir, port, keypadVars>>

-----------------------------------------------------------------------------
(* Keypad::update() *)

KeypadLock ==
  /\ keyTask = "idle"
  /\ MayLock("keypad")
  /\ i2c' = "keypad"
  /\ keyTask' = IF did_setup THEN "select" ELSE "setup"
  /\ UNCHANGED <<pointer, fault, driveVars, did_setup, last_value>>

\* A transaction of the keypad: it leads on, or gives up when it fails.
KeypadStep(from, to) ==
  /\ keyTask = from
  /\ keyTask' \in {to, "idle"}
  /\ i2c' = IF keyTask' = "idle" THEN "free" ELSE i2c
  /\ UNCHANGED <<fault, driveVars>>

KeypadSetup ==
  /\ KeypadStep("setup", "select")
  /\ did_setup' = (keyTask' = "select")
  /\ pointer' = IF did_setup' THEN "CFG_A" ELSE pointer
  /\ UNCHANGED last_value

KeypadSelect ==
  /\ KeypadStep("select", "request")
  /\ pointer' = IF keyTask' = "request" THEN "IN_A" ELSE pointer
  /\ UNCHANGED <<did_setup, last_value>>

KeypadRequest ==
  /\ KeypadStep("request", "idle")
  /\ last_value' \in {last_value, pointer}
  /\ UNCHANGED <<pointer, did_setup>>

-----------------------------------------------------------------------------
BusInit ==
  /\ i2c = "free" /\ trans = <<>> /\ sel_device = FALSE
  /\ flags = [register |-> "none", low |-> "none"]
  /\ dir = [A |-> "in", B |-> "in"] /\ port = [A |-> "FF", B |-> "FF"]
  /\ pointer = "OUT_B"
  /\ keyTask = "idle" /\ did_setup = FALSE /\ last_value = "nothing"
  /\ fault = "none"

BusNext ==
  \/ BusRead \/ BusWrite \/ BusReset \/ TransactOut \/ TransactIn
  \/ KeypadLock \/ KeypadSetup \/ KeypadSelect \/ KeypadRequest

BusSpec == BusInit /\ [][BusNext]_busVars

-----------------------------------------------------------------------------
(* Properties *)

\* While the drive is told to put a register on the bus the ports of the expander are
\* inputs, although one transaction of any two accesses may have been lost: two
\* drivers on the bus would fight.
OneFaultNoFight == flags.low = "dior" => dir.A = "in" /\ dir.B = "in"

\* The keys are read from the keypad's port, although the drive's flags are on the same
\* expander and its register pointer is set by whoever used it last.
KeysFromKeyPort == last_value \in {"nothing", "IN_A"}

=============================================================================
