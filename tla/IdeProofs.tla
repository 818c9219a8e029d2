----------------------------- MODULE IdeProofs -----------------------------
(***************************************************************************)
(* What is proved of the drive on its bus.  First of the bus and the       *)
(* keypad that share an expander, for any registers and bytes; and what a  *)
(* list of calls leads to, for any rules.  Then of the packets to the      *)
(* drive, for any disc, any tasks and methods that they call, any quirks   *)
(* and slots, and whatever the drive answers.                              *)
(*                                                                         *)
(* Every task is at a place (Places), and every call leads from one place  *)
(* to the next (Goes).  The invariant says of each task that what it       *)
(* still has to do leads from where it is to where it has no semaphore,    *)
(* and what is certain of drive and table at that place (Holds).           *)
(***************************************************************************)
EXTENDS AtapiPacket, IdeBus, SequenceTheorems, TLAPS

-----------------------------------------------------------------------------
(* Lists of steps that lead from one stage to another *)

\* The calls s lead from the stage a to the stage b, by the rules R between the stages S.
Path(s, a, b, S, R) ==
  \E h \in [0 .. Len(s) -> S] :
    /\ h[0] = a /\ h[Len(s)] = b
    /\ \A i \in 1 .. Len(s) : <<h[i - 1], s[i], h[i]>> \in R

\* No call leads nowhere; one call as the rule says.
LEMMA PathOfNone ==
  ASSUME NEW S, NEW R, NEW a \in S
  PROVE  Path(<<>>, a, a, S, R)
  <1> DEFINE h == [i \in 0 .. 0 |-> a]
  <1>1. h \in [0 .. Len(<<>>) -> S] /\ h[0] = a /\ h[Len(<<>>)] = a
    OBVIOUS
  <1>2. 1 .. Len(<<>>) = {}
    OBVIOUS
  <1> HIDE DEF h
  <1> QED BY <1>1, <1>2 DEF Path

LEMMA PathOfOne ==
  ASSUME NEW S, NEW R, NEW a \in S, NEW b \in S, NEW c, <<a, c, b>> \in R
  PROVE  Path(<<c>>, a, b, S, R)
  <1> DEFINE h == [i \in 0 .. 1 |-> IF i = 0 THEN a ELSE b]
  <1>1. Len(<<c>>) = 1 /\ <<c>>[1] = c
    OBVIOUS
  <1>2. h \in [0 .. 1 -> S] /\ h[0] = a /\ h[1] = b
    OBVIOUS
  <1> HIDE DEF h
  <1> QED BY <1>1, <1>2 DEF Path

\* Calls after calls lead as far as both.
LEMMA PathThen ==
  ASSUME NEW S, NEW R, NEW C, NEW s \in Seq(C), NEW u \in Seq(C), NEW a, NEW b, NEW c,
         Path(s, a, b, S, R), Path(u, b, c, S, R)
  PROVE  Path(s \o u, a, c, S, R)
  <1>1. PICK f \in [0 .. Len(s) -> S] :
          /\ f[0] = a /\ f[Len(s)] = b
          /\ \A i \in 1 .. Len(s) : <<f[i - 1], s[i], f[i]>> \in R
    BY DEF Path
  <1>2. PICK g \in [0 .. Len(u) -> S] :
          /\ g[0] = b /\ g[Len(u)] = c
          /\ \A i \in 1 .. Len(u) : <<g[i - 1], u[i], g[i]>> \in R
    BY DEF Path
  <1> DEFINE m == Len(s)
             n == Len(u)
             h == [i \in 0 .. m + n |-> IF i <= m THEN f[i] ELSE g[i - m]]
  <1>3. m \in Nat /\ n \in Nat /\ Len(s \o u) = m + n
    OBVIOUS
  <1>4. /\ \A i \in 1 .. m : (s \o u)[i] = s[i]
        /\ \A i \in m + 1 .. m + n : (s \o u)[i] = u[i - m]
    OBVIOUS
  <1>5. \A i \in 1 .. m : <<f[i - 1], s[i], f[i]>> \in R
    BY <1>1
  <1>6. \A i \in 1 .. n : <<g[i - 1], u[i], g[i]>> \in R
    BY <1>2
  <1>7. f \in [0 .. m -> S] /\ g \in [0 .. n -> S] /\ f[0] = a /\ f[m] = b /\ g[0] = b /\ g[n] = c
    BY <1>1, <1>2
  <1> HIDE DEF m, n
  <1>8. h \in [0 .. m + n -> S]
    BY <1>3, <1>7
  <1>9. h[0] = a /\ h[m + n] = c
    BY <1>3, <1>7
  <1>10. ASSUME NEW i \in 1 .. m + n
         PROVE  <<h[i - 1], (s \o u)[i], h[i]>> \in R
    <2>1. CASE i <= m
      <3>1. h[i - 1] = f[i - 1] /\ h[i] = f[i] /\ i \in 1 .. m
        BY <1>3, <2>1
      <3> QED BY <1>4, <1>5, <3>1
    <2>2. CASE ~(i <= m)
      <3>1. i - m \in 1 .. n /\ i \in m + 1 .. m + n /\ h[i] = g[i - m]
        BY <1>3, <2>2
      <3>2. h[i - 1] = g[(i - m) - 1]
        <4>1. CASE i - 1 <= m
          BY <1>3, <1>7, <2>2, <4>1
        <4>2. CASE ~(i - 1 <= m)
          BY <1>3, <2>2, <4>2
        <4> QED BY <4>1, <4>2
      <3> QED BY <1>4, <1>6, <3>1, <3>2
    <2> QED BY <2>1, <2>2
  <1> HIDE DEF h
  <1> QED BY <1>3, <1>8, <1>9, <1>10 DEF Path

\* After its first call the rest leads on from where that one led.
LEMMA PathStep ==
  ASSUME NEW S, NEW R, NEW C, NEW s \in Seq(C), s # <<>>, NEW a, NEW b, Path(s, a, b, S, R)
  PROVE  /\ Tail(s) \in Seq(C) /\ a \in S
         /\ \E c \in S : <<a, s[1], c>> \in R /\ Path(Tail(s), c, b, S, R)
  <1>1. PICK h \in [0 .. Len(s) -> S] :
          /\ h[0] = a /\ h[Len(s)] = b
          /\ \A i \in 1 .. Len(s) : <<h[i - 1], s[i], h[i]>> \in R
    BY DEF Path
  <1> DEFINE n == Len(s) - 1
             g == [i \in 0 .. n |-> h[i + 1]]
  <1>2. n \in Nat /\ Len(s) = n + 1 /\ Len(Tail(s)) = n /\ Tail(s) \in Seq(C)
    OBVIOUS
  <1>3. \A i \in 1 .. n : Tail(s)[i] = s[i + 1]
    OBVIOUS
  <1> HIDE DEF n
  <1>4. h \in [0 .. n + 1 -> S] /\ h[n + 1] = b /\ \A i \in 1 .. n + 1 : <<h[i - 1], s[i], h[i]>> \in R
    BY <1>1, <1>2
  <1>5. g \in [0 .. n -> S] /\ g[0] = h[1] /\ g[n] = b
    BY <1>2, <1>4
  <1>6. ASSUME NEW i \in 1 .. n
        PROVE  <<g[i - 1], Tail(s)[i], g[i]>> \in R
    <2>1. g[i - 1] = h[i] /\ g[i] = h[i + 1] /\ i + 1 \in 1 .. n + 1 /\ (i + 1) - 1 = i
      BY <1>2
    <2>2. <<h[(i + 1) - 1], s[i + 1], h[i + 1]>> \in R
      BY <1>4, <2>1
    <2> QED BY <1>3, <2>1, <2>2
  <1> HIDE DEF g
  <1>7. Path(Tail(s), h[1], b, S, R)
    BY <1>2, <1>5, <1>6 DEF Path
  <1>8. h[0] \in S /\ h[1] \in S /\ <<h[0], s[1], h[1]>> \in R
    <2>1. 1 \in 1 .. n + 1 /\ 1 - 1 = 0 /\ 0 \in 0 .. n + 1 /\ 1 \in 0 .. n + 1
      BY <1>2
    <2> QED BY <1>4, <2>1
  <1> QED BY <1>1, <1>2, <1>7, <1>8

LEMMA PathOver ==
  ASSUME NEW S, NEW R, NEW a, NEW b, Path(<<>>, a, b, S, R)
  PROVE  a = b /\ a \in S
  BY DEF Path

-----------------------------------------------------------------------------
(* The keypad *)

\* The keypad holds the lock from its first transaction to its last; so what it selected
\* is still selected when it requests, and it reads its own port.
KeypadInv ==
  /\ keyTask \in {"idle", "setup", "select", "request"}
  /\ keyTask # "idle" => i2c = "keypad"
  /\ keyTask = "request" => pointer = "IN_A"
  /\ KeysFromKeyPort

LEMMA BusInit_Keypad ==
  ASSUME BusInit
  PROVE  KeypadInv
  BY DEF BusInit, KeypadInv, KeysFromKeyPort

\* The drive's transactions are made without the keypad's.
LEMMA DriveStep_Keypad ==
  ASSUME KeypadInv, i2c = "free" \/ i2c = "drive", UNCHANGED keypadVars
  PROVE  KeypadInv'
  <1>1. keyTask = "idle"
    BY DEF KeypadInv
  <1>2. UNCHANGED <<keyTask, last_value>>
    BY DEF keypadVars
  <1> QED BY <1>1, <1>2 DEF KeypadInv, KeysFromKeyPort

LEMMA BusNext_Keypad ==
  ASSUME KeypadInv, [BusNext]_busVars
  PROVE  KeypadInv'
  <1>1. CASE BusRead \/ BusWrite \/ BusReset
    <2>1. UNCHANGED <<i2c, pointer, keyTask, last_value>>
      BY <1>1 DEF BusRead, BusWrite, BusReset, Access, Operate, keypadVars
    <2> QED BY <2>1 DEF KeypadInv, KeysFromKeyPort
  <1>2. CASE TransactOut
    BY <1>2, DriveStep_Keypad DEF TransactOut, MayLock
  <1>3. CASE TransactIn
    BY <1>3, DriveStep_Keypad DEF TransactIn, MayLock
  <1>4. CASE KeypadLock
    BY <1>4 DEF KeypadLock, KeypadInv, KeysFromKeyPort
  <1>5. CASE KeypadSetup
    BY <1>5 DEF KeypadSetup, KeypadStep, KeypadInv, KeysFromKeyPort
  <1>6. CASE KeypadSelect
    BY <1>6 DEF KeypadSelect, KeypadStep, KeypadInv, KeysFromKeyPort
  <1>7. CASE KeypadRequest
    BY <1>7 DEF KeypadRequest, KeypadStep, KeypadInv, KeysFromKeyPort
  <1>8. CASE UNCHANGED busVars
    BY <1>8 DEF busVars, keypadVars, KeypadInv, KeysFromKeyPort
  <1> QED
    BY <1>1, <1>2, <1>3, <1>4, <1>5, <1>6, <1>7, <1>8 DEF BusNext

\* Keypad::update() and the drive's register accesses may follow each other in any order
\* and any transaction may fail: the value of the keys is never that of another register.
THEOREM KeysAreKeys == BusSpec => []KeysFromKeyPort
  <1>1. BusInit => KeypadInv
    BY BusInit_Keypad
  <1>2. KeypadInv /\ [BusNext]_busVars => KeypadInv'
    BY BusNext_Keypad
  <1>3. KeypadInv => KeysFromKeyPort
    BY DEF KeypadInv
  <1> QED BY <1>1, <1>2, <1>3, PTL DEF BusSpec

-----------------------------------------------------------------------------
(* A lost transaction *)

-----------------------------------------------------------------------------
Transactions ==
  [to : {"dir", "port", "flags", "in", "flags_direction"},
   p : {"A", "B", "none"} \cup Registers,
   v : {"in", "out", "none", "dior", "diow", "rst", "master", "FF"} \cup Bytes]

\* How far the transactions of an access have come: one port or both are inputs for a
\* read, the drive is silent for a write, the first port is turned back.
Stages == {"start", "half", "reading", "writing", "turning", "over"}

Leads(x, t, y) ==
  \/ x \in {"start", "over"} /\ t = Dir("A", "in") /\ y = "half"
  \/ x = "half" /\ t = Dir("B", "in") /\ y = "reading"
  \/ x = "reading" /\ (t.to = "in" \/ (t.to = "flags" /\ t.v = "dior")) /\ y = "reading"
  \/ x = "reading" /\ t.to = "flags" /\ t.v = "none" /\ y = "over"
  \/ x \in {"start", "over"} /\ t.to = "flags" /\ t.v = "none" /\ y = "writing"
  \/ x = "writing" /\ (t.to = "port" \/ (t.to = "dir" /\ t.v = "out")) /\ y = "writing"
  \/ x = "writing" /\ t.to = "flags" /\ t.v \in {"diow", "none"} /\ y = "writing"
  \/ x = "writing" /\ t = Dir("A", "in") /\ y = "turning"
  \/ x = "turning" /\ t = Dir("B", "in") /\ y = "over"
  \/ x = "over" /\ (t.to = "flags_direction" \/ (t.to = "flags" /\ t.v \in {"rst", "none"})) /\ y = "over"

Rules == {m \in Stages \X Transactions \X Stages : Leads(m[1], m[2], m[3])}
Leading(list, x, y) == Path(list, x, y, Stages, Rules)

Inputs == dir.A = "in" /\ dir.B = "in"
Quiet == Inputs /\ flags.low # "dior"

\* What is certain at each stage. A fault in this access leaves anything that does not
\* fight; the next access cannot fail, and silences the drive or takes the ports back first.
AtStage(x) ==
  \/ x = "start" /\ OneFaultNoFight /\ (fault = "none" => Quiet)
  \/ x = "half" /\ OneFaultNoFight /\ (IF fault = "none" THEN Inputs ELSE dir.A = "in")
  \/ x = "reading" /\ Inputs
  \/ x = "writing" /\ flags.low # "dior"
  \/ x = "turning" /\ flags.low # "dior" /\ (fault # "now" => dir.A = "in")
  \/ x = "over" /\ OneFaultNoFight /\ (fault # "now" => Quiet)

FightTypeOK ==
  /\ trans \in Seq(Transactions)
  /\ fault \in {"none", "now", "before"}
  /\ DOMAIN dir = {"A", "B"}

FightInv ==
  /\ FightTypeOK
  /\ \E x \in Stages : Leading(trans, x, "over") /\ AtStage(x)

-----------------------------------------------------------------------------
(* Where the operations lead *)

LEMMA RuleOf ==
  ASSUME NEW x \in Stages, NEW t \in Transactions, NEW y \in Stages, Leads(x, t, y)
  PROVE  <<x, t, y>> \in Rules
  BY DEF Rules

LEMMA OneLeads ==
  ASSUME NEW x \in Stages, NEW t \in Transactions, NEW y \in Stages, Leads(x, t, y)
  PROVE  Leading(<<t>>, x, y) /\ <<t>> \in Seq(Transactions)
  <1>1. Leading(<<t>>, x, y)
    BY RuleOf, PathOfOne DEF Leading
  <1> QED BY <1>1

LEMMA BothLead ==
  ASSUME NEW s \in Seq(Transactions), NEW u \in Seq(Transactions), NEW x, NEW y, NEW z,
         Leading(s, x, y), Leading(u, y, z)
  PROVE  Leading(s \o u, x, z) /\ s \o u \in Seq(Transactions)
  BY PathThen DEF Leading

LEMMA OneMoreLeads ==
  ASSUME NEW s \in Seq(Transactions), NEW x, NEW y \in Stages, NEW t \in Transactions,
         NEW z \in Stages, Leading(s, x, y), Leads(y, t, z)
  PROVE  Leading(s \o <<t>>, x, z) /\ s \o <<t>> \in Seq(Transactions)
  <1>1. Leading(<<t>>, y, z) /\ <<t>> \in Seq(Transactions)
    BY OneLeads
  <1> HIDE DEF Leading
  <1> QED BY <1>1, BothLead

LEMMA ReadLeads ==
  ASSUME NEW r \in Registers, NEW x \in {"start", "over"}
  PROVE  Leading(read(r), x, "over") /\ read(r) \in Seq(Transactions)
  <1> DEFINE a == Dir("A", "in")
             b == Dir("B", "in")
             c == Flags(r, "dior")
             i == In("A")
             j == In("B")
             d == Flags(r, "none")
             s1 == <<a>>
             s2 == s1 \o <<b>>
             s3 == s2 \o <<c>>
             s4 == s3 \o <<i>>
             s5 == s4 \o <<j>>
             s6 == s5 \o <<d>>
  <1>1. read(r) = s6
    BY DEF read, Released
  <1>2. {a, b, c, i, j, d} \subseteq Transactions
    BY DEF Dir, Flags, In, Transactions
  <1>3. /\ Leads(x, a, "half") /\ Leads("half", b, "reading")
        /\ Leads("reading", c, "reading") /\ Leads("reading", i, "reading")
        /\ Leads("reading", j, "reading") /\ Leads("reading", d, "over")
    BY DEF Leads, Dir, Flags, In
  <1>4. {x, "half", "reading", "over"} \subseteq Stages
    BY DEF Stages
  <1> HIDE DEF a, b, c, i, j, d
  <1>5. Leading(s1, x, "half") /\ s1 \in Seq(Transactions)
    BY <1>2, <1>3, <1>4, OneLeads
  <1> HIDE DEF s1
  <1>6. Leading(s2, x, "reading") /\ s2 \in Seq(Transactions)
    BY <1>2, <1>3, <1>4, <1>5, OneMoreLeads
  <1> HIDE DEF s2
  <1>7. Leading(s3, x, "reading") /\ s3 \in Seq(Transactions)
    BY <1>2, <1>3, <1>4, <1>6, OneMoreLeads
  <1> HIDE DEF s3
  <1>8. Leading(s4, x, "reading") /\ s4 \in Seq(Transactions)
    BY <1>2, <1>3, <1>4, <1>7, OneMoreLeads
  <1> HIDE DEF s4
  <1>9. Leading(s5, x, "reading") /\ s5 \in Seq(Transactions)
    BY <1>2, <1>3, <1>4, <1>8, OneMoreLeads
  <1> HIDE DEF s5
  <1>10. Leading(s6, x, "over") /\ s6 \in Seq(Transactions)
    BY <1>2, <1>3, <1>4, <1>9, OneMoreLeads
  <1> HIDE DEF s6
  <1> QED BY <1>1, <1>10

LEMMA WriteLeads ==
  ASSUME NEW r \in Registers, NEW low \in Bytes \cup {"master"}, NEW high \in Bytes \cup {"FF"},
         NEW x \in {"start", "over"}
  PROVE  /\ Leading(write_internal(r, low, high), x, "over")
         /\ write_internal(r, low, high) \in Seq(Transactions)
  <1> DEFINE a == Flags(r, "none")
             b == Dir("A", "out")
             c == Dir("B", "out")
             d == Put("A", low)
             e == Put("B", high)
             f == Flags(r, "diow")
             g == Dir("A", "in")
             h == Dir("B", "in")
             s1 == <<a>>
             s2 == s1 \o <<b>>
             s3 == s2 \o <<c>>
             s4 == s3 \o <<d>>
             s5 == s4 \o <<e>>
             s6 == s5 \o <<f>>
             s7 == s6 \o <<a>>
             s8 == s7 \o <<g>>
             s9 == s8 \o <<h>>
  <1>1. write_internal(r, low, high) = s9
    BY DEF write_internal, Released
  <1>2. {a, b, c, d, e, f, g, h} \subseteq Transactions
    BY DEF Dir, Flags, Put, Transactions
  <1>3. /\ Leads(x, a, "writing") /\ Leads("writing", a, "writing")
        /\ Leads("writing", b, "writing") /\ Leads("writing", c, "writing")
        /\ Leads("writing", d, "writing") /\ Leads("writing", e, "writing")
        /\ Leads("writing", f, "writing")
        /\ Leads("writing", g, "turning") /\ Leads("turning", h, "over")
    BY DEF Leads, Dir, Flags, Put
  <1>4. {x, "writing", "turning", "over"} \subseteq Stages
    BY DEF Stages
  <1> HIDE DEF a, b, c, d, e, f, g, h
  <1>5. Leading(s1, x, "writing") /\ s1 \in Seq(Transactions)
    BY <1>2, <1>3, <1>4, OneLeads
  <1> HIDE DEF s1
  <1>6. Leading(s2, x, "writing") /\ s2 \in Seq(Transactions)
    BY <1>2, <1>3, <1>4, <1>5, OneMoreLeads
  <1> HIDE DEF s2
  <1>7. Leading(s3, x, "writing") /\ s3 \in Seq(Transactions)
    BY <1>2, <1>3, <1>4, <1>6, OneMoreLeads
  <1> HIDE DEF s3
  <1>8. Leading(s4, x, "writing") /\ s4 \in Seq(Transactions)
    BY <1>2, <1>3, <1>4, <1>7, OneMoreLeads
  <1> HIDE DEF s4
  <1>9. Leading(s5, x, "writing") /\ s5 \in Seq(Transactions)
    BY <1>2, <1>3, <1>4, <1>8, OneMoreLeads
  <1> HIDE DEF s5
  <1>10. Leading(s6, x, "writing") /\ s6 \in Seq(Transactions)
    BY <1>2, <1>3, <1>4, <1>9, OneMoreLeads
  <1> HIDE DEF s6
  <1>11. Leading(s7, x, "writing") /\ s7 \in Seq(Transactions)
    BY <1>2, <1>3, <1>4, <1>10, OneMoreLeads
  <1> HIDE DEF s7
  <1>12. Leading(s8, x, "turning") /\ s8 \in Seq(Transactions)
    BY <1>2, <1>3, <1>4, <1>11, OneMoreLeads
  <1> HIDE DEF s8
  <1>13. Leading(s9, x, "over") /\ s9 \in Seq(Transactions)
    BY <1>2, <1>3, <1>4, <1>12, OneMoreLeads
  <1> HIDE DEF s9
  <1> QED BY <1>1, <1>13

LEMMA ResetLeads ==
  Leading(ide_reset, "over", "over") /\ ide_reset \in Seq(Transactions)
  <1> DEFINE a == OutputB
             b == Flags("none", "rst")
             c == Flags("none", "none")
             s1 == <<a>>
             s2 == s1 \o <<b>>
             s3 == s2 \o <<c>>
  <1>1. ide_reset = s3
    BY DEF ide_reset
  <1>2. {a, b, c} \subseteq Transactions
    BY DEF OutputB, Flags, Transactions
  <1>3. Leads("over", a, "over") /\ Leads("over", b, "over") /\ Leads("over", c, "over")
    BY DEF Leads, OutputB, Flags
  <1>4. "over" \in Stages
    BY DEF Stages
  <1> HIDE DEF a, b, c
  <1>5. Leading(s1, "over", "over") /\ s1 \in Seq(Transactions)
    BY <1>2, <1>3, <1>4, OneLeads
  <1> HIDE DEF s1
  <1>6. Leading(s2, "over", "over") /\ s2 \in Seq(Transactions)
    BY <1>2, <1>3, <1>4, <1>5, OneMoreLeads
  <1> HIDE DEF s2
  <1>7. Leading(s3, "over", "over") /\ s3 \in Seq(Transactions)
    BY <1>2, <1>3, <1>4, <1>6, OneMoreLeads
  <1> HIDE DEF s3
  <1> QED BY <1>1, <1>7

-----------------------------------------------------------------------------
(* The steps *)

\* An access begins where the one before has ended.
LEMMA Access_Fight ==
  ASSUME FightInv, NEW list \in Seq(Transactions), Access(list),
         \A x \in {"start", "over"} : Leading(list, x, "over")
  PROVE  FightInv'
  <1>1. /\ trans = <<>> /\ trans' = ensure_sel_device \o list /\ UNCHANGED <<flags, dir>>
        /\ fault' = IF fault = "now" THEN "before" ELSE "none"
    BY DEF Access, Operate
  <1>2. AtStage("over") /\ FightTypeOK
    <2>1. PICK x \in Stages : Leading(trans, x, "over") /\ AtStage(x)
      BY DEF FightInv
    <2>2. x = "over"
      BY <1>1, <2>1, PathOver DEF Leading
    <2> QED BY <2>1, <2>2 DEF FightInv
  <1>3. AtStage("start")' /\ fault' \in {"none", "now", "before"}
    BY <1>1, <1>2 DEF AtStage, OneFaultNoFight, Quiet, Inputs, FightTypeOK
  <1>4. Leading(trans', "start", "over") /\ trans' \in Seq(Transactions)
    <2>1. CASE sel_device
      <3>1. trans' = list
        BY <1>1, <2>1 DEF ensure_sel_device
      <3> QED BY <3>1
    <2>2. CASE ~sel_device
      <3> DEFINE w == write_internal("DriveSelect", "master", "FF")
      <3>1. trans' = w \o list
        BY <1>1, <2>2 DEF ensure_sel_device
      <3>2. Leading(w, "start", "over") /\ w \in Seq(Transactions)
        BY IdeAssumption, WriteLeads
      <3> HIDE DEF w, Leading
      <3> QED BY <3>1, <3>2, BothLead
    <2> QED BY <2>1, <2>2
  <1>5. "start" \in Stages
    BY DEF Stages
  <1> HIDE DEF Leading
  <1>6. FightTypeOK'
    BY <1>1, <1>2, <1>3, <1>4 DEF FightTypeOK
  <1>7. Leading(trans, "start", "over")'
    BY <1>4 DEF Leading
  <1> QED BY <1>3, <1>5, <1>6, <1>7 DEF FightInv

\* A transaction that is done, or is lost, or reads a port.
LEMMA Transaction_Stage ==
  ASSUME FightTypeOK, NEW t \in Transactions, NEW x \in Stages, NEW y \in Stages,
         Leads(x, t, y), AtStage(x),
         \/ Fails /\ UNCHANGED <<flags, dir>>
         \/ /\ UNCHANGED fault
            /\ flags' = IF t.to = "flags" THEN [register |-> t.p, low |-> t.v] ELSE flags
            /\ dir' = IF t.to = "dir" THEN [dir EXCEPT ![t.p] = t.v] ELSE dir
  PROVE  AtStage(y)'
  <1>1. CASE Fails /\ UNCHANGED <<flags, dir>>
    BY <1>1 DEF Fails, Leads, AtStage, OneFaultNoFight, Quiet, Inputs
  <1>2. CASE /\ UNCHANGED fault
             /\ flags' = IF t.to = "flags" THEN [register |-> t.p, low |-> t.v] ELSE flags
             /\ dir' = IF t.to = "dir" THEN [dir EXCEPT ![t.p] = t.v] ELSE dir
    <2>1. CASE t.to = "dir"
      BY <1>2, <2>1 DEF FightTypeOK, Leads, AtStage, OneFaultNoFight, Quiet, Inputs, Dir
    <2>2. CASE t.to = "flags"
      BY <1>2, <2>2 DEF FightTypeOK, Leads, AtStage, OneFaultNoFight, Quiet, Inputs, Dir
    <2>3. CASE t.to \notin {"dir", "flags"}
      BY <1>2, <2>3 DEF FightTypeOK, Leads, AtStage, OneFaultNoFight, Quiet, Inputs, Dir
    <2> QED BY <2>1, <2>2, <2>3
  <1> QED BY <1>1, <1>2

LEMMA Transaction_Fight ==
  ASSUME FightInv, trans # <<>>, Done,
         \/ Fails /\ UNCHANGED <<flags, dir>>
         \/ /\ UNCHANGED fault
            /\ flags' = IF Head(trans).to = "flags"
                        THEN [register |-> Head(trans).p, low |-> Head(trans).v] ELSE flags
            /\ dir' = IF Head(trans).to = "dir"
                      THEN [dir EXCEPT ![Head(trans).p] = Head(trans).v] ELSE dir
  PROVE  FightInv'
  <1>1. PICK x \in Stages : Leading(trans, x, "over") /\ AtStage(x)
    BY DEF FightInv
  <1>2. trans \in Seq(Transactions) /\ FightTypeOK
    BY DEF FightInv, FightTypeOK
  <1> DEFINE t == Head(trans)
  <1>3. t = trans[1] /\ t \in Transactions
    BY <1>2
  <1>4. PICK y \in Stages : <<x, trans[1], y>> \in Rules /\ Path(Tail(trans), y, "over", Stages, Rules)
    BY <1>1, <1>2, PathStep DEF Leading
  <1>5. Leads(x, t, y)
    BY <1>3, <1>4 DEF Rules
  <1>6. Leading(trans, y, "over")'
    BY <1>4 DEF Done, Leading
  <1>7. FightTypeOK'
    <2>1. trans' \in Seq(Transactions)
      BY <1>2 DEF Done
    <2>2. fault' \in {"none", "now", "before"} /\ DOMAIN dir' = {"A", "B"}
      BY <1>2 DEF Fails, FightTypeOK
    <2> QED BY <2>1, <2>2 DEF FightTypeOK
  <1>8. \/ Fails /\ UNCHANGED <<flags, dir>>
        \/ /\ UNCHANGED fault
           /\ flags' = IF t.to = "flags" THEN [register |-> t.p, low |-> t.v] ELSE flags
           /\ dir' = IF t.to = "dir" THEN [dir EXCEPT ![t.p] = t.v] ELSE dir
    OBVIOUS
  <1> HIDE DEF t
  <1>9. AtStage(y)'
    BY <1>1, <1>2, <1>3, <1>5, <1>8, Transaction_Stage
  <1> QED BY <1>6, <1>7, <1>9 DEF FightInv

LEMMA BusNext_Fight ==
  ASSUME FightInv, [BusNext]_busVars
  PROVE  FightInv'
  <1>1. CASE BusRead
    <2>1. PICK r \in Registers : Access(read(r))
      BY <1>1 DEF BusRead
    <2> QED BY <2>1, ReadLeads, Access_Fight
  <1>2. CASE BusWrite
    <2>1. PICK r \in Registers, low \in Bytes, high \in Bytes : Access(write_internal(r, low, high))
      BY <1>2 DEF BusWrite
    <2> QED BY <2>1, WriteLeads, Access_Fight
  <1>3. CASE BusReset
    <2>1. trans = <<>> /\ trans' = ide_reset /\ UNCHANGED <<flags, dir, fault>>
      BY <1>3 DEF BusReset, Operate
    <2>2. PICK x \in Stages : Leading(trans, x, "over") /\ AtStage(x)
      BY DEF FightInv
    <2>3. x = "over"
      BY <2>1, <2>2, PathOver DEF Leading
    <2>4. Leading(trans, x, "over")' /\ trans' \in Seq(Transactions)
      BY <2>1, <2>3, ResetLeads DEF Leading
    <2>5. AtStage(x)' /\ FightTypeOK'
      BY <2>1, <2>2, <2>4 DEF AtStage, OneFaultNoFight, Quiet, Inputs, FightInv, FightTypeOK
    <2> QED BY <2>4, <2>5 DEF FightInv
  <1>4. CASE TransactOut
    BY <1>4, Transaction_Fight DEF TransactOut
  <1>5. CASE TransactIn
    <2>1. UNCHANGED <<flags, dir>> /\ trans # <<>> /\ Head(trans).to = "in"
      BY <1>5 DEF TransactIn
    <2>2. UNCHANGED <<trans, fault>> \/ (Done /\ (Fails \/ UNCHANGED fault))
      BY <1>5 DEF TransactIn
    <2>3. CASE UNCHANGED <<trans, fault>>
      BY <2>1, <2>3
         DEF FightInv, FightTypeOK, Leading, AtStage, OneFaultNoFight, Quiet, Inputs
    <2>4. CASE Done /\ (Fails \/ UNCHANGED fault)
      BY <2>1, <2>4, Transaction_Fight
    <2> QED BY <2>2, <2>3, <2>4
  <1>6. CASE KeypadLock \/ KeypadSetup \/ KeypadSelect \/ KeypadRequest \/ UNCHANGED busVars
    <2>1. UNCHANGED <<trans, fault, flags, dir>>
      BY <1>6 DEF KeypadLock, KeypadSetup, KeypadSelect, KeypadRequest, KeypadStep, busVars, driveVars
    <2> QED BY <2>1 DEF FightInv, FightTypeOK, Leading, AtStage, OneFaultNoFight, Quiet, Inputs
  <1> QED BY <1>1, <1>2, <1>3, <1>4, <1>5, <1>6 DEF BusNext

\* A transaction that is lost, one in any two accesses, leaves the drive and the expander
\* never both driving the bus, for any registers, bytes and order of the accesses.
THEOREM FaultMakesNoFight == BusSpec => []OneFaultNoFight
  <1>1. BusInit => FightInv
    <2> SUFFICES ASSUME BusInit PROVE FightInv
      OBVIOUS
    <2>1. "over" \in Stages /\ AtStage("over")
      BY DEF BusInit, Stages, AtStage, OneFaultNoFight, Quiet, Inputs
    <2>2. Leading(<<>>, "over", "over")
      BY <2>1, PathOfNone DEF Leading
    <2>3. FightTypeOK
      BY DEF BusInit, FightTypeOK
    <2> QED BY <2>1, <2>2, <2>3 DEF BusInit, FightInv
  <1>2. FightInv /\ [BusNext]_busVars => FightInv'
    BY BusNext_Fight
  <1>3. FightInv => OneFaultNoFight
    BY DEF FightInv, AtStage, OneFaultNoFight, Inputs, Quiet
  <1> QED BY <1>1, <1>2, <1>3, PTL DEF BusSpec

-----------------------------------------------------------------------------
(* Where a task is in its calls *)

\* "cold" and "booting": before the drive is identified, without and with the semaphore;
\* "out": without it afterwards; all others with it.  "clean": nothing is left to read;
\* "told", "asked": a packet without and with an answer went out; "there": what it
\* answers; the others are the steps of read_toc().
Places == {"cold", "booting", "out", "clean", "told", "asked", "there", "toc", "asks",
           "answer", "header", "entry", "draining", "verdict"}

Orders == {"START_STOP", "PREVENT_REMOVAL", "LOAD_UNLOAD", "STOP", "PAUSE", "PLAY", "SCAN",
           "SET_CD_SPEED", "MODE_SELECT"}
Questions == {"MECHANISM_STATUS", "MODE_SENSE", "READ_SUBCHANNEL", "REQUEST_SENSE", "READ_TEXT"}
BootCalls == {"ide_reset", "not_busy", "DIAGNOSTIC", "no_drq", "IDENTIFY", "drq", "read_all"}

Calls == Orders \cup Questions \cup BootCalls \cup
  {"take", "give", "look_up_quirks", "booted", "select_once", "if_page", "moving", "read", "drain",
   "sense", "sense_again", "toc_begin", "toc_attempt", "READ_TOC", "toc_header", "toc_entry",
   "toc_verdict", "text_head"}

Goes(x, c, y) ==
  \/ c = "take" /\ <<x, y>> \in {<<"out", "clean">>, <<"cold", "booting">>}
  \/ c = "give" /\ <<x, y>> \in {<<"clean", "out">>, <<"booting", "cold">>}
  \/ c \in BootCalls /\ <<x, y>> = <<"booting", "booting">>
  \/ c = "look_up_quirks" /\ <<x, y>> = <<"cold", "out">>
  \/ c \in {"booted", "select_once", "if_page", "moving"} /\ <<x, y>> = <<"out", "out">>
  \/ c \in Orders /\ <<x, y>> = <<"clean", "told">>
  \/ c \in Questions /\ <<x, y>> = <<"clean", "asked">>
  \/ c = "not_busy" /\ <<x, y>> \in {<<"told", "clean">>, <<"asked", "there">>, <<"there", "there">>,
                                   <<"answer", "header">>, <<"header", "header">>}
  \/ c = "read" /\ <<x, y>> = <<"there", "there">>
  \/ c = "read_all" /\ <<x, y>> = <<"there", "clean">>
  \/ c = "drain" /\ <<x, y>> \in {<<"there", "clean">>, <<"clean", "clean">>, <<"draining", "verdict">>}
  \/ c \in {"sense", "sense_again"} /\ <<x, y>> = <<"clean", "clean">>
  \/ c = "toc_begin" /\ <<x, y>> = <<"clean", "toc">>
  \/ c = "toc_attempt" /\ <<x, y>> = <<"toc", "clean">>
  \/ c = "READ_TOC" /\ <<x, y>> = <<"asks", "answer">>
  \/ c = "drq" /\ <<x, y>> = <<"entry", "entry">>
  \/ <<x, c, y>> \in {<<"header", "toc_header", "clean">>, <<"entry", "toc_entry", "clean">>,
                      <<"verdict", "toc_verdict", "clean">>, <<"there", "text_head", "clean">>}

PlaceRules == {m \in Places \X Calls \X Places : Goes(m[1], m[2], m[3])}
Going(list, x, y) == Path(list, x, y, Places, PlaceRules)

LEMMA CallOfRule ==
  ASSUME NEW x, NEW c, NEW y, Goes(x, c, y)
  PROVE  c \in Calls
  BY DEF Goes, Calls, BootCalls

LEMMA OneGoes ==
  ASSUME NEW x \in Places, NEW c, NEW y \in Places, Goes(x, c, y)
  PROVE  Going(<<c>>, x, y) /\ <<c>> \in Seq(Calls)
  <1>1. c \in Calls /\ <<x, c, y>> \in PlaceRules
    BY CallOfRule DEF PlaceRules
  <1>2. Going(<<c>>, x, y)
    BY <1>1, PathOfOne DEF Going
  <1> QED BY <1>1, <1>2

LEMMA BothGo ==
  ASSUME NEW s \in Seq(Calls), NEW u \in Seq(Calls), NEW x, NEW y, NEW z,
         Going(s, x, y), Going(u, y, z)
  PROVE  Going(s \o u, x, z) /\ s \o u \in Seq(Calls)
  BY PathThen DEF Going

LEMMA PathOfTwo ==
  ASSUME NEW S, NEW R, NEW a \in S, NEW b \in S, NEW z \in S, NEW c, NEW d,
         <<a, c, b>> \in R, <<b, d, z>> \in R
  PROVE  Path(<<c, d>>, a, z, S, R)
  <1> DEFINE h == [i \in 0 .. 2 |-> IF i = 0 THEN a ELSE IF i = 1 THEN b ELSE z]
  <1>1. Len(<<c, d>>) = 2 /\ <<c, d>>[1] = c /\ <<c, d>>[2] = d
    OBVIOUS
  <1>2. h \in [0 .. 2 -> S] /\ h[0] = a /\ h[1] = b /\ h[2] = z
    OBVIOUS
  <1> HIDE DEF h
  <1> DEFINE s == <<c, d>>
  <1>3. Len(s) = 2 /\ <<h[0], s[1], h[1]>> \in R /\ <<h[1], s[2], h[2]>> \in R
    BY <1>1, <1>2
  <1> HIDE DEF s
  <1>4. ASSUME NEW i \in 1 .. 2
        PROVE  <<h[i - 1], s[i], h[i]>> \in R
    <2>1. CASE i = 1
      BY <1>3, <2>1
    <2>2. CASE i = 2
      BY <1>3, <2>2
    <2> QED BY <2>1, <2>2
  <1>5. Path(s, a, z, S, R)
    BY <1>2, <1>3, <1>4 DEF Path
  <1> QED BY <1>5 DEF s

LEMMA TwoGo ==
  ASSUME NEW c, NEW d, NEW x \in Places, NEW y \in Places, NEW z \in Places,
         Goes(x, c, y), Goes(y, d, z)
  PROVE  Going(<<c, d>>, x, z) /\ <<c, d>> \in Seq(Calls)
  <1>1. c \in Calls /\ d \in Calls /\ <<x, c, y>> \in PlaceRules /\ <<y, d, z>> \in PlaceRules
    BY CallOfRule DEF PlaceRules
  <1>2. Going(<<c, d>>, x, z)
    BY <1>1, PathOfTwo DEF Going
  <1> QED BY <1>1, <1>2

LEMMA ThreeGo ==
  ASSUME NEW c, NEW d, NEW e, NEW w \in Places, NEW x \in Places, NEW y \in Places, NEW z \in Places,
         Goes(w, c, x), Goes(x, d, y), Goes(y, e, z)
  PROVE  Going(<<c, d>> \o <<e>>, w, z) /\ <<c, d>> \o <<e>> \in Seq(Calls)
  <1>1. Going(<<c, d>>, w, y) /\ <<c, d>> \in Seq(Calls)
    BY TwoGo
  <1>2. Going(<<e>>, y, z) /\ <<e>> \in Seq(Calls)
    BY OneGoes
  <1> HIDE DEF Going
  <1> QED BY <1>1, <1>2, BothGo

\* Nothing to do is done where one is.
LEMMA NoneGoes ==
  ASSUME NEW x \in Places
  PROVE  Going(<<>>, x, x) /\ <<>> \in Seq(Calls)
  <1>1. Going(<<>>, x, x)
    BY PathOfNone DEF Going
  <1> QED BY <1>1

LEMMA Order_Goes ==
  ASSUME NEW c \in Orders
  PROVE  Going(send_packet(c), "clean", "clean") /\ send_packet(c) \in Seq(Calls)
  <1>1. {"clean", "told"} \subseteq Places
    BY DEF Places
  <1>2. Goes("clean", c, "told") /\ Goes("told", "not_busy", "clean")
    BY DEF Goes
  <1> QED BY <1>1, <1>2, TwoGo DEF send_packet

LEMMA Question_Goes ==
  ASSUME NEW c \in Questions
  PROVE  Going(send_packet(c), "clean", "there") /\ send_packet(c) \in Seq(Calls)
  <1>1. {"clean", "asked", "there"} \subseteq Places
    BY DEF Places
  <1>2. Goes("clean", c, "asked") /\ Goes("asked", "not_busy", "there")
    BY DEF Goes
  <1> QED BY <1>1, <1>2, TwoGo DEF send_packet

LEMMA Locked_Goes ==
  ASSUME NEW s \in Seq(Calls), Going(s, "clean", "clean")
  PROVE  Going(Locked(s), "out", "out") /\ Locked(s) \in Seq(Calls)
  <1>1. {"clean", "out"} \subseteq Places /\ Goes("out", "take", "clean") /\ Goes("clean", "give", "out")
    BY DEF Places, Goes
  <1>2. Going(<<"take">>, "out", "clean") /\ <<"take">> \in Seq(Calls)
    BY <1>1, OneGoes
  <1>3. Going(<<"give">>, "clean", "out") /\ <<"give">> \in Seq(Calls)
    BY <1>1, OneGoes
  <1> HIDE DEF Going
  <1>4. Going(<<"take">> \o s, "out", "clean") /\ <<"take">> \o s \in Seq(Calls)
    BY <1>2, BothGo
  <1> QED BY <1>3, <1>4, BothGo DEF Locked

LEMMA BootLocked_Goes ==
  ASSUME NEW s \in Seq(Calls), Going(s, "booting", "booting")
  PROVE  Going(Locked(s), "cold", "cold") /\ Locked(s) \in Seq(Calls)
  <1>1. /\ {"cold", "booting"} \subseteq Places
        /\ Goes("cold", "take", "booting") /\ Goes("booting", "give", "cold")
    BY DEF Places, Goes
  <1>2. Going(<<"take">>, "cold", "booting") /\ <<"take">> \in Seq(Calls)
    BY <1>1, OneGoes
  <1>3. Going(<<"give">>, "booting", "cold") /\ <<"give">> \in Seq(Calls)
    BY <1>1, OneGoes
  <1> HIDE DEF Going
  <1>4. Going(<<"take">> \o s, "cold", "booting") /\ <<"take">> \o s \in Seq(Calls)
    BY <1>2, BothGo
  <1> QED BY <1>3, <1>4, BothGo DEF Locked

LEMMA Simple_Goes ==
  ASSUME NEW c \in Orders
  PROVE  Going(Simple(c), "out", "out") /\ Simple(c) \in Seq(Calls)
  <1>2. Going(send_packet(c), "clean", "clean") /\ send_packet(c) \in Seq(Calls)
    BY Order_Goes
  <1> HIDE DEF Going
  <1> QED BY <1>2, Locked_Goes DEF Simple

LEMMA Query_Goes ==
  ASSUME NEW c \in Questions
  PROVE  Going(Query(c), "out", "out") /\ Query(c) \in Seq(Calls)
  <1>2. Going(send_packet(c), "clean", "there") /\ send_packet(c) \in Seq(Calls)
    BY Question_Goes
  <1>3. {"there", "clean"} \subseteq Places /\ Goes("there", "read_all", "clean")
    BY DEF Places, Goes
  <1>4. Going(<<"read_all">>, "there", "clean") /\ <<"read_all">> \in Seq(Calls)
    BY <1>3, OneGoes
  <1> HIDE DEF Going
  <1>5. /\ Going(send_packet(c) \o <<"read_all">>, "clean", "clean")
        /\ send_packet(c) \o <<"read_all">> \in Seq(Calls)
    BY <1>2, <1>4, BothGo
  <1> QED BY <1>5, Locked_Goes DEF Query

\* The table of the mechanism's slots
LEMMA Table_Goes ==
  ASSUME NEW table, table = [i \in 1 .. Slots |-> IF i = Slots THEN "read_all" ELSE "read"]
  PROVE  Going(table, "there", "clean") /\ table \in Seq(Calls)
  <1> DEFINE h == [i \in 0 .. Slots |-> IF i = Slots THEN "clean" ELSE "there"]
  <1>1. Slots \in Nat /\ Slots # 0
    BY PacketAssumption
  <1>2. table \in Seq(Calls) /\ Len(table) = Slots
    BY <1>1 DEF Calls, BootCalls
  <1>3. h \in [0 .. Slots -> Places] /\ h[0] = "there" /\ h[Slots] = "clean"
    BY <1>1 DEF Places
  <1>4. ASSUME NEW i \in 1 .. Slots
        PROVE  <<h[i - 1], table[i], h[i]>> \in PlaceRules
    <2>1. h[i - 1] = "there"
      BY <1>1
    <2>2. CASE i = Slots
      <3>1. Goes("there", "read_all", "clean") /\ h[i] = "clean" /\ table[i] = "read_all"
        BY <1>1, <2>2 DEF Goes
      <3>2. "there" \in Places /\ h[i] \in Places /\ table[i] \in Calls
        BY <1>2, <1>3, <3>1, CallOfRule DEF Places
      <3> QED BY <2>1, <3>1, <3>2 DEF PlaceRules
    <2>3. CASE i # Slots
      <3>1. Goes("there", "read", "there") /\ h[i] = "there" /\ table[i] = "read"
        BY <1>1, <2>3 DEF Goes
      <3>2. "there" \in Places /\ h[i] \in Places /\ table[i] \in Calls
        BY <1>2, <1>3, <3>1, CallOfRule DEF Places
      <3> QED BY <2>1, <3>1, <3>2 DEF PlaceRules
    <2> QED BY <2>2, <2>3
  <1> HIDE DEF h
  <1>5. Going(table, "there", "clean")
    BY <1>2, <1>3, <1>4 DEF Going, Path
  <1> QED BY <1>2, <1>5

LEMMA query_state_Goes ==
  Going(query_state, "out", "out") /\ query_state \in Seq(Calls)
  <1> DEFINE p == send_packet("MECHANISM_STATUS")
             f == [i \in 1 .. Slots |-> IF i = Slots THEN "read_all" ELSE "read"]
             table == IF Slots = 1 THEN <<>> ELSE f
             s == p \o <<"read">> \o table \o <<"drain">>
  <1>1. query_state = Locked(s)
    BY DEF query_state
  <1>2. Going(p, "clean", "there") /\ p \in Seq(Calls)
    BY Question_Goes DEF Questions
  <1>3. /\ {"there", "clean"} \subseteq Places /\ Goes("there", "read", "there")
        /\ Goes("there", "drain", "clean") /\ Goes("clean", "drain", "clean")
    BY DEF Places, Goes
  <1>4. Going(<<"read">>, "there", "there") /\ <<"read">> \in Seq(Calls)
    BY <1>3, OneGoes
  <1>5. /\ Going(<<"drain">>, "there", "clean") /\ Going(<<"drain">>, "clean", "clean")
        /\ <<"drain">> \in Seq(Calls)
    BY <1>3, OneGoes
  <1>6. /\ Going(table, "there", "there") \/ Going(table, "there", "clean")
        /\ table \in Seq(Calls)
    <2>1. CASE Slots = 1
      BY <2>1, <1>3, NoneGoes
    <2>2. CASE Slots # 1
      <3>1. Going(f, "there", "clean") /\ f \in Seq(Calls)
        BY Table_Goes
      <3> QED BY <2>2, <3>1
    <2> QED BY <2>1, <2>2
  <1> HIDE DEF Going, p, table
  <1>7. Going(p \o <<"read">>, "clean", "there") /\ p \o <<"read">> \in Seq(Calls)
    BY <1>2, <1>4, BothGo
  <1>8. /\ Going(p \o <<"read">> \o table, "clean", "there") \/ Going(p \o <<"read">> \o table, "clean", "clean")
        /\ p \o <<"read">> \o table \in Seq(Calls)
    BY <1>6, <1>7, BothGo
  <1>9. Going(s, "clean", "clean") /\ s \in Seq(Calls)
    BY <1>5, <1>8, BothGo
  <1> HIDE DEF s
  <1> QED BY <1>1, <1>9, Locked_Goes

LEMMA mode_sense_Goes ==
  Going(mode_sense, "clean", "clean") /\ mode_sense \in Seq(Calls)
  <1> DEFINE p == send_packet("MODE_SENSE")
  <1>1. Going(p, "clean", "there") /\ p \in Seq(Calls)
    BY Question_Goes DEF Questions
  <1>2. /\ {"there", "clean"} \subseteq Places
        /\ Goes("there", "read", "there") /\ Goes("there", "read_all", "clean")
    BY DEF Places, Goes
  <1>3. Going(<<"read", "read_all">>, "there", "clean") /\ <<"read", "read_all">> \in Seq(Calls)
    BY <1>2, TwoGo
  <1> HIDE DEF Going, p
  <1>4. Going(p \o <<"read", "read_all">>, "clean", "clean") /\ p \o <<"read", "read_all">> \in Seq(Calls)
    BY <1>1, <1>3, BothGo
  <1> QED BY <1>4 DEF mode_sense, p

LEMMA mode_select_Goes ==
  /\ Going(mode_select, "out", "out") /\ mode_select \in Seq(Calls)
  /\ Going(mode_write, "out", "out") /\ mode_write \in Seq(Calls)
  <1>1. {"out"} \subseteq Places /\ Goes("out", "if_page", "out")
    BY DEF Places, Goes
  <1>2. Going(<<"if_page">>, "out", "out") /\ <<"if_page">> \in Seq(Calls)
    BY <1>1, OneGoes
  <1>3. Going(send_packet("MODE_SELECT"), "clean", "clean") /\ send_packet("MODE_SELECT") \in Seq(Calls)
    BY Order_Goes DEF Orders
  <1> HIDE DEF Going
  <1>4. Going(Locked(mode_sense), "out", "out") /\ Locked(mode_sense) \in Seq(Calls)
    BY mode_sense_Goes, Locked_Goes
  <1>5. Going(mode_select, "out", "out") /\ mode_select \in Seq(Calls)
    BY <1>2, <1>4, BothGo DEF mode_select
  <1> DEFINE w == send_packet("MODE_SELECT") \o mode_sense
  <1>6. Going(w, "clean", "clean") /\ w \in Seq(Calls)
    BY <1>3, mode_sense_Goes, BothGo
  <1> HIDE DEF w
  <1>7. Going(Locked(w), "out", "out") /\ Locked(w) \in Seq(Calls)
    BY <1>6, Locked_Goes
  <1> QED BY <1>5, <1>7 DEF mode_write, w
LEMMA BootCalls_Go ==
  ASSUME NEW s \in Seq(BootCalls)
  PROVE  Going(Locked(s), "cold", "cold") /\ Locked(s) \in Seq(Calls)
  <1> DEFINE h == [i \in 0 .. Len(s) |-> "booting"]
  <1>1. h \in [0 .. Len(s) -> Places] /\ h[0] = "booting" /\ h[Len(s)] = "booting"
    BY DEF Places
  <1>2. ASSUME NEW i \in 1 .. Len(s)
        PROVE  <<h[i - 1], s[i], h[i]>> \in PlaceRules
    <2>1. h[i - 1] = "booting" /\ h[i] = "booting" /\ s[i] \in BootCalls
      OBVIOUS
    <2>2. "booting" \in Places /\ Goes("booting", s[i], "booting") /\ s[i] \in Calls
      BY <2>1 DEF Places, Goes, Calls
    <2> QED BY <2>1, <2>2 DEF PlaceRules
  <1> HIDE DEF h
  <1>3. Going(s, "booting", "booting")
    BY <1>1, <1>2 DEF Going, Path
  <1>4. s \in Seq(Calls)
    BY DEF Calls
  <1> QED BY <1>3, <1>4, BootLocked_Goes

LEMMA reset_Goes ==
  Going(reset, "cold", "out") /\ reset \in Seq(Calls)
  <1> DEFINE a == Locked(<<"ide_reset", "not_busy">>)
             b == Locked(<<>>)
             c == Locked(<<"DIAGNOSTIC", "not_busy">>)
             d == Locked(<<"not_busy", "no_drq">>)
             e == Locked(<<"IDENTIFY", "not_busy", "drq", "read_all">>)
             f == Locked(mode_sense)
             g == Simple("SET_CD_SPEED")
             s1 == a \o b
             s2 == s1 \o c
             s3 == s2 \o d
             s4 == s3 \o e
             s5 == s4 \o <<"look_up_quirks">>
             s6 == s5 \o query_state
             s7 == s6 \o f
             s8 == s7 \o g
             s9 == s8 \o <<"booted">>
  <1>1. reset = s9
    BY DEF reset
  <1>2. /\ <<"ide_reset", "not_busy">> \in Seq(BootCalls) /\ <<>> \in Seq(BootCalls)
        /\ <<"DIAGNOSTIC", "not_busy">> \in Seq(BootCalls)
        /\ <<"not_busy", "no_drq">> \in Seq(BootCalls)
        /\ <<"IDENTIFY", "not_busy", "drq", "read_all">> \in Seq(BootCalls)
    BY DEF BootCalls
  <1>3. Going(a, "cold", "cold") /\ a \in Seq(Calls)
    BY <1>2, BootCalls_Go
  <1>4. Going(b, "cold", "cold") /\ b \in Seq(Calls)
    BY <1>2, BootCalls_Go
  <1>5. Going(c, "cold", "cold") /\ c \in Seq(Calls)
    BY <1>2, BootCalls_Go
  <1>6. Going(d, "cold", "cold") /\ d \in Seq(Calls)
    BY <1>2, BootCalls_Go
  <1>7. Going(e, "cold", "cold") /\ e \in Seq(Calls)
    BY <1>2, BootCalls_Go
  <1>8. /\ {"cold", "out"} \subseteq Places
        /\ Goes("cold", "look_up_quirks", "out") /\ Goes("out", "booted", "out")
    BY DEF Places, Goes
  <1>9. Going(<<"look_up_quirks">>, "cold", "out") /\ <<"look_up_quirks">> \in Seq(Calls)
    BY <1>8, OneGoes
  <1>10. Going(<<"booted">>, "out", "out") /\ <<"booted">> \in Seq(Calls)
    BY <1>8, OneGoes
  <1>11. Going(f, "out", "out") /\ f \in Seq(Calls)
    BY mode_sense_Goes, Locked_Goes
  <1>12. Going(g, "out", "out") /\ g \in Seq(Calls)
    BY Simple_Goes DEF Orders
  <1> HIDE DEF Going, a, b, c, d, e, f, g
  <1>13. Going(s1, "cold", "cold") /\ s1 \in Seq(Calls)
    BY <1>3, <1>4, BothGo
  <1> HIDE DEF s1
  <1>14. Going(s2, "cold", "cold") /\ s2 \in Seq(Calls)
    BY <1>13, <1>5, BothGo
  <1> HIDE DEF s2
  <1>15. Going(s3, "cold", "cold") /\ s3 \in Seq(Calls)
    BY <1>14, <1>6, BothGo
  <1> HIDE DEF s3
  <1>16. Going(s4, "cold", "cold") /\ s4 \in Seq(Calls)
    BY <1>15, <1>7, BothGo
  <1> HIDE DEF s4
  <1>17. Going(s5, "cold", "out") /\ s5 \in Seq(Calls)
    BY <1>16, <1>9, BothGo
  <1> HIDE DEF s5
  <1>18. Going(s6, "cold", "out") /\ s6 \in Seq(Calls)
    BY <1>17, query_state_Goes, BothGo
  <1> HIDE DEF s6
  <1>19. Going(s7, "cold", "out") /\ s7 \in Seq(Calls)
    BY <1>18, <1>11, BothGo
  <1> HIDE DEF s7
  <1>20. Going(s8, "cold", "out") /\ s8 \in Seq(Calls)
    BY <1>19, <1>12, BothGo
  <1> HIDE DEF s8
  <1>21. Going(s9, "cold", "out") /\ s9 \in Seq(Calls)
    BY <1>20, <1>10, BothGo
  <1> HIDE DEF s9
  <1> QED BY <1>1, <1>21

\* Every method begins and ends without the semaphore, and reads what it asks for.
LEMMA MethodsGo ==
  ASSUME NEW op \in DOMAIN Method
  PROVE  Going(Method[op], "out", "out") /\ Method[op] \in Seq(Calls)
  <1>1. /\ {"out", "clean", "toc"} \subseteq Places
        /\ Goes("out", "select_once", "out") /\ Goes("out", "moving", "out")
        /\ Goes("clean", "sense", "clean")
        /\ Goes("clean", "toc_begin", "toc") /\ Goes("toc", "toc_attempt", "clean")
    BY DEF Places, Goes
  <1>2. Going(<<"select_once">>, "out", "out") /\ <<"select_once">> \in Seq(Calls)
    BY <1>1, OneGoes
  <1>3. Going(<<"moving">>, "out", "out") /\ <<"moving">> \in Seq(Calls)
    BY <1>1, OneGoes
  <1>4. Going(<<"sense">>, "clean", "clean") /\ <<"sense">> \in Seq(Calls)
    BY <1>1, OneGoes
  <1>5. Going(<<"toc_begin", "toc_attempt">>, "clean", "clean") /\ <<"toc_begin", "toc_attempt">> \in Seq(Calls)
    BY <1>1, TwoGo
  <1> HIDE DEF Going
  <1>6. \A c \in Orders : Going(Simple(c), "out", "out") /\ Simple(c) \in Seq(Calls)
    BY Simple_Goes
  <1>7. \A c \in Questions : Going(Query(c), "out", "out") /\ Query(c) \in Seq(Calls)
    BY Query_Goes
  <1>8. Going(play, "out", "out") /\ play \in Seq(Calls)
    <2>1. Going(Simple("PLAY"), "out", "out") /\ Simple("PLAY") \in Seq(Calls)
      BY <1>6 DEF Orders
    <2> QED BY <1>2, <2>1, BothGo DEF play
  <1> DEFINE w == Locked(<<"sense">>) \o query_state \o <<"moving">>
             r == Simple("SET_CD_SPEED") \o Locked(<<"toc_begin", "toc_attempt">>)
  <1>9. Going(w, "out", "out") /\ w \in Seq(Calls)
    <2>1. Going(Locked(<<"sense">>), "out", "out") /\ Locked(<<"sense">>) \in Seq(Calls)
      BY <1>4, Locked_Goes
    <2>2. /\ Going(Locked(<<"sense">>) \o query_state, "out", "out")
          /\ Locked(<<"sense">>) \o query_state \in Seq(Calls)
      BY <2>1, query_state_Goes, BothGo
    <2> QED BY <1>3, <2>2, BothGo
  <1>10. Going(r, "out", "out") /\ r \in Seq(Calls)
    <2>1. /\ Going(Locked(<<"toc_begin", "toc_attempt">>), "out", "out")
          /\ Locked(<<"toc_begin", "toc_attempt">>) \in Seq(Calls)
      BY <1>5, Locked_Goes
    <2>2. Going(Simple("SET_CD_SPEED"), "out", "out") /\ Simple("SET_CD_SPEED") \in Seq(Calls)
      BY <1>6 DEF Orders
    <2> QED BY <2>1, <2>2, BothGo
  <1>11. /\ \A c \in {"START_STOP", "PREVENT_REMOVAL", "LOAD_UNLOAD", "STOP", "PAUSE", "SCAN"} :
              Going(Simple(c), "out", "out") /\ Simple(c) \in Seq(Calls)
         /\ \A c \in {"READ_SUBCHANNEL", "MODE_SENSE"} :
              Going(Query(c), "out", "out") /\ Query(c) \in Seq(Calls)
    BY <1>6, <1>7 DEF Orders, Questions
  <1>12. /\ DOMAIN Method = {"query_state", "query_position", "check_media", "start", "eject", "set_tray_locked",
                             "load_unload", "stop", "pause", "scan", "play", "wait_ready", "read_toc"}
         /\ Method.query_state = query_state /\ Method.query_position = Query("READ_SUBCHANNEL")
         /\ Method.check_media = Query("MODE_SENSE") /\ Method.start = Simple("START_STOP")
         /\ Method.eject = Simple("START_STOP") /\ Method.set_tray_locked = Simple("PREVENT_REMOVAL")
         /\ Method.load_unload = Simple("LOAD_UNLOAD") /\ Method.stop = Simple("STOP")
         /\ Method.pause = Simple("PAUSE") /\ Method.scan = Simple("SCAN") /\ Method.play = play
         /\ Method.wait_ready = w /\ Method.read_toc = r
    BY DEF Method
  <1> HIDE DEF w, r
  <1> QED BY <1>8, <1>9, <1>10, <1>11, <1>12, query_state_Goes

-----------------------------------------------------------------------------
(* What the drive answers *)

Units == [kind : {"track", "address", "range", "junk", "text", "data"}, a : Nat, b : Nat]

First == Disc[1]
Final == Disc[Len(Disc)]

\* The tables that follow a header that makes sense.
Tables ==
  {SubSeq(Disc, 1, k) : k \in 0 .. Len(Disc)}
  \cup {Disc \o <<LeadOut>>, Disc \o Disc, <<Disc[1]>> \o Disc \o <<LeadOut>>,
        Disc \o <<LeadOut, LeadOut>>, <<Disc[1], LeadOut>> \o Tail(Disc) \o <<LeadOut>>}

\* r is a header and the table, its numbers in every other unit.
TocOf(r, table) ==
  /\ r[1] = Unit("range", First, Final)
  /\ Len(r) = 2 * Len(table) + 1
  /\ \A m \in 1 .. Len(table) : r[2 * m] = Unit("track", table[m], 0)

\* A header is always the first unit of a whole answer.
WholeToc(r) ==
  /\ \A i \in 2 .. Len(r) : r[i].kind # "range"
  /\ r # <<>> /\ r[1].kind = "range" => \E table \in Tables : TocOf(r, table)

LEMMA Joined ==
  ASSUME NEW S, NEW s \in Seq(S), NEW u \in Seq(S)
  PROVE  /\ s \o u \in Seq(S) /\ Len(s \o u) = Len(s) + Len(u) /\ Len(s) \in Nat /\ Len(u) \in Nat
         /\ \A i \in 1 .. Len(s) : (s \o u)[i] = s[i]
         /\ \A i \in 1 .. Len(u) : (s \o u)[Len(s) + i] = u[i]
  OBVIOUS

LEMMA DiscFacts ==
  /\ Disc \in Seq(Nat) /\ Len(Disc) \in Nat \ {0} /\ First \in 1 .. 99 /\ Final \in 1 .. 99
  /\ \A i \in 1 .. Len(Disc) : Disc[i] \in 1 .. 99
  /\ \A i, j \in 1 .. Len(Disc) : i < j => Disc[i] < Disc[j]
  /\ First <= Final
  <1>1. Disc \in Seq(1 .. 99) /\ Disc # <<>> /\ \A i, j \in 1 .. Len(Disc) : i < j => Disc[i] < Disc[j]
    BY PacketAssumption
  <1>2. Len(Disc) \in Nat \ {0} /\ \A i \in 1 .. Len(Disc) : Disc[i] \in 1 .. 99
    BY <1>1, EmptySeq, ElementOfSeq
  <1>3. Disc \in Seq(Nat)
    <2>1. 1 .. 99 \subseteq Nat
      OBVIOUS
    <2> QED BY <1>1, <2>1, SeqMonotonic
  <1>4. 1 \in 1 .. Len(Disc) /\ Len(Disc) \in 1 .. Len(Disc)
    BY <1>2
  <1>5. First \in 1 .. 99 /\ Final \in 1 .. 99
    BY <1>2, <1>4 DEF First, Final
  <1>6. First <= Final
    <2> DEFINE n == Len(Disc)
    <2>1. n \in Nat \ {0} /\ First = Disc[1] /\ Final = Disc[n] /\ 1 \in 1 .. n /\ n \in 1 .. n
      BY <1>2, <1>4 DEF First, Final
    <2>2. 1 < n => Disc[1] < Disc[n]
      BY <1>1, <2>1
    <2>3. First \in Nat /\ Final \in Nat
      BY <1>5
    <2> HIDE DEF n
    <2>4. CASE n = 1
      BY <2>1, <2>3, <2>4
    <2>5. CASE 1 < n
      BY <2>1, <2>2, <2>3, <2>5
    <2> QED BY <2>1, <2>4, <2>5
  <1> QED BY <1>1, <1>2, <1>3, <1>5, <1>6

LEMMA TableTypes ==
  ASSUME NEW table \in Tables
  PROVE  table \in Seq(Nat)
  <1>1. Disc \in Seq(Nat) /\ Disc # <<>> /\ Disc[1] \in Nat /\ LeadOut \in Nat /\ Len(Disc) \in Nat
    BY DiscFacts, PacketAssumption DEF LeadOut, First
  <1>2. \A k \in 0 .. Len(Disc) : SubSeq(Disc, 1, k) \in Seq(Nat)
    BY <1>1
  <1>3. Tail(Disc) \in Seq(Nat) /\ <<LeadOut>> \in Seq(Nat) /\ <<Disc[1]>> \in Seq(Nat)
    BY <1>1
  <1>4. <<LeadOut, LeadOut>> \in Seq(Nat) /\ <<Disc[1], LeadOut>> \in Seq(Nat)
    BY <1>1
  <1>5. \/ \E k \in 0 .. Len(Disc) : table = SubSeq(Disc, 1, k)
        \/ table = Disc \o <<LeadOut>> \/ table = Disc \o Disc
        \/ table = <<Disc[1]>> \o Disc \o <<LeadOut>> \/ table = Disc \o <<LeadOut, LeadOut>>
        \/ table = <<Disc[1], LeadOut>> \o Tail(Disc) \o <<LeadOut>>
    BY DEF Tables
  <1> DEFINE a == <<LeadOut>>
             b == <<Disc[1]>>
             c == <<LeadOut, LeadOut>>
             d == <<Disc[1], LeadOut>>
             e == Tail(Disc)
  <1>6. a \in Seq(Nat) /\ b \in Seq(Nat) /\ c \in Seq(Nat) /\ d \in Seq(Nat) /\ e \in Seq(Nat)
    BY <1>3, <1>4
  <1>7. \/ \E k \in 0 .. Len(Disc) : table = SubSeq(Disc, 1, k)
        \/ table = Disc \o a \/ table = Disc \o Disc \/ table = b \o Disc \o a \/ table = Disc \o c
        \/ table = d \o e \o a
    BY <1>5
  <1> HIDE DEF a, b, c, d, e
  <1>8. b \o Disc \in Seq(Nat) /\ d \o e \in Seq(Nat)
    BY <1>1, <1>6, Joined
  <1>9. /\ Disc \o a \in Seq(Nat) /\ Disc \o Disc \in Seq(Nat) /\ Disc \o c \in Seq(Nat)
        /\ (b \o Disc) \o a \in Seq(Nat) /\ (d \o e) \o a \in Seq(Nat)
    BY <1>1, <1>6, <1>8, Joined
  <1> QED BY <1>2, <1>7, <1>9

LEMMA EntriesAre ==
  ASSUME NEW table \in Seq(Nat)
  PROVE  /\ Entries(table) \in Seq(Units) /\ Len(Entries(table)) = 2 * Len(table)
         /\ \A m \in 1 .. Len(table) : Entries(table)[2 * m - 1] = Unit("track", table[m], 0)
         /\ \A i \in 1 .. 2 * Len(table) : Entries(table)[i].kind # "range"
  <1> DEFINE n == Len(table)
             e == Entries(table)
             u(i) == Unit(IF i % 2 = 1 THEN "track" ELSE "address", table[(i + 1) \div 2], 0)
  <1>1. n \in Nat /\ \A m \in 1 .. n : table[m] \in Nat
    OBVIOUS
  <1>2. e = [i \in 1 .. 2 * n |-> u(i)]
    BY DEF Entries
  <1> HIDE DEF e, n
  <1>3. \A i \in 1 .. 2 * n : (i + 1) \div 2 \in 1 .. n
    BY <1>1
  <1>4. \A i \in 1 .. 2 * n : u(i) \in Units /\ u(i).kind # "range"
    BY <1>1, <1>3 DEF Units, Unit
  <1>5. \A m \in 1 .. n : 2 * m - 1 \in 1 .. 2 * n /\ (2 * m - 1) % 2 = 1 /\ ((2 * m - 1) + 1) \div 2 = m
    BY <1>1
  <1>6. \A m \in 1 .. n : u(2 * m - 1) = Unit("track", table[m], 0)
    BY <1>5
  <1> HIDE DEF u
  <1>7. e \in Seq(Units) /\ Len(e) = 2 * n
    BY <1>1, <1>2, <1>4
  <1>8. \A m \in 1 .. n : e[2 * m - 1] = Unit("track", table[m], 0)
    BY <1>2, <1>5, <1>6
  <1>9. \A i \in 1 .. 2 * n : e[i].kind # "range"
    BY <1>2, <1>4
  <1> QED BY <1>7, <1>8, <1>9 DEF e, n

LEMMA TocAnswer ==
  ASSUME NEW table \in Tables
  PROVE  Header \o Entries(table) \in Seq(Units) /\ WholeToc(Header \o Entries(table))
  <1> DEFINE e == Entries(table)
             u == Unit("range", First, Final)
             r == <<u>> \o e
             n == Len(table)
  <1>1. Header = <<u>>
    BY DEF Header, First, Final, Last
  <1>2. table \in Seq(Nat) /\ n \in Nat
    BY TableTypes
  <1>3. /\ e \in Seq(Units) /\ Len(e) = 2 * n
        /\ \A m \in 1 .. n : e[2 * m - 1] = Unit("track", table[m], 0)
        /\ \A i \in 1 .. 2 * n : e[i].kind # "range"
    BY <1>2, EntriesAre
  <1>4. u \in Units /\ u.kind = "range"
    BY DiscFacts DEF Units, Unit
  <1> HIDE DEF e, u, n
  <1>5. r \in Seq(Units) /\ Len(r) = 2 * n + 1 /\ r[1] = u
    BY <1>2, <1>3, <1>4
  <1>6. \A i \in 2 .. 2 * n + 1 : r[i] = e[i - 1] /\ i - 1 \in 1 .. 2 * n
    BY <1>2, <1>3, <1>4
  <1>7. \A m \in 1 .. n : r[2 * m] = e[2 * m - 1]
    <2> SUFFICES ASSUME NEW m \in 1 .. n PROVE r[2 * m] = e[2 * m - 1]
      OBVIOUS
    <2>1. 2 * m \in 2 .. 2 * n + 1
      BY <1>2
    <2> QED BY <1>6, <2>1
  <1>8. TocOf(r, table)
    BY <1>3, <1>5, <1>7 DEF TocOf, u, n
  <1>9. WholeToc(r)
    BY <1>3, <1>5, <1>6, <1>8 DEF WholeToc
  <1> QED BY <1>1, <1>5, <1>9 DEF e

\* An answer without a header is no table of contents.
LEMMA OtherAnswer ==
  ASSUME NEW r \in Seq(Units), \A i \in 1 .. Len(r) : r[i].kind # "range"
  PROVE  WholeToc(r)
  <1>1. Len(r) \in Nat /\ (r # <<>> => 1 \in 1 .. Len(r))
    OBVIOUS
  <1>2. \A i \in 2 .. Len(r) : i \in 1 .. Len(r)
    BY <1>1
  <1> QED BY <1>1, <1>2 DEF WholeToc

LEMMA DataAnswer ==
  ASSUME NEW n \in Nat
  PROVE  Data(n) \in Seq(Units) /\ WholeToc(Data(n))
  <1>1. Unit("data", 0, 0) \in Units /\ Unit("data", 0, 0).kind # "range"
    BY DEF Units, Unit
  <1>2. Data(n) \in Seq(Units) /\ Len(Data(n)) = n /\ \A i \in 1 .. n : Data(n)[i] = Unit("data", 0, 0)
    BY <1>1 DEF Data
  <1> QED BY <1>1, <1>2, OtherAnswer

LEMMA NoAnswer == <<>> \in Seq(Units) /\ WholeToc(<<>>)
  <1>1. <<>> \in Seq(Units) /\ Len(<<>>) = 0
    OBVIOUS
  <1>2. \A i \in 2 .. 0 : FALSE
    OBVIOUS
  <1> QED BY <1>1, <1>2 DEF WholeToc

LEMMA OneBefore ==
  ASSUME NEW u \in Units, u.kind # "range", NEW r \in Seq(Units),
         \A i \in 1 .. Len(r) : r[i].kind # "range"
  PROVE  <<u>> \o r \in Seq(Units) /\ WholeToc(<<u>> \o r)
  <1> DEFINE s == <<u>> \o r
             n == Len(r)
  <1>1. s \in Seq(Units) /\ n \in Nat /\ Len(s) = n + 1 /\ s[1] = u
    OBVIOUS
  <1>2. \A i \in 2 .. n + 1 : s[i] = r[i - 1] /\ i - 1 \in 1 .. n
    OBVIOUS
  <1> HIDE DEF s
  <1>3. \A i \in 1 .. n + 1 : s[i].kind # "range"
    BY <1>1, <1>2
  <1> QED BY <1>1, <1>3, OtherAnswer DEF s

LEMMA Answers ==
  ASSUME NEW r, NEW c, r \in GoodResponse(c) \/ r \in BadTocs
  PROVE  r \in Seq(Units) /\ WholeToc(r)
  <1>1. CASE r \in BadTocs
    <2>1. Disc \o <<LeadOut>> \in Tables /\ \A k \in 0 .. Len(Disc) : SubSeq(Disc, 1, k) \in Tables
      BY DEF Tables
    <2>2. \/ r = <<>>
          \/ r = <<Junk>> \o Entries(Disc \o <<LeadOut>>)
          \/ \E table \in Tables : r = Header \o Entries(table)
      BY <1>1, <2>1 DEF BadTocs, Tables
    <2>3. Junk \in Units /\ Junk.kind # "range"
      BY DEF Junk, Units, Unit
    <2>4. CASE r = <<Junk>> \o Entries(Disc \o <<LeadOut>>)
      <3> DEFINE e == Entries(Disc \o <<LeadOut>>)
      <3>1. e \in Seq(Units) /\ \A i \in 1 .. Len(e) : e[i].kind # "range"
        BY <2>1, TableTypes, EntriesAre
      <3> HIDE DEF e
      <3> QED BY <2>3, <2>4, <3>1, OneBefore DEF e
    <2> QED BY <2>2, <2>4, NoAnswer, TocAnswer
  <1>2. CASE r \in GoodResponse(c)
    <2> DEFINE text == Unit("text", 0, 0)
    <2>1. \/ r = Header \o Entries(Disc \o <<LeadOut>>)
          \/ r = <<>>
          \/ r = <<text>> \o Data(1)
          \/ \E n \in Nat : r = Data(n)
      <3>1. Slots \in Nat
        BY PacketAssumption
      <3>2. CASE c = "READ_TOC"
        BY <1>2, <3>2 DEF GoodResponse, GoodToc
      <3>3. CASE c = "READ_TEXT"
        BY <1>2, <3>3 DEF GoodResponse
      <3>4. CASE c = "MECHANISM_STATUS"
        <4>1. r = Data(IF Slots = 1 THEN 1 ELSE 1 + Slots)
          BY <1>2, <3>4 DEF GoodResponse
        <4>2. (IF Slots = 1 THEN 1 ELSE 1 + Slots) \in Nat
          BY <3>1
        <4> QED BY <4>1, <4>2
      <3>5. CASE c \notin {"READ_TOC", "READ_TEXT", "MECHANISM_STATUS"}
        BY <1>2, <3>5 DEF GoodResponse
      <3> QED BY <3>2, <3>3, <3>4, <3>5
    <2>2. Disc \o <<LeadOut>> \in Tables
      BY DEF Tables
    <2>3. CASE r = <<text>> \o Data(1)
      <3>1. text \in Units /\ text.kind # "range"
        BY DEF Units, Unit
      <3>2. Unit("data", 0, 0).kind # "range"
        BY DEF Unit
      <3>3. Data(1) \in Seq(Units) /\ Len(Data(1)) = 1 /\ \A i \in 1 .. 1 : Data(1)[i] = Unit("data", 0, 0)
        BY DEF Data, Units, Unit
      <3> HIDE DEF text
      <3> QED BY <2>3, <3>1, <3>2, <3>3, OneBefore
    <2> QED BY <2>1, <2>2, <2>3, NoAnswer, TocAnswer, DataAnswer
  <1> QED BY <1>1, <1>2

-----------------------------------------------------------------------------
(* The tables and the disc *)

\* Numbers that ascend by one from the first are those of the disc, in any table.
LEMMA AscendingIsDisc ==
  ASSUME NEW table \in Tables, NEW k \in 1 .. Len(table),
         \A j \in 1 .. k : table[j] = First + j - 1
  PROVE  k <= Len(Disc) /\ \A j \in 1 .. k : table[j] = Disc[j]
  <1> DEFINE n == Len(Disc)
  <1>1. /\ Disc \in Seq(Nat) /\ n \in Nat \ {0} /\ First \in 1 .. 99 /\ Disc[1] = First
        /\ \A i \in 1 .. n : Disc[i] \in 1 .. 99
    BY DiscFacts DEF First
  <1>2. LeadOut = 170 /\ k \in Nat \ {0} /\ table \in Seq(Nat) /\ Len(table) \in Nat /\ k <= Len(table)
    BY TableTypes DEF LeadOut
  <1>3. CASE \E m \in 0 .. n : table = SubSeq(Disc, 1, m)
    <2>1. PICK m \in 0 .. n : table = SubSeq(Disc, 1, m)
      BY <1>3
    <2>2. Len(table) = m /\ \A j \in 1 .. m : table[j] = Disc[j]
      BY <1>1, <2>1
    <2> QED BY <1>1, <1>2, <2>2
  <1> HIDE DEF n
  <1>4. CASE Len(table) > n /\ (\A j \in 1 .. n : table[j] = Disc[j]) /\ table[n + 1] \in {First, 170}
    <2>1. ASSUME k > n PROVE FALSE
      <3>1. n \in 1 .. k /\ n + 1 \in 1 .. k /\ n \in 1 .. n
        BY <1>1, <1>2, <2>1
      <3>2. table[n] = First + n - 1 /\ table[n + 1] = First + (n + 1) - 1 /\ table[n] = Disc[n]
        BY <1>4, <3>1
      <3>3. Disc[n] \in 1 .. 99
        BY <1>1, <3>1
      <3>4. First + n - 1 \in 1 .. 99
        BY <3>2, <3>3
      <3>6. First + (n + 1) - 1 \in {First, 170}
        BY <1>4, <3>2
      <3>5. First \in 1 .. 99 /\ n \in Nat \ {0}
        BY <1>1
      <3> QED BY <3>4, <3>5, <3>6
    <2>2. k <= n
      BY <1>1, <1>2, <2>1
    <2>3. \A j \in 1 .. k : j \in 1 .. n
      BY <1>1, <1>2, <2>2
    <2> QED BY <1>4, <2>2, <2>3 DEF n
  <1>5. CASE table[1] = First /\ Len(table) >= 2 /\ table[2] \in {First, 170}
    <2>1. ASSUME k >= 2 PROVE FALSE
      <3>1. 2 \in 1 .. k
        BY <1>2, <2>1
      <3>2. First + 2 - 1 \in {First, 170} /\ First \in 1 .. 99
        BY <1>1, <1>5, <3>1
      <3> QED BY <3>2
    <2>2. k = 1
      BY <1>2, <2>1
    <2>3. 1 <= n /\ \A j \in 1 .. 1 : table[j] = Disc[j]
      BY <1>1, <1>5
    <2> QED BY <2>2, <2>3 DEF n
  <1>6. \/ \E m \in 0 .. n : table = SubSeq(Disc, 1, m)
        \/ table = Disc \o <<170>> \/ table = Disc \o Disc \/ table = Disc \o <<170, 170>>
        \/ table = <<First>> \o Disc \o <<170>>
        \/ table = <<First, 170>> \o Tail(Disc) \o <<170>>
    BY <1>1, <1>2, ZenonT(30) DEF Tables, n
  <1>7. ASSUME NEW more \in Seq(Nat), Len(more) \in Nat \ {0}, more[1] \in {First, 170}, table = Disc \o more
        PROVE  k <= Len(Disc) /\ \A j \in 1 .. k : table[j] = Disc[j]
    <2>1. 1 \in 1 .. Len(more)
      BY <1>7
    <2>2. Len(table) = n + Len(more) /\ (\A j \in 1 .. n : table[j] = Disc[j]) /\ table[n + 1] = more[1]
      BY <1>1, <1>7, <2>1, Joined DEF n
    <2>3. Len(table) > n
      BY <1>1, <1>7, <2>2
    <2> QED BY <1>4, <1>7, <2>2, <2>3
  <1>8. ASSUME NEW u \in Seq(Nat), NEW more \in Seq(Nat), Len(u) \in Nat, Len(u) >= 2,
               u[1] = First, u[2] \in {First, 170}, table = u \o more
        PROVE  k <= Len(Disc) /\ \A j \in 1 .. k : table[j] = Disc[j]
    <2>1. 1 \in 1 .. Len(u) /\ 2 \in 1 .. Len(u)
      BY <1>8
    <2>2. Len(table) = Len(u) + Len(more) /\ Len(more) \in Nat /\ table[1] = u[1] /\ table[2] = u[2]
      BY <1>8, <2>1, Joined
    <2>3. Len(table) >= 2
      BY <1>8, <2>2
    <2> QED BY <1>5, <1>8, <2>2, <2>3
  <1>9. CASE table = Disc \o <<170>>
    <2> DEFINE more == <<170>>
    <2>1. more \in Seq(Nat) /\ Len(more) = 1 /\ more[1] = 170 /\ table = Disc \o more
      BY <1>9
    <2> HIDE DEF more
    <2>2. Len(more) \in Nat \ {0} /\ more[1] \in {First, 170}
      BY <2>1
    <2> QED BY <1>7, <2>1, <2>2
  <1>10. CASE table = Disc \o <<170, 170>>
    <2> DEFINE more == <<170, 170>>
    <2>1. more \in Seq(Nat) /\ Len(more) = 2 /\ more[1] = 170 /\ table = Disc \o more
      BY <1>10
    <2> HIDE DEF more
    <2>2. Len(more) \in Nat \ {0} /\ more[1] \in {First, 170}
      BY <2>1
    <2> QED BY <1>7, <2>1, <2>2
  <1>11. CASE table = Disc \o Disc
    <2>1. Len(Disc) \in Nat \ {0}
      BY <1>1 DEF n
    <2> QED BY <1>1, <1>7, <1>11, <2>1
  <1>12. CASE table = <<First>> \o Disc \o <<170>>
    <2> DEFINE one == <<First>>
               u == one \o Disc
               more == <<170>>
    <2>1. more \in Seq(Nat) /\ one \in Seq(Nat) /\ Len(one) = 1 /\ one[1] = First
      BY <1>1
    <2> HIDE DEF one
    <2>2. 1 \in 1 .. Len(one) /\ 1 \in 1 .. Len(Disc)
      BY <1>1, <2>1 DEF n
    <2>3. u \in Seq(Nat) /\ Len(u) = 1 + n /\ u[1] = First /\ u[1 + 1] = Disc[1]
      <3>1. /\ u \in Seq(Nat) /\ Len(u) = Len(one) + Len(Disc)
            /\ (\A i \in 1 .. Len(one) : u[i] = one[i])
            /\ (\A i \in 1 .. Len(Disc) : u[Len(one) + i] = Disc[i])
        <4>0. one \in Seq(Nat) /\ Disc \in Seq(Nat)
          BY <1>1, <2>1
        <4>1. u \in Seq(Nat)
          BY <4>0, Joined
        <4>2. Len(u) = Len(one) + Len(Disc)
          BY <4>0, Joined
        <4>3. \A i \in 1 .. Len(one) : u[i] = one[i]
          BY <4>0, Joined
        <4>4. \A i \in 1 .. Len(Disc) : u[Len(one) + i] = Disc[i]
          BY <4>0, Joined
        <4> QED BY <4>1, <4>2, <4>3, <4>4
      <3> HIDE DEF u
      <3> QED BY <2>1, <2>2, <3>1 DEF n
    <2>4. table = u \o more
      BY <1>12 DEF one
    <2> HIDE DEF u, more
    <2>5. Len(u) \in Nat /\ Len(u) >= 2 /\ u[2] = First
      BY <1>1, <2>3
    <2> QED BY <1>8, <2>1, <2>3, <2>4, <2>5
  <1>13. CASE table = <<First, 170>> \o Tail(Disc) \o <<170>>
    <2> DEFINE two == <<First, 170>>
               rest == Tail(Disc)
               u == two \o rest
               more == <<170>>
    <2>1. two \in Seq(Nat) /\ Len(two) = 2 /\ two[1] = First /\ two[2] = 170 /\ more \in Seq(Nat)
      BY <1>1
    <2>2. rest \in Seq(Nat)
      BY PacketAssumption, <1>1
    <2> HIDE DEF two, rest
    <2>3. 1 \in 1 .. Len(two) /\ 2 \in 1 .. Len(two)
      BY <2>1
    <2>4. u \in Seq(Nat) /\ Len(u) = 2 + Len(rest) /\ Len(rest) \in Nat /\ u[1] = First /\ u[2] = 170
      <3>1. /\ u \in Seq(Nat) /\ Len(u) = Len(two) + Len(rest) /\ Len(rest) \in Nat
            /\ \A i \in 1 .. Len(two) : u[i] = two[i]
        <4>0. two \in Seq(Nat) /\ rest \in Seq(Nat)
          BY <2>1, <2>2
        <4>1. u \in Seq(Nat) /\ Len(rest) \in Nat
          BY <4>0, Joined
        <4>2. Len(u) = Len(two) + Len(rest)
          BY <4>0, Joined
        <4>3. \A i \in 1 .. Len(two) : u[i] = two[i]
          BY <4>0, Joined
        <4> QED BY <4>1, <4>2, <4>3
      <3> HIDE DEF u
      <3> QED BY <2>1, <2>3, <3>1
    <2>5. table = u \o more
      BY <1>13 DEF two, rest
    <2> HIDE DEF u, more
    <2>6. Len(u) \in Nat /\ Len(u) >= 2
      BY <2>4
    <2> QED BY <1>8, <2>1, <2>4, <2>5, <2>6, ZenonT(30)
  <1> QED BY <1>3, <1>6, <1>9, <1>10, <1>11, <1>12, <1>13

\* As many of them as the header says are all of the disc.
LEMMA AllOfDisc ==
  ASSUME NEW table \in Tables, NEW k \in 1 .. Len(table), NEW tracks \in Seq(Nat),
         Len(tracks) = k, \A j \in 1 .. k : tracks[j] = table[j] /\ table[j] = First + j - 1,
         First + k - 1 = Final
  PROVE  tracks = Disc
  <1> DEFINE n == Len(Disc)
  <1>1. /\ Disc \in Seq(Nat) /\ n \in Nat \ {0} /\ Final = Disc[n]
        /\ \A i, j \in 1 .. n : i < j => Disc[i] < Disc[j]
    BY DiscFacts DEF Final
  <1>2. k <= n /\ \A j \in 1 .. k : table[j] = Disc[j]
    BY AscendingIsDisc
  <1>3. k \in Nat \ {0} /\ k \in 1 .. k /\ First \in Nat
    BY TableTypes, DiscFacts
  <1>4. Disc[k] = Final
    BY <1>2, <1>3
  <1>5. k = n
    <2>1. ASSUME k < n PROVE FALSE
      <3>1. k \in 1 .. n /\ n \in 1 .. n
        BY <1>1, <1>3, <2>1
      <3>2. Disc[k] < Disc[n] /\ Disc[n] \in Nat
        BY <1>1, <2>1, <3>1
      <3> QED BY <1>1, <1>4, <3>2
    <2> QED BY <1>1, <1>2, <1>3, <2>1
  <1>6. \A j \in 1 .. n : tracks[j] = Disc[j]
    BY <1>2, <1>5
  <1> QED BY <1>1, <1>5, <1>6, SeqEqual

-----------------------------------------------------------------------------
(* The invariant *)

\* The drive asserts DRQ, and the flush goes by it.
Asserts == "no_drq_in_toc" \notin quirks
Emptied == ~bsy /\ pend = <<>>
\* A good read came last: from then on whoever has the semaphore empties the drive.
Good == toc # <<>> /\ Asserts

ReadTypes == [attempts : Nat, success : BOOLEAN, tracks : Seq(Nat), i : Nat, last : Nat,
              lastTrk : Nat, held : Nat]

\* k entries of the table were read, and they ascend.
ReadUpTo(table, k) ==
  /\ k <= Len(table) /\ Len(pend) = 2 * (Len(table) - k)
  /\ \A m \in k + 1 .. Len(table) : pend[2 * (m - k) - 1] = Unit("track", table[m], 0)
  /\ Len(rd.tracks) = k
  /\ \A j \in 1 .. k : rd.tracks[j] = table[j] /\ table[j] = First + j - 1
  /\ rd.lastTrk = First + k - 1 /\ rd.i = First + k /\ rd.i <= Final + 1

\* Before an entry: so many were read, or the next makes no sense, because there is no
\* more of the answer and what the register holds was taken for an entry once already,
\* or because of the lead-out.
BeforeEntry ==
  /\ rd.last = Final
  /\ \/ \E table \in Tables, k \in Nat : ReadUpTo(table, k) /\ ~rd.success
     \/ pend = <<>> /\ rd.lastTrk = rd.held /\ rd.lastTrk # LeadOut
     \/ rd.lastTrk = LeadOut

SuccessIsDisc == rd.success => rd.tracks = Disc

\* What is certain at each place of the one who has the semaphore.
Holds(x) ==
  \/ x = "clean" /\ (Good => Emptied)
  \/ x = "told" /\ (Good => pend = <<>> /\ (bsy => cmd \in Orders))
  \/ x = "asked"
  \/ x = "there" /\ (Good => ~bsy)
  \/ x = "toc" /\ ~rd.success
  \/ x \in {"asks", "answer"} /\ ~rd.success /\ rd.tracks = <<>>
  \/ x = "header" /\ ~rd.success /\ rd.tracks = <<>> /\ ~bsy
  \/ x = "entry" /\ ~bsy /\ BeforeEntry
  \/ x = "draining" /\ ~bsy /\ SuccessIsDisc
  \/ x = "verdict" /\ ~bsy /\ SuccessIsDisc /\ (rd.success /\ Asserts => pend = <<>>)

\* Nothing of the drive is known before it is identified.
Cold(t) == t = Main /\ ~booted /\ quirks = {} /\ toc = <<>>

AtPlace(t, x) ==
  \/ x = "out" /\ sem # t
  \/ x = "cold" /\ sem # t /\ Cold(t)
  \/ x = "booting" /\ sem = t /\ Cold(t)
  \/ x \notin {"out", "cold", "booting"} /\ sem = t /\ Holds(x)

DeviceInv ==
  /\ sem \in Tasks \cup {NoTask}
  /\ pend \in Seq(Units) /\ WholeToc(pend)
  /\ rd \in ReadTypes
  /\ toc \in {<<>>, Disc}
  /\ Asserts => ~silent
  /\ sem = NoTask /\ Good => Emptied

TasksInv ==
  /\ todo \in [Tasks -> Seq(Calls)]
  /\ ~booted => \A t \in Tasks \ {Main} : todo[t] = <<>>
  /\ \A t \in Tasks : \E x \in Places : Going(todo[t], x, "out") /\ AtPlace(t, x)

PacketInv == DeviceInv /\ TasksInv

-----------------------------------------------------------------------------
(* Steps of a task *)

\* The next call of a task is one that leads from the place where it is.
LEMMA NextCall ==
  ASSUME PacketInv, NEW t \in Tasks, todo[t] # <<>>
  PROVE  /\ Rest(t) \in Seq(Calls)
         /\ \E x \in Places, y \in Places :
              Goes(x, Next1(t), y) /\ AtPlace(t, x) /\ Going(Rest(t), y, "out")
  <1>1. todo[t] \in Seq(Calls)
    BY DEF PacketInv, TasksInv
  <1>2. PICK x \in Places : Going(todo[t], x, "out") /\ AtPlace(t, x)
    BY DEF PacketInv, TasksInv
  <1>3. /\ Tail(todo[t]) \in Seq(Calls)
        /\ \E y \in Places : /\ <<x, todo[t][1], y>> \in PlaceRules
                             /\ Path(Tail(todo[t]), y, "out", Places, PlaceRules)
    BY <1>1, <1>2, PathStep DEF Going
  <1>4. PICK y \in Places : <<x, todo[t][1], y>> \in PlaceRules /\ Going(Tail(todo[t]), y, "out")
    BY <1>3 DEF Going
  <1>5. Goes(x, todo[t][1], y)
    BY <1>4 DEF PlaceRules
  <1> QED BY <1>2, <1>3, <1>4, <1>5 DEF Rest, Next1

\* A task with nothing to do has no semaphore.
LEMMA IdleIsOut ==
  ASSUME PacketInv, NEW t \in Tasks, todo[t] = <<>>
  PROVE  AtPlace(t, "out")
  <1>1. PICK x \in Places : Going(todo[t], x, "out") /\ AtPlace(t, x)
    BY DEF PacketInv, TasksInv
  <1>2. x = "out"
    BY <1>1, PathOver DEF Going
  <1> QED BY <1>1, <1>2

\* While one task has the semaphore, or takes it, the others stay without.
LEMMA OthersStayOut ==
  ASSUME PacketInv, NEW t \in Tasks, todo[t] # <<>>, sem \in {t, NoTask}, sem' \in {t, NoTask},
         NEW u \in Tasks, u # t, NEW x \in Places, AtPlace(u, x)
  PROVE  AtPlace(u, x)'
  <1>1. u # NoTask /\ sem # u /\ sem' # u
    BY PacketAssumption
  <1>2. ~Cold(u)
    BY DEF PacketInv, TasksInv, Cold
  <1>3. x = "out"
    BY <1>1, <1>2 DEF AtPlace
  <1> QED BY <1>1, <1>3 DEF AtPlace

\* What one without the semaphore does is nothing to the others.
LEMMA OthersStay ==
  ASSUME PacketInv, NEW t \in Tasks, booted \/ (t = Main /\ todo[t] # <<>>),
         UNCHANGED <<sem, rd, toc, driveSide>>, UNCHANGED quirks \/ (t = Main /\ ~booted),
         NEW u \in Tasks, u # t, NEW x \in Places, Going(todo[u], x, "out"), AtPlace(u, x)
  PROVE  AtPlace(u, x)'
  <1>1. UNCHANGED <<sem, rd, toc, cmd, pend, silent>>
    BY DEF driveSide
  <1>2. ~Cold(u)
    BY DEF PacketInv, TasksInv, Cold
  <1>3. CASE x = "out"
    BY <1>1, <1>3 DEF AtPlace
  <1>4. CASE x # "out"
    <2>1. todo[u] # <<>>
      BY <1>4, PathOver DEF Going
    <2>2. booted
      <3>1. CASE t # Main
        BY <3>1
      <3>2. CASE t = Main
        BY <2>1, <3>2 DEF PacketInv, TasksInv
      <3> QED BY <3>1, <3>2
    <2>3. UNCHANGED quirks
      BY <2>2
    <2>4. x \notin {"out", "cold", "booting"} /\ sem = u /\ Holds(x)
      BY <1>2, <1>4 DEF AtPlace
    <2>5. Holds(x)'
      BY <1>1, <2>3, <2>4
         DEF Holds, Good, Asserts, Emptied, bsy, BeforeEntry, ReadUpTo, SuccessIsDisc
    <2> QED BY <1>1, <2>4, <2>5 DEF AtPlace
  <1> QED BY <1>3, <1>4

\* A call of the one who has the semaphore, takes it or gives it back.
LEMMA InsideStep ==
  ASSUME PacketInv, NEW t \in Tasks, todo[t] # <<>>, sem \in {t, NoTask}, sem' \in {t, NoTask},
         UNCHANGED booted, NEW list \in Seq(Calls), Go(t, list),
         NEW y \in Places, Going(list, y, "out"), AtPlace(t, y)', DeviceInv'
  PROVE  PacketInv'
  <1>1. todo \in [Tasks -> Seq(Calls)] /\ todo' = [todo EXCEPT ![t] = list]
    BY DEF Go, PacketInv, TasksInv
  <1>2. todo' \in [Tasks -> Seq(Calls)] /\ todo'[t] = list /\ \A u \in Tasks \ {t} : todo'[u] = todo[u]
    BY <1>1
  <1>3. ~booted => \A u \in Tasks \ {Main} : todo[u] = <<>>
    BY DEF PacketInv, TasksInv
  <1>4. ~booted' => \A u \in Tasks \ {Main} : todo'[u] = <<>>
    BY <1>2, <1>3
  <1>5. ASSUME NEW u \in Tasks
        PROVE  \E x \in Places : Going(todo[u], x, "out")' /\ AtPlace(u, x)'
    <2>1. CASE u = t
      <3>1. Going(todo[u], y, "out")'
        BY <1>2, <2>1 DEF Going
      <3> QED BY <2>1, <3>1
    <2>2. CASE u # t
      <3>1. PICK x \in Places : Going(todo[u], x, "out") /\ AtPlace(u, x)
        BY DEF PacketInv, TasksInv
      <3>2. Going(todo[u], x, "out")'
        BY <1>2, <2>2, <3>1 DEF Going
      <3>3. AtPlace(u, x)'
        BY <2>2, <3>1, OthersStayOut
      <3> QED BY <3>2, <3>3
    <2> QED BY <2>1, <2>2
  <1> QED BY <1>2, <1>4, <1>5 DEF PacketInv, TasksInv

\* A call of one without it.
LEMMA OutsideStep ==
  ASSUME PacketInv, NEW t \in Tasks, booted \/ (t = Main /\ todo[t] # <<>>), booted => booted',
         UNCHANGED <<sem, rd, toc, driveSide>>, UNCHANGED quirks \/ (t = Main /\ ~booted),
         NEW list \in Seq(Calls), Go(t, list),
         NEW y \in Places, Going(list, y, "out"), AtPlace(t, y)', DeviceInv'
  PROVE  PacketInv'
  <1>1. todo \in [Tasks -> Seq(Calls)] /\ todo' = [todo EXCEPT ![t] = list]
    BY DEF Go, PacketInv, TasksInv
  <1>2. todo' \in [Tasks -> Seq(Calls)] /\ todo'[t] = list /\ \A u \in Tasks \ {t} : todo'[u] = todo[u]
    BY <1>1
  <1>3. ~booted => \A u \in Tasks \ {Main} : todo[u] = <<>>
    BY DEF PacketInv, TasksInv
  <1>4. ASSUME ~booted' PROVE \A u \in Tasks \ {Main} : todo'[u] = <<>>
    <2>1. ~booted /\ t = Main
      BY <1>4
    <2> QED BY <1>2, <1>3, <2>1
  <1>5. ASSUME NEW u \in Tasks
        PROVE  \E x \in Places : Going(todo[u], x, "out")' /\ AtPlace(u, x)'
    <2>1. CASE u = t
      <3>1. Going(todo[u], y, "out")'
        BY <1>2, <2>1 DEF Going
      <3> QED BY <2>1, <3>1
    <2>2. CASE u # t
      <3>1. PICK x \in Places : Going(todo[u], x, "out") /\ AtPlace(u, x)
        BY DEF PacketInv, TasksInv
      <3>2. Going(todo[u], x, "out")'
        BY <1>2, <2>2, <3>1 DEF Going
      <3>3. AtPlace(u, x)'
        BY <2>2, <3>1, OthersStay
      <3> QED BY <3>2, <3>3
    <2> QED BY <2>1, <2>2
  <1> QED BY <1>2, <1>4, <1>5 DEF PacketInv, TasksInv

-----------------------------------------------------------------------------
(* The calls *)

LEMMA Take_Packet ==
  ASSUME PacketInv, NEW t \in Tasks, Take(t)
  PROVE  PacketInv'
  <1>1. /\ todo[t] # <<>> /\ Next1(t) = "take" /\ sem = NoTask /\ sem' = t /\ Go(t, Rest(t))
        /\ UNCHANGED <<booted, quirks, rd, toc, cmd, pend, silent>>
    BY DEF Take, At, driveSide
  <1>2. PICK x \in Places, y \in Places :
          Goes(x, "take", y) /\ AtPlace(t, x) /\ Going(Rest(t), y, "out")
    BY <1>1, NextCall
  <1>3. (x = "out" /\ y = "clean") \/ (x = "cold" /\ y = "booting")
    BY <1>2 DEF Goes, Orders, Questions, BootCalls
  <1>4. Good => Emptied
    BY <1>1 DEF PacketInv, DeviceInv
  <1>5. AtPlace(t, y)'
    BY <1>1, <1>2, <1>3, <1>4 DEF AtPlace, Holds, Cold, Good, Asserts, Emptied, bsy
  <1>6. t # NoTask
    BY PacketAssumption
  <1>7. DeviceInv'
    BY <1>1, <1>6 DEF PacketInv, DeviceInv, Good, Asserts, Emptied, bsy
  <1>8. Rest(t) \in Seq(Calls)
    BY <1>1, NextCall
  <1> QED BY <1>1, <1>2, <1>5, <1>7, <1>8, InsideStep

\* Who leaves an emptied drive leaves it to all.
LEMMA Give_Packet ==
  ASSUME PacketInv, NEW t \in Tasks, Give(t)
  PROVE  PacketInv'
  <1>1. /\ todo[t] # <<>> /\ Next1(t) = "give" /\ sem' = NoTask /\ Go(t, Rest(t))
        /\ UNCHANGED <<booted, quirks, rd, toc, cmd, pend, silent>>
    BY DEF Give, At, driveSide
  <1>2. PICK x \in Places, y \in Places :
          Goes(x, "give", y) /\ AtPlace(t, x) /\ Going(Rest(t), y, "out")
    BY <1>1, NextCall
  <1>3. (x = "clean" /\ y = "out") \/ (x = "booting" /\ y = "cold")
    BY <1>2 DEF Goes, Orders, Questions, BootCalls
  <1>4. sem = t /\ (Good => Emptied)
    BY <1>2, <1>3 DEF AtPlace, Holds, Cold, Good
  <1>5. t # NoTask
    BY PacketAssumption
  <1>6. AtPlace(t, y)'
    BY <1>1, <1>2, <1>3, <1>5 DEF AtPlace, Cold
  <1>7. DeviceInv'
    BY <1>1, <1>4 DEF PacketInv, DeviceInv, Good, Asserts, Emptied, bsy
  <1>8. Rest(t) \in Seq(Calls)
    BY <1>1, NextCall
  <1> QED BY <1>1, <1>2, <1>4, <1>6, <1>7, <1>8, InsideStep

LEMMA SendPacket_Packet ==
  ASSUME PacketInv, NEW t \in Tasks, SendPacket(t)
  PROVE  PacketInv'
  <1> DEFINE c == Next1(t)
  <1>1. /\ todo[t] # <<>> /\ c \in Commands /\ Go(t, Rest(t))
        /\ UNCHANGED <<sem, booted, quirks, silent, rd, toc>>
        /\ (cmd' = c /\ pend' = <<>>) \/ (pend # <<>> /\ UNCHANGED <<cmd, pend>>)
    BY DEF SendPacket
  <1>2. PICK x \in Places, y \in Places :
          Goes(x, c, y) /\ AtPlace(t, x) /\ Going(Rest(t), y, "out")
    BY <1>1, NextCall
  <1> HIDE DEF c
  <1>3. \/ x = "clean" /\ y = "told" /\ c \in Orders
        \/ x = "clean" /\ y = "asked"
        \/ x = "booting" /\ y = "booting"
        \/ x = "asks" /\ y = "answer"
    BY <1>1, <1>2 DEF Goes, Commands, Orders, Questions, BootCalls
  <1>4. sem = t
    BY <1>2, <1>3 DEF AtPlace
  <1>5. AtPlace(t, y)'
    <2>1. CASE x = "clean" /\ y = "told" /\ c \in Orders
      <3>1. Good => pend = <<>>
        BY <1>2, <2>1 DEF AtPlace, Holds, Emptied
      <3>2. Good' => Good
        BY <1>1 DEF Good, Asserts
      <3>3. Good' => cmd' = c /\ pend' = <<>>
        BY <1>1, <3>1, <3>2
      <3>4. Holds("told")'
        BY <2>1, <3>3 DEF Holds
      <3> QED BY <1>1, <1>4, <2>1, <3>4 DEF AtPlace
    <2>2. CASE x = "clean" /\ y = "asked"
      BY <1>1, <1>4, <2>2 DEF AtPlace, Holds
    <2>3. CASE x = "booting" /\ y = "booting"
      BY <1>1, <1>2, <2>3 DEF AtPlace, Cold
    <2>4. CASE x = "asks" /\ y = "answer"
      <3>1. ~rd.success /\ rd.tracks = <<>>
        BY <1>2, <2>4 DEF AtPlace, Holds
      <3> QED BY <1>1, <1>4, <2>4, <3>1 DEF AtPlace, Holds
    <2> QED BY <1>3, <2>1, <2>2, <2>3, <2>4
  <1>6. sem # NoTask
    BY <1>4, PacketAssumption
  <1>7. pend' \in Seq(Units) /\ WholeToc(pend)'
    <2>1. CASE pend' = <<>>
      BY <2>1, NoAnswer DEF WholeToc
    <2>2. CASE pend' = pend
      BY <2>2 DEF PacketInv, DeviceInv, WholeToc
    <2> QED BY <1>1, <2>1, <2>2
  <1>8. DeviceInv'
    BY <1>1, <1>6, <1>7 DEF PacketInv, DeviceInv, Asserts
  <1>9. Rest(t) \in Seq(Calls)
    BY <1>1, NextCall
  <1> QED BY <1>1, <1>2, <1>4, <1>5, <1>8, <1>9, InsideStep

LEMMA Wait_Packet ==
  ASSUME PacketInv, NEW t \in Tasks, Wait(t)
  PROVE  PacketInv'
  <1> DEFINE c == Next1(t)
  <1>1. /\ todo[t] # <<>> /\ c \in {"not_busy", "drq", "no_drq"} /\ Go(t, Rest(t))
        /\ c = "not_busy" => ~bsy
        /\ UNCHANGED <<sem, booted, quirks, rd, toc, cmd, pend, silent>>
    BY DEF Wait, At, driveSide
  <1>2. PICK x \in Places, y \in Places :
          Goes(x, c, y) /\ AtPlace(t, x) /\ Going(Rest(t), y, "out")
    BY <1>1, NextCall
  <1> HIDE DEF c
  <1>3. \/ x = "told" /\ y = "clean" /\ ~bsy
        \/ x = "asked" /\ y = "there" /\ ~bsy
        \/ x = "answer" /\ y = "header" /\ ~bsy
        \/ x = y /\ x \in {"booting", "there", "header", "entry"}
    BY <1>1, <1>2 DEF Goes, Orders, Questions, BootCalls
  <1>4. sem = t
    BY <1>2, <1>3 DEF AtPlace
  <1>5. AtPlace(t, x)'
    BY <1>1, <1>2
       DEF AtPlace, Cold, Holds, Good, Asserts, Emptied, bsy, BeforeEntry, ReadUpTo, SuccessIsDisc
  <1>6. AtPlace(t, y)'
    <2>1. CASE x = "told" /\ y = "clean" /\ ~bsy
      BY <1>5, <2>1, <1>1, <1>4 DEF AtPlace, Holds, Emptied, bsy
    <2>2. CASE x = "asked" /\ y = "there" /\ ~bsy
      BY <2>2, <1>1, <1>4 DEF AtPlace, Holds, bsy
    <2>3. CASE x = "answer" /\ y = "header" /\ ~bsy
      <3>1. ~rd.success /\ rd.tracks = <<>>
        BY <1>2, <2>3 DEF AtPlace, Holds
      <3> QED BY <1>1, <1>4, <2>3, <3>1 DEF AtPlace, Holds, bsy
    <2> QED BY <1>3, <1>5, <2>1, <2>2, <2>3
  <1>7. DeviceInv'
    BY <1>1 DEF PacketInv, DeviceInv, WholeToc, Good, Asserts, Emptied, bsy
  <1>8. Rest(t) \in Seq(Calls)
    BY <1>1, NextCall
  <1> QED BY <1>1, <1>2, <1>4, <1>6, <1>7, <1>8, InsideStep

LEMMA Boot_Packet ==
  ASSUME PacketInv, NEW t \in Tasks, Boot(t)
  PROVE  PacketInv'
  <1>1. Go(t, Rest(t)) /\ UNCHANGED <<sem, rd, toc>> /\ todo[t] # <<>>
    BY DEF Boot, At
  <1>2. Rest(t) \in Seq(Calls)
    BY <1>1, NextCall
  <1>3. CASE /\ Next1(t) = "ide_reset" /\ cmd' = NoCommand /\ pend' = <<>> /\ silent' = FALSE
             /\ UNCHANGED <<booted, quirks>>
    <2>1. PICK x \in Places, y \in Places :
            Goes(x, "ide_reset", y) /\ AtPlace(t, x) /\ Going(Rest(t), y, "out")
      BY <1>1, <1>3, NextCall
    <2>2. x = "booting" /\ y = "booting"
      BY <2>1 DEF Goes, Orders, Questions
    <2>3. AtPlace(t, y)' /\ sem = t /\ toc = <<>>
      BY <1>1, <1>3, <2>1, <2>2 DEF AtPlace, Cold
    <2>4. DeviceInv'
      BY <1>1, <1>3, <2>3, NoAnswer DEF PacketInv, DeviceInv, WholeToc, Good
    <2> QED BY <1>1, <1>2, <1>3, <2>1, <2>3, <2>4, InsideStep
  <1>4. CASE Next1(t) = "look_up_quirks" /\ UNCHANGED <<booted, driveSide>>
    <2>1. PICK x \in Places, y \in Places :
            Goes(x, "look_up_quirks", y) /\ AtPlace(t, x) /\ Going(Rest(t), y, "out")
      BY <1>1, <1>4, NextCall
    <2>2. x = "cold" /\ y = "out"
      BY <2>1 DEF Goes, Orders, Questions, BootCalls
    <2>3. sem # t /\ t = Main /\ ~booted /\ quirks = {} /\ toc = <<>>
      BY <2>1, <2>2 DEF AtPlace, Cold
    <2>4. AtPlace(t, y)'
      BY <1>1, <2>2, <2>3 DEF AtPlace
    <2>5. ~silent /\ UNCHANGED <<pend, silent>>
      BY <1>4, <2>3 DEF PacketInv, DeviceInv, Asserts, driveSide
    <2>6. DeviceInv'
      BY <1>1, <2>3, <2>5 DEF PacketInv, DeviceInv, WholeToc, Good
    <2> QED BY <1>1, <1>2, <1>4, <2>1, <2>3, <2>4, <2>6, OutsideStep
  <1>5. CASE Next1(t) = "booted" /\ booted' = TRUE /\ UNCHANGED <<quirks, driveSide>>
    <2>1. PICK x \in Places, y \in Places :
            Goes(x, "booted", y) /\ AtPlace(t, x) /\ Going(Rest(t), y, "out")
      BY <1>1, <1>5, NextCall
    <2>2. x = "out" /\ y = "out"
      BY <2>1 DEF Goes, Orders, Questions, BootCalls
    <2>3. AtPlace(t, y)'
      BY <1>1, <2>1, <2>2 DEF AtPlace
    <2>4. DeviceInv'
      BY <1>1, <1>5 DEF PacketInv, DeviceInv, WholeToc, Good, Asserts, Emptied, bsy, driveSide
    <2>5. booted \/ t = Main
      BY <1>1 DEF PacketInv, TasksInv
    <2> QED BY <1>1, <1>2, <1>5, <2>1, <2>3, <2>4, <2>5, OutsideStep
  <1> QED BY <1>3, <1>4, <1>5 DEF Boot, At

-----------------------------------------------------------------------------
(* Reading a response *)

LEMMA LeftIs ==
  ASSUME pend \in Seq(Units), WholeToc(pend), NEW n \in 1 .. 2
  PROVE  /\ Left(n) \in Seq(Units) /\ WholeToc(Left(n))
         /\ n <= Len(pend) => Len(Left(n)) = Len(pend) - n
         /\ n <= Len(pend) => \A i \in 1 .. Len(pend) - n : Left(n)[i] = pend[i + n]
         /\ pend = <<>> => Left(n) = <<>>
  <1> DEFINE m == Len(pend)
             l == SubSeq(pend, n + 1, m)
  <1>1. m \in Nat /\ l \in Seq(Units)
    OBVIOUS
  <1>2. n <= m => Len(l) = m - n /\ \A i \in 1 .. m - n : l[i] = pend[i + n]
    BY <1>1
  <1>3. m < n => l = <<>>
    BY <1>1
  <1>4. pend = <<>> => m < n
    OBVIOUS
  <1>5. \A i \in 2 .. m : pend[i].kind # "range"
    BY DEF WholeToc
  <1>6. WholeToc(l)
    <2>1. CASE m < n
      BY <1>3, <2>1, NoAnswer
    <2>2. CASE n <= m
      <3>1. ASSUME NEW i \in 1 .. Len(l) PROVE l[i].kind # "range"
        <4>1. i \in 1 .. m - n /\ i + n \in 2 .. m /\ l[i] = pend[i + n]
          BY <1>1, <1>2, <2>2
        <4> QED BY <1>5, <4>1
      <3> QED BY <1>1, <3>1, OtherAnswer
    <2> QED BY <1>1, <2>1, <2>2
  <1> QED BY <1>1, <1>2, <1>3, <1>4, <1>6 DEF Left

LEMMA ReadResponse_Packet ==
  ASSUME PacketInv, NEW t \in Tasks, ReadResponse(t)
  PROVE  PacketInv'
  <1> DEFINE c == Next1(t)
  <1>1. /\ todo[t] # <<>> /\ c \in {"read", "read_all", "drain"} /\ Go(t, Rest(t))
        /\ pend' \in {Left(1), <<>>, pend}
        /\ c = "read_all" => pend' = IF DRQ THEN <<>> ELSE Left(1)
        /\ c = "drain" => pend' = IF DRQ THEN <<>> ELSE pend
        /\ UNCHANGED <<sem, booted, quirks, rd, toc, cmd, silent>>
    BY DEF ReadResponse, At
  <1>2. PICK x \in Places, y \in Places :
          Goes(x, c, y) /\ AtPlace(t, x) /\ Going(Rest(t), y, "out")
    BY <1>1, NextCall
  <1> HIDE DEF c
  <1>3. \/ c = "read" /\ x = "there" /\ y = "there"
        \/ c \in {"read_all", "drain"} /\ x \in {"there", "clean"} /\ y = "clean"
        \/ c = "drain" /\ x = "draining" /\ y = "verdict"
        \/ x = "booting" /\ y = "booting"
    BY <1>1, <1>2 DEF Goes, Orders, Questions, BootCalls
  <1>4. sem = t
    BY <1>2, <1>3 DEF AtPlace
  <1>5. pend \in Seq(Units) /\ WholeToc(pend) /\ (Asserts => ~silent)
    BY DEF PacketInv, DeviceInv
  <1>6. pend = <<>> => Left(1) = <<>>
    BY <1>5, LeftIs
  <1>7. Asserts /\ ~bsy /\ c \in {"read_all", "drain"} => pend' = <<>>
    BY <1>1, <1>5, <1>6 DEF DRQ
  <1>8. AtPlace(t, y)'
    <2>1. CASE c = "read" /\ x = "there" /\ y = "there"
      BY <1>1, <1>2, <1>4, <2>1 DEF AtPlace, Holds, Good, Asserts, bsy
    <2>2. CASE c \in {"read_all", "drain"} /\ x \in {"there", "clean"} /\ y = "clean"
      <3>1. Good => ~bsy
        BY <1>2, <2>2 DEF AtPlace, Holds, Emptied
      <3>2. Good' => Good /\ Asserts
        BY <1>1 DEF Good, Asserts
      <3>3. Good' => Emptied'
        BY <1>1, <1>7, <2>2, <3>1, <3>2 DEF Emptied, bsy
      <3> QED BY <1>1, <1>4, <2>2, <3>3 DEF AtPlace, Holds
    <2>3. CASE c = "drain" /\ x = "draining" /\ y = "verdict"
      <3>1. ~bsy /\ SuccessIsDisc
        BY <1>2, <2>3 DEF AtPlace, Holds
      <3>2. ~bsy' /\ SuccessIsDisc'
        BY <1>1, <3>1 DEF bsy, SuccessIsDisc
      <3>3. (rd.success /\ Asserts => pend = <<>>)'
        BY <1>1, <1>7, <2>3, <3>1 DEF Asserts
      <3> QED BY <1>1, <1>4, <2>3, <3>2, <3>3 DEF AtPlace, Holds
    <2>4. CASE x = "booting" /\ y = "booting"
      BY <1>1, <1>2, <2>4 DEF AtPlace, Cold
    <2> QED BY <1>3, <2>1, <2>2, <2>3, <2>4
  <1>9. sem # NoTask
    BY <1>4, PacketAssumption
  <1>10. pend' \in Seq(Units) /\ WholeToc(pend)'
    <2>1. Left(1) \in Seq(Units) /\ WholeToc(Left(1))
      <3>1. 1 \in 1 .. 2
        OBVIOUS
      <3> QED BY <1>5, <3>1, LeftIs
    <2>2. pend' \in Seq(Units) /\ WholeToc(pend')
      BY <1>1, <1>5, <2>1, NoAnswer
    <2> QED BY <2>2 DEF WholeToc
  <1>11. DeviceInv'
    BY <1>1, <1>9, <1>10 DEF PacketInv, DeviceInv, Asserts
  <1>12. Rest(t) \in Seq(Calls)
    BY <1>1, NextCall
  <1> QED BY <1>1, <1>2, <1>4, <1>8, <1>11, <1>12, InsideStep

-----------------------------------------------------------------------------
(* The methods without the semaphore *)

\* Pushing calls that lead back to "out" before what is left to do.
LEMMA PushOutside ==
  ASSUME PacketInv, NEW t \in Tasks, todo[t] # <<>>, AtPlace(t, "out"), UNCHANGED booted,
         UNCHANGED <<sem, quirks, rd, toc, driveSide>>,
         Rest(t) \in Seq(Calls), Going(Rest(t), "out", "out"),
         NEW list \in Seq(Calls), Going(list, "out", "out"), Go(t, list \o Rest(t))
  PROVE  PacketInv'
  <1>1. list \o Rest(t) \in Seq(Calls) /\ Going(list \o Rest(t), "out", "out")
    BY BothGo
  <1>2. AtPlace(t, "out")'
    BY DEF AtPlace
  <1>3. booted \/ (t = Main /\ todo[t] # <<>>)
    BY DEF PacketInv, TasksInv
  <1>4. DeviceInv'
    BY DEF PacketInv, DeviceInv, WholeToc, Good, Asserts, Emptied, bsy, driveSide
  <1>5. "out" \in Places
    BY DEF Places
  <1> HIDE DEF Go, Going, DeviceInv, PacketInv, AtPlace
  <1> QED BY <1>1, <1>2, <1>3, <1>4, <1>5, OutsideStep

\* The same of one who has the semaphore and keeps it.
LEMMA PushInside ==
  ASSUME PacketInv, NEW t \in Tasks, todo[t] # <<>>, sem = t, UNCHANGED <<sem, booted>>,
         Rest(t) \in Seq(Calls), NEW y \in Places, Going(Rest(t), y, "out"),
         NEW z \in Places, AtPlace(t, z)', DeviceInv',
         NEW list \in Seq(Calls), Going(list, z, y), Go(t, list \o Rest(t))
  PROVE  PacketInv'
  <1>1. list \o Rest(t) \in Seq(Calls) /\ Going(list \o Rest(t), z, "out")
    BY BothGo
  <1>2. sem \in {t, NoTask} /\ sem' \in {t, NoTask}
    OBVIOUS
  <1> HIDE DEF Go, Going, DeviceInv, PacketInv, AtPlace
  <1> QED BY <1>1, <1>2, InsideStep

LEMMA SelectOnce_Packet ==
  ASSUME PacketInv, NEW t \in Tasks, SelectOnce(t)
  PROVE  PacketInv'
  <1> DEFINE list == IF selected THEN <<>> ELSE mode_select \o mode_select
  <1>1. /\ todo[t] # <<>> /\ Next1(t) = "select_once" /\ Go(t, list \o Rest(t))
        /\ UNCHANGED booted /\ UNCHANGED <<sem, quirks, rd, toc, driveSide>>
    BY DEF SelectOnce, At
  <1>2. PICK x \in Places, y \in Places :
          Goes(x, "select_once", y) /\ AtPlace(t, x) /\ Going(Rest(t), y, "out")
    BY <1>1, NextCall
  <1>3. x = "out" /\ y = "out"
    BY <1>2 DEF Goes, Orders, Questions, BootCalls
  <1>4. Going(mode_select \o mode_select, "out", "out") /\ mode_select \o mode_select \in Seq(Calls)
    BY mode_select_Goes, BothGo
  <1>5. Going(<<>>, "out", "out") /\ <<>> \in Seq(Calls)
    BY NoneGoes DEF Places
  <1>6. list \in Seq(Calls) /\ Going(list, "out", "out")
    BY <1>4, <1>5
  <1>7. Rest(t) \in Seq(Calls)
    BY <1>1, NextCall
  <1> HIDE DEF list
  <1> QED BY <1>1, <1>2, <1>3, <1>6, <1>7, PushOutside

LEMMA ModeSelect_Packet ==
  ASSUME PacketInv, NEW t \in Tasks, ModeSelect(t)
  PROVE  PacketInv'
  <1>1. PICK supported \in BOOLEAN : Go(t, (IF supported THEN mode_write ELSE <<>>) \o Rest(t))
    BY DEF ModeSelect
  <1> DEFINE list == IF supported THEN mode_write ELSE <<>>
  <1>2. /\ todo[t] # <<>> /\ Next1(t) = "if_page" /\ Go(t, list \o Rest(t))
        /\ UNCHANGED booted /\ UNCHANGED <<sem, quirks, rd, toc, driveSide>>
    BY <1>1 DEF ModeSelect, At
  <1>3. PICK x \in Places, y \in Places :
          Goes(x, "if_page", y) /\ AtPlace(t, x) /\ Going(Rest(t), y, "out")
    BY <1>2, NextCall
  <1>4. x = "out" /\ y = "out"
    BY <1>3 DEF Goes, Orders, Questions, BootCalls
  <1>5. Going(<<>>, "out", "out") /\ <<>> \in Seq(Calls)
    BY NoneGoes DEF Places
  <1>6. list \in Seq(Calls) /\ Going(list, "out", "out")
    BY <1>5, mode_select_Goes
  <1>7. Rest(t) \in Seq(Calls)
    BY <1>2, NextCall
  <1> HIDE DEF list
  <1> QED BY <1>2, <1>3, <1>4, <1>6, <1>7, PushOutside

\* What the one with the semaphore leaves alone.
LEMMA NothingRead ==
  ASSUME DeviceInv, NEW t \in Tasks, sem = t, UNCHANGED <<sem, quirks, rd, toc, driveSide>>
  PROVE  DeviceInv'
  BY DEF DeviceInv, WholeToc, Good, Asserts, Emptied, bsy, driveSide

LEMMA WaitReady_Packet ==
  ASSUME PacketInv, NEW t \in Tasks, WaitReady(t)
  PROVE  PacketInv'
  <1>1. UNCHANGED <<sem, booted>> /\ UNCHANGED <<sem, quirks, rd, toc, driveSide>> /\ todo[t] # <<>>
    BY DEF WaitReady, At
  <1>2. Rest(t) \in Seq(Calls)
    BY <1>1, NextCall
  <1>3. CASE /\ Next1(t) = "sense"
             /\ Go(t, send_packet("REQUEST_SENSE") \o <<"read_all", "sense_again">> \o Rest(t))
    <2> DEFINE p == send_packet("REQUEST_SENSE")
               q == <<"read_all", "sense_again">>
    <2>1. PICK x \in Places, y \in Places :
            Goes(x, "sense", y) /\ AtPlace(t, x) /\ Going(Rest(t), y, "out")
      BY <1>1, <1>3, NextCall
    <2>2. x = "clean" /\ y = "clean"
      BY <2>1 DEF Goes, Orders, Questions, BootCalls
    <2>3. Going(p, "clean", "there") /\ p \in Seq(Calls)
      BY Question_Goes DEF Questions
    <2>4. /\ {"there", "clean"} \subseteq Places
          /\ Goes("there", "read_all", "clean") /\ Goes("clean", "sense_again", "clean")
      BY DEF Places, Goes
    <2>5. Going(q, "there", "clean") /\ q \in Seq(Calls)
      BY <2>4, TwoGo
    <2> HIDE DEF p, q
    <2>6. Going(p \o q, "clean", "clean") /\ p \o q \in Seq(Calls)
      BY <2>3, <2>5, BothGo
    <2>7. AtPlace(t, "clean")' /\ sem = t
      BY <1>1, <2>1, <2>2 DEF AtPlace, Holds, Good, Asserts, Emptied, bsy, driveSide
    <2>8. DeviceInv'
      BY <1>1, <2>7, NothingRead DEF PacketInv
    <2>9. Go(t, p \o q \o Rest(t))
      BY <1>3 DEF p, q
    <2> QED BY <1>1, <1>2, <2>1, <2>2, <2>6, <2>7, <2>8, <2>9, PushInside
  <1>4. CASE /\ Next1(t) = "sense_again"
             /\ Go(t, (IF notReady THEN <<"sense">> ELSE <<>>) \o Rest(t))
    <2> DEFINE list == IF notReady THEN <<"sense">> ELSE <<>>
    <2>1. PICK x \in Places, y \in Places :
            Goes(x, "sense_again", y) /\ AtPlace(t, x) /\ Going(Rest(t), y, "out")
      BY <1>1, <1>4, NextCall
    <2>2. x = "clean" /\ y = "clean"
      BY <2>1 DEF Goes, Orders, Questions, BootCalls
    <2>3. "clean" \in Places /\ Goes("clean", "sense", "clean")
      BY DEF Places, Goes
    <2>4. Going(<<"sense">>, "clean", "clean") /\ <<"sense">> \in Seq(Calls)
      BY <2>3, OneGoes
    <2>5. Going(<<>>, "clean", "clean") /\ <<>> \in Seq(Calls)
      BY <2>3, NoneGoes
    <2>6. Going(list, "clean", "clean") /\ list \in Seq(Calls)
      BY <2>4, <2>5
    <2>7. AtPlace(t, "clean")' /\ sem = t
      BY <1>1, <2>1, <2>2 DEF AtPlace, Holds, Good, Asserts, Emptied, bsy, driveSide
    <2>8. DeviceInv'
      BY <1>1, <2>7, NothingRead DEF PacketInv
    <2>9. Go(t, list \o Rest(t))
      BY <1>4
    <2> HIDE DEF list
    <2> QED BY <1>1, <1>2, <2>1, <2>2, <2>6, <2>7, <2>8, <2>9, PushInside
  <1>5. CASE /\ Next1(t) = "moving"
             /\ Go(t, (IF inMotion THEN query_state \o <<"moving">> ELSE <<>>) \o Rest(t))
    <2> DEFINE list == IF inMotion THEN query_state \o <<"moving">> ELSE <<>>
    <2>1. PICK x \in Places, y \in Places :
            Goes(x, "moving", y) /\ AtPlace(t, x) /\ Going(Rest(t), y, "out")
      BY <1>1, <1>5, NextCall
    <2>2. x = "out" /\ y = "out"
      BY <2>1 DEF Goes, Orders, Questions, BootCalls
    <2>3. "out" \in Places /\ Goes("out", "moving", "out")
      BY DEF Places, Goes
    <2>4. Going(<<"moving">>, "out", "out") /\ <<"moving">> \in Seq(Calls)
      BY <2>3, OneGoes
    <2>5. Going(query_state \o <<"moving">>, "out", "out") /\ query_state \o <<"moving">> \in Seq(Calls)
      BY <2>4, query_state_Goes, BothGo
    <2>6. Going(<<>>, "out", "out") /\ <<>> \in Seq(Calls)
      BY <2>3, NoneGoes
    <2>7. Going(list, "out", "out") /\ list \in Seq(Calls)
      BY <2>5, <2>6
    <2>9. Go(t, list \o Rest(t))
      BY <1>5
    <2> HIDE DEF list
    <2> QED BY <1>1, <1>2, <2>1, <2>2, <2>7, <2>9, PushOutside
  <1> QED BY <1>3, <1>4, <1>5 DEF WaitReady, At

-----------------------------------------------------------------------------
(* read_toc() *)

LEMMA TocBegin_Packet ==
  ASSUME PacketInv, NEW t \in Tasks, TocBegin(t)
  PROVE  PacketInv'
  <1>1. /\ todo[t] # <<>> /\ Next1(t) = "toc_begin" /\ Go(t, Rest(t))
        /\ rd' = [NoRead EXCEPT !.attempts = IF "fucky_toc_reads" \in quirks THEN 20 ELSE 2]
        /\ UNCHANGED <<sem, booted, quirks, toc, cmd, pend, silent>>
    BY DEF TocBegin, At, driveSide
  <1>2. PICK x \in Places, y \in Places :
          Goes(x, "toc_begin", y) /\ AtPlace(t, x) /\ Going(Rest(t), y, "out")
    BY <1>1, NextCall
  <1>3. x = "clean" /\ y = "toc"
    BY <1>2 DEF Goes, Orders, Questions, BootCalls
  <1>4. sem = t
    BY <1>2, <1>3 DEF AtPlace
  <1>5. rd' \in ReadTypes /\ ~rd'.success
    BY <1>1, EmptySeq DEF NoRead, ReadTypes
  <1>6. AtPlace(t, y)'
    BY <1>1, <1>3, <1>4, <1>5 DEF AtPlace, Holds
  <1>7. DeviceInv'
    BY <1>1, <1>5 DEF PacketInv, DeviceInv, WholeToc, Good, Asserts, Emptied, bsy
  <1>8. Rest(t) \in Seq(Calls)
    BY <1>1, NextCall
  <1> QED BY <1>1, <1>2, <1>4, <1>6, <1>7, <1>8, InsideStep

LEMMA TocAttempt_Packet ==
  ASSUME PacketInv, NEW t \in Tasks, TocAttempt(t)
  PROVE  PacketInv'
  <1> DEFINE p == send_packet("READ_TOC")
             q == <<"not_busy", "toc_header">>
  <1>1. /\ todo[t] # <<>> /\ Next1(t) = "toc_attempt" /\ Go(t, p \o q \o Rest(t))
        /\ rd' = [rd EXCEPT !.tracks = <<>>]
        /\ UNCHANGED <<sem, booted, quirks, toc, cmd, pend, silent>>
    BY DEF TocAttempt, At, driveSide
  <1>2. PICK x \in Places, y \in Places :
          Goes(x, "toc_attempt", y) /\ AtPlace(t, x) /\ Going(Rest(t), y, "out")
    BY <1>1, NextCall
  <1>3. x = "toc" /\ y = "clean"
    BY <1>2 DEF Goes, Orders, Questions, BootCalls
  <1>4. sem = t /\ ~rd.success
    BY <1>2, <1>3 DEF AtPlace, Holds
  <1>5. /\ {"asks", "answer", "header", "clean"} \subseteq Places
        /\ Goes("asks", "READ_TOC", "answer") /\ Goes("answer", "not_busy", "header")
        /\ Goes("header", "not_busy", "header") /\ Goes("header", "toc_header", "clean")
    BY DEF Places, Goes
  <1>6. Going(p, "asks", "header") /\ p \in Seq(Calls)
    BY <1>5, TwoGo DEF send_packet
  <1>7. Going(q, "header", "clean") /\ q \in Seq(Calls)
    BY <1>5, TwoGo
  <1> HIDE DEF p, q
  <1>8. Going(p \o q, "asks", "clean") /\ p \o q \in Seq(Calls)
    BY <1>6, <1>7, BothGo
  <1>9. rd \in ReadTypes
    BY DEF PacketInv, DeviceInv
  <1>10. rd' \in ReadTypes /\ ~rd'.success /\ rd'.tracks = <<>>
    BY <1>1, <1>4, <1>9, EmptySeq DEF ReadTypes
  <1>11. AtPlace(t, "asks")'
    BY <1>1, <1>4, <1>10 DEF AtPlace, Holds
  <1>12. DeviceInv'
    BY <1>1, <1>10 DEF PacketInv, DeviceInv, WholeToc, Good, Asserts, Emptied, bsy
  <1>13. Rest(t) \in Seq(Calls)
    BY <1>1, NextCall
  <1> QED BY <1>1, <1>2, <1>3, <1>4, <1>5, <1>8, <1>11, <1>12, <1>13, PushInside

LEMMA WaitEntry_Goes ==
  Going(WaitEntry, "entry", "clean") /\ WaitEntry \in Seq(Calls)
  <1>1. /\ {"entry", "clean"} \subseteq Places
        /\ Goes("entry", "drq", "entry") /\ Goes("entry", "toc_entry", "clean")
    BY DEF Places, Goes
  <1>2. Going(<<"toc_entry">>, "entry", "clean") /\ <<"toc_entry">> \in Seq(Calls)
    BY <1>1, OneGoes
  <1>3. Going(<<"drq", "toc_entry">>, "entry", "clean") /\ <<"drq", "toc_entry">> \in Seq(Calls)
    BY <1>1, TwoGo
  <1> QED BY <1>2, <1>3 DEF WaitEntry

\* A header that makes sense is that of one of the tables.
LEMMA HeaderOfTable ==
  ASSUME pend \in Seq(Units), WholeToc(pend), pend # <<>>, pend[1].kind = "range"
  PROVE  /\ pend[1].a = First /\ pend[1].b = Final
         /\ \E table \in Tables :
              /\ Len(pend) = 2 * Len(table) + 1
              /\ \A m \in 1 .. Len(table) : pend[2 * m] = Unit("track", table[m], 0)
  BY DEF WholeToc, TocOf, Unit

LEMMA TocHeader_Packet ==
  ASSUME PacketInv, NEW t \in Tasks, TocHeader(t)
  PROVE  PacketInv'
  <1> DEFINE sense == pend # <<>> /\ pend[1].kind = "range"
  <1>1. /\ todo[t] # <<>> /\ Next1(t) = "toc_header" /\ pend' = Left(1)
        /\ UNCHANGED <<sem, booted, quirks, toc, cmd, silent>>
        /\ sense =>
             /\ \E held \in RegisterHolds :
                  rd' = [rd EXCEPT !.i = pend[1].a, !.last = pend[1].b, !.lastTrk = pend[1].a - 1,
                                   !.held = held]
             /\ Go(t, WaitEntry \o Rest(t))
        /\ ~sense => Go(t, <<"toc_verdict">> \o Rest(t)) /\ UNCHANGED rd
    BY DEF TocHeader, At
  <1>2. PICK x \in Places, y \in Places :
          Goes(x, "toc_header", y) /\ AtPlace(t, x) /\ Going(Rest(t), y, "out")
    BY <1>1, NextCall
  <1>3. x = "header" /\ y = "clean"
    BY <1>2 DEF Goes, Orders, Questions, BootCalls
  <1>4. sem = t /\ ~rd.success /\ rd.tracks = <<>> /\ ~bsy
    BY <1>2, <1>3 DEF AtPlace, Holds
  <1>5. pend \in Seq(Units) /\ WholeToc(pend) /\ rd \in ReadTypes
    BY DEF PacketInv, DeviceInv
  <1>6. 1 \in 1 .. 2
    OBVIOUS
  <1>7. /\ pend' \in Seq(Units) /\ WholeToc(pend)'
        /\ 1 <= Len(pend) => /\ Len(pend') = Len(pend) - 1
                             /\ \A i \in 1 .. Len(pend) - 1 : pend'[i] = pend[i + 1]
    <2>1. /\ Left(1) \in Seq(Units) /\ WholeToc(Left(1))
          /\ 1 <= Len(pend) => /\ Len(Left(1)) = Len(pend) - 1
                               /\ \A i \in 1 .. Len(pend) - 1 : Left(1)[i] = pend[i + 1]
      BY <1>5, <1>6, LeftIs
    <2> QED BY <1>1, <2>1 DEF WholeToc
  <1>8. Rest(t) \in Seq(Calls)
    BY <1>1, NextCall
  <1>9. sem # NoTask
    BY <1>4, PacketAssumption
  <1>10. rd' \in ReadTypes => DeviceInv'
    BY <1>1, <1>7, <1>9 DEF PacketInv, DeviceInv, Asserts
  <1>11. {"clean", "entry", "verdict"} \subseteq Places /\ Goes("verdict", "toc_verdict", "clean")
    BY DEF Places, Goes
  <1>12. CASE sense
    <2>1. PICK table \in Tables :
            /\ Len(pend) = 2 * Len(table) + 1
            /\ \A m \in 1 .. Len(table) : pend[2 * m] = Unit("track", table[m], 0)
      BY <1>5, <1>12, HeaderOfTable
    <2>2. pend[1].a = First /\ pend[1].b = Final
      BY <1>5, <1>12, HeaderOfTable
    <2>3. First \in 1 .. 99 /\ Final \in 1 .. 99 /\ First <= Final
      BY DiscFacts
    <2>4. Go(t, WaitEntry \o Rest(t))
      BY <1>1, <1>12
    <2>5. PICK held \in RegisterHolds :
            rd' = [rd EXCEPT !.i = First, !.last = Final, !.lastTrk = First - 1, !.held = held]
      BY <1>1, <1>12, <2>2
    <2>6. /\ rd' \in ReadTypes /\ rd'.i = First /\ rd'.last = Final /\ rd'.lastTrk = First - 1
          /\ ~rd'.success /\ rd'.tracks = <<>>
      <3>1. First \in Nat /\ Final \in Nat /\ First - 1 \in Nat
        BY <2>3
      <3>2. held \in Nat
        <4>1. held \in {0, LeadOut} \cup First .. Final
          BY DEF RegisterHolds, First, Final, Last
        <4>2. CASE held \in First .. Final
          BY <2>3, <4>2
        <4>3. CASE held \in {0, LeadOut}
          BY <4>3 DEF LeadOut
        <4> QED BY <4>1, <4>2, <4>3
      <3> QED BY <1>4, <1>5, <2>5, <3>1, <3>2 DEF ReadTypes
    <2>7. table \in Seq(Nat) /\ Len(table) \in Nat
      BY TableTypes
    <2>8. Len(pend') = 2 * Len(table)
      BY <1>7, <2>1, <2>7
    <2>9. ASSUME NEW m \in 1 .. Len(table) PROVE pend'[2 * m - 1] = Unit("track", table[m], 0)
      <3>1. 2 * m - 1 \in 1 .. Len(pend) - 1 /\ 2 * m - 1 + 1 = 2 * m
        BY <2>1, <2>7
      <3>2. pend'[2 * m - 1] = pend[2 * m - 1 + 1]
        BY <1>7, <2>1, <2>7, <3>1, SMTT(30)
      <3> QED BY <2>1, <3>1, <3>2
    <2>10. ReadUpTo(table, 0)'
      <3>1. 0 <= Len(table) /\ Len(pend') = 2 * (Len(table) - 0)
        BY <2>7, <2>8
      <3>2. \A m \in 0 + 1 .. Len(table) : pend'[2 * (m - 0) - 1] = Unit("track", table[m], 0)
        BY <2>7, <2>9
      <3>3. Len(rd'.tracks) = 0 /\ 1 .. 0 = {}
        BY <2>6
      <3>4. rd'.lastTrk = First + 0 - 1 /\ rd'.i = First + 0 /\ rd'.i <= Final + 1
        BY <2>3, <2>6
      <3> QED BY <3>1, <3>2, <3>3, <3>4 DEF ReadUpTo
    <2>11. BeforeEntry'
      BY <2>6, <2>10 DEF BeforeEntry
    <2>12. AtPlace(t, "entry")'
      BY <1>1, <1>4, <2>11 DEF AtPlace, Holds, bsy
    <2> QED BY <1>1, <1>2, <1>3, <1>4, <1>8, <1>10, <1>11, <2>4, <2>6, <2>12, WaitEntry_Goes, PushInside
  <1>13. CASE ~sense
    <2>1. Go(t, <<"toc_verdict">> \o Rest(t)) /\ UNCHANGED rd
      BY <1>1, <1>13
    <2>2. AtPlace(t, "verdict")'
      BY <1>1, <1>4, <2>1 DEF AtPlace, Holds, bsy, SuccessIsDisc
    <2>3. Going(<<"toc_verdict">>, "verdict", "clean") /\ <<"toc_verdict">> \in Seq(Calls)
      BY <1>11, OneGoes
    <2>4. DeviceInv'
      BY <1>5, <1>10, <2>1
    <2> QED BY <1>1, <1>2, <1>3, <1>4, <1>8, <1>11, <2>1, <2>2, <2>3, <2>4, PushInside
  <1> QED BY <1>12, <1>13

LEMMA TextHead_Packet ==
  ASSUME PacketInv, NEW t \in Tasks, TextHead(t)
  PROVE  PacketInv'
  <1>1. PICK last \in {"read_all", "drain"} : Go(t, <<last>> \o Rest(t))
    BY DEF TextHead
  <1>2. /\ todo[t] # <<>> /\ Next1(t) = "text_head" /\ pend' = Left(1)
        /\ UNCHANGED <<sem, booted, quirks, rd, toc, cmd, silent>>
    BY DEF TextHead, At
  <1>3. PICK x \in Places, y \in Places :
          Goes(x, "text_head", y) /\ AtPlace(t, x) /\ Going(Rest(t), y, "out")
    BY <1>2, NextCall
  <1>4. x = "there" /\ y = "clean"
    BY <1>3 DEF Goes, Orders, Questions, BootCalls
  <1>5. sem = t /\ (Good => ~bsy)
    BY <1>3, <1>4 DEF AtPlace, Holds
  <1>6. AtPlace(t, "there")'
    BY <1>2, <1>5 DEF AtPlace, Holds, Good, Asserts, bsy
  <1>7. {"there", "clean"} \subseteq Places /\ Goes("there", last, "clean")
    BY DEF Places, Goes
  <1>8. Going(<<last>>, "there", "clean") /\ <<last>> \in Seq(Calls)
    BY <1>7, OneGoes
  <1>9. pend \in Seq(Units) /\ WholeToc(pend) /\ 1 \in 1 .. 2
    BY DEF PacketInv, DeviceInv
  <1>10. Left(1) \in Seq(Units) /\ WholeToc(Left(1))
    BY <1>9, LeftIs
  <1>11. pend' \in Seq(Units) /\ WholeToc(pend)'
    BY <1>2, <1>10 DEF WholeToc
  <1>12. sem # NoTask
    BY <1>5, PacketAssumption
  <1>13. DeviceInv'
    BY <1>2, <1>11, <1>12 DEF PacketInv, DeviceInv, Asserts
  <1>14. Rest(t) \in Seq(Calls)
    BY <1>2, NextCall
  <1> QED BY <1>1, <1>2, <1>3, <1>4, <1>5, <1>6, <1>7, <1>8, <1>13, <1>14, PushInside

\* What an entry is taken for leaves the one who reads it before the next entry, or at
\* the end of the table: with no success, or with all the tracks of the disc.
LEMMA EntryLeads ==
  ASSUME PacketInv, NEW t \in Tasks, TocEntry(t), ~bsy, BeforeEntry
  PROVE  /\ rd' \in ReadTypes
         /\ \/ Go(t, WaitEntry \o Rest(t)) /\ BeforeEntry'
            \/ Go(t, <<"drain", "toc_verdict">> \o Rest(t)) /\ SuccessIsDisc'
  <1> DEFINE n == EntryRead
             lt == rd.lastTrk
  <1>1. pend \in Seq(Units) /\ WholeToc(pend) /\ rd \in ReadTypes
    BY DEF PacketInv, DeviceInv
  <1>2. /\ rd.attempts \in Nat /\ rd.success \in BOOLEAN /\ rd.tracks \in Seq(Nat) /\ rd.i \in Nat
        /\ rd.last \in Nat /\ lt \in Nat /\ rd.held \in Nat
    BY <1>1 DEF ReadTypes
  <1>3. n \in Nat
    <2>1. CASE pend = <<>>
      BY <1>2, <2>1 DEF EntryRead
    <2>2. CASE pend # <<>>
      <3>1. pend[1] \in Units
        BY <1>1, <2>2
      <3>2. pend[1].a \in Nat
        BY <3>1 DEF Units
      <3> QED BY <2>2, <3>2 DEF EntryRead
    <2> QED BY <2>1, <2>2
  <1>4. pend' = Left(2)
    BY DEF TocEntry
  <1>5. /\ NoSense(n) => /\ rd' = [rd EXCEPT !.success = FALSE]
                         /\ Go(t, <<"drain", "toc_verdict">> \o Rest(t))
        /\ ~NoSense(n) =>
             /\ n = LeadOut =>
                  rd' = [rd EXCEPT !.i = rd.i + 1, !.lastTrk = n, !.success = TRUE]
             /\ n # LeadOut =>
                  rd' = [rd EXCEPT !.i = rd.i + 1, !.lastTrk = n,
                                   !.tracks = Append(rd.tracks, n)]
             /\ rd.i <= rd.last => Go(t, WaitEntry \o Rest(t))
             /\ ~(rd.i <= rd.last) => Go(t, <<"drain", "toc_verdict">> \o Rest(t))
    BY <1>1 DEF TocEntry, ReadTypes
  <1>6. NoSense(n) <=> (n # LeadOut /\ n # lt + 1) \/ lt = LeadOut
    BY DEF NoSense
  <1>7. /\ First \in 1 .. 99 /\ Final \in 1 .. 99 /\ First <= Final /\ rd.last = Final
        /\ LeadOut = 170
    BY DiscFacts DEF BeforeEntry, LeadOut
  <1>8. pend = <<>> => n = rd.held
    BY DEF EntryRead
  <1>9. /\ 2 <= Len(pend) => Len(pend') = Len(pend) - 2
        /\ 2 <= Len(pend) => \A i \in 1 .. Len(pend) - 2 : pend'[i] = pend[i + 2]
        /\ pend = <<>> => pend' = <<>>
    <2>1. 2 \in 1 .. 2
      OBVIOUS
    <2> QED BY <1>1, <1>4, <2>1, LeftIs
  <1> HIDE DEF n, lt
  <1>10. CASE NoSense(n)
    <2>1. rd' \in ReadTypes /\ ~rd'.success
      BY <1>1, <1>3, <1>5, <1>10 DEF ReadTypes
    <2> QED BY <1>5, <1>10, <2>1 DEF SuccessIsDisc
  <1>11. CASE ~NoSense(n) /\ n = LeadOut
    <2>1. rd' = [rd EXCEPT !.i = rd.i + 1, !.lastTrk = n, !.success = TRUE]
      BY <1>5, <1>11
    <2>2. rd.i + 1 \in Nat
      BY <1>2
    <2>3. /\ rd' \in ReadTypes /\ rd'.last = Final /\ rd'.lastTrk = LeadOut /\ rd'.tracks = rd.tracks
      <3>1. rd' \in ReadTypes
        BY <1>1, <1>3, <2>1, <2>2 DEF ReadTypes
      <3>2. rd'.last = rd.last /\ rd'.lastTrk = n /\ rd'.tracks = rd.tracks
        BY <1>1, <2>1 DEF ReadTypes
      <3> QED BY <1>7, <1>11, <3>1, <3>2
    <2>4. BeforeEntry'
      BY <2>3 DEF BeforeEntry
    <2>5. CASE rd.i <= rd.last
      BY <1>5, <1>11, <2>3, <2>4, <2>5
    <2>6. CASE ~(rd.i <= rd.last)
      <3>1. lt # LeadOut
        BY <1>6, <1>11
      <3>2. PICK table \in Tables, k \in Nat : ReadUpTo(table, k) /\ ~rd.success
        <4>1. ~(pend = <<>> /\ lt = rd.held /\ lt # LeadOut)
          BY <1>8, <1>11
        <4> QED BY <3>1, <4>1 DEF BeforeEntry, lt
      <3>3. table \in Seq(Nat) /\ Len(table) \in Nat
        BY TableTypes
      <3>4. /\ k <= Len(table) /\ Len(rd.tracks) = k /\ rd.i = First + k /\ rd.i <= Final + 1
            /\ \A j \in 1 .. k : rd.tracks[j] = table[j] /\ table[j] = First + j - 1
        BY <3>2 DEF ReadUpTo
      <3>5. First + k - 1 = Final /\ k \in 1 .. Len(table)
        BY <1>7, <2>6, <3>3, <3>4
      <3>6. rd.tracks = Disc
        BY <1>2, <3>4, <3>5, AllOfDisc
      <3>7. SuccessIsDisc'
        BY <2>3, <3>6 DEF SuccessIsDisc
      <3> QED BY <1>5, <1>11, <2>3, <2>6, <3>7
    <2> QED BY <2>5, <2>6
  <1>12. CASE ~NoSense(n) /\ n # LeadOut
    <2>1. n = lt + 1 /\ lt # LeadOut
      BY <1>6, <1>12
    <2>2. PICK table \in Tables, k \in Nat : ReadUpTo(table, k) /\ ~rd.success
      <3>1. ~(pend = <<>> /\ lt = rd.held)
        BY <1>2, <1>8, <2>1
      <3> QED BY <2>1, <3>1 DEF BeforeEntry, lt
    <2>3. table \in Seq(Nat) /\ Len(table) \in Nat
      BY TableTypes
    <2>4. /\ k <= Len(table) /\ Len(pend) = 2 * (Len(table) - k)
          /\ \A m \in k + 1 .. Len(table) : pend[2 * (m - k) - 1] = Unit("track", table[m], 0)
          /\ Len(rd.tracks) = k /\ lt = First + k - 1 /\ rd.i = First + k /\ rd.i <= Final + 1
          /\ \A j \in 1 .. k : rd.tracks[j] = table[j] /\ table[j] = First + j - 1
      BY <2>2 DEF ReadUpTo, lt
    <2>5. rd' = [rd EXCEPT !.i = rd.i + 1, !.lastTrk = n, !.tracks = Append(rd.tracks, n)]
      BY <1>5, <1>12
    <2>6. /\ rd.i + 1 \in Nat /\ Append(rd.tracks, n) \in Seq(Nat)
          /\ Len(Append(rd.tracks, n)) = Len(rd.tracks) + 1
          /\ Append(rd.tracks, n)[Len(rd.tracks) + 1] = n
          /\ \A j \in 1 .. Len(rd.tracks) : Append(rd.tracks, n)[j] = rd.tracks[j]
      BY <1>2, <1>3
    <2>7. /\ rd' \in ReadTypes /\ rd'.last = Final /\ rd'.lastTrk = n /\ rd'.held = rd.held
          /\ rd'.i = rd.i + 1 /\ ~rd'.success /\ rd'.tracks = Append(rd.tracks, n)
      BY <1>1, <1>3, <1>7, <2>2, <2>5, <2>6 DEF ReadTypes
    <2>8. CASE ~(rd.i <= rd.last)
      BY <1>5, <1>12, <2>7, <2>8 DEF SuccessIsDisc
    <2>9. CASE rd.i <= rd.last
      <3>1. First + k <= Final
        BY <1>7, <2>4, <2>9
      <3>2. CASE pend = <<>>
        \* Nothing was read, and what the register holds is taken for the next track.
        <4>1. pend' = <<>> /\ n = rd.held
          BY <1>8, <1>9, <3>2
        <4> QED BY <1>5, <1>12, <2>7, <2>9, <4>1 DEF BeforeEntry
      <3>3. CASE pend # <<>>
        <4>1. Len(pend) \in Nat \ {0}
          BY <1>1, <3>3
        <4>2. k < Len(table)
          <5>1. k \in Nat /\ k # Len(table) /\ k <= Len(table)
            BY <2>4, <4>1
          <5> QED BY <2>3, <5>1
        <4>3. k + 1 \in k + 1 .. Len(table)
          BY <2>3, <4>2
        <4>4. pend[2 * (k + 1 - k) - 1] = Unit("track", table[k + 1], 0) /\ 2 * (k + 1 - k) - 1 = 1
          BY <2>4, <4>3
        <4>5. pend[1] = Unit("track", table[k + 1], 0)
          BY <4>4
        <4>6. n = table[k + 1]
          BY <3>3, <4>5 DEF n, EntryRead, Unit
        <4>7. n = First + k /\ n = First + (k + 1) - 1
          <5>1. n = lt + 1 /\ lt = First + k - 1
            BY <2>1, <2>4
          <5>2. First \in Nat /\ k \in Nat
            BY <1>7
          <5> QED BY <5>1, <5>2
        <4>8. ReadUpTo(table, k + 1)'
          <5>1. k + 1 <= Len(table)
            BY <2>3, <4>2
          <5>2. 2 <= Len(pend) /\ Len(pend') = 2 * (Len(table) - (k + 1))
            <6>1. Len(pend) = 2 * (Len(table) - k) /\ Len(table) \in Nat /\ k \in Nat
              BY <2>3, <2>4
            <6>2. 2 <= Len(pend)
              BY <4>2, <6>1
            <6>3. Len(pend') = Len(pend) - 2
              BY <1>9, <6>2
            <6> QED BY <6>1, <6>2, <6>3
          <5>3. ASSUME NEW m \in k + 1 + 1 .. Len(table)
                PROVE  pend'[2 * (m - (k + 1)) - 1] = Unit("track", table[m], 0)
            <6> DEFINE i == 2 * (m - (k + 1)) - 1
            <6>1. i \in 1 .. Len(pend) - 2 /\ i + 2 = 2 * (m - k) - 1 /\ m \in k + 1 .. Len(table)
              <7>1. Len(table) \in Nat /\ k \in Nat /\ m \in Nat /\ k + 2 <= m /\ m <= Len(table)
                BY <2>3
              <7>2. i \in Int /\ 1 <= i /\ i <= 2 * (Len(table) - (k + 1)) - 1 /\ i + 2 = 2 * (m - k) - 1
                BY <7>1
              <7>3. Len(pend) - 2 = 2 * (Len(table) - (k + 1))
                BY <2>4, <7>1
              <7> HIDE DEF i
              <7>4. i <= Len(pend) - 2
                BY <7>1, <7>2, <7>3
              <7>5. Len(pend) - 2 \in Int
                BY <7>1, <7>3
              <7>6. i \in 1 .. Len(pend) - 2
                BY <7>2, <7>4, <7>5
              <7> QED BY <7>1, <7>2, <7>6
            <6>2. pend'[i] = pend[i + 2]
              BY <1>9, <5>2, <6>1
            <6> QED BY <2>4, <6>1, <6>2
          <5>4. Len(rd'.tracks) = k + 1
            BY <2>4, <2>6, <2>7
          <5>5. ASSUME NEW j \in 1 .. k + 1
                PROVE  rd'.tracks[j] = table[j] /\ table[j] = First + j - 1
            <6>1. CASE j = k + 1
              BY <2>4, <2>6, <2>7, <4>6, <4>7, <6>1
            <6>2. CASE j # k + 1
              <7>1. j \in 1 .. k
                BY <6>2
              <7> QED BY <2>4, <2>6, <2>7, <7>1
            <6> QED BY <6>1, <6>2
          <5>6. rd'.lastTrk = First + (k + 1) - 1 /\ rd'.i = First + (k + 1) /\ rd'.i <= Final + 1
            <6>1. rd'.lastTrk = n /\ rd'.i = rd.i + 1 /\ rd.i = First + k
              BY <2>4, <2>7
            <6>2. First \in Nat /\ Final \in Nat /\ k \in Nat
              BY <1>7
            <6> QED BY <3>1, <4>7, <6>1, <6>2
          <5> QED BY <5>1, <5>2, <5>3, <5>4, <5>5, <5>6 DEF ReadUpTo
        <4>9. BeforeEntry'
          <5>1. k + 1 \in Nat
            OBVIOUS
          <5> QED BY <2>7, <4>8, <5>1 DEF BeforeEntry
        <4> QED BY <1>5, <1>12, <2>7, <2>9, <4>9
      <3> QED BY <3>2, <3>3
    <2> QED BY <2>8, <2>9
  <1> QED BY <1>10, <1>11, <1>12

LEMMA TocEntry_Packet ==
  ASSUME PacketInv, NEW t \in Tasks, TocEntry(t)
  PROVE  PacketInv'
  <1> DEFINE q == <<"drain", "toc_verdict">>
  <1>1. /\ todo[t] # <<>> /\ Next1(t) = "toc_entry" /\ pend' = Left(2)
        /\ UNCHANGED <<sem, booted, quirks, toc, cmd, silent>>
    BY DEF TocEntry, At
  <1>2. PICK x \in Places, y \in Places :
          Goes(x, "toc_entry", y) /\ AtPlace(t, x) /\ Going(Rest(t), y, "out")
    BY <1>1, NextCall
  <1>3. x = "entry" /\ y = "clean"
    BY <1>2 DEF Goes, Orders, Questions, BootCalls
  <1>4. sem = t /\ ~bsy /\ BeforeEntry
    BY <1>2, <1>3 DEF AtPlace, Holds
  <1>5. /\ rd' \in ReadTypes
        /\ \/ Go(t, WaitEntry \o Rest(t)) /\ BeforeEntry'
           \/ Go(t, q \o Rest(t)) /\ SuccessIsDisc'
    BY <1>4, EntryLeads
  <1>6. pend \in Seq(Units) /\ WholeToc(pend) /\ 2 \in 1 .. 2
    BY DEF PacketInv, DeviceInv
  <1>7. Left(2) \in Seq(Units) /\ WholeToc(Left(2))
    BY <1>6, LeftIs
  <1>8. pend' \in Seq(Units) /\ WholeToc(pend)'
    BY <1>1, <1>7 DEF WholeToc
  <1>9. sem # NoTask
    BY <1>4, PacketAssumption
  <1>10. DeviceInv'
    BY <1>1, <1>5, <1>8, <1>9 DEF PacketInv, DeviceInv, Asserts
  <1>11. Rest(t) \in Seq(Calls)
    BY <1>1, NextCall
  <1>12. /\ {"entry", "draining", "verdict", "clean"} \subseteq Places
         /\ Goes("draining", "drain", "verdict") /\ Goes("verdict", "toc_verdict", "clean")
    BY DEF Places, Goes
  <1>13. Going(q, "draining", "clean") /\ q \in Seq(Calls)
    BY <1>12, TwoGo
  <1> HIDE DEF q
  <1>14. CASE Go(t, WaitEntry \o Rest(t)) /\ BeforeEntry'
    <2>1. AtPlace(t, "entry")'
      BY <1>1, <1>4, <1>14 DEF AtPlace, Holds, bsy
    <2> QED BY <1>1, <1>2, <1>3, <1>4, <1>10, <1>11, <1>12, <1>14, <2>1, WaitEntry_Goes, PushInside
  <1>15. CASE Go(t, q \o Rest(t)) /\ SuccessIsDisc'
    <2>1. AtPlace(t, "draining")'
      BY <1>1, <1>4, <1>15 DEF AtPlace, Holds, bsy
    <2> QED BY <1>1, <1>2, <1>3, <1>4, <1>10, <1>11, <1>12, <1>13, <1>15, <2>1, PushInside
  <1> QED BY <1>5, <1>14, <1>15

LEMMA TocVerdict_Packet ==
  ASSUME PacketInv, NEW t \in Tasks, TocVerdict(t)
  PROVE  PacketInv'
  <1> DEFINE p == send_packet("READ_TEXT")
             q == <<"not_busy", "text_head">>
  <1>1. /\ todo[t] # <<>> /\ Next1(t) = "toc_verdict"
        /\ UNCHANGED <<sem, booted, quirks, cmd, pend, silent>>
        /\ \/ rd.success /\ toc' = rd.tracks /\ rd' = NoRead /\ Go(t, p \o q \o Rest(t))
           \/ /\ ~rd.success /\ rd.attempts > 0
              /\ rd' = [NoRead EXCEPT !.attempts = rd.attempts - 1, !.tracks = rd.tracks]
              /\ Go(t, <<"toc_attempt">> \o Rest(t)) /\ UNCHANGED toc
           \/ ~rd.success /\ toc' = <<>> /\ rd' = NoRead /\ Go(t, Rest(t))
    BY DEF TocVerdict, At, driveSide
  <1>2. PICK x \in Places, y \in Places :
          Goes(x, "toc_verdict", y) /\ AtPlace(t, x) /\ Going(Rest(t), y, "out")
    BY <1>1, NextCall
  <1>3. x = "verdict" /\ y = "clean"
    BY <1>2 DEF Goes, Orders, Questions, BootCalls
  <1>4. sem = t /\ ~bsy /\ SuccessIsDisc /\ (rd.success /\ Asserts => pend = <<>>)
    BY <1>2, <1>3 DEF AtPlace, Holds
  <1>5. sem # NoTask /\ rd \in ReadTypes
    BY <1>4, PacketAssumption DEF PacketInv, DeviceInv
  <1>6. rd' \in ReadTypes /\ toc' \in {<<>>, Disc} => DeviceInv'
    BY <1>1, <1>5 DEF PacketInv, DeviceInv, WholeToc, Asserts
  <1>7. NoRead \in ReadTypes
    BY EmptySeq DEF NoRead, ReadTypes
  <1>8. Rest(t) \in Seq(Calls)
    BY <1>1, NextCall
  <1>9. /\ {"clean", "there", "toc"} \subseteq Places
        /\ Goes("there", "not_busy", "there") /\ Goes("there", "text_head", "clean")
        /\ Goes("toc", "toc_attempt", "clean")
    BY DEF Places, Goes
  <1>10. CASE rd.success /\ toc' = rd.tracks /\ rd' = NoRead /\ Go(t, p \o q \o Rest(t))
    <2>1. Going(p, "clean", "there") /\ p \in Seq(Calls)
      BY Question_Goes DEF Questions
    <2>2. Going(q, "there", "clean") /\ q \in Seq(Calls)
      BY <1>9, TwoGo
    <2> HIDE DEF p, q
    <2>3. Going(p \o q, "clean", "clean") /\ p \o q \in Seq(Calls)
      BY <2>1, <2>2, BothGo
    <2>4. AtPlace(t, "clean")'
      BY <1>1, <1>4, <1>10 DEF AtPlace, Holds, Good, Asserts, Emptied, bsy
    <2>5. DeviceInv'
      BY <1>4, <1>6, <1>7, <1>10 DEF SuccessIsDisc
    <2> QED BY <1>1, <1>2, <1>3, <1>4, <1>8, <1>9, <1>10, <2>3, <2>4, <2>5, PushInside
  <1>11. CASE /\ ~rd.success /\ rd.attempts > 0
              /\ rd' = [NoRead EXCEPT !.attempts = rd.attempts - 1, !.tracks = rd.tracks]
              /\ Go(t, <<"toc_attempt">> \o Rest(t)) /\ UNCHANGED toc
    <2>1. rd.attempts - 1 \in Nat /\ rd.tracks \in Seq(Nat)
      BY <1>5, <1>11 DEF ReadTypes
    <2>2. rd' \in ReadTypes /\ ~rd'.success
      BY <1>11, <2>1 DEF NoRead, ReadTypes
    <2>3. AtPlace(t, "toc")'
      BY <1>1, <1>4, <2>2 DEF AtPlace, Holds
    <2>4. Going(<<"toc_attempt">>, "toc", "clean") /\ <<"toc_attempt">> \in Seq(Calls)
      BY <1>9, OneGoes
    <2>5. DeviceInv'
      <3>1. toc \in {<<>>, Disc}
        BY DEF PacketInv, DeviceInv
      <3> QED BY <1>6, <1>11, <2>2, <3>1
    <2> QED BY <1>1, <1>2, <1>3, <1>4, <1>8, <1>9, <1>11, <2>3, <2>4, <2>5, PushInside
  <1>12. CASE ~rd.success /\ toc' = <<>> /\ rd' = NoRead /\ Go(t, Rest(t))
    <2>1. AtPlace(t, "clean")'
      BY <1>1, <1>4, <1>12 DEF AtPlace, Holds, Good
    <2>2. DeviceInv'
      BY <1>6, <1>7, <1>12
    <2> QED BY <1>1, <1>2, <1>3, <1>4, <1>8, <1>12, <2>1, <2>2, InsideStep
  <1> QED BY <1>1, <1>10, <1>11, <1>12

-----------------------------------------------------------------------------
(* The other steps *)

LEMMA Call_Packet ==
  ASSUME PacketInv, NEW t \in Tasks, NEW op \in Ops[t], Call(t, op)
  PROVE  PacketInv'
  <1>1. /\ booted /\ booted' /\ todo[t] = <<>> /\ Go(t, Method[op])
        /\ UNCHANGED <<sem, rd, toc, driveSide>> /\ UNCHANGED quirks
    BY DEF Call
  <1>2. op \in DOMAIN Method
    BY OpsAssumption
  <1>3. Going(Method[op], "out", "out") /\ Method[op] \in Seq(Calls)
    BY <1>2, MethodsGo
  <1>4. AtPlace(t, "out")'
    BY <1>1, IdleIsOut DEF AtPlace
  <1>5. DeviceInv'
    BY <1>1 DEF PacketInv, DeviceInv, WholeToc, Good, Asserts, Emptied, bsy, driveSide
  <1>6. "out" \in Places
    BY DEF Places
  <1> HIDE DEF Method
  <1> QED BY <1>1, <1>3, <1>4, <1>5, <1>6, OutsideStep

\* The drive answers, and nobody is at a place that he reaches only when it has.
LEMMA DriveAnswers_Packet ==
  ASSUME PacketInv, DriveAnswers
  PROVE  PacketInv'
  <1>1. /\ bsy /\ ~bsy'
        /\ pend' \in GoodResponse(cmd) \/ (cmd = "READ_TOC" /\ pend' \in BadTocs)
        /\ silent' = (cmd = "READ_TOC" /\ "no_drq_in_toc" \in quirks)
        /\ UNCHANGED <<sem, todo, booted, quirks, rd, toc>>
    BY DEF DriveAnswers, bsy
  <1>2. pend' \in Seq(Units) /\ WholeToc(pend)'
    <2>1. pend' \in Seq(Units) /\ WholeToc(pend')
      BY <1>1, Answers
    <2> QED BY <2>1 DEF WholeToc
  <1>3. DeviceInv'
    BY <1>1, <1>2 DEF PacketInv, DeviceInv, Good, Asserts, Emptied
  <1>4. cmd \in Orders => pend' = <<>>
    BY <1>1 DEF Orders, GoodResponse
  <1>5. ASSUME NEW t \in Tasks, NEW x \in Places, AtPlace(t, x)
        PROVE  AtPlace(t, x)'
    <2>1. CASE x \in {"out", "cold", "booting"}
      BY <1>1, <1>5, <2>1 DEF AtPlace, Cold
    <2>2. CASE x \notin {"out", "cold", "booting"}
      <3>1. sem = t /\ Holds(x)
        BY <1>5, <2>2 DEF AtPlace
      <3>2. Good' => Good
        BY <1>1 DEF Good, Asserts
      <3>3. \/ x = "clean" /\ ~Good
            \/ x = "told" /\ (Good => cmd \in Orders)
            \/ x = "asked"
            \/ x = "there" /\ ~Good
            \/ x = "toc" /\ ~rd.success
            \/ x \in {"asks", "answer"} /\ ~rd.success /\ rd.tracks = <<>>
        BY <1>1, <3>1 DEF Holds, Emptied
      <3>4. Holds(x)'
        BY <1>1, <1>4, <3>2, <3>3 DEF Holds
      <3> QED BY <1>1, <2>2, <3>1, <3>4 DEF AtPlace
    <2> QED BY <2>1, <2>2
  <1>6. ASSUME NEW t \in Tasks
        PROVE  \E x \in Places : Going(todo[t], x, "out")' /\ AtPlace(t, x)'
    <2>1. PICK x \in Places : Going(todo[t], x, "out") /\ AtPlace(t, x)
      BY DEF PacketInv, TasksInv
    <2>2. Going(todo[t], x, "out")'
      BY <1>1, <2>1 DEF Going
    <2> QED BY <1>5, <2>1, <2>2
  <1> QED BY <1>1, <1>3, <1>6 DEF PacketInv, TasksInv

\* What the invariant is about is left alone.
LEMMA Nothing_Packet ==
  ASSUME PacketInv, UNCHANGED <<sem, todo, booted, quirks, cmd, pend, silent, rd, toc>>
  PROVE  PacketInv'
  <1>1. DeviceInv'
    BY DEF PacketInv, DeviceInv, WholeToc, Good, Asserts, Emptied, bsy
  <1>2. ASSUME NEW t \in Tasks, NEW x \in Places, AtPlace(t, x)
        PROVE  AtPlace(t, x)'
    <2>1. Holds(x) => Holds(x)'
      BY DEF Holds, Good, Asserts, Emptied, bsy, BeforeEntry, ReadUpTo, SuccessIsDisc
    <2> QED BY <1>2, <2>1 DEF AtPlace, Cold
  <1>3. ASSUME NEW t \in Tasks
        PROVE  \E x \in Places : Going(todo[t], x, "out")' /\ AtPlace(t, x)'
    <2>1. PICK x \in Places : Going(todo[t], x, "out") /\ AtPlace(t, x)
      BY DEF PacketInv, TasksInv
    <2>2. Going(todo[t], x, "out")'
      BY <2>1 DEF Going
    <2> QED BY <1>2, <2>1, <2>2
  <1> QED BY <1>1, <1>3 DEF PacketInv, TasksInv

LEMMA PacketInit_Packet == PacketInit => PacketInv
  <1> SUFFICES ASSUME PacketInit PROVE PacketInv
    OBVIOUS
  <1>1. /\ sem = NoTask /\ booted = FALSE /\ quirks = {} /\ cmd = NoCommand /\ pend = <<>>
        /\ silent = FALSE /\ rd = NoRead /\ toc = <<>>
        /\ todo = [t \in Tasks |-> IF t = Main THEN reset ELSE <<>>]
    BY DEF PacketInit
  <1>2. NoRead \in ReadTypes
    BY EmptySeq DEF NoRead, ReadTypes
  <1>3. WholeToc(pend) /\ pend \in Seq(Units)
    BY <1>1, NoAnswer DEF WholeToc
  <1>4. DeviceInv
    BY <1>1, <1>2, <1>3 DEF DeviceInv, Good
  <1>5. Main \in Tasks /\ NoTask \notin Tasks
    BY PacketAssumption
  <1>6. reset \in Seq(Calls) /\ Going(reset, "cold", "out")
    BY reset_Goes
  <1>7. {"cold", "out"} \subseteq Places
    BY DEF Places
  <1>8. <<>> \in Seq(Calls) /\ Going(<<>>, "out", "out")
    BY <1>7, NoneGoes
  <1> HIDE DEF reset
  <1>9. todo \in [Tasks -> Seq(Calls)] /\ \A t \in Tasks \ {Main} : todo[t] = <<>>
    BY <1>1, <1>6, <1>8
  <1>10. ASSUME NEW t \in Tasks
         PROVE  \E x \in Places : Going(todo[t], x, "out") /\ AtPlace(t, x)
    <2>1. CASE t = Main
      <3>1. todo[t] = reset /\ AtPlace(t, "cold")
        BY <1>1, <1>5, <2>1 DEF AtPlace, Cold
      <3> QED BY <1>6, <1>7, <3>1
    <2>2. CASE t # Main
      <3>1. todo[t] = <<>> /\ AtPlace(t, "out")
        BY <1>1, <1>5, <2>2 DEF AtPlace
      <3> QED BY <1>7, <1>8, <3>1
    <2> QED BY <2>1, <2>2
  <1> QED BY <1>4, <1>9, <1>10 DEF PacketInv, TasksInv

LEMMA PacketNext_Packet == PacketInv /\ [PacketNext]_packetVars => PacketInv'
  <1> SUFFICES ASSUME PacketInv, [PacketNext]_packetVars PROVE PacketInv'
    OBVIOUS
  <1>1. CASE DriveAnswers
    BY <1>1, DriveAnswers_Packet
  <1>2. CASE DriveSettles
    BY <1>2, Nothing_Packet DEF DriveSettles
  <1>3. CASE UNCHANGED packetVars
    BY <1>3, Nothing_Packet DEF packetVars, driveSide
  <1>4. ASSUME NEW t \in Tasks, NEW op \in Ops[t], Call(t, op) PROVE PacketInv'
    BY <1>4, Call_Packet
  <1>5. ASSUME NEW t \in Tasks, TaskStep(t) PROVE PacketInv'
    BY <1>5, Take_Packet, Give_Packet, SendPacket_Packet, Wait_Packet, Boot_Packet,
       ReadResponse_Packet, SelectOnce_Packet, ModeSelect_Packet, WaitReady_Packet, TocBegin_Packet,
       TocAttempt_Packet, TocHeader_Packet, TocEntry_Packet, TocVerdict_Packet, TextHead_Packet
       DEF TaskStep
  <1> QED BY <1>1, <1>2, <1>3, <1>4, <1>5 DEF PacketNext, DriveStep

LEMMA PacketInvariant == PacketSpec => []PacketInv
  BY PacketInit_Packet, PacketNext_Packet, PTL DEF PacketSpec

\* The table of contents that read_toc() returns is that of the disc or none, for any disc,
\* any number of tasks and slots, and whatever the drive makes of its first answers.
THEOREM TocIsRightOrEmpty == PacketSpec => []TocRightOrEmpty
  <1>1. PacketInv => TocRightOrEmpty
    BY DEF PacketInv, DeviceInv, TocRightOrEmpty
  <1> QED BY <1>1, PacketInvariant, PTL

\* When nobody holds the device a good read has left nothing in the drive, unless it is one
\* that does not assert DRQ.
THEOREM LeftoversAreOfNonsense == PacketSpec => []LeftoverOnlyOfNonsense
  <1>1. PacketInv => LeftoverOnlyOfNonsense
    BY DEF PacketInv, DeviceInv, LeftoverOnlyOfNonsense, Good, Asserts, Emptied
  <1> QED BY <1>1, PacketInvariant, PTL

=============================================================================
