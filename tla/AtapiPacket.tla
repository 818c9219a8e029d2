---------------------------- MODULE AtapiPacket ----------------------------
(***************************************************************************)
(* The packet protocol of ATAPI::Device.  AtapiDrive takes every command   *)
(* of the device as one effect; here it is the calls it is made of: taking *)
(* the device's semaphore, sending a packet, polling the status register,  *)
(* reading a response.  Two tasks issue commands.  The drive works on a    *)
(* packet in its own time, and what it answers may be short, long or       *)
(* nonsense, as the comments in read_toc() say that some drives do.        *)
(*                                                                         *)
(* A response is a sequence of units, one per field that the code looks    *)
(* at: a TOC entry is the half with its number and the half with its       *)
(* address, everything that is not a TOC is "data".  What a method still   *)
(* has to do is the list of calls in todo.                                 *)
(***************************************************************************)
EXTENDS Naturals, Sequences, SequencesExt

CONSTANTS
  Tasks,      \* the tasks that issue commands
  Main,       \* the one that boots the device
  NoTask,
  Ops,        \* the methods that each of them may call
  Drives,     \* the drives that identify() may find: sets of quirks
  Disc,       \* the track numbers of the TOC, without the lead-out
  Slots       \* slots of the changer

LeadOut == 170  \* TRK_NUM_LEAD_OUT

ASSUME PacketAssumption ==
  /\ NoTask \notin Tasks /\ Main \in Tasks
  /\ Drives \subseteq SUBSET {"fucky_toc_reads", "no_drq_in_toc"}
  /\ Disc \in Seq(1 .. 99) /\ Disc # <<>>
  /\ \A i, j \in 1 .. Len(Disc) : i < j => Disc[i] < Disc[j]
  /\ Slots \in Nat \ {0}

VARIABLES
  sem,        \* who holds the device's semaphore
  todo,       \* the calls that each task still has to make
  booted,     \* reset() is over: there are tasks that call the device
  quirks,     \* of the drive that was identified
  cmd,        \* the packet that the drive works on (BSY)
  pend,       \* the units of its response that were not read yet
  silent,     \* it gives them without asserting DRQ
  notReady,   \* the answer to REQUEST SENSE
  inMotion,   \* the answer to MECHANISM STATUS
  selected,   \* playback_mode_select_flag
  rd,         \* the locals of read_toc()
  toc         \* what the last read_toc() returned

driveSide == <<cmd, pend, silent, notReady, inMotion>>
packetVars == <<sem, todo, booted, quirks, selected, rd, toc, driveSide>>

-----------------------------------------------------------------------------
(* The methods, as the calls they make *)

Commands == {"DIAGNOSTIC", "IDENTIFY", "START_STOP", "PREVENT_REMOVAL", "LOAD_UNLOAD",
             "STOP", "PAUSE", "PLAY", "SCAN", "SET_CD_SPEED", "MODE_SENSE", "MODE_SELECT",
             "MECHANISM_STATUS", "READ_SUBCHANNEL", "REQUEST_SENSE", "READ_TOC", "READ_TEXT"}
NoCommand == "none"

Locked(calls) == <<"take">> \o calls \o <<"give">>
send_packet(c) == <<c, "not_busy">>
Simple(c) == Locked(send_packet(c))
Query(c) == Locked(send_packet(c) \o <<"read_all">>)

\* The table follows the header only when there is more than one slot.
query_state ==
  LET table == IF Slots = 1 THEN <<>>
               ELSE [i \in 1 .. Slots |-> IF i = Slots THEN "read_all" ELSE "read"]
  IN  Locked(send_packet("MECHANISM_STATUS") \o <<"read">> \o table \o <<"drain">>)

\* Mode sense: header and page.
mode_sense == send_packet("MODE_SENSE") \o <<"read", "read_all">>

\* Mutant: looks at the page before it gives the semaphore back.
mode_select_held == <<"take">> \o mode_sense \o <<"if_page">>

\* Reads the page and gives the semaphore back; if the drive has such a page, takes
\* it again to write the page and read what became of it.
mode_select == Locked(mode_sense) \o <<"if_page">>
mode_write == Locked(send_packet("MODE_SELECT") \o mode_sense)

\* set_speed() is the last thing that reset() does; identify() waits for the data.
reset ==
  Locked(<<"ide_reset", "not_busy">>)
  \o Locked(<<>>)                                \* check_atapi_compatible()
  \o Locked(<<"DIAGNOSTIC", "not_busy">>)        \* self_test()
  \o Locked(<<"not_busy", "no_drq">>)            \* init_task_file()
  \o Locked(<<"IDENTIFY", "not_busy", "drq", "read_all">>) \o <<"look_up_quirks">>
  \o query_state \o Locked(mode_sense) \o Simple("SET_CD_SPEED") \o <<"booted">>

\* play() selects the output ports and the power conditions once.
play == <<"select_once">> \o Simple("PLAY")

Method ==
  [query_state |-> query_state,
   query_position |-> Query("READ_SUBCHANNEL"),
   check_media |-> Query("MODE_SENSE"),
   start |-> Simple("START_STOP"),
   eject |-> Simple("START_STOP"),
   set_tray_locked |-> Simple("PREVENT_REMOVAL"),
   load_unload |-> Simple("LOAD_UNLOAD"),
   stop |-> Simple("STOP"),
   pause |-> Simple("PAUSE"),
   scan |-> Simple("SCAN"),
   play |-> play,
   wait_ready |-> Locked(<<"sense">>) \o query_state \o <<"moving">>,
   read_toc |-> Simple("SET_CD_SPEED") \o Locked(<<"toc_begin", "toc_attempt">>)]

ASSUME OpsAssumption == Ops \in [Tasks -> SUBSET DOMAIN Method]

-----------------------------------------------------------------------------
(* The drive *)

Unit(kind, a, b) == [kind |-> kind, a |-> a, b |-> b]
Junk == Unit("junk", 0, 0)
Entries(ns) ==
  [i \in 1 .. 2 * Len(ns) |->
     Unit(IF i % 2 = 1 THEN "track" ELSE "address", ns[(i + 1) \div 2], 0)]
Header == <<Unit("range", Disc[1], Last(Disc))>>
GoodToc == Header \o Entries(Disc \o <<LeadOut>>)

\* What a drive may make of a TOC: a header that makes no sense, a table that
\* breaks off after an entry, an entry that is there twice, a lead-out in the
\* middle, a table without it, one with something behind it.
BadTocs ==
  {<<>>, <<Junk>> \o Entries(Disc \o <<LeadOut>>)}
  \cup {Header \o Entries(SubSeq(Disc, 1, k)) : k \in 0 .. Len(Disc)}
  \cup {Header \o Entries(t) :
          t \in {Disc \o Disc, <<Disc[1]>> \o Disc \o <<LeadOut>>, Disc \o <<LeadOut, LeadOut>>,
                 <<Disc[1], LeadOut>> \o Tail(Disc) \o <<LeadOut>>}}

Data(n) == [i \in 1 .. n |-> Unit("data", 0, 0)]

GoodResponse(c) ==
  CASE c = "READ_TOC" -> {GoodToc}
    [] c = "READ_TEXT" -> {<<>>, <<Unit("text", 0, 0)>> \o Data(1), Data(2)}
    [] c = "MECHANISM_STATUS" -> {Data(IF Slots = 1 THEN 1 ELSE 1 + Slots)}
    [] c = "MODE_SENSE" -> {Data(2)}
    [] c \in {"IDENTIFY", "READ_SUBCHANNEL", "REQUEST_SENSE"} -> {Data(1)}
    [] OTHER -> {<<>>}

bsy == cmd # NoCommand
DRQ == pend # <<>> /\ ~bsy /\ ~silent

\* The drive is done with the packet and its response is there.
DriveAnswers ==
  /\ bsy
  /\ cmd' = NoCommand
  /\ \/ pend' \in GoodResponse(cmd)
     \/ cmd = "READ_TOC" /\ pend' \in BadTocs
  /\ silent' = (cmd = "READ_TOC" /\ "no_drq_in_toc" \in quirks)
  /\ UNCHANGED <<sem, todo, booted, quirks, notReady, inMotion, selected, rd, toc>>

\* It spins up, its changer comes to rest.
DriveSettles ==
  /\ \/ notReady /\ notReady' = FALSE /\ UNCHANGED inMotion
     \/ inMotion /\ inMotion' = FALSE /\ UNCHANGED notReady
  /\ UNCHANGED <<sem, todo, booted, quirks, cmd, pend, silent, selected, rd, toc>>

-----------------------------------------------------------------------------
(* The calls of a task *)

Next1(t) == todo[t][1]
Rest(t) == Tail(todo[t])
At(t, call) == todo[t] # <<>> /\ Next1(t) = call
Go(t, calls) == todo' = [todo EXCEPT ![t] = calls]

\* A task calls a method.
Call(t, op) ==
  /\ booted
  /\ todo[t] = <<>>
  /\ op \in Ops[t]
  /\ Go(t, Method[op])
  /\ UNCHANGED <<sem, booted, quirks, selected, rd, toc, driveSide>>

Take(t) ==
  /\ At(t, "take")
  /\ sem = NoTask
  /\ sem' = t
  /\ Go(t, Rest(t))
  /\ UNCHANGED <<booted, quirks, selected, rd, toc, driveSide>>

Give(t) ==
  /\ At(t, "give")
  /\ sem' = NoTask
  /\ Go(t, Rest(t))
  /\ UNCHANGED <<booted, quirks, selected, rd, toc, driveSide>>

\* The packet goes out whatever the state of the drive.  A drive that still has
\* data to give may drop them, or take no notice of the packet.
SendPacket(t) ==
  /\ todo[t] # <<>>
  /\ Next1(t) \in Commands
  /\ \/ /\ cmd' = Next1(t)
        /\ pend' = <<>>
        /\ inMotion' = (inMotion \/ cmd' \in {"LOAD_UNLOAD", "START_STOP"})
     \/ pend # <<>> /\ UNCHANGED <<cmd, pend, inMotion>>
  /\ Go(t, Rest(t))
  /\ UNCHANGED <<sem, booted, quirks, silent, selected, rd, toc, notReady>>

\* wait_not_busy(), wait_drq(), wait_drq_end(): polls without an end.
Wait(t) ==
  /\ \/ At(t, "not_busy") /\ ~bsy
     \/ At(t, "drq") /\ DRQ
     \/ At(t, "no_drq") /\ ~DRQ
  /\ Go(t, Rest(t))
  /\ UNCHANGED <<sem, booted, quirks, selected, rd, toc, driveSide>>

\* reset(): the bus reset clears the drive, identify() looks its quirks up.
Boot(t) ==
  /\ \/ /\ At(t, "ide_reset")
        /\ cmd' = NoCommand /\ pend' = <<>> /\ silent' = FALSE /\ notReady' = TRUE
        /\ UNCHANGED <<booted, quirks, inMotion>>
     \/ /\ At(t, "look_up_quirks")
        /\ quirks' \in Drives
        /\ UNCHANGED <<booted, driveSide>>
     \/ /\ At(t, "booted")
        /\ booted' = TRUE
        /\ UNCHANGED <<quirks, driveSide>>
  /\ Go(t, Rest(t))
  /\ UNCHANGED <<sem, selected, rd, toc>>

\* What is left when n units were read, or as many as there were.
Left(n) == SubSeq(pend, n + 1, Len(pend))

\* read_response(): into a buffer, and with flush whatever else there is.
ReadResponse(t) ==
  /\ \/ At(t, "read") /\ pend' = Left(1)
     \/ At(t, "read_all") /\ pend' = IF DRQ THEN <<>> ELSE Left(1)
     \/ At(t, "drain") /\ pend' = IF DRQ THEN <<>> ELSE pend
  /\ Go(t, Rest(t))
  /\ UNCHANGED <<sem, booted, quirks, selected, rd, toc, cmd, silent, notReady, inMotion>>

SelectOnce(t) ==
  /\ At(t, "select_once")
  /\ Go(t, (IF selected THEN <<>> ELSE mode_select \o mode_select) \o Rest(t))
  /\ selected' = TRUE
  /\ UNCHANGED <<sem, booted, quirks, rd, toc, driveSide>>

ModeSelect(t) ==
  /\ At(t, "if_page")
  /\ \E supported \in BOOLEAN : Go(t, (IF supported THEN mode_write ELSE <<>>) \o Rest(t))
  /\ UNCHANGED <<sem, booted, quirks, selected, rd, toc, driveSide>>

\* wait_ready(): asks again as long as the drive says NOT READY, with the
\* semaphore held, and then for its mechanism until nothing moves.
WaitReady(t) ==
  /\ \/ /\ At(t, "sense")
        /\ Go(t, send_packet("REQUEST_SENSE") \o <<"read_all", "sense_again">> \o Rest(t))
     \/ /\ At(t, "sense_again")
        /\ Go(t, (IF notReady THEN <<"sense">> ELSE <<>>) \o Rest(t))
     \/ /\ At(t, "moving")
        /\ Go(t, (IF inMotion THEN query_state \o <<"moving">> ELSE <<>>) \o Rest(t))
  /\ UNCHANGED <<sem, booted, quirks, selected, rd, toc, driveSide>>

-----------------------------------------------------------------------------
(* read_toc() *)

NoRead == [attempts |-> 0, success |-> FALSE, tracks |-> <<>>, i |-> 0, last |-> 0,
           lastTrk |-> 0, held |-> 0]

TocBegin(t) ==
  /\ At(t, "toc_begin")
  /\ rd' = [NoRead EXCEPT !.attempts = IF "fucky_toc_reads" \in quirks THEN 20 ELSE 2]
  /\ Go(t, Rest(t))
  /\ UNCHANGED <<sem, booted, quirks, selected, toc, driveSide>>

\* Mutant: keeps the tracks of the attempt before.
TocAttemptOn(t) ==
  /\ At(t, "toc_attempt")
  /\ Go(t, send_packet("READ_TOC") \o <<"not_busy", "toc_header">> \o Rest(t))
  /\ UNCHANGED <<sem, booted, quirks, selected, rd, toc, driveSide>>

\* The body of the loop up to the header.
TocAttempt(t) ==
  /\ At(t, "toc_attempt")
  /\ rd' = [rd EXCEPT !.tracks = <<>>]
  /\ Go(t, send_packet("READ_TOC") \o <<"not_busy", "toc_header">> \o Rest(t))
  /\ UNCHANGED <<sem, booted, quirks, selected, toc, driveSide>>

WaitEntry == IF "no_drq_in_toc" \in quirks THEN <<"toc_entry">> ELSE <<"drq", "toc_entry">>

\* Without DRQ to go by, read_response() takes what the data register holds when the
\* response is over: all there is to tell apart is a number of the disc, the lead-out's
\* and one that makes no sense.
RegisterHolds ==
  IF "no_drq_in_toc" \in quirks THEN {0, LeadOut} \cup Disc[1] .. Last(Disc) ELSE {0}

\* A header that makes no sense is not followed by a flush.  One read off a register
\* that holds the same for both of its numbers and its length makes none.
TocHeader(t) ==
  /\ At(t, "toc_header")
  /\ pend' = Left(1)
  /\ IF pend # <<>> /\ pend[1].kind = "range"
     THEN /\ \E held \in RegisterHolds :
               rd' = [rd EXCEPT !.i = pend[1].a, !.last = pend[1].b, !.lastTrk = pend[1].a - 1,
                                !.held = held]
          /\ Go(t, WaitEntry \o Rest(t))
     ELSE Go(t, <<"toc_verdict">> \o Rest(t)) /\ UNCHANGED rd
  /\ UNCHANGED <<sem, booted, quirks, selected, toc, cmd, silent, notReady, inMotion>>

\* The number in the entry.
EntryRead == IF pend = <<>> THEN rd.held ELSE IF pend[1].kind = "track" THEN pend[1].a ELSE 0

NoSense(n) == (n # LeadOut /\ n # rd.lastTrk + 1) \/ rd.lastTrk = LeadOut

TocEntry(t) ==
  /\ At(t, "toc_entry")
  /\ pend' = Left(2)
  /\ LET n == EntryRead
         read == [rd EXCEPT !.i = @ + 1, !.lastTrk = n]
     IN  IF NoSense(n)
         THEN /\ rd' = [rd EXCEPT !.success = FALSE]
              /\ Go(t, <<"drain", "toc_verdict">> \o Rest(t))
         ELSE /\ rd' = IF n = LeadOut THEN [read EXCEPT !.success = TRUE]
                       ELSE [read EXCEPT !.tracks = Append(@, n)]
              /\ Go(t, (IF rd.i <= rd.last THEN WaitEntry ELSE <<"drain", "toc_verdict">>) \o Rest(t))
  /\ UNCHANGED <<sem, booted, quirks, selected, toc, cmd, silent, notReady, inMotion>>

\* The end of the loop: another attempt, nothing, or the CD TEXT beside the tracks.
TocVerdict(t) ==
  /\ At(t, "toc_verdict")
  /\ UNCHANGED <<sem, booted, quirks, selected, driveSide>>
  /\ IF rd.success
     THEN /\ toc' = rd.tracks
          /\ rd' = NoRead
          /\ Go(t, send_packet("READ_TEXT") \o <<"not_busy", "text_head">> \o Rest(t))
     ELSE IF rd.attempts > 0
          THEN /\ rd' = [NoRead EXCEPT !.attempts = rd.attempts - 1, !.tracks = rd.tracks]
               /\ Go(t, <<"toc_attempt">> \o Rest(t))
               /\ UNCHANGED toc
          ELSE /\ toc' = <<>>
               /\ rd' = NoRead
               /\ Go(t, Rest(t))

\* Mutant: goes without a flush when there is no text.
TextHeadLeft(t) ==
  /\ At(t, "text_head")
  /\ pend' = Left(1)
  /\ \/ (pend # <<>> => pend[1].kind = "text") /\ Go(t, <<"read_all">> \o Rest(t))
     \/ (pend # <<>> => pend[1].kind # "text") /\ Go(t, Rest(t))
  /\ UNCHANGED <<sem, booted, quirks, selected, rd, toc, cmd, silent, notReady, inMotion>>

\* read_cd_text_toc_locked(): a head that is not of a text is all there is to it,
\* a missing one (two words of anything) may be taken for either.
TextHead(t) ==
  /\ At(t, "text_head")
  /\ pend' = Left(1)
  /\ \/ (pend # <<>> => pend[1].kind = "text") /\ Go(t, <<"read_all">> \o Rest(t))
     \/ (pend # <<>> => pend[1].kind # "text") /\ Go(t, <<"drain">> \o Rest(t))
  /\ UNCHANGED <<sem, booted, quirks, selected, rd, toc, cmd, silent, notReady, inMotion>>

-----------------------------------------------------------------------------
TaskStep(t) ==
  \/ Take(t) \/ Give(t) \/ SendPacket(t) \/ Wait(t) \/ Boot(t) \/ ReadResponse(t)
  \/ SelectOnce(t) \/ ModeSelect(t) \/ WaitReady(t)
  \/ TocBegin(t) \/ TocAttempt(t) \/ TocHeader(t) \/ TocEntry(t) \/ TocVerdict(t) \/ TextHead(t)

DriveStep == DriveAnswers \/ DriveSettles

PacketInit ==
  /\ sem = NoTask
  /\ todo = [t \in Tasks |-> IF t = Main THEN reset ELSE <<>>]
  /\ booted = FALSE
  /\ quirks = {}
  /\ cmd = NoCommand /\ pend = <<>> /\ silent = FALSE
  /\ notReady = TRUE /\ inMotion = FALSE
  /\ selected = FALSE
  /\ rd = NoRead
  /\ toc = <<>>

PacketNext == DriveStep \/ \E t \in Tasks : TaskStep(t) \/ \E op \in Ops[t] : Call(t, op)

PacketSpec ==
  /\ PacketInit
  /\ [][PacketNext]_packetVars
  /\ WF_packetVars(DriveAnswers)
  /\ WF_packetVars(DriveSettles)
  /\ \A t \in Tasks : WF_packetVars(TaskStep(t))

-----------------------------------------------------------------------------
(* Properties *)

\* The table of contents that read_toc() returns is that of the disc or none, whatever
\* the drive makes of the first answers and whatever is left of them in its buffer.
TocRightOrEmpty == toc \in {<<>>, Disc}

\* When nobody holds the device a good read has left nothing in the drive for the next
\* command to read: a leftover is that of a read that gave up, or of a drive that
\* does not assert DRQ, which the flush goes by.
LeftoverOnlyOfNonsense == sem = NoTask /\ pend # <<>> => toc = <<>> \/ "no_drq_in_toc" \in quirks

\* Whoever takes the semaphore of the device gives it back, however often a TOC is read
\* again and a drive asked whether it is ready, unless the drive ends an answer while
\* somebody waits for more of it: wait_drq() has no timeout.
Starved == sem # NoTask /\ At(sem, "drq") /\ ~DRQ /\ ~bsy
SemaphoreComesFree == (sem # NoTask) ~> (sem = NoTask \/ Starved)

=============================================================================
