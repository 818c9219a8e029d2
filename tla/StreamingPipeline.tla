------------------------- MODULE StreamingPipeline -------------------------
(***************************************************************************)
(* The internet radio: InternetRadioMode (firm/src/mode/netradio_mode.cpp) *)
(* and the StreamingPipeline that it makes for each station                *)
(* (firm/src/mode/netradio/pipeline.h).                                    *)
(*                                                                         *)
(* The UI task makes, stops and deletes the pipeline.  Its network task    *)
(* fills a buffer and reconnects when the stream stalls; its codec task,   *)
(* which the network task starts, empties it once there is enough in it.   *)
(* Each task holds a semaphore from its start to its end, and stop() takes *)
(* both.                                                                   *)
(***************************************************************************)
EXTENDS Naturals

\* Levels of the buffer, in steps of 5 %.
CONSTANTS
  Capacity,    \* NET_DATA_BUFFER_SIZE
  StallLevel,  \* below it a silent server counts as stalled
  FirstMark,   \* NET_DATA_ENOUGH_MARK_PCT
  TunedMark,   \* what the automatic mark is limited to
  LastMark     \* what the mark grows to

ASSUME MarkAssumption ==
  /\ Capacity \in Nat /\ StallLevel \in Nat /\ FirstMark \in Nat
  /\ TunedMark \in Nat /\ LastMark \in Nat
  /\ FirstMark <= LastMark /\ TunedMark <= LastMark
  /\ LastMark < Capacity

VARIABLES
  uiPc, again,   \* stop() and whether another station follows
  streamer,      \* the mode has a pipeline
  running,
  semaNet, semaCodec,  \* who holds them
  netOn,         \* the network task has not been ended
  netPc, codecPc,
  urlStream,     \* no connection, or one that brings data or does not
  overdue,       \* last_successful_copy is NET_NO_DATA_TIMEOUT ago
  level,         \* of bufferNetData
  enoughMark, didAutoTuneEnoughMark

uiVars == <<uiPc, again, streamer>>
netVars == <<semaNet, netOn, netPc, urlStream, overdue>>
markVars == <<enoughMark, didAutoTuneEnoughMark>>
codecVars == <<semaCodec, codecPc>>
radioVars == <<uiVars, running, netVars, codecVars, level, markVars>>

NetInside == {"connect", "loop", "copy", "retry", "begin", "forever"}
CodecInside == {"head", "wait", "play", "end"}

FlagsOK ==
  /\ again \in BOOLEAN /\ streamer \in BOOLEAN /\ running \in BOOLEAN
  /\ netOn \in BOOLEAN /\ overdue \in BOOLEAN
  /\ didAutoTuneEnoughMark \in BOOLEAN

RadioTypeOK ==
  /\ FlagsOK
  /\ uiPc \in {"idle", "net", "codec", "start"}
  /\ semaNet \in {"free", "net", "ui"}
  /\ semaCodec \in {"free", "codec"}
  /\ netPc \in {"none", "begun", "asleep"} \cup NetInside
  /\ codecPc \in {"none", "begun", "asleep"} \cup CodecInside
  /\ urlStream \in {"down", "flows", "dead"}
  /\ level \in 0 .. Capacity
  /\ enoughMark \in 0 .. LastMark

RadioInit ==
  /\ uiPc = "idle" /\ again = FALSE /\ streamer = FALSE
  /\ running = FALSE
  /\ semaNet = "free" /\ semaCodec = "free"
  /\ netOn = FALSE /\ netPc = "none" /\ codecPc = "none"
  /\ urlStream = "down" /\ overdue = FALSE
  /\ level = 0 /\ enoughMark = FirstMark /\ didAutoTuneEnoughMark = FALSE

-----------------------------------------------------------------------------
(* The UI task *)

\* Mutant: a codec task of the priority of the UI task.
UiRunsBeside == TRUE

\* The codec task has priority 4 on the core of the UI task, which has 1: it gets to
\* its first wait before the UI task goes on.
UiRuns == codecPc # "begun"

BesideUi == UNCHANGED <<semaCodec, codecPc, urlStream, overdue, level, markVars>>

\* play(): another station, after the one before is stopped
Play ==
  /\ uiPc = "idle" /\ UiRuns
  /\ again' = TRUE
  /\ uiPc' = IF streamer THEN "net" ELSE "start"
  /\ running' = FALSE
  /\ UNCHANGED <<streamer, semaNet, netOn, netPc>>
  /\ BesideUi

\* stop(), by key, for an empty preset, and on leaving the mode
Stop ==
  /\ uiPc = "idle" /\ UiRuns
  /\ streamer
  /\ again' = FALSE
  /\ uiPc' = "net"
  /\ running' = FALSE
  /\ UNCHANGED <<streamer, semaNet, netOn, netPc>>
  /\ BesideUi

\* netTask.end() suspends the task.
StopNet ==
  /\ uiPc = "net" /\ UiRuns
  /\ semaNet = "free"
  /\ semaNet' = "ui"
  /\ netOn' = FALSE
  /\ uiPc' = "codec"
  /\ UNCHANGED <<again, streamer, running, netPc>>
  /\ BesideUi

\* The rest of stop(), and delete; the next pipeline is as at first.
StopCodec ==
  /\ uiPc = "codec" /\ UiRuns
  /\ semaCodec = "free"
  /\ uiPc' = IF again THEN "start" ELSE "idle"
  /\ streamer' = FALSE
  /\ semaNet' = "free" /\ netPc' = "none" /\ codecPc' = "none"
  /\ urlStream' = "down" /\ overdue' = FALSE
  /\ level' = 0 /\ enoughMark' = FirstMark /\ didAutoTuneEnoughMark' = FALSE
  /\ UNCHANGED <<again, running, netOn, semaCodec>>

\* new and start()
Start ==
  /\ uiPc = "start"
  /\ uiPc' = "idle"
  /\ streamer' = TRUE
  /\ running' = TRUE
  /\ netOn' = TRUE /\ netPc' = "begun"
  /\ UNCHANGED <<again, semaNet>>
  /\ BesideUi

Ui == StopNet \/ StopCodec \/ Start

-----------------------------------------------------------------------------
(* The network task *)

BesideNet == UNCHANGED <<uiVars, running, netOn, markVars>>

NetTake ==
  /\ netPc = "begun" /\ netOn
  /\ semaNet = "free"
  /\ semaNet' = "net"
  /\ netPc' = "connect"
  /\ UNCHANGED <<codecVars, urlStream, overdue, level>>
  /\ BesideNet

\* The server names a type that there is a codec for, whose task begins, or the task
\* sleeps for good where it is; a server that cannot be reached names none.
NetConnect ==
  /\ netPc = "connect"
  /\ urlStream' \in {"down", "flows", "dead"}
  /\ \/ netPc' = "loop" /\ urlStream' # "down" /\ codecPc' = "begun"
     \/ netPc' = "forever" /\ UNCHANGED codecPc
  /\ overdue' = FALSE
  /\ UNCHANGED <<semaNet, semaCodec, level>>
  /\ BesideNet

\* Mutant: keeps the semaphore.
NetCheckHolds ==
  /\ netPc = "loop"
  /\ netPc' = IF running THEN "copy" ELSE "asleep"
  /\ UNCHANGED <<semaNet, codecVars, urlStream, overdue, level>>
  /\ BesideNet

NetCheck ==
  /\ netPc = "loop"
  /\ IF running
     THEN netPc' = "copy" /\ UNCHANGED semaNet
     ELSE netPc' = "asleep" /\ semaNet' = "free"
  /\ UNCHANGED <<codecVars, urlStream, overdue, level>>
  /\ BesideNet

NetCopies ==
  /\ netPc = "copy"
  /\ urlStream = "flows" /\ level < Capacity
  /\ level' = level + 1
  /\ overdue' = FALSE
  /\ netPc' = "loop"
  /\ UNCHANGED <<semaNet, codecVars, urlStream>>
  /\ BesideNet

\* Mutant: a stall must last until the buffer is full.
StalledFull == overdue /\ level = Capacity

Stalled == overdue /\ level < StallLevel

\* Nothing was copied.
NetIdles ==
  /\ netPc = "copy"
  /\ IF Stalled
     THEN netPc' = "retry" /\ urlStream' = "down"
     ELSE netPc' = "loop" /\ UNCHANGED urlStream
  /\ UNCHANGED <<semaNet, codecVars, overdue, level>>
  /\ BesideNet

NetClear ==
  /\ netPc = "retry"
  /\ level' = 0
  /\ netPc' = "begin"
  /\ UNCHANGED <<semaNet, codecVars, urlStream, overdue>>
  /\ BesideNet

\* last_successful_copy becomes the time before the retries, which may be long ago.
NetBegin ==
  /\ netPc = "begin"
  /\ urlStream' \in {"down", "flows", "dead"}
  /\ IF urlStream' = "down" /\ running
     THEN netPc' = "retry" /\ UNCHANGED overdue
     ELSE netPc' = "loop" /\ overdue' \in BOOLEAN
  /\ UNCHANGED <<semaNet, codecVars, level>>
  /\ BesideNet

Net == NetTake \/ NetConnect \/ NetCheck \/ NetIdles \/ NetClear \/ NetBegin

(* The server, and time *)

BesideTime == UNCHANGED <<uiVars, running, semaNet, netOn, netPc, codecVars, level, markVars>>

StreamChanges ==
  /\ urlStream # "down"
  /\ urlStream' \in {"flows", "dead"} \ {urlStream}
  /\ UNCHANGED overdue
  /\ BesideTime

\* Ten seconds without a copy: nothing came, or there was no room.
Overdue ==
  /\ netPc \in {"loop", "copy"}
  /\ ~overdue
  /\ urlStream # "flows" \/ level = Capacity
  /\ overdue' = TRUE
  /\ UNCHANGED urlStream
  /\ BesideTime

-----------------------------------------------------------------------------
(* The codec task *)

BesideCodec == UNCHANGED <<uiVars, running, netVars>>

CodecTake ==
  /\ codecPc = "begun"
  /\ semaCodec = "free"
  /\ semaCodec' = "codec"
  /\ codecPc' = "head"
  /\ UNCHANGED <<level, markVars>>
  /\ BesideCodec

CodecHead ==
  /\ codecPc = "head"
  /\ codecPc' = IF running THEN "wait" ELSE "end"
  /\ UNCHANGED <<semaCodec, level, markVars>>
  /\ BesideCodec

\* The first wait guesses a mark from the speed of the network.
CodecWaits ==
  /\ codecPc = "wait"
  /\ level < enoughMark /\ running
  /\ ~didAutoTuneEnoughMark
  /\ enoughMark' \in 1 .. TunedMark
  /\ UNCHANGED <<semaCodec, codecPc, level, didAutoTuneEnoughMark>>
  /\ BesideCodec

CodecStarts ==
  /\ codecPc = "wait"
  /\ level >= enoughMark \/ ~running
  /\ didAutoTuneEnoughMark' = TRUE
  /\ codecPc' = "play"
  /\ UNCHANGED <<semaCodec, level, enoughMark>>
  /\ BesideCodec

\* Mutant: the mark grows without limit.
RaisedOn(mark) == mark + 1

Raised(mark) == IF mark < LastMark THEN mark + 1 ELSE mark

\* One copy to the output; a hiccup when the buffer has run dry.
CodecPlays ==
  /\ codecPc = "play"
  /\ level' = IF level > 0 THEN level - 1 ELSE 0
  /\ IF level' > 0 /\ running
     THEN UNCHANGED <<codecPc, enoughMark>>
     ELSE codecPc' = "head" /\ enoughMark' = Raised(enoughMark)
  /\ UNCHANGED <<semaCodec, didAutoTuneEnoughMark>>
  /\ BesideCodec

CodecEnds ==
  /\ codecPc = "end"
  /\ semaCodec' = "free"
  /\ codecPc' = "asleep"
  /\ UNCHANGED <<level, markVars>>
  /\ BesideCodec

Codec == CodecTake \/ CodecHead \/ CodecStarts \/ CodecPlays \/ CodecEnds

-----------------------------------------------------------------------------

RadioNext ==
  \/ Play \/ Stop \/ Ui
  \/ Net \/ NetCopies
  \/ StreamChanges \/ Overdue
  \/ Codec \/ CodecWaits

RadioSpec == RadioInit /\ [][RadioNext]_radioVars

\* All tasks run, time passes, and of the data that flow some are copied.
RadioFairness ==
  /\ WF_radioVars(Ui) /\ WF_radioVars(Net) /\ WF_radioVars(Codec)
  /\ SF_radioVars(NetCopies) /\ WF_radioVars(Overdue)

RadioFairSpec == RadioSpec /\ RadioFairness

-----------------------------------------------------------------------------
(* Properties *)

\* stop() ends the network task where it waits to begin or has nothing left to do, and
\* the pipeline is deleted when its codec task never began or is through: no task is
\* suspended inside the buffer or the network stack, and none waits for a semaphore
\* that is deleted.
NobodyEndedMidway ==
  [][/\ netOn /\ ~netOn' => netPc \in {"begun", "asleep"}
     /\ streamer /\ ~streamer' => codecPc \in {"none", "asleep"}]_radioVars

\* stop() returns, wherever the two tasks are, unless the network task is in the sleep
\* that it never leaves.
StopEnds == uiPc = "net" ~> uiPc \in {"idle", "start"} \/ netPc = "forever"

\* As long as data come the radio plays, after whatever hiccups and stalls.
PlaysWhenFed ==
  <>[](urlStream = "flows" /\ running /\ netPc # "forever") => []<>(codecPc = "play")

\* A stream that falls silent while it plays is connected again or stopped.
DrainedIsNoticed ==
  codecPc = "play" /\ urlStream = "dead" ~> urlStream # "dead" \/ ~running

\* "Timeout to consider no copies from network a stall": a connection that stays silent
\* is connected again or stopped, also while the codec task waits for the mark.
StallIsNoticed ==
  netPc = "loop" /\ urlStream = "dead" ~> urlStream # "dead" \/ ~running

=============================================================================
