---------------------------- MODULE RemoteControl ----------------------------
(***************************************************************************)
(* The infrared remote control (remote.cpp, remote.h): the keypad task, on *)
(* one core, decodes what the receiver puts into the ring buffer and notes *)
(* flag, code and time, one after the other; the UI task, on the other     *)
(* core, asks has_new_code() and then takes code().  Nothing is locked:    *)
(* their steps interleave.                                                 *)
(***************************************************************************)
EXTENDS Naturals

CONSTANT MaxNews  \* bound of the codes that are judged to be new

ASSUME RemoteAssumption == MaxNews \in Nat

\* The key map, by two keys of one meaning and one of another.
PS2_REMOTE_KEYMAP ==
  [raw \in {"Stop", "Square", "Play"} |-> CASE raw = "Play" -> "RVK_PLAY" [] OTHER -> "RVK_STOP"]
RVK_MAX_INVALID == "RVK_MAX_INVALID"

VARIABLES
  new_code_flag, last_received_code,
  recent,      \* last_reception_ts is 100 ms ago at most
  rx,          \* the next step of update(): "idle", "flag", "code" or "ts"
  code,        \* its local
  rc,          \* the next step of the UI task: "ask", "flag", "clear" or "code"
  rslt,        \* the local of has_new_code()
  heard,       \* codes received in the last 100 ms: history of the model
  news, acts   \* codes judged to be new, codes acted on: history of the model

noted == <<new_code_flag, last_received_code, recent>>
rxVars == <<rx, code, heard, news>>
rcVars == <<rc, rslt, acts>>
remoteVars == <<noted, rxVars, rcVars>>

-----------------------------------------------------------------------------
(* Decoding *)

\* Sony20bitDecoder: the bits of a key that is mapped or not; or fewer of them, when a
\* gap cuts the frame short.  Anything else is not taken for a frame, and update()
\* changes nothing.
Sony20bitDecoder == DOMAIN PS2_REMOTE_KEYMAP \cup {"not mapped", "cut short"}

\* For what the key map does not have KeymapDecoder leaves the code at what it was, and
\* yet reports one.
KeymapDecoder(raw) == IF raw \in DOMAIN PS2_REMOTE_KEYMAP THEN PS2_REMOTE_KEYMAP[raw] ELSE RVK_MAX_INVALID

-----------------------------------------------------------------------------
(* The keypad task: Remote::update() *)

IsNew(c) == last_received_code # c \/ ~recent

\* A frame of a key that is held comes every 45 ms; of another one, or of the same
\* one again, any time.
FrameComes ==
  /\ rx = "idle"
  /\ rx' = "flag"
  /\ \E raw \in Sony20bitDecoder : code' = KeymapDecoder(raw)
  /\ IsNew(code') => news < MaxNews
  /\ heard' = {code'} \cup (IF recent THEN {last_received_code} ELSE {})
  /\ UNCHANGED <<noted, news, rcVars>>

SetFlag ==
  /\ rx = "flag"
  /\ rx' = "code"
  /\ IF IsNew(code) THEN new_code_flag' = TRUE /\ news' = news + 1 ELSE UNCHANGED <<new_code_flag, news>>
  /\ UNCHANGED <<last_received_code, recent, code, heard, rcVars>>

SetCode ==
  /\ rx = "code"
  /\ rx' = "ts"
  /\ last_received_code' = code
  /\ UNCHANGED <<new_code_flag, recent, code, heard, news, rcVars>>

SetTs ==
  /\ rx = "ts"
  /\ rx' = "idle"
  /\ recent' = TRUE
  /\ heard' = {code}
  /\ UNCHANGED <<new_code_flag, last_received_code, code, news, rcVars>>

-----------------------------------------------------------------------------
(* The UI task: has_new_code(), code() *)

AskTs == rc = "ask" /\ rc' = "flag" /\ rslt' = recent /\ UNCHANGED <<acts, noted, rxVars>>

AskFlag == rc = "flag" /\ rc' = "clear" /\ rslt' = (rslt /\ new_code_flag) /\ UNCHANGED <<acts, noted, rxVars>>

\* Mutant: clears the flag only when the code is too old.
ClearFlagLater ==
  /\ rc = "clear"
  /\ new_code_flag' = (rslt /\ new_code_flag)
  /\ rc' = IF rslt THEN "code" ELSE "ask"
  /\ UNCHANGED <<last_received_code, recent, rslt, acts, rxVars>>

ClearFlag ==
  /\ rc = "clear"
  /\ new_code_flag' = FALSE
  /\ rc' = IF rslt THEN "code" ELSE "ask"
  /\ UNCHANGED <<last_received_code, recent, rslt, acts, rxVars>>

\* What is done about a key: ModeHost, CDModeKeys, NumberEntry and Menus have it.
TakeCode ==
  /\ rc = "code"
  /\ rc' = "ask"
  /\ acts' = acts + 1
  /\ UNCHANGED <<rslt, noted, rxVars>>

\* 100 ms without a frame; both tasks get further than from one step to the next.
Quiet ==
  /\ rx = "idle" /\ rc = "ask"
  /\ recent' = FALSE /\ heard' = {}
  /\ UNCHANGED <<new_code_flag, last_received_code, rx, code, news, rcVars>>

-----------------------------------------------------------------------------
RemoteInit ==
  /\ new_code_flag = FALSE /\ last_received_code = RVK_MAX_INVALID /\ recent = FALSE
  /\ rx = "idle" /\ code = RVK_MAX_INVALID
  /\ rc = "ask" /\ rslt = FALSE
  /\ heard = {} /\ news = 0 /\ acts = 0

RemoteNext ==
  \/ FrameComes \/ SetFlag \/ SetCode \/ SetTs
  \/ AskTs \/ AskFlag \/ ClearFlag \/ TakeCode \/ Quiet

RemoteSpec == RemoteInit /\ [][RemoteNext]_remoteVars

-----------------------------------------------------------------------------
(* Properties *)

\* However the tasks interleave, the user interface does not act more often than new
\* codes came: a race may replace one key by another, but makes no additional one.
NotMultiplied == acts <= news

\* And what it acts on was received in the last 100 ms: not a key that was pressed while
\* the user interface was busy, and not one from before.
EachKeyOnce == NotMultiplied /\ (rc = "code" => last_received_code \in heard)

=============================================================================
