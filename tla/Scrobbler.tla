----------------------------- MODULE Scrobbler -----------------------------
(***************************************************************************)
(* The scrobbler of the CD mode (scrobbler.h), its queue and task, and the *)
(* client of the service (last_fm.h).  The UI task feeds it the number of  *)
(* the track, what is known of it, and the time; every pass may bring any  *)
(* of them, since titles come late and the listener jumps about.  Entries  *)
(* are pushed by the UI task and popped by the scrobbler's, a semaphore    *)
(* that counts to four between them.                                       *)
(***************************************************************************)
EXTENDS Naturals, Sequences

CONSTANTS
  TrackNos,    \* numbers of tracks
  FullTime,    \* number -> duration, in steps of the clock
  FourMinutes, ThirtySeconds,
  MaxTokens,   \* 4: the maximum of queueSemaphore
  MaxWaiting   \* bound of the queue

ASSUME ScrobblerAssumption ==
  /\ TrackNos \subseteq Nat \ {0}
  /\ FullTime \in [TrackNos -> Nat]
  /\ FourMinutes \in Nat /\ ThirtySeconds \in Nat
  /\ MaxTokens \in Nat \ {0} /\ MaxWaiting \in Nat

VARIABLES
  cur_track,    \* number of the track that was fed last, 0 at first
  titled,       \* cur_metadata has a title
  scrobbled,
  queue,
  tokens,       \* count of queueSemaphore
  sender,       \* where the scrobbler's task is
  tmp,          \* the entry that it has popped last
  session_key   \* "untried", "got" or "none"

trackVars == <<cur_track, titled, scrobbled>>
scrobblerVars == <<trackVars, queue, tokens, sender, tmp, session_key>>

Entry(kind, no) == [kind |-> kind, no |-> no]
NoEntry == Entry("none", 0)

ScrobblerTypeOK ==
  /\ cur_track \in TrackNos \cup {0} /\ titled \in BOOLEAN /\ scrobbled \in BOOLEAN
  /\ queue \in Seq([kind : {"NowPlaying", "Scrobble"}, no : TrackNos]) /\ tokens \in 0 .. MaxTokens
  /\ sender \in {"wait", "taken", "login", "send"}
  /\ tmp \in [kind : {"NowPlaying", "Scrobble"}, no : TrackNos] \cup {NoEntry}
  /\ session_key \in {"untried", "got", "none"}

Least(a, b) == IF a < b THEN a ELSE b

\* Mutant: a semaphore that counts to one.
GiveOne(count) == Least(count + 1, 1)

\* queue.push() and xSemaphoreGive(): a full semaphore does not count further.
Give(count) == Least(count + 1, MaxTokens)
Push(entry) == queue' = Append(queue, entry) /\ tokens' = Give(tokens)

-----------------------------------------------------------------------------
(* The UI task *)

\* feed_track() with another number than before
FeedTrack ==
  /\ Len(queue) < MaxWaiting
  /\ cur_track' \in TrackNos \ {cur_track}
  /\ titled' \in BOOLEAN
  /\ scrobbled' = FALSE
  /\ IF titled' THEN Push(Entry("NowPlaying", cur_track')) ELSE UNCHANGED <<queue, tokens>>
  /\ UNCHANGED <<sender, tmp, session_key>>

scrobble_at == Least(FourMinutes, FullTime[cur_track] \div 2)

\* Mutant: does not note that the track was scrobbled.
FeedPositionAgain ==
  /\ Len(queue) < MaxWaiting
  /\ cur_track # 0 /\ ~scrobbled
  /\ IF FullTime[cur_track] > ThirtySeconds /\ titled
     THEN Push(Entry("Scrobble", cur_track)) ELSE UNCHANGED <<queue, tokens>>
  /\ UNCHANGED <<trackVars, sender, tmp, session_key>>

\* feed_position()
FeedPosition ==
  /\ Len(queue) < MaxWaiting
  /\ cur_track # 0 /\ ~scrobbled
  /\ \E time \in 0 .. FullTime[cur_track] : time >= scrobble_at
  /\ scrobbled' = TRUE
  /\ IF FullTime[cur_track] > ThirtySeconds /\ titled
     THEN Push(Entry("Scrobble", cur_track)) ELSE UNCHANGED <<queue, tokens>>
  /\ UNCHANGED <<cur_track, titled, sender, tmp, session_key>>

-----------------------------------------------------------------------------
(* The scrobbler's task *)

TakeToken ==
  /\ sender = "wait" /\ tokens > 0
  /\ tokens' = tokens - 1
  /\ sender' = "taken"
  /\ UNCHANGED <<trackVars, queue, tmp, session_key>>

PopEntry ==
  /\ sender = "taken"
  /\ IF queue = <<>> THEN sender' = "wait" /\ UNCHANGED <<queue, tmp>>
     ELSE /\ tmp' = Head(queue) /\ queue' = Tail(queue)
          /\ sender' = IF session_key = "untried" THEN "login" ELSE "send"
  /\ UNCHANGED <<trackVars, tokens, session_key>>

\* A key; or none, when there is no answer, no success or no key in it.
get_session_key == {"got", "none"}

\* auth_if_needed(): tried once, however it ends.
LogIn ==
  /\ sender = "login"
  /\ session_key' \in get_session_key
  /\ sender' = "send"
  /\ UNCHANGED <<trackVars, queue, tmp, tokens>>

\* The request ends, with an answer or by its timeout; there is none without a key.
SendEntry ==
  /\ sender = "send"
  /\ sender' = "wait"
  /\ UNCHANGED <<trackVars, queue, tmp, tokens, session_key>>

SenderStep == TakeToken \/ PopEntry \/ LogIn \/ SendEntry

-----------------------------------------------------------------------------
ScrobblerInit ==
  /\ cur_track = 0 /\ titled = FALSE /\ scrobbled = FALSE
  /\ queue = <<>> /\ tokens = 0
  /\ sender = "wait" /\ tmp = NoEntry /\ session_key = "untried"

ScrobblerNext == FeedTrack \/ FeedPosition \/ SenderStep

ScrobblerSpec == ScrobblerInit /\ [][ScrobblerNext]_scrobblerVars /\ WF_scrobblerVars(SenderStep)

-----------------------------------------------------------------------------
(* Properties *)

\* A track is scrobbled right after it was announced: the service never hears that a
\* track was played which it was not told is playing, nor twice of the same one.
AnnouncedThenScrobbled ==
  [][queue # <<>> /\ queue' = Tail(queue) /\ Head(queue).kind = "Scrobble"
       => tmp = Entry("NowPlaying", Head(queue).no)]_scrobblerVars

\* A token is only there for an entry that is in the queue.
Taken == IF sender = "taken" THEN 1 ELSE 0
NoTokenWithoutEntry == tokens + Taken <= Len(queue)

\* An entry is left without a token, to wait for others to come, only when there are
\* more of them than the semaphore counts.
Backed == tokens + Taken >= Len(queue)
StrandedOnlyWhenFull == [][Backed => Backed' \/ Len(queue') > MaxTokens]_scrobblerVars

=============================================================================
