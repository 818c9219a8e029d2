--------------------------- MODULE PlaybackProofs ---------------------------
(***************************************************************************)
(* What is proved of what goes along with the tracks as they play, the     *)
(* scrobbler and the lyric player, and of the internet radio.              *)
(***************************************************************************)
EXTENDS Scrobbler, LyricPlayer, StreamingPipeline, SequenceTheorems, FiniteSetTheorems, WellFoundedInduction, TLAPS

-----------------------------------------------------------------------------
(* The scrobbler *)

-----------------------------------------------------------------------------
(* Types *)

Entries == [kind : {"NowPlaying", "Scrobble"}, no : TrackNos]

\* A full semaphore stays full, another one counts one more.
LEMMA GiveCounts ==
  ASSUME NEW count \in 0 .. MaxTokens
  PROVE  /\ Give(count) \in 0 .. MaxTokens
         /\ count < MaxTokens => Give(count) = count + 1
         /\ count = MaxTokens => Give(count) = count
  BY ScrobblerAssumption DEF Give, Least

LEMMA PushTypes ==
  ASSUME ScrobblerTypeOK, NEW entry \in Entries, Push(entry)
  PROVE  /\ queue' \in Seq(Entries) /\ Len(queue') = Len(queue) + 1
         /\ tokens' \in 0 .. MaxTokens
  <1>1. queue \in Seq(Entries) /\ tokens \in 0 .. MaxTokens
    BY DEF ScrobblerTypeOK, Entries
  <1> QED BY <1>1, GiveCounts DEF Push

LEMMA TypeStep ==
  ASSUME ScrobblerTypeOK, [ScrobblerNext]_scrobblerVars
  PROVE  ScrobblerTypeOK'
  <1> USE ScrobblerAssumption DEF ScrobblerTypeOK, trackVars
  <1>1. CASE FeedTrack
    <2>1. Entry("NowPlaying", cur_track') \in Entries
      BY <1>1 DEF FeedTrack, Entry, Entries
    <2>2. queue' \in Seq(Entries) /\ tokens' \in 0 .. MaxTokens
      BY <1>1, <2>1, PushTypes DEF FeedTrack, Entries
    <2> QED BY <1>1, <2>2 DEF FeedTrack, Entries
  <1>2. CASE FeedPosition
    <2>1. Entry("Scrobble", cur_track) \in Entries
      BY <1>2 DEF FeedPosition, Entry, Entries
    <2>2. queue' \in Seq(Entries) /\ tokens' \in 0 .. MaxTokens
      BY <1>2, <2>1, PushTypes DEF FeedPosition, Entries
    <2> QED BY <1>2, <2>2 DEF FeedPosition, Entries
  <1>3. CASE TakeToken BY <1>3 DEF TakeToken
  <1>4. CASE PopEntry
    <2>1. CASE queue = <<>> BY <1>4, <2>1 DEF PopEntry
    <2>2. CASE queue # <<>>
      <3>1. Head(queue) \in Entries /\ Tail(queue) \in Seq(Entries)
        <4>1. queue \in Seq(Entries) BY DEF Entries
        <4> HIDE DEF Entries, ScrobblerTypeOK
        <4> QED BY <2>2, <4>1, HeadTailProperties
      <3> QED BY <1>4, <2>2, <3>1 DEF PopEntry, Entries
    <2> QED BY <2>1, <2>2
  <1>5. CASE LogIn BY <1>5 DEF LogIn, get_session_key
  <1>6. CASE SendEntry BY <1>6 DEF SendEntry
  <1>7. CASE UNCHANGED scrobblerVars BY <1>7 DEF scrobblerVars
  <1> QED BY <1>1, <1>2, <1>3, <1>4, <1>5, <1>6, <1>7 DEF ScrobblerNext, SenderStep

\* The variables have their types: the semaphore never counts beyond its maximum.
THEOREM ScrobblerTypes == ScrobblerSpec => []ScrobblerTypeOK
  <1>1. ScrobblerInit => ScrobblerTypeOK
    <2> SUFFICES ASSUME ScrobblerInit PROVE ScrobblerTypeOK
      OBVIOUS
    <2>1. queue \in Seq(Entries)
      <3>1. queue = <<>> BY DEF ScrobblerInit
      <3> HIDE DEF Entries
      <3> QED BY <3>1, EmptySeq
    <2>2. cur_track = 0 /\ titled \in BOOLEAN /\ scrobbled \in BOOLEAN
      BY DEF ScrobblerInit
    <2>4. tokens = 0 /\ 0 \in 0 .. MaxTokens
      BY ScrobblerAssumption DEF ScrobblerInit
    <2>3. sender = "wait" /\ tmp = NoEntry /\ session_key = "untried"
      BY DEF ScrobblerInit
    <2> QED BY <2>1, <2>2, <2>3, <2>4 DEF ScrobblerTypeOK, Entries
  <1> QED BY <1>1, TypeStep, PTL DEF ScrobblerSpec

-----------------------------------------------------------------------------
(* Tokens and entries *)

LEMMA PushBacks ==
  ASSUME ScrobblerTypeOK, NoTokenWithoutEntry, NEW entry \in Entries, Push(entry), sender' = sender
  PROVE  NoTokenWithoutEntry' /\ (Backed => Backed' \/ Len(queue') > MaxTokens)
  <1>1. Len(queue') = Len(queue) + 1 /\ Len(queue) \in Nat
    BY PushTypes DEF ScrobblerTypeOK
  <1>2. tokens \in 0 .. MaxTokens /\ tokens' = Give(tokens)
    BY DEF ScrobblerTypeOK, Push
  <1>3. Taken' = Taken /\ Taken \in {0, 1}
    BY DEF Taken
  <1>4. MaxTokens \in Nat BY ScrobblerAssumption
  <1>5. CASE tokens < MaxTokens
    <2>1. tokens' = tokens + 1 BY <1>2, <1>5, GiveCounts
    <2> QED BY <1>1, <1>2, <1>3, <1>4, <2>1 DEF NoTokenWithoutEntry, Backed
  <1>6. CASE tokens = MaxTokens
    <2>1. tokens' = tokens BY <1>2, <1>6, GiveCounts
    <2> QED BY <1>1, <1>2, <1>3, <1>4, <1>6, <2>1 DEF NoTokenWithoutEntry, Backed
  <1> QED BY <1>2, <1>4, <1>5, <1>6

LEMMA TokenStep ==
  ASSUME ScrobblerTypeOK, NoTokenWithoutEntry, [ScrobblerNext]_scrobblerVars
  PROVE  NoTokenWithoutEntry' /\ (Backed => Backed' \/ Len(queue') > MaxTokens)
  <1>0. Len(queue) \in Nat /\ tokens \in Nat BY ScrobblerAssumption DEF ScrobblerTypeOK
  <1>1. CASE FeedTrack
    <2>1. CASE titled'
      <3>1. Entry("NowPlaying", cur_track') \in Entries
        BY <1>1 DEF FeedTrack, Entry, Entries
      <3> QED BY <1>1, <2>1, <3>1, PushBacks DEF FeedTrack
    <2>2. CASE ~titled'
      BY <1>1, <2>2 DEF FeedTrack, NoTokenWithoutEntry, Backed, Taken
    <2> QED BY <2>1, <2>2
  <1>2. CASE FeedPosition
    <2>1. CASE FullTime[cur_track] > ThirtySeconds /\ titled
      <3>1. Entry("Scrobble", cur_track) \in Entries
        BY <1>2 DEF FeedPosition, Entry, Entries, ScrobblerTypeOK
      <3> QED BY <1>2, <2>1, <3>1, PushBacks DEF FeedPosition
    <2>2. CASE ~(FullTime[cur_track] > ThirtySeconds /\ titled)
      BY <1>2, <2>2 DEF FeedPosition, NoTokenWithoutEntry, Backed, Taken
    <2> QED BY <2>1, <2>2
  <1>3. CASE TakeToken
    BY <1>0, <1>3 DEF TakeToken, NoTokenWithoutEntry, Backed, Taken
  <1>4. CASE PopEntry
    <2>1. queue # <<>>
      BY <1>0, <1>4 DEF PopEntry, NoTokenWithoutEntry, Taken
    <2>2. Len(queue') = Len(queue) - 1
      BY <1>4, <2>1 DEF PopEntry, ScrobblerTypeOK
    <2> QED BY <1>0, <1>4, <2>1, <2>2 DEF PopEntry, NoTokenWithoutEntry, Backed, Taken
  <1>5. CASE LogIn BY <1>5 DEF LogIn, NoTokenWithoutEntry, Backed, Taken
  <1>6. CASE SendEntry BY <1>6 DEF SendEntry, NoTokenWithoutEntry, Backed, Taken
  <1>7. CASE UNCHANGED scrobblerVars
    BY <1>7 DEF scrobblerVars, NoTokenWithoutEntry, Backed, Taken
  <1> QED BY <1>1, <1>2, <1>3, <1>4, <1>5, <1>6, <1>7 DEF ScrobblerNext, SenderStep

\* A token is only there for an entry in the queue: the task never pops from an empty one.
THEOREM TokensHaveEntries == ScrobblerSpec => []NoTokenWithoutEntry
  <1>1. ScrobblerInit => NoTokenWithoutEntry
    BY DEF ScrobblerInit, NoTokenWithoutEntry, Taken
  <1> QED BY <1>1, ScrobblerTypes, TokenStep, PTL DEF ScrobblerSpec

\* Entries lose their tokens only when more of them wait than the semaphore counts.
THEOREM OnlyFullStrands == ScrobblerSpec => StrandedOnlyWhenFull
  <1>1. ScrobblerTypeOK /\ NoTokenWithoutEntry /\ [ScrobblerNext]_scrobblerVars
          => [Backed => Backed' \/ Len(queue') > MaxTokens]_scrobblerVars
    BY TokenStep
  <1> QED BY <1>1, ScrobblerTypes, TokensHaveEntries, PTL DEF ScrobblerSpec, StrandedOnlyWhenFull

-----------------------------------------------------------------------------
(* Announcements *)

\* What is sent before the i-th entry, and what is the last of all.
Before(i) == IF i = 1 THEN tmp ELSE queue[i - 1]
Latest == IF queue = <<>> THEN tmp ELSE queue[Len(queue)]

\* A scrobble follows the announcement of its track, and as long as the current track
\* is still to be scrobbled the latest entry is its announcement.
Announced ==
  /\ \A i \in 1 .. Len(queue) : queue[i].kind = "Scrobble" => Before(i) = Entry("NowPlaying", queue[i].no)
  /\ titled /\ ~scrobbled /\ cur_track # 0 => Latest = Entry("NowPlaying", cur_track)

LEMMA PushAnnounced ==
  ASSUME ScrobblerTypeOK, Announced, NEW entry \in Entries, Push(entry), tmp' = tmp,
         entry.kind = "Scrobble" => Latest = Entry("NowPlaying", entry.no)
  PROVE  /\ \A i \in 1 .. Len(queue') :
              queue'[i].kind = "Scrobble" => Before(i)' = Entry("NowPlaying", queue'[i].no)
         /\ Latest' = entry
  <1>1. queue \in Seq(Entries) BY DEF ScrobblerTypeOK, Entries
  <1> HIDE DEF Entries
  <1>2. /\ queue' = Append(queue, entry) /\ Len(queue') = Len(queue) + 1 /\ Len(queue) \in Nat
        /\ queue'[Len(queue) + 1] = entry
        /\ \A i \in 1 .. Len(queue) : queue'[i] = queue[i]
    BY <1>1 DEF Push
  <1>3. ASSUME NEW i \in 1 .. Len(queue'), queue'[i].kind = "Scrobble"
        PROVE  Before(i)' = Entry("NowPlaying", queue'[i].no)
    <2>1. CASE i = Len(queue) + 1
      <3>1. Before(i)' = Latest
        <4>1. CASE queue = <<>> BY <1>2, <2>1, <4>1 DEF Before, Latest
        <4>2. CASE queue # <<>>
          <5>1. Len(queue) \in 1 .. Len(queue) BY <1>1, <1>2, <4>2, EmptySeq
          <5> QED BY <1>2, <2>1, <4>2, <5>1 DEF Before, Latest
        <4> QED BY <4>1, <4>2
      <3> QED BY <1>2, <1>3, <2>1, <3>1
    <2>2. CASE i \in 1 .. Len(queue)
      <3>1. Before(i)' = Before(i) BY <1>2, <2>2 DEF Before
      <3> QED BY <1>2, <1>3, <2>2, <3>1 DEF Announced
    <2> QED BY <1>2, <2>1, <2>2
  <1>4. Latest' = entry
    <2>1. queue' # <<>> BY <1>1, <1>2
    <2> QED BY <1>2, <2>1 DEF Latest
  <1> QED BY <1>3, <1>4

LEMMA AnnouncedStep ==
  ASSUME ScrobblerTypeOK, Announced, [ScrobblerNext]_scrobblerVars
  PROVE  Announced'
  <1> USE DEF trackVars
  <1>1. CASE FeedTrack
    <2>1. cur_track' \in TrackNos /\ tmp' = tmp BY <1>1 DEF FeedTrack
    <2>2. CASE titled'
      <3>1. LET e == Entry("NowPlaying", cur_track') IN e \in Entries /\ e.kind = "NowPlaying"
        BY <2>1 DEF Entry, Entries
      <3>2. Push(Entry("NowPlaying", cur_track')) BY <1>1, <2>2 DEF FeedTrack
      <3> QED BY <2>1, <3>1, <3>2, PushAnnounced DEF Announced
    <2>3. CASE ~titled'
      BY <1>1, <2>1, <2>3 DEF FeedTrack, Announced, Before
    <2> QED BY <2>2, <2>3
  <1>2. CASE FeedPosition
    <2>1. scrobbled' = TRUE /\ tmp' = tmp /\ cur_track \in TrackNos /\ ~scrobbled /\ cur_track # 0
      BY <1>2 DEF FeedPosition, ScrobblerTypeOK
    <2>2. CASE FullTime[cur_track] > ThirtySeconds /\ titled
      <3>1. LET e == Entry("Scrobble", cur_track) IN e \in Entries /\ e.no = cur_track
        BY <2>1 DEF Entry, Entries
      <3>2. Push(Entry("Scrobble", cur_track)) BY <1>2, <2>2 DEF FeedPosition
      <3>3. Latest = Entry("NowPlaying", cur_track) BY <2>1, <2>2 DEF Announced
      <3> QED BY <2>1, <3>1, <3>2, <3>3, PushAnnounced DEF Announced
    <2>3. CASE ~(FullTime[cur_track] > ThirtySeconds /\ titled)
      BY <1>2, <2>1, <2>3 DEF FeedPosition, Announced, Before
    <2> QED BY <2>2, <2>3
  <1>3. CASE TakeToken BY <1>3 DEF TakeToken, Announced, Before, Latest
  <1>4. CASE PopEntry
    <2>1. CASE queue = <<>> BY <1>4, <2>1 DEF PopEntry, Announced, Before, Latest
    <2>2. CASE queue # <<>>
      <3>0. queue \in Seq(Entries) BY DEF ScrobblerTypeOK, Entries
      <3>1. tmp' = Head(queue) /\ queue' = Tail(queue) /\ UNCHANGED trackVars
        BY <1>4, <2>2 DEF PopEntry
      <3> HIDE DEF Entries
      <3>2. /\ Len(queue) \in Nat \ {0} /\ Head(queue) = queue[1]
            /\ Len(queue') = Len(queue) - 1
            /\ \A i \in 1 .. Len(queue') : queue'[i] = queue[i + 1]
        BY <2>2, <3>0, <3>1, HeadTailProperties
      <3>3. ASSUME NEW i \in 1 .. Len(queue'), queue'[i].kind = "Scrobble"
            PROVE  Before(i)' = Entry("NowPlaying", queue'[i].no)
        <4>1. i + 1 \in 1 .. Len(queue) /\ queue'[i] = queue[i + 1] BY <3>2
        <4>2. Before(i)' = Before(i + 1)
          <5>1. CASE i = 1 BY <3>1, <3>2, <5>1 DEF Before
          <5>2. CASE i # 1
            <6>1. i - 1 \in 1 .. Len(queue') BY <3>2, <5>2
            <6> QED BY <3>2, <5>2, <6>1 DEF Before
          <5> QED BY <5>1, <5>2
        <4> QED BY <3>3, <4>1, <4>2 DEF Announced
      <3>4. Latest' = Latest
        <4>1. CASE Len(queue) = 1
          <5>1. queue' = <<>> BY <2>2, <3>0, <3>1, <3>2, <4>1, EmptySeq, HeadTailProperties
          <5> QED BY <2>2, <3>1, <3>2, <4>1, <5>1 DEF Latest
        <4>2. CASE Len(queue) # 1
          <5>1. queue' # <<>> /\ Len(queue') \in 1 .. Len(queue')
            <6>1. Len(queue') \in Nat \ {0} BY <3>2, <4>2
            <6>2. Len(<<>>) = 0 OBVIOUS
            <6> QED BY <6>1, <6>2
          <5> QED BY <2>2, <3>2, <5>1 DEF Latest
        <4> QED BY <4>1, <4>2
      <3> QED BY <3>1, <3>3, <3>4 DEF Announced
    <2> QED BY <2>1, <2>2
  <1>5. CASE LogIn BY <1>5 DEF LogIn, Announced, Before, Latest
  <1>6. CASE SendEntry BY <1>6 DEF SendEntry, Announced, Before, Latest
  <1>7. CASE UNCHANGED scrobblerVars BY <1>7 DEF scrobblerVars, Announced, Before, Latest
  <1> QED BY <1>1, <1>2, <1>3, <1>4, <1>5, <1>6, <1>7 DEF ScrobblerNext, SenderStep

\* A track is scrobbled right after it was announced, and once.
THEOREM ScrobblesAreAnnounced == ScrobblerSpec => AnnouncedThenScrobbled
  <1>1. ScrobblerInit => Announced
    BY DEF ScrobblerInit, Announced
  <1>2. ScrobblerTypeOK /\ Announced /\ [ScrobblerNext]_scrobblerVars
          => [queue # <<>> /\ queue' = Tail(queue) /\ Head(queue).kind = "Scrobble"
                => tmp = Entry("NowPlaying", Head(queue).no)]_scrobblerVars
    <2> SUFFICES ASSUME ScrobblerTypeOK, Announced, queue # <<>>, Head(queue).kind = "Scrobble"
                 PROVE  tmp = Entry("NowPlaying", Head(queue).no)
      OBVIOUS
    <2>1. queue \in Seq(Entries) BY DEF ScrobblerTypeOK, Entries
    <2>2. Head(queue) = queue[1] /\ 1 \in 1 .. Len(queue)
      <3> HIDE DEF Entries
      <3> QED BY <2>1, EmptySeq
    <2> QED BY <2>2 DEF Announced, Before
  <1> QED BY <1>1, <1>2, ScrobblerTypes, AnnouncedStep, PTL DEF ScrobblerSpec, AnnouncedThenScrobbled

-----------------------------------------------------------------------------
(* The lyric player *)

-----------------------------------------------------------------------------
(* The search *)

\* A set of natural numbers has a least one: of the intervals that end in them one holds
\* no other.
LEMMA LeastNat ==
  ASSUME NEW T, T \subseteq Nat, T # {}
  PROVE  \E x \in T : \A y \in T : x <= y
  <1> DEFINE UpTo == {1 .. n : n \in T}
  <1>1. UpTo \subseteq FiniteSubsetsOf(Nat)
    BY FS_Interval DEF FiniteSubsetsOf
  <1>2. UpTo # {}
    OBVIOUS
  <1>3. PICK X \in UpTo : \A Y \in UpTo : ~(<<Y, X>> \in StrictSubsetOrdering(Nat))
    <2> HIDE DEF UpTo
    <2> QED BY <1>1, <1>2, WFMin, FS_StrictSubsetOrderingWellFounded
  <1>4. PICK x \in T : X = 1 .. x
    OBVIOUS
  <1>5. ASSUME NEW y \in T PROVE x <= y
    <2>1. SUFFICES ASSUME y < x PROVE FALSE
      OBVIOUS
    <2>2. 1 .. y \subseteq 1 .. x /\ x \in 1 .. x /\ x \notin 1 .. y
      BY <2>1
    <2>3. <<1 .. y, 1 .. x>> \in StrictSubsetOrdering(Nat)
      BY <2>2 DEF StrictSubsetOrdering
    <2> QED BY <2>3, <1>3, <1>4
  <1> QED BY <1>5

\* Between a line that has begun and the last one that has not, there is one that has
\* begun and whose next one has not.
LEMMA Between ==
  ASSUME NEW pos \in Nat, NEW c \in DOMAIN Lyrics,
         Lyrics[c] <= pos, pos < Lyrics[Len(Lyrics)]
  PROVE  \E i \in DOMAIN Lyrics :
            i >= c /\ i < Len(Lyrics) /\ Lyrics[i] <= pos /\ Lyrics[i + 1] > pos
  <1> USE LyricAssumption
  <1> DEFINE Later == {j \in DOMAIN Lyrics : j >= c /\ Lyrics[j] > pos}
  <1>1. Len(Lyrics) \in Nat /\ DOMAIN Lyrics = 1 .. Len(Lyrics) /\ Len(Lyrics) >= c
    OBVIOUS
  <1>2. Len(Lyrics) \in Later /\ Later \subseteq Nat
    BY <1>1
  <1>3. PICK j \in Later : \A k \in Later : j <= k
    BY <1>2, LeastNat
  <1>4. j > c /\ j - 1 \in DOMAIN Lyrics /\ j - 1 < Len(Lyrics)
    BY <1>1, <1>3
  <1>5. j - 1 \notin Later
    BY <1>3, <1>4
  <1>6. Lyrics[j - 1] <= pos
    BY <1>1, <1>4, <1>5
  <1>7. (j - 1) + 1 = j /\ j - 1 >= c
    BY <1>1, <1>4
  <1>8. Lyrics[(j - 1) + 1] > pos
    BY <1>3, <1>7
  <1> WITNESS j - 1 \in DOMAIN Lyrics
  <1> QED BY <1>4, <1>6, <1>7, <1>8

-----------------------------------------------------------------------------
(* The invariant *)

Labels == [disc : SongDiscs \cup {"none"}, no : Nat, line : 0 .. Len(Lyrics)]
LyricPlayers == [no : Nat, disc : SongDiscs \cup {"none"}, has : BOOLEAN, pos : Nat,
                 cursor : 0 .. Len(Lyrics)]

LyricTypeOK ==
  /\ inDrive \in SongDiscs /\ number \in Nat \ {0} /\ time \in Nat /\ writing \in Nat
  /\ lyricsKnown \in BOOLEAN
  /\ pass.playing => pass.no \in Nat \ {0}
  /\ lrc \in LyricPlayers /\ lblLyric \in Labels

\* What the lyric player holds is of the disc in the drive, and its cursor is on a line
\* that has begun.
CursorInv ==
  /\ lrc.no # 0 => lrc.disc = inDrive
  /\ lrc.no = 0 => lrc = NoLyrics /\ lblLyric = NoLabel
  /\ ~lrc.has => lrc.cursor = 0
  /\ lrc.cursor # 0 => Begun(lrc, lrc.cursor)

\* The label shows the line of the cursor: up to the last line, and then the cursor is
\* there.
LabelInv ==
  /\ ~lyrics_enabled => lblLyric = NoLabel
  /\ lblLyric # NoLabel =>
       /\ lblLyric.disc = lrc.disc /\ lblLyric.no = lrc.no
       /\ lrc.cursor # 0
       /\ lblLyric.line = lrc.cursor \/ lrc.cursor = Len(Lyrics)
       /\ lrc.pos < Lyrics[Len(Lyrics)] => Inside(lrc, lblLyric.line)

LyricInv == LyricTypeOK /\ CursorInv /\ LabelInv

LEMMA LyricInit_Inv ==
  ASSUME LyricInit
  PROVE  LyricInv
  <1>1. Len(Lyrics) \in Nat /\ Written \in Nat
    BY LyricAssumption DEF Written
  <1>2. NoLyrics \in LyricPlayers /\ NoLabel \in Labels
    BY <1>1 DEF LyricPlayers, Labels, NoLyrics, NoLabel
  <1>3. LyricTypeOK
    <2>1. inDrive \in SongDiscs /\ number = 1 /\ time = 0 /\ writing = Written
      BY DEF LyricInit
    <2>2. lyricsKnown \in BOOLEAN /\ ~pass.playing
      BY DEF LyricInit, Idle
    <2>3. lrc \in LyricPlayers /\ lblLyric \in Labels
      BY <1>2 DEF LyricInit
    <2> QED BY <1>1, <2>1, <2>2, <2>3 DEF LyricTypeOK
  <1>4. CursorInv
    BY DEF LyricInit, CursorInv, NoLyrics
  <1>5. LabelInv
    BY DEF LyricInit, LabelInv
  <1> QED BY <1>3, <1>4, <1>5 DEF LyricInv

\* What feed_track() and the step in time leave: where the cursor stays, the track did.
LEMMA RewoundFacts ==
  ASSUME LyricTypeOK, CursorInv, pass.playing,
         NEW l, l = Rewound(feed_track(lrc, pass.no, inDrive, lyricsKnown), time)
  PROVE  /\ l \in LyricPlayers
         /\ l.no # 0 /\ l.disc = inDrive
         /\ ~l.has => l.cursor = 0
         /\ l.cursor # 0 => /\ Begun(l, l.cursor) /\ l.cursor = lrc.cursor
                             /\ l.no = lrc.no /\ l.disc = lrc.disc
  <1> DEFINE f == feed_track(lrc, pass.no, inDrive, lyricsKnown)
  <1>1. /\ f \in LyricPlayers /\ f.no = pass.no /\ f.disc = inDrive /\ f.pos = lrc.pos
        /\ f.no # lrc.no => f.cursor = 0
        /\ f.no = lrc.no => f = lrc
    <2>1. lrc \in LyricPlayers /\ pass.no \in Nat /\ inDrive \in SongDiscs /\ lyricsKnown \in BOOLEAN
      BY DEF LyricTypeOK
    <2>2. CASE pass.no = lrc.no
      <3>1. f = lrc /\ lrc.no # 0
        BY <2>2 DEF feed_track, LyricTypeOK
      <3> QED BY <2>1, <2>2, <3>1 DEF CursorInv
    <2>3. CASE pass.no # lrc.no
      <3>1. f = [lrc EXCEPT !.no = pass.no, !.disc = inDrive, !.has = lyricsKnown, !.cursor = 0]
        BY <2>3 DEF feed_track
      <3>2. Len(Lyrics) \in Nat
        BY LyricAssumption
      <3>3. f = [no |-> pass.no, disc |-> inDrive, has |-> lyricsKnown, pos |-> lrc.pos, cursor |-> 0]
        BY <2>1, <3>1 DEF LyricPlayers
      <3>4. lrc.pos \in Nat
        BY <2>1 DEF LyricPlayers
      <3> HIDE DEF f
      <3> QED BY <2>1, <2>3, <3>2, <3>3, <3>4 DEF LyricPlayers
    <2> QED BY <2>2, <2>3
  <1>2. l = [f EXCEPT !.cursor = IF time < f.pos THEN 0 ELSE @, !.pos = time]
    BY DEF Rewound
  <1>3. /\ l \in LyricPlayers /\ l.no = f.no /\ l.disc = f.disc /\ l.has = f.has /\ l.pos = time
        /\ l.cursor = IF time < f.pos THEN 0 ELSE f.cursor
    <2> HIDE DEF f
    <2>1. time \in Nat /\ Len(Lyrics) \in Nat
      BY LyricAssumption DEF LyricTypeOK
    <2>2. l = [no |-> f.no, disc |-> f.disc, has |-> f.has, pos |-> time,
               cursor |-> IF time < f.pos THEN 0 ELSE f.cursor]
      BY <1>1, <1>2 DEF LyricPlayers
    <2>3. f.no \in Nat /\ f.disc \in SongDiscs \cup {"none"} /\ f.has \in BOOLEAN
          /\ f.cursor \in 0 .. Len(Lyrics)
      BY <1>1 DEF LyricPlayers
    <2> QED BY <2>1, <2>2, <2>3 DEF LyricPlayers
  <1>4. l.no # 0
    BY <1>1, <1>3 DEF LyricTypeOK
  <1>5. ~l.has => l.cursor = 0
    <2> HIDE DEF f
    <2> QED BY <1>1, <1>3 DEF CursorInv
  <1>6. ASSUME l.cursor # 0
        PROVE  Begun(l, l.cursor) /\ l.cursor = lrc.cursor /\ l.no = lrc.no /\ l.disc = lrc.disc
    <2> HIDE DEF f
    <2>1. f = lrc /\ time >= lrc.pos /\ l.cursor = lrc.cursor
      BY <1>1, <1>3, <1>6 DEF LyricTypeOK, LyricPlayers
    <2>2. Lyrics[lrc.cursor] <= lrc.pos
      BY <2>1, <1>6 DEF CursorInv, Begun
    <2>3. Lyrics[lrc.cursor] \in Nat
      BY <2>1, <1>6, LyricAssumption DEF LyricTypeOK, LyricPlayers
    <2> QED BY <1>3, <2>1, <2>2, <2>3 DEF Begun, LyricTypeOK, LyricPlayers
  <1> QED
    <2> HIDE DEF f
    <2> QED BY <1>1, <1>3, <1>4, <1>5, <1>6

LEMMA FoundOfLine ==
  ASSUME NEW l \in LyricPlayers, l.has, NEW i \in Found(l)
  PROVE  \/ i \in DOMAIN Lyrics /\ Inside(l, i) /\ i >= l.cursor
         \/ /\ i = l.cursor
            /\ \A j \in DOMAIN Lyrics : j >= l.cursor => ~Inside(l, j)
         \/ i = Len(Lyrics) /\ Begun(l, i)
  <1> DEFINE hits == {j \in DOMAIN Lyrics : j >= l.cursor /\ Inside(l, j)}
  <1>1. CASE hits # {}
    <2>1. i \in {j \in hits : \A k \in hits : j <= k}
      BY <1>1 DEF Found
    <2> QED BY <2>1
  <1>2. CASE hits = {}
    <2>1. i \in {l.cursor} \cup {j \in {Len(Lyrics)} : Begun(l, j)}
      BY <1>2 DEF Found
    <2> QED BY <2>1, <1>2
  <1> QED BY <1>1, <1>2

LEMMA Feed_Inv ==
  ASSUME LyricInv, Feed
  PROVE  LyricInv'
  <1> DEFINE l == Rewound(feed_track(lrc, pass.no, inDrive, lyricsKnown), time)
  <1>0. Len(Lyrics) \in Nat \ {0} /\ DOMAIN Lyrics = 1 .. Len(Lyrics)
        /\ \A i \in DOMAIN Lyrics : Lyrics[i] \in Nat
    BY LyricAssumption
  <1>1. pass.playing /\ pass' = Idle
    BY DEF Feed
  <1>2. PICK i \in Found(l) : lrc' = [l EXCEPT !.cursor = i] /\ lblLyric' \in LabelAfter(l, i)
    BY DEF Feed
  <1>3. /\ UNCHANGED <<inDrive, number, time, writing, lyricsKnown, lyrics_enabled>>
    BY DEF Feed, playerSide
  <1>4. /\ l \in LyricPlayers
        /\ l.no # 0 /\ l.disc = inDrive
        /\ ~l.has => l.cursor = 0
        /\ l.cursor # 0 => /\ Begun(l, l.cursor) /\ l.cursor = lrc.cursor
                            /\ l.no = lrc.no /\ l.disc = lrc.disc
    <2> HIDE DEF l
    <2>1. l = Rewound(feed_track(lrc, pass.no, inDrive, lyricsKnown), time)
      BY DEF l
    <2> QED BY <1>1, <2>1, RewoundFacts DEF LyricInv
  <1> HIDE DEF l
  <1>5. ~l.has => i = l.cursor
    BY <1>2 DEF Found
  <1>6. l.has => \/ i \in DOMAIN Lyrics /\ Inside(l, i) /\ i >= l.cursor
                 \/ /\ i = l.cursor
                    /\ \A j \in DOMAIN Lyrics : j >= l.cursor => ~Inside(l, j)
                 \/ i = Len(Lyrics) /\ Begun(l, i)
    BY <1>2, <1>4, FoundOfLine
  <1>7. i \in 0 .. Len(Lyrics) /\ (i # 0 => l.has /\ Begun(l, i))
    BY <1>0, <1>4, <1>5, <1>6 DEF Inside, LyricPlayers
  <1>8. /\ lrc' \in LyricPlayers /\ lrc'.cursor = i /\ lrc'.pos = l.pos /\ lrc'.has = l.has
        /\ lrc'.no = l.no /\ lrc'.disc = l.disc
    BY <1>2, <1>4, <1>7 DEF LyricPlayers
  <1>9. CursorInv'
    BY <1>3, <1>4, <1>7, <1>8 DEF CursorInv, Begun
  <1> DEFINE old == IF l.cursor = 0 THEN NoLabel ELSE lblLyric
             new == [disc |-> l.disc, no |-> l.no, line |-> i]
  <1>10. \/ lblLyric' = NoLabel
         \/ lblLyric' = old /\ (i = l.cursor \/ i = Len(Lyrics))
         \/ lyrics_enabled /\ i # l.cursor /\ lblLyric' = new
    <2>1. CASE ~lyrics_enabled
      BY <2>1, <1>2 DEF LabelAfter, LyricInv, LabelInv
    <2>2. CASE lyrics_enabled
      <3>1. CASE i = l.cursor
        BY <2>2, <3>1, <1>2 DEF LabelAfter
      <3>2. CASE i # l.cursor /\ i < Len(Lyrics)
        BY <2>2, <3>2, <1>2 DEF LabelAfter
      <3>3. CASE i # l.cursor /\ i = Len(Lyrics)
        <4>1. lblLyric' \in {new, old}
          BY <2>2, <3>3, <1>0, <1>2 DEF LabelAfter
        <4> QED BY <4>1, <2>2, <3>3
      <3>4. i = l.cursor \/ (i # l.cursor /\ i < Len(Lyrics)) \/ (i # l.cursor /\ i = Len(Lyrics))
        <4>1. i \in 0 .. Len(Lyrics)
          BY <1>7
        <4>2. Len(Lyrics) \in Nat
          BY LyricAssumption
        <4>3. i < Len(Lyrics) \/ i = Len(Lyrics)
          BY <4>1, <4>2
        <4> QED BY <4>3
      <3> QED BY <3>1, <3>2, <3>3, <3>4
    <2> QED BY <2>1, <2>2
  <1>11. lblLyric' \in Labels
    <2>1. NoLabel \in Labels /\ lblLyric \in Labels
      BY <1>0 DEF NoLabel, Labels, LyricInv, LyricTypeOK
    <2>2. new \in Labels
      BY <1>4, <1>7 DEF Labels, LyricPlayers
    <2> HIDE DEF new
    <2> QED BY <1>10, <2>1, <2>2
  <1>12. LyricTypeOK'
    BY <1>1, <1>3, <1>8, <1>11 DEF LyricTypeOK, LyricInv, Idle
  <1>13. ~lyrics_enabled => lblLyric' = NoLabel
    BY <1>10 DEF LyricInv, LabelInv
  <1>14. ASSUME lblLyric' = old, lblLyric' # NoLabel, i = l.cursor \/ i = Len(Lyrics)
         PROVE  /\ lblLyric'.disc = l.disc /\ lblLyric'.no = l.no
                /\ i # 0
                /\ lblLyric'.line = i \/ i = Len(Lyrics)
                /\ l.pos < Lyrics[Len(Lyrics)] => Inside(l, lblLyric'.line)
    <2>1. l.cursor # 0 /\ lblLyric' = lblLyric /\ lblLyric # NoLabel /\ l.has
      BY <1>14, <1>4
    <2>2. /\ lblLyric.disc = l.disc /\ lblLyric.no = l.no
          /\ lblLyric.line = l.cursor \/ l.cursor = Len(Lyrics)
      BY <2>1, <1>4 DEF LyricInv, LabelInv
    <2>3. l.cursor \in DOMAIN Lyrics /\ l.pos \in Nat /\ Lyrics[l.cursor] <= l.pos
      BY <2>1, <1>0, <1>4 DEF LyricPlayers, Begun
    <2>4. i # 0
      BY <2>1, <2>3, <1>0, <1>14
    <2>5. ASSUME l.pos < Lyrics[Len(Lyrics)]
          PROVE  i = l.cursor /\ lblLyric.line = i /\ Inside(l, i)
      <3>1. PICK j \in DOMAIN Lyrics : j >= l.cursor /\ Inside(l, j)
        BY <2>3, <2>5, Between DEF Inside, Begun
      <3>2. l.cursor # Len(Lyrics) /\ lblLyric.line = l.cursor
        BY <2>2, <2>3, <2>5, <1>0
      <3>3. i \in DOMAIN Lyrics /\ Inside(l, i)
        BY <2>1, <2>3, <2>5, <3>1, <1>0, <1>6 DEF Begun
      <3>4. i # Len(Lyrics)
        BY <3>3, <1>0 DEF Inside
      <3> QED BY <3>2, <3>3, <3>4, <1>14
    <2>6. lblLyric.line = i \/ i = Len(Lyrics)
      BY <2>2, <1>14
    <2> QED BY <2>1, <2>2, <2>4, <2>5, <2>6
  <1>15. ASSUME i # l.cursor, lblLyric' = new
         PROVE  /\ lblLyric'.disc = l.disc /\ lblLyric'.no = l.no
                /\ i # 0
                /\ lblLyric'.line = i
                /\ l.pos < Lyrics[Len(Lyrics)] => Inside(l, lblLyric'.line)
    <2>1. l.has /\ i # 0
      BY <1>15, <1>0, <1>4, <1>5, <1>6 DEF LyricPlayers
    <2>2. l.pos < Lyrics[Len(Lyrics)] => Inside(l, i)
      BY <2>1, <1>15, <1>0, <1>4, <1>6 DEF Begun, LyricPlayers
    <2> QED BY <1>15, <2>1, <2>2
  <1>16. LabelInv'
    BY <1>3, <1>8, <1>10, <1>13, <1>14, <1>15 DEF LabelInv, Inside, Begun
  <1> QED BY <1>9, <1>12, <1>16 DEF LyricInv

LEMMA LyricNext_Inv ==
  ASSUME LyricInv, [LyricNext]_lyricVars
  PROVE  LyricInv'
  <1> USE DEF LyricInv
  <1>1. Ends \in Nat /\ Songs \in Nat /\ Beyond \in Nat \ {0} /\ Written \in Nat
        /\ Len(Lyrics) \in Nat
    BY LyricAssumption DEF Beyond, Written
  <1>2. NoLyrics \in LyricPlayers /\ NoLabel \in Labels
    BY <1>1 DEF LyricPlayers, Labels, NoLyrics, NoLabel
  <1>3. CASE PollNumber
    BY <1>1, <1>3 DEF PollNumber, OtherThanPlayer, LyricTypeOK, CursorInv, LabelInv
  <1>4. CASE PollTime
    BY <1>1, <1>4 DEF PollTime, OtherThanPlayer, LyricTypeOK, CursorInv, LabelInv
  <1>5. CASE PlayOrNot
    BY <1>5 DEF PlayOrNot, OtherThanPlayer, LyricTypeOK, CursorInv, LabelInv
  <1>6. CASE OtherDisc
    <2>1. lrc.no = 0 /\ UNCHANGED <<pass, lrc, lblLyric, lyrics_enabled, writing>>
      BY <1>6 DEF OtherDisc, OtherThanPlayer, NoLyrics
    <2>2. inDrive' \in SongDiscs /\ number' = 1 /\ time' = 0 /\ lyricsKnown' = FALSE
      BY <1>6 DEF OtherDisc
    <2>3. LyricTypeOK'
      <3>0. writing' \in Nat
        BY <2>1 DEF LyricTypeOK
      <3>1. number' \in Nat \ {0} /\ time' \in Nat /\ lyricsKnown' \in BOOLEAN
        <4>1. number' = 1 /\ time' = 0 /\ lyricsKnown' = FALSE
          BY <2>2
        <4>2. 1 \in Nat \ {0} /\ 0 \in Nat /\ FALSE \in BOOLEAN
          OBVIOUS
        <4> QED BY <4>1, <4>2, Zenon
      <3>2. /\ pass'.playing => pass'.no \in Nat \ {0}
            /\ lrc' \in LyricPlayers /\ lblLyric' \in Labels
        BY <2>1 DEF LyricTypeOK
      <3> QED BY <2>2, <3>0, <3>1, <3>2 DEF LyricTypeOK
    <2>4. CursorInv'
      BY <2>1 DEF CursorInv, Begun
    <2>5. LabelInv'
      BY <2>1 DEF LabelInv, Inside, Begun
    <2> QED BY <2>3, <2>4, <2>5
  <1>7. CASE LyricsCome
    BY <1>7 DEF LyricsCome, OtherThanPlayer, LyricTypeOK, CursorInv, LabelInv
  <1>8. CASE PassBegins
    BY <1>8 DEF PassBegins, playerSide, LyricTypeOK, CursorInv, LabelInv
  <1>9. CASE NotPlaying
    <2>1. ~pass'.playing /\ UNCHANGED <<inDrive, number, time, writing, lyricsKnown, lyrics_enabled>>
      BY <1>9 DEF NotPlaying, playerSide, Idle
    <2>2. lrc' = NoLyrics /\ lblLyric' = NoLabel
      BY <1>9 DEF NotPlaying
    <2>3. LyricTypeOK'
      BY <1>2, <2>1, <2>2 DEF LyricTypeOK
    <2> QED BY <2>1, <2>2, <2>3 DEF CursorInv, LabelInv, NoLyrics
  <1>10. CASE NoSong
    BY <1>10 DEF NoSong, playerSide, Idle, LyricTypeOK, CursorInv, LabelInv
  <1>11. CASE Feed
    BY <1>11, Feed_Inv
  <1>12. CASE HideLabel
    BY <1>2, <1>12 DEF HideLabel, playerSide, LyricTypeOK, CursorInv, LabelInv
  <1>13. CASE SwitchLyrics
    BY <1>2, <1>13 DEF SwitchLyrics, playerSide, LyricTypeOK, CursorInv, LabelInv
  <1>14. CASE UNCHANGED lyricVars
    BY <1>14 DEF lyricVars, playerSide, LyricTypeOK, CursorInv, LabelInv
  <1> QED
    BY <1>3, <1>4, <1>5, <1>6, <1>7, <1>8, <1>9, <1>10, <1>11, <1>12, <1>13, <1>14 DEF LyricNext

-----------------------------------------------------------------------------
(* The theorems *)

\* The lyric player, the label and what CDMode::loop() reads have their types.
THEOREM LyricTypes == LyricSpec => []LyricTypeOK
  <1>1. LyricInit => LyricInv
    BY LyricInit_Inv
  <1>2. LyricInv /\ [LyricNext]_lyricVars => LyricInv'
    BY LyricNext_Inv
  <1>3. LyricInv => LyricTypeOK
    BY DEF LyricInv
  <1> QED BY <1>1, <1>2, <1>3, PTL DEF LyricSpec

\* Whatever the poll task does between two reads of CDMode::loop(), the label shows the
\* line that LyricPlayer::feed_position() was last told the time of, of the disc in the
\* drive, or nothing.
THEOREM LabelFollowsTime == LyricSpec => []LineIsSung
  <1>1. LyricInit => LyricInv
    BY LyricInit_Inv
  <1>2. LyricInv /\ [LyricNext]_lyricVars => LyricInv'
    BY LyricNext_Inv
  <1>3. LyricInv => LineIsSung
    BY DEF LyricInv, CursorInv, LabelInv, LineIsSung
  <1> QED BY <1>1, <1>2, <1>3, PTL DEF LyricSpec

-----------------------------------------------------------------------------
(* The internet radio *)

\* Each semaphore is held by the task whose program counter says so, and the program
\* counters of the tasks go with what the UI task has made of the pipeline.
LockInv ==
  /\ semaNet = "net" <=> netPc \in NetInside
  /\ semaNet = "ui" <=> uiPc = "codec"
  /\ semaCodec = "codec" <=> codecPc \in CodecInside
  /\ netPc \in NetInside => netOn
  /\ netPc \in {"none", "begun", "connect"} => codecPc = "none"
  /\ netOn => netPc # "none"
  /\ ~streamer => netPc = "none" /\ ~netOn
  /\ uiPc = "start" => ~streamer
  /\ uiPc = "codec" => ~netOn

IInv == RadioTypeOK /\ LockInv

LEMMA InitIInv == RadioInit => IInv
<1> SUFFICES ASSUME RadioInit PROVE IInv
  OBVIOUS
<1>1. FlagsOK
  BY DEF RadioInit, FlagsOK
<1>2. LockInv
  BY DEF RadioInit, LockInv, NetInside, CodecInside
<1> QED
  BY <1>1, <1>2, MarkAssumption DEF RadioInit, IInv, RadioTypeOK

LEMMA UiKeeps ==
  ASSUME IInv, Play \/ Stop \/ Ui
  PROVE  IInv'
<1> USE DEF BesideUi, markVars, UiRuns
<1>1. FlagsOK'
  BY DEF IInv, RadioTypeOK, FlagsOK, Play, Stop, Ui, StopNet, StopCodec, Start
<1>2. CASE Play
  <2>1. LockInv'
    BY <1>2 DEF IInv, LockInv, Play
  <2> QED
    BY <1>1, <1>2, <2>1 DEF IInv, RadioTypeOK, Play
<1>3. CASE Stop
  <2>1. LockInv'
    BY <1>3 DEF IInv, LockInv, Stop
  <2> QED
    BY <1>1, <1>3, <2>1 DEF IInv, RadioTypeOK, Stop
<1>4. CASE StopNet
  <2>1. LockInv'
    BY <1>4 DEF IInv, RadioTypeOK, LockInv, StopNet
  <2> QED
    BY <1>1, <1>4, <2>1 DEF IInv, RadioTypeOK, StopNet
<1>5. CASE StopCodec
  <2>1. LockInv'
    BY <1>5 DEF IInv, RadioTypeOK, LockInv, StopCodec, NetInside, CodecInside
  <2> QED
    BY <1>1, <1>5, <2>1, MarkAssumption DEF IInv, RadioTypeOK, StopCodec
<1>6. CASE Start
  <2>1. LockInv'
    BY <1>6 DEF IInv, RadioTypeOK, LockInv, Start, NetInside
  <2> QED
    BY <1>1, <1>6, <2>1 DEF IInv, RadioTypeOK, Start
<1> QED
  BY <1>2, <1>3, <1>4, <1>5, <1>6 DEF Ui

LEMMA NetKeeps ==
  ASSUME IInv, Net \/ NetCopies \/ StreamChanges \/ Overdue
  PROVE  IInv'
<1> USE DEF BesideNet, BesideTime, uiVars, markVars, codecVars
<1>1. FlagsOK'
  BY DEF IInv, RadioTypeOK, FlagsOK, Net, NetTake, NetConnect, NetCheck, NetIdles, NetClear,
         NetBegin, NetCopies, StreamChanges, Overdue
<1>2. LockInv'
  <2> USE DEF IInv, LockInv
  <2>1. CASE NetTake
    BY <2>1 DEF NetTake, NetInside
  <2>2. CASE NetConnect
    BY <2>2 DEF NetConnect, NetInside, CodecInside
  <2>3. CASE NetCheck
    BY <2>3 DEF NetCheck, NetInside
  <2>4. CASE NetIdles \/ NetClear \/ NetBegin \/ NetCopies
    BY <2>4 DEF NetIdles, NetClear, NetBegin, NetCopies, NetInside
  <2>5. CASE StreamChanges \/ Overdue
    BY <2>5 DEF StreamChanges, Overdue
  <2> QED
    BY <2>1, <2>2, <2>3, <2>4, <2>5 DEF Net
<1>3. level' \in 0 .. Capacity
  BY MarkAssumption
  DEF IInv, RadioTypeOK, Net, NetTake, NetConnect, NetCheck, NetIdles, NetClear, NetBegin,
      NetCopies, StreamChanges, Overdue
<1>4. UNCHANGED <<uiPc, enoughMark>> /\ urlStream' \in {"down", "flows", "dead"}
  BY DEF IInv, RadioTypeOK, Net, NetTake, NetConnect, NetCheck, NetIdles, NetClear, NetBegin,
         NetCopies, StreamChanges, Overdue
<1>5. /\ semaNet' \in {"free", "net", "ui"} /\ semaCodec' \in {"free", "codec"}
      /\ netPc' \in {"none", "begun", "asleep"} \cup NetInside
      /\ codecPc' \in {"none", "begun", "asleep"} \cup CodecInside
  BY DEF IInv, RadioTypeOK, Net, NetTake, NetConnect, NetCheck, NetIdles, NetClear, NetBegin,
         NetCopies, StreamChanges, Overdue, NetInside, CodecInside
<1> QED
  BY <1>1, <1>2, <1>3, <1>4, <1>5 DEF IInv, RadioTypeOK

\* The limit of the mark is below the size of the buffer.
LEMMA MarkRaised ==
  ASSUME NEW mark \in 0 .. LastMark
  PROVE  Raised(mark) \in 0 .. LastMark
  BY MarkAssumption DEF Raised

LEMMA CodecKeeps ==
  ASSUME IInv, Codec \/ CodecWaits
  PROVE  IInv'
<1> USE DEF BesideCodec, uiVars, markVars, netVars
<1>1. FlagsOK'
  BY DEF IInv, RadioTypeOK, FlagsOK, Codec, CodecTake, CodecHead, CodecStarts, CodecPlays, CodecEnds,
         CodecWaits
<1>2. LockInv'
  BY DEF IInv, LockInv, Codec, CodecTake, CodecHead, CodecStarts, CodecPlays, CodecEnds,
         CodecWaits, CodecInside
<1>3. level' \in 0 .. Capacity
  BY MarkAssumption
  DEF IInv, RadioTypeOK, Codec, CodecTake, CodecHead, CodecStarts, CodecPlays, CodecEnds, CodecWaits
<1>4. enoughMark' \in 0 .. LastMark
  BY MarkAssumption, MarkRaised
  DEF IInv, RadioTypeOK, Codec, CodecTake, CodecHead, CodecStarts, CodecPlays, CodecEnds, CodecWaits
<1>5. /\ semaCodec' \in {"free", "codec"}
      /\ codecPc' \in {"none", "begun", "asleep"} \cup CodecInside
  BY DEF IInv, RadioTypeOK, Codec, CodecTake, CodecHead, CodecStarts, CodecPlays, CodecEnds,
         CodecWaits, CodecInside
<1>6. UNCHANGED <<uiPc, netPc, semaNet, urlStream>>
  BY DEF Codec, CodecTake, CodecHead, CodecStarts, CodecPlays, CodecEnds, CodecWaits
<1> QED
  BY <1>1, <1>2, <1>3, <1>4, <1>5, <1>6 DEF IInv, RadioTypeOK

LEMMA NextIInv == IInv /\ [RadioNext]_radioVars => IInv'
<1> SUFFICES ASSUME IInv, [RadioNext]_radioVars PROVE IInv'
  OBVIOUS
<1>1. CASE UNCHANGED radioVars
  BY <1>1 DEF radioVars, uiVars, netVars, markVars, codecVars, IInv, RadioTypeOK, FlagsOK, LockInv
<1>2. CASE RadioNext
  BY <1>2, UiKeeps, NetKeeps, CodecKeeps DEF RadioNext
<1> QED
  BY <1>1, <1>2

LEMMA Invariance == RadioSpec => []IInv
  BY InitIInv, NextIInv, PTL DEF RadioSpec

-----------------------------------------------------------------------------
(* Theorems *)

\* TypeOK of the radio, for every size of the buffer and every mark below it: neither
\* task moves the level or the mark out of its bounds.
THEOREM RadioTypes == RadioSpec => []RadioTypeOK
<1>1. IInv => RadioTypeOK
  BY DEF IInv
<1> QED
  BY <1>1, Invariance, PTL

\* One step of NobodyEndedMidway.
EndsNobodyMidway ==
  /\ netOn /\ ~netOn' => netPc \in {"begun", "asleep"}
  /\ streamer /\ ~streamer' => codecPc \in {"none", "asleep"}

\* NobodyEndedMidway: stop() suspends and deletes no task inside its work, wherever the
\* tasks are when a key stops the station.
THEOREM EndsNobody == RadioSpec => NobodyEndedMidway
<1>1. IInv /\ [RadioNext]_radioVars => [EndsNobodyMidway]_radioVars
  <2> SUFFICES ASSUME IInv, RadioNext PROVE EndsNobodyMidway
    OBVIOUS
  <2>1. CASE StopNet
    BY <2>1 DEF StopNet, IInv, RadioTypeOK, LockInv, EndsNobodyMidway
  <2>2. CASE StopCodec
    BY <2>2 DEF StopCodec, UiRuns, IInv, RadioTypeOK, LockInv, EndsNobodyMidway
  <2>3. CASE Play \/ Stop \/ Start
    BY <2>3 DEF Play, Stop, Start, EndsNobodyMidway
  <2>4. CASE Net \/ NetCopies
    <3>1. UNCHANGED <<netOn, streamer>>
      BY <2>4 DEF Net, NetTake, NetConnect, NetCheck, NetIdles, NetClear, NetBegin, NetCopies,
                  BesideNet, uiVars
    <3> QED
      BY <3>1 DEF EndsNobodyMidway
  <2>5. CASE StreamChanges \/ Overdue \/ Codec \/ CodecWaits
    <3>1. UNCHANGED <<netOn, streamer>>
      BY <2>5 DEF StreamChanges, Overdue, BesideTime, Codec, CodecTake, CodecHead, CodecStarts,
                  CodecPlays, CodecEnds, CodecWaits, BesideCodec, uiVars, netVars
    <3> QED
      BY <3>1 DEF EndsNobodyMidway
  <2> QED
    BY <2>1, <2>2, <2>3, <2>4, <2>5 DEF RadioNext, Ui
<1>2. RadioSpec => [][EndsNobodyMidway]_radioVars
  BY <1>1, Invariance, PTL DEF RadioSpec
<1> QED
  BY <1>2 DEF NobodyEndedMidway, EndsNobodyMidway

\* What each of the two tasks still has before its end, when it finds that the station is stopped.
NetToGo == [begun |-> 6, connect |-> 5, copy |-> 4, retry |-> 3, begin |-> 2, loop |-> 1,
            asleep |-> 0, forever |-> 0, none |-> 0]
CodecToGo == [wait |-> 4, play |-> 3, begun |-> 3, head |-> 2, end |-> 1, asleep |-> 0, none |-> 0]

\* A step with which neither task gets further from it.
WindsUp ==
  uiPc \in {"net", "codec"} =>
    \/ ~streamer'
    \/ netPc' = netPc /\ codecPc' = codecPc
    \/ NetToGo[netPc'] < NetToGo[netPc]
    \/ netPc' = netPc /\ CodecToGo[codecPc'] < CodecToGo[codecPc]

\* While stop() waits, each of the two tasks only gets nearer to its end, wherever stop() finds
\* it: no loop of theirs goes round once more, not that of the retries, nor the wait for
\* the mark, nor the copies to the output.
TasksWindUp == [][WindsUp]_radioVars

\* While stop() waits, the tasks can see that it does.
StoppingInv ==
  /\ uiPc \in {"net", "codec"} => ~running
  /\ uiPc = "start" => ~streamer

LEMMA StoppingKept == StoppingInv /\ [RadioNext]_radioVars => StoppingInv'
<1> SUFFICES ASSUME StoppingInv, [RadioNext]_radioVars PROVE StoppingInv'
  OBVIOUS
<1>1. CASE Play \/ Stop
  BY <1>1 DEF Play, Stop, BesideUi, StoppingInv
<1>2. CASE Ui
  BY <1>2 DEF Ui, StopNet, StopCodec, Start, BesideUi, StoppingInv
<1>3. CASE Net \/ NetCopies \/ StreamChanges \/ Overdue \/ Codec \/ CodecWaits \/ UNCHANGED radioVars
  <2>1. UNCHANGED <<uiPc, streamer, running>>
    BY <1>3 DEF Net, NetTake, NetConnect, NetCheck, NetIdles, NetClear, NetBegin, NetCopies, BesideNet,
                StreamChanges, Overdue, BesideTime, Codec, CodecTake, CodecHead, CodecStarts, CodecPlays,
                CodecEnds, CodecWaits, BesideCodec, uiVars, radioVars
  <2> QED
    BY <2>1 DEF StoppingInv
<1> QED
  BY <1>1, <1>2, <1>3 DEF RadioNext

\* TasksWindUp: from the moment that a station is stopped neither task does anything twice
\* before it sleeps, however the server behaves and whatever the level of the buffer.
THEOREM TasksGetToEnd == RadioSpec => TasksWindUp
<1>1. RadioInit => StoppingInv
  BY DEF RadioInit, StoppingInv
<1>2. StoppingInv /\ [RadioNext]_radioVars => [WindsUp]_radioVars
  <2> SUFFICES ASSUME StoppingInv, RadioNext, uiPc \in {"net", "codec"} PROVE WindsUp
    BY DEF WindsUp
  <2>1. ~running
    BY DEF StoppingInv
  <2>2. CASE Play \/ Stop \/ Start
    BY <2>2 DEF Play, Stop, Start
  <2>3. CASE StopNet
    BY <2>3 DEF StopNet, BesideUi, WindsUp
  <2>4. CASE StopCodec
    BY <2>4 DEF StopCodec, WindsUp
  <2>5. CASE NetTake \/ NetCheck \/ NetIdles \/ NetClear \/ NetCopies
    BY <2>1, <2>5 DEF NetTake, NetCheck, NetIdles, NetClear, NetCopies, WindsUp, NetToGo
  <2>6. CASE NetConnect
    <3>1. netPc = "connect" /\ netPc' \in {"loop", "forever"} BY <2>6 DEF NetConnect
    <3> QED BY <3>1 DEF WindsUp, NetToGo
  <2>7. CASE NetBegin
    <3>1. netPc = "begin" /\ netPc' = "loop" BY <2>1, <2>7 DEF NetBegin
    <3> QED BY <3>1 DEF WindsUp, NetToGo
  <2>8. CASE StreamChanges \/ Overdue \/ CodecWaits
    BY <2>8 DEF StreamChanges, Overdue, BesideTime, CodecWaits, BesideCodec, netVars, codecVars, WindsUp
  <2>9. CASE Codec
    <3>1. netPc' = netPc
      BY <2>9 DEF Codec, CodecTake, CodecHead, CodecStarts, CodecPlays, CodecEnds, BesideCodec, netVars
    <3>2. \/ codecPc = "begun" /\ codecPc' = "head"
          \/ codecPc = "head" /\ codecPc' = "end"
          \/ codecPc = "wait" /\ codecPc' = "play"
          \/ codecPc = "play" /\ codecPc' = "head"
          \/ codecPc = "end" /\ codecPc' = "asleep"
      BY <2>1, <2>9 DEF Codec, CodecTake, CodecHead, CodecStarts, CodecPlays, CodecEnds
    <3> QED
      BY <3>1, <3>2 DEF WindsUp, CodecToGo
  <2> QED
    BY <2>2, <2>3, <2>4, <2>5, <2>6, <2>7, <2>8, <2>9 DEF RadioNext, Ui, Net
<1> QED
  BY <1>1, <1>2, StoppingKept, PTL DEF RadioSpec, TasksWindUp

=============================================================================
