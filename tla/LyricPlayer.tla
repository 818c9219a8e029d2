---------------------------- MODULE LyricPlayer ----------------------------
(***************************************************************************)
(* The lyric player (lyric_player.h) as CDMode::loop() feeds it, and the   *)
(* label that shows its lines.  The poll task and the metadata task of the *)
(* player are the environment: the poll task writes the track's number and *)
(* then the time, and the UI task reads them in that order without a lock. *)
(***************************************************************************)
EXTENDS Naturals, Sequences

CONSTANTS
  SongDiscs, Songs,  \* discs, and the greatest number of a track that they have
  Ends,              \* greatest time in a track, in steps of the clock
  Lyrics             \* when each line of a song begins

ASSUME LyricAssumption ==
  /\ Songs \in Nat \ {0} /\ Ends \in Nat
  /\ Lyrics \in Seq(Nat) /\ Lyrics # <<>>
  /\ \A i \in 1 .. Len(Lyrics) - 1 : Lyrics[i] <= Lyrics[i + 1]

VARIABLES
  inDrive, number, pregap, time, playing,  \* of the player: disc, track, index 0, rel_ts, sts = PLAY
  writing,         \* the time that the poll task has still to write, or Written
  lyricsKnown,     \* the providers have found the lyrics of the disc
  pass,            \* what the UI task's pass has read so far, or Idle
  lrc,             \* the LyricPlayer; cursor -1 is 0 here
  lblLyric,        \* what the label shows, or NoLabel
  lyrics_enabled

playerSide == <<inDrive, number, pregap, time, playing, writing, lyricsKnown>>
lyricVars == <<playerSide, pass, lrc, lblLyric, lyrics_enabled>>

Written == Ends + 1
Beyond == Songs + 1  \* no track of the album, the lead-out for one
Idle == [no |-> 0, pregap |-> FALSE, playing |-> FALSE]
NoLyrics == [no |-> 0, disc |-> "none", has |-> FALSE, pos |-> 0, cursor |-> 0]
NoLabel == [disc |-> "none", no |-> 0, line |-> 0]

-----------------------------------------------------------------------------
(* The player *)

OtherThanPlayer == UNCHANGED <<pass, lrc, lblLyric, lyrics_enabled>>

\* A pass of the poll task: number and index first, then the time.
PollNumber ==
  /\ writing = Written
  /\ \/ number' \in 1 .. Songs /\ writing' \in 0 .. Ends
     \/ number' = Beyond /\ writing' = 0
  /\ pregap' \in BOOLEAN
  /\ UNCHANGED <<inDrive, time, playing, lyricsKnown>> /\ OtherThanPlayer

PollTime ==
  /\ writing # Written
  /\ time' = writing
  /\ writing' = Written
  /\ UNCHANGED <<inDrive, number, pregap, playing, lyricsKnown>> /\ OtherThanPlayer

\* Pause, stop, seek; and play again.
PlayOrNot ==
  /\ writing = Written
  /\ playing' = ~playing
  /\ UNCHANGED <<inDrive, number, pregap, time, writing, lyricsKnown>> /\ OtherThanPlayer

\* A change of disc takes seconds, a pass of the UI task some ten milliseconds: it has
\* seen that nothing plays.
OtherDisc ==
  /\ ~playing /\ pass = Idle /\ lrc = NoLyrics
  /\ inDrive' \in SongDiscs \ {inDrive}
  /\ number' = 1 /\ time' = 0 /\ pregap' = FALSE
  /\ lyricsKnown' = FALSE
  /\ UNCHANGED <<playing, writing>> /\ OtherThanPlayer

LyricsCome ==
  /\ ~lyricsKnown /\ lyricsKnown' = TRUE
  /\ UNCHANGED <<inDrive, number, pregap, time, playing, writing>> /\ OtherThanPlayer

-----------------------------------------------------------------------------
(* The lyric player *)

feed_track(l, n, disc, has) ==
  IF n = l.no THEN l ELSE [l EXCEPT !.no = n, !.disc = disc, !.has = has, !.cursor = 0]

\* Mutant: looks on from where it was.
RewoundNot(l, t) == [l EXCEPT !.pos = t]

\* A step back in time begins the search anew.
Rewound(l, t) == [l EXCEPT !.cursor = IF t < l.pos THEN 0 ELSE @, !.pos = t]

Begun(l, i) == Lyrics[i] <= l.pos
Inside(l, i) == i < Len(Lyrics) /\ Begun(l, i) /\ Lyrics[i + 1] > l.pos

\* The line that the search finds from the cursor on: the first one that has begun and
\* whose next one has not.  The next of the last one is beyond the vector.
Found(l) ==
  LET hits == {i \in DOMAIN Lyrics : i >= l.cursor /\ Inside(l, i)}
  IN  CASE ~l.has -> {l.cursor}
        [] l.has /\ hits # {} -> {i \in hits : \A j \in hits : i <= j}
        [] OTHER -> {l.cursor} \cup {i \in {Len(Lyrics)} : Begun(l, i)}

\* The label after line i was found: nothing when the search began anew without
\* result; the length of the last line, from beyond the vector too, may be negative.
LabelAfter(l, i) ==
  LET old == IF l.cursor = 0 THEN NoLabel ELSE lblLyric
      new == [disc |-> l.disc, no |-> l.no, line |-> i]
  IN  CASE ~lyrics_enabled -> {lblLyric}
        [] lyrics_enabled /\ i = l.cursor -> {old}
        [] lyrics_enabled /\ i # l.cursor /\ i < Len(Lyrics) -> {new}
        [] OTHER -> {new, old}

-----------------------------------------------------------------------------
(* CDMode::loop() *)

\* The number and sts are read before the time.
PassBegins ==
  /\ pass = Idle
  /\ pass' = [no |-> number, pregap |-> pregap, playing |-> playing]
  /\ UNCHANGED <<playerSide, lrc, lblLyric, lyrics_enabled>>

\* lrc.reset(); what it keeps of the metadata is not read before the next feed_track().
NotPlaying ==
  /\ pass # Idle /\ ~pass.playing
  /\ pass' = Idle
  /\ lrc' = NoLyrics
  /\ lblLyric' = NoLabel
  /\ UNCHANGED <<playerSide, lyrics_enabled>>

NoSong ==
  /\ pass.playing
  /\ pass.pregap \/ pass.no = Beyond
  /\ pass' = Idle
  /\ UNCHANGED <<playerSide, lrc, lblLyric, lyrics_enabled>>

Feed ==
  /\ pass.playing /\ ~pass.pregap /\ pass.no # Beyond
  /\ pass' = Idle
  /\ LET l == Rewound(feed_track(lrc, pass.no, inDrive, lyricsKnown), time)
     IN  \E i \in Found(l) : lrc' = [l EXCEPT !.cursor = i] /\ lblLyric' \in LabelAfter(l, i)
  /\ UNCHANGED <<playerSide, lyrics_enabled>>

\* Any key, and the end of the label's time.
HideLabel ==
  /\ lblLyric # NoLabel
  /\ lblLyric' = NoLabel
  /\ UNCHANGED <<playerSide, pass, lrc, lyrics_enabled>>

\* RVK_LYRICS and RVK_DISP
SwitchLyrics ==
  /\ pass = Idle
  /\ lyrics_enabled' = ~lyrics_enabled
  /\ lblLyric' = NoLabel
  /\ UNCHANGED <<playerSide, pass, lrc>>

-----------------------------------------------------------------------------
LyricInit ==
  /\ inDrive \in SongDiscs /\ number = 1 /\ pregap = FALSE /\ time = 0 /\ playing = FALSE
  /\ writing = Written /\ lyricsKnown = FALSE
  /\ pass = Idle /\ lrc = NoLyrics /\ lblLyric = NoLabel /\ lyrics_enabled = TRUE

LyricNext ==
  \/ PollNumber \/ PollTime \/ PlayOrNot \/ OtherDisc \/ LyricsCome
  \/ PassBegins \/ NotPlaying \/ NoSong \/ Feed \/ HideLabel \/ SwitchLyrics

LyricSpec == LyricInit /\ [][LyricNext]_lyricVars

-----------------------------------------------------------------------------
(* Properties *)

\* Between two passes of the loop the label shows nothing, or the line that the time of
\* the last pass is in, of the track of that pass on the disc that is in the drive; so
\* up to the last line, whose end is read from beyond the lyrics.
LineIsSung ==
  pass = Idle /\ lblLyric # NoLabel =>
    /\ lblLyric.disc = inDrive /\ lblLyric.no = lrc.no
    /\ lrc.pos < Lyrics[Len(Lyrics)] => Inside(lrc, lblLyric.line)

=============================================================================
