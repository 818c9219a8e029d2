---------------------------- MODULE OneCutProofs ----------------------------
(***************************************************************************)
(* What is proved of the titles that are cut off: of those that get to the *)
(* cache one at most is, wherever a line of the CDDB server breaks off,    *)
(* whatever the other providers answer and whenever the power fails.       *)
(*                                                                         *)
(* A record that breaks off counts as read, so the title that its last     *)
(* line is about may be cut, or want its other half.  The invariant says   *)
(* of a record that is being read that all titles so far are whole but the *)
(* one whose other half is the next line (RecordInv): for the lines of a   *)
(* title follow one another, and no title is begun twice (InOrder).  What  *)
(* was told before the record has whole titles or none (CallInv).  And     *)
(* the client is asked once, for an album in which no title is cut         *)
(* (AlbumInv): by the time the album has one, no other is filled in from   *)
(* a record.                                                               *)
(*                                                                         *)
(* At the end: of a fetch no step can be repeated for ever.                *)
(***************************************************************************)
EXTENDS DiscMetadataProofs

-----------------------------------------------------------------------------
(* The titles of an album and of a disc of the client *)

\* A title that is whole, or that is not there yet.
Settled(text) == text = <<>> \/ WholeText(text)

\* The titles of an album or of a disc of the client: its own at the place 0, and those
\* of its tracks.
TitleAt(d, x) == IF x = 0 THEN d.title ELSE d.tracks[x].title

\* The places of those that are cut.
Loose(d) == {x \in 0 .. Len(d.tracks) : ~Settled(TitleAt(d, x))}
OneCut(d) == \A x, y \in Loose(d) : x = y
Clean(a) == Loose(a) = {}

-----------------------------------------------------------------------------
(* The lines of a record *)

\* A title on two lines.
HalfOf(of) == << <<of, 1>> >>
RestOf(of) == << <<of, 2>> >>

\* A line with a title or half of one, and the place that it is for.
IsTitle(l) == l.key \in {"DTITLE", "TTITLE"}
Place(l) == IF l.key = "DTITLE" THEN 0 ELSE l.no + 1

\* The track (or disc) that the first part of the text of a line is about.
Of(l) == l.text[1][1]

\* A line has the first half of a title, the other half of one, or all of it.
Opens(l) == IsTitle(l) /\ l.text = HalfOf(Of(l))
Closes(l) == IsTitle(l) /\ l.artist = <<>> /\ l.text = RestOf(Of(l))
Entire(l) == IsTitle(l) /\ l.text = TitleOf(Of(l))
Begins(l) == Opens(l) \/ Entire(l)

\* The line m has the other half of the title that l opens.
Finishes(l, m) == Closes(m) /\ m.key = l.key /\ m.no = l.no /\ Of(m) = Of(l)

\* The two halves of a title follow one another, and no title begins twice.
InOrder(s) ==
  /\ \A i \in DOMAIN s : IsTitle(s[i]) => Begins(s[i]) \/ Closes(s[i])
  /\ \A i \in DOMAIN s : Opens(s[i]) => i + 1 \in DOMAIN s /\ Finishes(s[i], s[i + 1])
  /\ \A i \in DOMAIN s : Closes(s[i]) /\ i > 1 => Opens(s[i - 1])
  /\ \A i, j \in DOMAIN s : Begins(s[i]) /\ Begins(s[j]) /\ Place(s[i]) = Place(s[j]) => i = j

-----------------------------------------------------------------------------
(* The parser within a record *)

\* What the parser may be.
Parsers == [at : 1 .. 12, count : Nat, multi : {"NONE", "TITLE", "ARTIST"}, old : Nat]

\* The line l has no effect on a title any more, or not yet.
Passed(p, l) ==
  \/ p.at < 5
  \/ p.at > SectionNo(l.key)
  \/ l.key = "TTITLE" /\ p.at = 5 /\ p.multi = "NONE"

\* The disc has just got the first half of the title whose other half the line l has.
Awaits(d, p, l) ==
  \/ l.key = "DTITLE" /\ p.at = 5 /\ p.multi = "TITLE" /\ d.title = HalfOf(Of(l))
  \/ l.key = "DTITLE" /\ p.at = 5 /\ p.multi = "ARTIST" /\ d.title = <<>> /\ d.artist = HalfOf(Of(l))
  \/ l.key = "TTITLE" /\ p.at = 8 /\ p.old = l.no /\ HasTrack(d, l.no) /\ d.tracks[l.no + 1].title = HalfOf(Of(l))

\* The next line is the other half of a title; the place that waits for it.
Pending(s) == s # <<>> /\ Closes(s[1])
Gap(d, p, s) == IF Pending(s) /\ Awaits(d, p, s[1]) THEN {Place(s[1])} ELSE {}

\* All titles are whole but the one at the gap; the title of the disc may still be
\* taken for its artist.
ParserInv(d, p, gap) ==
  /\ p.at < 5 => p.multi = "NONE"
  /\ p.at = 5 /\ p.multi = "TITLE" => d.title # <<>>
  /\ p.at = 5 /\ p.multi = "ARTIST" => d.title = <<>> /\ (Settled(d.artist) \/ 0 \in gap)
  /\ Loose(d) \subseteq gap

\* The title that the line l begins has not begun.
Untouched(d, p, l) ==
  /\ l.key = "DTITLE" => p.multi = "NONE" \/ p.at > 5
  /\ l.key = "TTITLE" /\ HasTrack(d, l.no) => d.tracks[l.no + 1].title = <<>>

\* A record of which the lines s are still to be read.
RecordInv(d, p, s) ==
  /\ p \in Parsers /\ InOrder(s)
  /\ Pending(s) => Passed(p, s[1]) \/ Awaits(d, p, s[1])
  /\ ParserInv(d, p, Gap(d, p, s))
  /\ \A i \in DOMAIN s : Begins(s[i]) => Untouched(d, p, s[i])

\* The sections in their order.
LEMMA SectionNumbers ==
  /\ DOMAIN Sections = 1 .. 12 /\ Len(Sections) = 12
  /\ SectionNo("Track_frame_offsets") = 1 /\ SectionNo("offset") = 2 /\ SectionNo("Disc_length") = 3
  /\ SectionNo("Revision") = 4 /\ SectionNo("DTITLE") = 5 /\ SectionNo("DYEAR") = 6 /\ SectionNo("DGENRE") = 7
  /\ SectionNo("TTITLE") = 8 /\ SectionNo("EXTD") = 9 /\ SectionNo("EXTT") = 10 /\ SectionNo("PLAYORDER") = 11
  /\ SectionNo(".") = 12
  /\ \A i \in 1 .. 12 : SectionNo(Sections[i]) = i
  <1>1. DOMAIN Sections = 1 .. 12 /\ Len(Sections) = 12
    BY DEF Sections
  <1>2. /\ Sections[1] = "Track_frame_offsets" /\ Sections[2] = "offset" /\ Sections[3] = "Disc_length"
        /\ Sections[4] = "Revision" /\ Sections[5] = "DTITLE" /\ Sections[6] = "DYEAR" /\ Sections[7] = "DGENRE"
        /\ Sections[8] = "TTITLE" /\ Sections[9] = "EXTD" /\ Sections[10] = "EXTT" /\ Sections[11] = "PLAYORDER"
        /\ Sections[12] = "."
    BY DEF Sections
  <1>3. \A i, j \in 1 .. 12 : Sections[i] = Sections[j] => i = j
    BY <1>2
  <1>4. ASSUME NEW i \in 1 .. 12 PROVE SectionNo(Sections[i]) = i
    <2> DEFINE No == CHOOSE j \in DOMAIN Sections : Sections[j] = Sections[i]
    <2>1. No \in DOMAIN Sections /\ Sections[No] = Sections[i] BY <1>1
    <2> HIDE DEF No
    <2>2. No = i BY <2>1, <1>1, <1>3
    <2> QED BY <2>2 DEF No, SectionNo
  <1>5. /\ 1 \in 1 .. 12 /\ 2 \in 1 .. 12 /\ 3 \in 1 .. 12 /\ 4 \in 1 .. 12 /\ 5 \in 1 .. 12 /\ 6 \in 1 .. 12
        /\ 7 \in 1 .. 12 /\ 8 \in 1 .. 12 /\ 9 \in 1 .. 12 /\ 10 \in 1 .. 12 /\ 11 \in 1 .. 12 /\ 12 \in 1 .. 12
    OBVIOUS
  <1> QED BY <1>1, <1>2, <1>4, <1>5, ZenonT(30)

\* The halves of a title make it up.
LEMMA Halves ==
  ASSUME NEW of \in Nat
  PROVE  /\ HalfOf(of) \in Text /\ RestOf(of) \in Text /\ HalfOf(of) # <<>> /\ RestOf(of) # <<>>
         /\ HalfOf(of) \o RestOf(of) = TitleOf(of)
         /\ Settled(TitleOf(of))
  <1>1. HalfOf(of) \in Text /\ RestOf(of) \in Text
    BY DEF HalfOf, RestOf, Text
  <1>2. HalfOf(of) \o RestOf(of) = TitleOf(of)
    <2> DEFINE a == <<of, 1>>
               b == <<of, 2>>
    <2>1. <<a>> \o <<b>> = <<a, b>>
      <3>1. a \in Nat \X Nat /\ b \in Nat \X Nat OBVIOUS
      <3> HIDE DEF a, b
      <3> QED BY <3>1, PairTuple
    <2> QED BY <2>1 DEF HalfOf, RestOf, TitleOf
  <1>3. TitleOf(of)[1][1] = of
    BY DEF TitleOf
  <1> QED BY <1>1, <1>2, <1>3 DEF Settled, WholeText, HalfOf, RestOf

\* A line has one of the halves of a title, or all of it.
LEMMA PartOfTitle ==
  ASSUME NEW l \in OwnLines
  PROVE  /\ l.key \in LineKeys /\ l.no \in Nat /\ l.artist \in Text /\ l.text \in Text
         /\ Begins(l) => ~Closes(l)
         /\ Opens(l) => Of(l) \in Nat /\ ~Entire(l)
         /\ Closes(l) => Of(l) \in Nat
         /\ Begins(l) \/ Closes(l) => l.text # <<>>
         /\ Entire(l) => Settled(l.text)
  <1>1. l.key \in LineKeys /\ l.no \in Nat /\ l.artist \in Text /\ l.text \in Text
    BY DEF OwnLines, Lines
  <1>2. ASSUME Len(l.text) # 0 PROVE Of(l) \in Nat
    <2>1. l.text \in Seq(Nat \X Nat) BY <1>1 DEF Text
    <2>2. l.text[1] \in Nat \X Nat BY <1>2, <2>1
    <2> QED BY <2>2 DEF Of
  <1> DEFINE k == Of(l)
  <1>3. /\ Len(HalfOf(k)) = 1 /\ Len(RestOf(k)) = 1 /\ Len(TitleOf(k)) = 2 /\ HalfOf(k)[1][2] = 1 /\ RestOf(k)[1][2] = 2
        /\ Len(<<>>) = 0
    BY DEF HalfOf, RestOf, TitleOf
  <1>4. Entire(l) => Settled(l.text)
    BY DEF Entire, Settled, WholeText, Of
  <1> HIDE DEF k
  <1>5. (Opens(l) => l.text = HalfOf(k)) /\ (Closes(l) => l.text = RestOf(k)) /\ (Entire(l) => l.text = TitleOf(k))
    BY DEF k, Opens, Closes, Entire
  <1>6. (Len(l.text) # 0 => k \in Nat) /\ (Opens(l) => Len(l.text) = 1) /\ (Closes(l) => Len(l.text) = 1) /\ (Entire(l) => Len(l.text) = 2)
    <2>1. Len(l.text) # 0 => k \in Nat BY <1>2 DEF k
    <2> QED BY <2>1, <1>3, <1>5
  <1>7. (Begins(l) => ~Closes(l)) /\ (Opens(l) => ~Entire(l))
    <2>1. ~(Opens(l) /\ Closes(l)) BY <1>3, <1>5
    <2> QED BY <2>1, <1>6, SMTT(30) DEF Begins
  <1>8. Opens(l) \/ Closes(l) \/ Entire(l) => k \in Nat /\ l.text # <<>>
    BY <1>3, <1>6
  <1>9. Of(l) = k BY DEF k
  <1> QED BY <1>1, <1>4, <1>7, <1>8, <1>9, Zenon DEF Begins

\* A line in a section before the titles changes none.
LEMMA TopLine ==
  ASSUME NEW d, NEW p \in Parsers, p.at < 5, NEW l, l.key # "NULL"
  PROVE  /\ ParseLine(d, p, l).dsc \in {d, AddTracks(d, 1)}
         /\ ParseLine(d, p, l).prs \in Parsers /\ ParseLine(d, p, l).prs.multi = p.multi
         /\ ParseLine(d, p, l).prs.at <= 5 /\ (IsTitle(l) => ParseLine(d, p, l).prs.at < 5)
  <1> DEFINE at == IF p.at = SectionNo("offset") /\ l.key # "offset" THEN p.at + 1 ELSE p.at
             q == [p EXCEPT !.at = at]
             x == ParseLine(d, p, l)
  <1>1. p.at \in 1 .. 4 /\ p.count \in Nat /\ p.old \in Nat /\ p.multi \in {"NONE", "TITLE", "ARTIST"}
    BY DEF Parsers
  <1>2. at \in 1 .. 4
    BY <1>1, SectionNumbers
  <1>3. q \in Parsers /\ q.multi = p.multi /\ q.at = at /\ q.count = p.count
    BY <1>1, <1>2 DEF Parsers
  <1> HIDE DEF at, q
  <1>4. CASE at = 2
    <2>1. x = OffsetLine(d, q)
      BY <1>4, SectionNumbers DEF ParseLine, at, q
    <2> DEFINE r == [q EXCEPT !.count = q.count + 1]
    <2>2. x.dsc \in {d, AddTracks(d, 1)} /\ x.prs = r
      BY <2>1 DEF OffsetLine, Parsed
    <2>3. r \in Parsers /\ r.multi = p.multi /\ r.at = 2
      BY <1>3, <1>1, <1>4 DEF Parsers
    <2> QED BY <2>2, <2>3
  <1>5. CASE at # 2
    <2>1. x = Parsed(d, IF l.key = Sections[at] THEN [q EXCEPT !.at = at + 1] ELSE q, "more")
      <3>1. at # SectionNo("offset") /\ at < SectionNo("DTITLE") /\ at # SectionNo("DTITLE")
        BY <1>2, <1>5, SectionNumbers
      <3> QED BY <3>1 DEF ParseLine, at, q
    <2> DEFINE r == [q EXCEPT !.at = at + 1]
    <2>2. r \in Parsers /\ r.multi = p.multi /\ r.at = at + 1
      BY <1>2, <1>3 DEF Parsers
    <2> HIDE DEF r
    <2>3. x.dsc = d /\ x.prs = IF l.key = Sections[at] THEN r ELSE q
      BY <2>1 DEF Parsed, r
    <2>4. l.key = Sections[at] => ~IsTitle(l)
      BY <1>2 DEF Sections, IsTitle
    <2> QED BY <2>2, <2>3, <2>4, <1>2, <1>3
  <1> QED BY <1>4, <1>5

\* A line after the sections of the top.
LEMMA LowerLine ==
  ASSUME NEW d, NEW p \in Parsers, p.at >= 5, NEW l, l.key # "NULL"
  PROVE  /\ p.at = 5 /\ l.key # "DTITLE" /\ p.multi = "NONE" => ParseLine(d, p, l) = Parsed(d, p, "more")
         /\ p.at = 5 /\ l.key # "DTITLE" /\ p.multi # "NONE" => ParseLine(d, p, l) = BodyLine(DiscTitleEnds(d), p, l)
         /\ p.at > 5 \/ l.key = "DTITLE" => ParseLine(d, p, l) = BodyLine(d, p, l)
  <1> DEFINE at == IF p.at = SectionNo("offset") /\ l.key # "offset" THEN p.at + 1 ELSE p.at
             q == [p EXCEPT !.at = at]
  <1>1. p.at \in 5 .. 12
    BY DEF Parsers
  <1>2. at = p.at
    BY <1>1, SectionNumbers
  <1>3. q = p
    BY <1>2 DEF Parsers
  <1>4. at # SectionNo("offset") /\ ~(at < SectionNo("DTITLE")) /\ (at = SectionNo("DTITLE") <=> p.at = 5)
    BY <1>1, <1>2, SectionNumbers
  <1> HIDE DEF at, q
  <1>5. CASE p.at = 5 /\ l.key # "DTITLE" /\ p.multi = "NONE"
    BY <1>1, <1>3, <1>4, <1>5 DEF ParseLine, at, q
  <1>6. CASE p.at = 5 /\ l.key # "DTITLE" /\ p.multi # "NONE"
    BY <1>1, <1>3, <1>4, <1>6 DEF ParseLine, at, q
  <1>7. CASE p.at > 5 \/ l.key = "DTITLE"
    <2>1. ~(l.key \notin {"NULL", "DTITLE"} /\ at = SectionNo("DTITLE"))
      BY <1>1, <1>4, <1>7
    <2> QED BY <2>1, <1>3, <1>4 DEF ParseLine, at, q
  <1> QED BY <1>5, <1>6, <1>7

\* A line of the body that has no title, or one whose section is over.
LEMMA BodyOther ==
  ASSUME NEW d, NEW p \in Parsers, p.at >= 5, NEW l, ~IsTitle(l) \/ p.at > SectionNo(l.key)
  PROVE  /\ BodyLine(d, p, l).dsc = d
         /\ BodyLine(d, p, l).prs \in Parsers /\ BodyLine(d, p, l).prs.multi = "NONE"
         /\ BodyLine(d, p, l).prs.at >= p.at
  <1> DEFINE known == \E i \in p.at .. Len(Sections) : Sections[i] = l.key
             past == [p EXCEPT !.multi = "NONE", !.old = 99]
             x == BodyLine(d, p, l)
  <1>1. p.at \in 5 .. 12 /\ p.count \in Nat
    BY DEF Parsers
  <1>2. past \in Parsers /\ past.multi = "NONE" /\ past.at = p.at
    BY <1>1 DEF Parsers
  <1>3. known /\ IsTitle(l) => FALSE
    <2> SUFFICES ASSUME NEW i \in p.at .. 12, Sections[i] = l.key, IsTitle(l) PROVE FALSE
      BY SectionNumbers
    <2>1. i \in 1 .. 12 BY <1>1
    <2>2. SectionNo(l.key) = i BY <2>1, SectionNumbers
    <2> QED BY <2>2, <1>1
  <1>4. known => l.key \in {Sections[i] : i \in p.at .. 12} /\ p.at <= SectionNo(l.key)
    <2> SUFFICES ASSUME NEW i \in p.at .. 12, Sections[i] = l.key
                 PROVE  l.key \in {Sections[j] : j \in p.at .. 12} /\ p.at <= SectionNo(l.key)
      BY SectionNumbers
    <2>1. i \in 1 .. 12 BY <1>1
    <2>2. SectionNo(l.key) = i BY <2>1, SectionNumbers
    <2> QED BY <2>2, <1>1
  <1> HIDE DEF known, past
  <1>5. CASE ~known
    <2>1. x = Parsed(d, past, "more") BY <1>5 DEF BodyLine, known, past
    <2> QED BY <2>1, <1>1, <1>2 DEF Parsed
  <1>6. CASE known /\ l.key = "EXTT" /\ ~HasTrack(d, l.no)
    <2>1. x = Parsed(d, past, "bad") BY <1>6 DEF BodyLine, known, past
    <2> QED BY <2>1, <1>1, <1>2 DEF Parsed
  <1>7. CASE known /\ l.key = "."
    <2>1. x = Parsed(d, past, "stop") BY <1>7 DEF BodyLine, known, past
    <2> QED BY <2>1, <1>1, <1>2 DEF Parsed
  <1>8. CASE known /\ l.key \notin {"DTITLE", "TTITLE", "."} /\ (l.key = "EXTT" => HasTrack(d, l.no))
    <2> DEFINE k == Following(l.key)
               r == [past EXCEPT !.at = k]
    <2>1. x = Parsed(d, r, "more") BY <1>8 DEF BodyLine, known, past
    <2>2. PICK i \in p.at .. 12 : Sections[i] = l.key BY <1>4, <1>8
    <2>3. i \in 5 .. 11 /\ l.key \in {"DYEAR", "DGENRE", "EXTD", "EXTT", "PLAYORDER"} /\ SectionNo(l.key) = i
      <3>1. i \in 5 .. 12 /\ i \in 1 .. 12 BY <1>1
      <3>2. SectionNo(l.key) = i BY <2>2, <3>1, SectionNumbers
      <3>3. i # 12 /\ i # 5 /\ i # 8 BY <2>2, <1>8 DEF Sections
      <3>4. i \in {6, 7, 9, 10, 11} BY <3>1, <3>3
      <3>5. l.key \in {"DYEAR", "DGENRE", "EXTD", "EXTT", "PLAYORDER"} BY <2>2, <3>4 DEF Sections
      <3> QED BY <3>1, <3>2, <3>4, <3>5
    <2>4. k \in i .. 12
      <3>1. CASE l.key \in {"EXTD", "EXTT"} BY <3>1, <2>3 DEF Following
      <3>2. CASE l.key = "PLAYORDER" BY <3>2, <2>3, SectionNumbers DEF Following
      <3>3. CASE l.key \in {"DYEAR", "DGENRE"} BY <3>3, <2>3 DEF Following
      <3> QED BY <3>1, <3>2, <3>3, <2>3
    <2>5. k \in 1 .. 12 /\ k >= p.at BY <2>2, <2>3, <2>4, <1>1
    <2> HIDE DEF k
    <2>6. r \in Parsers /\ r.multi = "NONE" /\ r.at = k BY <2>5, <1>2 DEF Parsers
    <2> HIDE DEF r
    <2>7. x.dsc = d /\ x.prs = r BY <2>1 DEF Parsed
    <2> QED BY <2>5, <2>6, <2>7
  <1>9. l.key = "DTITLE" \/ l.key = "TTITLE" => ~known
    BY <1>3 DEF IsTitle
  <1> QED BY <1>5, <1>6, <1>7, <1>8, <1>9

\* Nothing put before a text.
LEMMA FromNothing ==
  ASSUME NEW t \in Text
  PROVE  <<>> \o t = t
  <1>1. t \in Seq(Nat \X Nat)
    BY DEF Text
  <1> QED BY <1>1

\* A line of the title of the disc: the first begins it anew, another one goes on with
\* what the first was taken for.
LEMMA DiscLine ==
  ASSUME NEW d \in OwnDiscs, NEW p \in Parsers, p.at = 5, NEW l \in OwnLines, l.key = "DTITLE"
  PROVE  /\ ParseLine(d, p, l).dsc.tracks = d.tracks
         /\ ParseLine(d, p, l).prs \in Parsers /\ ParseLine(d, p, l).prs.at = 5
         /\ p.multi = "NONE" /\ l.artist # <<>> =>
              ParseLine(d, p, l).dsc.title = l.text /\ ParseLine(d, p, l).prs.multi = "TITLE"
         /\ p.multi = "NONE" /\ l.artist = <<>> =>
              /\ ParseLine(d, p, l).dsc.title = <<>> /\ ParseLine(d, p, l).dsc.artist = l.text
              /\ ParseLine(d, p, l).prs.multi = "ARTIST"
         /\ p.multi = "TITLE" /\ l.artist = <<>> =>
              ParseLine(d, p, l).dsc.title = d.title \o l.text /\ ParseLine(d, p, l).prs.multi = "TITLE"
         /\ p.multi = "ARTIST" /\ l.artist = <<>> =>
              /\ ParseLine(d, p, l).dsc.title = d.title /\ ParseLine(d, p, l).dsc.artist = d.artist \o l.text
              /\ ParseLine(d, p, l).prs.multi = "ARTIST"
  <1> DEFINE x == ParseLine(d, p, l)
             fresh == IF p.multi = "NONE" THEN [d EXCEPT !.artist = <<>>, !.title = <<>>] ELSE d
             Made(title, artist) == [title |-> title, artist |-> artist, tracks |-> d.tracks]
             old == fresh.title
             main == fresh.artist
  <1>1. /\ l.artist \in Text /\ l.text \in Text /\ d.title \in Text /\ d.artist \in Text /\ <<>> \in Text
        /\ d = Made(d.title, d.artist)
    BY DiscParts, NoText DEF OwnLines, Lines
  <1>2. x = DiscTitleLine(d, p, l)
    <2>1. x = BodyLine(d, p, l)
      <3>1. p.at >= 5 /\ l.key # "NULL" OBVIOUS
      <3> QED BY <3>1, LowerLine
    <2>2. \E i \in p.at .. Len(Sections) : Sections[i] = l.key
      <3>1. 5 \in p.at .. Len(Sections) /\ Sections[5] = l.key BY SectionNumbers DEF Sections
      <3> QED BY <3>1
    <2> QED BY <2>1, <2>2 DEF BodyLine
  <1>3. /\ fresh = Made(old, main)
        /\ p.multi = "NONE" => old = <<>> /\ main = <<>>
        /\ p.multi # "NONE" => old = d.title /\ main = d.artist
    <2>1. CASE p.multi = "NONE"
      <3>1. fresh = Made(<<>>, <<>>) BY <1>1, <2>1
      <3> HIDE DEF fresh
      <3> QED BY <3>1, <2>1
    <2>2. CASE p.multi # "NONE"
      <3>1. fresh = Made(d.title, d.artist) BY <1>1, <2>2
      <3> HIDE DEF fresh
      <3> QED BY <3>1, <2>2
    <2> QED BY <2>1, <2>2
  <1>4. x.dsc = IF l.artist # <<>> THEN AppendTitle(AppendArtist(fresh, l.artist), l.text)
                ELSE IF p.multi = "TITLE" THEN AppendTitle(fresh, l.text) ELSE AppendArtist(fresh, l.text)
    BY <1>2 DEF DiscTitleLine, Parsed
  <1> DEFINE named == [p EXCEPT !.multi = "TITLE"]
             begun == [p EXCEPT !.multi = "ARTIST"]
  <1>5. /\ x.prs = IF l.artist # <<>> THEN named ELSE IF p.multi = "TITLE" THEN p ELSE begun
        /\ named \in Parsers /\ named.at = 5 /\ named.multi = "TITLE"
        /\ begun \in Parsers /\ begun.at = 5 /\ begun.multi = "ARTIST"
    <2>1. x.prs = IF l.artist # <<>> THEN named ELSE IF p.multi = "TITLE" THEN p ELSE begun
      BY <1>2 DEF DiscTitleLine, Parsed
    <2> QED BY <2>1 DEF Parsers
  <1> HIDE DEF fresh, old, main, x, named, begun
  <1>6. /\ AppendTitle(AppendArtist(fresh, l.artist), l.text) = Made(old \o l.text, main \o l.artist)
        /\ AppendTitle(fresh, l.text) = Made(old \o l.text, main)
        /\ AppendArtist(fresh, l.text) = Made(old, main \o l.text)
    <2>1. ASSUME NEW t, NEW a, NEW y
          PROVE  AppendTitle(Made(t, a), y) = Made(t \o y, a) /\ AppendArtist(Made(t, a), y) = Made(t, a \o y)
      <3> DEFINE u == t \o y
                 v == a \o y
      <3>1. AppendTitle(Made(t, a), y) = [Made(t, a) EXCEPT !.title = u] /\ AppendArtist(Made(t, a), y) = [Made(t, a) EXCEPT !.artist = v]
        BY DEF AppendTitle, AppendArtist
      <3>2. [Made(t, a) EXCEPT !.title = u] = Made(u, a) /\ [Made(t, a) EXCEPT !.artist = v] = Made(t, v)
        <4> HIDE DEF u, v
        <4> QED OBVIOUS
      <3> QED BY <3>1, <3>2
    <2> HIDE DEF Made
    <2>2. AppendArtist(fresh, l.artist) = Made(old, main \o l.artist) BY <1>3, <2>1
    <2>3. AppendTitle(AppendArtist(fresh, l.artist), l.text) = Made(old \o l.text, main \o l.artist) BY <2>1, <2>2
    <2>4. AppendTitle(fresh, l.text) = Made(old \o l.text, main) BY <1>3, <2>1
    <2>5. AppendArtist(fresh, l.text) = Made(old, main \o l.text) BY <1>3, <2>1
    <2> QED BY <2>3, <2>4, <2>5
  <1>7. p.multi = "NONE" => old \o l.text = l.text /\ main \o l.text = l.text
    BY <1>1, <1>3, FromNothing
  <1>8. /\ l.artist # <<>> => x.dsc.title = old \o l.text /\ x.dsc.tracks = d.tracks
        /\ l.artist = <<>> /\ p.multi = "TITLE" => x.dsc.title = old \o l.text /\ x.dsc.tracks = d.tracks
        /\ l.artist = <<>> /\ p.multi # "TITLE" =>
             x.dsc.title = old /\ x.dsc.artist = main \o l.text /\ x.dsc.tracks = d.tracks
    <2> DEFINE u == old \o l.text
               v == main \o l.text
               w == main \o l.artist
    <2>1. x.dsc = IF l.artist # <<>> THEN Made(u, w) ELSE IF p.multi = "TITLE" THEN Made(u, main) ELSE Made(old, v)
      BY <1>4, <1>6
    <2> HIDE DEF u, v, w
    <2>2. /\ l.artist # <<>> => x.dsc.title = u /\ x.dsc.tracks = d.tracks
          /\ l.artist = <<>> /\ p.multi = "TITLE" => x.dsc.title = u /\ x.dsc.tracks = d.tracks
          /\ l.artist = <<>> /\ p.multi # "TITLE" => x.dsc.title = old /\ x.dsc.artist = v /\ x.dsc.tracks = d.tracks
      BY <2>1
    <2> QED BY <2>2 DEF u, v
  <1>9. x.dsc.tracks = d.tracks
    BY <1>8
  <1>10. x.prs \in Parsers /\ x.prs.at = 5
    BY <1>5
  <1>11. p.multi = "NONE" /\ l.artist # <<>> => x.dsc.title = l.text /\ x.prs.multi = "TITLE"
    BY <1>5, <1>7, <1>8
  <1>12. p.multi = "NONE" /\ l.artist = <<>> => x.dsc.title = <<>> /\ x.dsc.artist = l.text /\ x.prs.multi = "ARTIST"
    BY <1>3, <1>5, <1>7, <1>8
  <1>13. p.multi = "TITLE" /\ l.artist = <<>> => x.dsc.title = d.title \o l.text /\ x.prs.multi = "TITLE"
    BY <1>3, <1>5, <1>8
  <1>14. p.multi = "ARTIST" /\ l.artist = <<>> =>
           x.dsc.title = d.title /\ x.dsc.artist = d.artist \o l.text /\ x.prs.multi = "ARTIST"
    BY <1>3, <1>5, <1>8
  <1> QED BY <1>9, <1>10, <1>11, <1>12, <1>13, <1>14 DEF x

\* A line of the title of a track: it goes on with the title if the line before was of
\* the same track.
LEMMA TrackLine ==
  ASSUME NEW d \in OwnDiscs, NEW p \in Parsers, p.at \in 5 .. 8, NEW l \in OwnLines, l.key = "TTITLE"
  PROVE  /\ ~HasTrack(d, l.no) => BodyLine(d, p, l).outcome = "bad" /\ BodyLine(d, p, l).dsc = d
         /\ HasTrack(d, l.no) =>
              /\ BodyLine(d, p, l).prs \in Parsers /\ BodyLine(d, p, l).prs.at = 8 /\ BodyLine(d, p, l).prs.old = l.no
              /\ BodyLine(d, p, l).dsc.title = d.title /\ Len(BodyLine(d, p, l).dsc.tracks) = Len(d.tracks)
              /\ l.no + 1 \in DOMAIN d.tracks
              /\ BodyLine(d, p, l).dsc.tracks[l.no + 1].title =
                    IF l.artist = <<>> /\ l.no = p.old THEN d.tracks[l.no + 1].title \o l.text ELSE l.text
              /\ \A i \in DOMAIN d.tracks : i # l.no + 1 => BodyLine(d, p, l).dsc.tracks[i].title = d.tracks[i].title
  <1> DEFINE x == BodyLine(d, p, l)
             i == l.no + 1
             t == IF l.no # p.old THEN NoTrack ELSE d.tracks[i]
             u == Titled(t, l)
             tracks == [d.tracks EXCEPT ![i] = u]
             multi == IF l.artist # <<>> THEN "TITLE" ELSE IF l.no # p.old THEN "ARTIST" ELSE p.multi
             q == [p EXCEPT !.at = 8, !.old = l.no, !.multi = multi]
  <1>1. l.no \in Nat /\ l.artist \in Text /\ l.text \in Text
    BY DEF OwnLines, Lines
  <1>2. x = TrackTitleLine(d, p, l)
    <2>1. \E j \in p.at .. Len(Sections) : Sections[j] = l.key
      <3>1. 8 \in p.at .. Len(Sections) /\ Sections[8] = l.key BY SectionNumbers DEF Sections
      <3> QED BY <3>1
    <2> QED BY <2>1 DEF BodyLine
  <1>3. CASE ~HasTrack(d, l.no)
    BY <1>2, <1>3 DEF TrackTitleLine, Parsed
  <1>4. CASE HasTrack(d, l.no)
    <2>1. x = Parsed([d EXCEPT !.tracks = tracks], q, "more")
      BY <1>2, <1>4, SectionNumbers DEF TrackTitleLine
    <2>2. i \in DOMAIN d.tracks /\ d.tracks \in Seq(KnownTracks) /\ Len(d.tracks) \in Nat /\ DOMAIN d.tracks = 1 .. Len(d.tracks)
      <3>1. d.tracks \in Seq(KnownTracks) /\ Len(d.tracks) \in Nat /\ DOMAIN d.tracks = 1 .. Len(d.tracks) BY DiscParts
      <3> QED BY <3>1, <1>1, <1>4 DEF HasTrack
    <2>3. t \in KnownTracks
      <3>1. NoTrack \in KnownTracks BY NoText DEF NoTrack, KnownTracks
      <3>2. d.tracks[i] \in KnownTracks BY <2>2
      <3> QED BY <3>1, <3>2
    <2>4. t.title \in Text /\ (l.no # p.old => t.title = <<>>) /\ (l.no = p.old => t.title = d.tracks[i].title)
      <3>1. t.title \in Text BY <2>3 DEF KnownTracks
      <3> QED BY <3>1 DEF NoTrack
    <2>5. u.title = IF l.artist = <<>> /\ l.no = p.old THEN d.tracks[i].title \o l.text ELSE l.text
      <3> HIDE DEF t, i
      <3>1. CASE l.artist = <<>>
        <4> DEFINE y == t.title \o l.text
        <4>1. u = [t EXCEPT !.title = y] BY <3>1 DEF Titled, AppendTitle
        <4>2. u.title = y
          <5> HIDE DEF y, u
          <5> QED BY <4>1, <2>3 DEF KnownTracks
        <4>3. l.no # p.old => y = l.text BY <2>4, <1>1, FromNothing
        <4>4. l.no = p.old => y = d.tracks[i].title \o l.text BY <2>4
        <4> HIDE DEF y, u
        <4> QED BY <3>1, <4>2, <4>3, <4>4
      <3>2. CASE l.artist # <<>>
        <4> DEFINE y == t.title \o l.artist
        <4>1. u = [title |-> l.text, artist |-> y] BY <3>2 DEF Titled
        <4> HIDE DEF y, u
        <4> QED BY <4>1, <3>2
      <3> QED BY <3>1, <3>2
    <2> HIDE DEF u
    <2>6. Len(tracks) = Len(d.tracks) /\ tracks[i] = u /\ \A j \in DOMAIN d.tracks : j # i => tracks[j] = d.tracks[j]
      BY <2>2
    <2> HIDE DEF tracks
    <2>7. multi \in {"NONE", "TITLE", "ARTIST"}
      BY DEF Parsers
    <2> HIDE DEF multi
    <2>8. q \in Parsers /\ q.at = 8 /\ q.old = l.no
      <3> DEFINE r == [p EXCEPT !.at = 8]
      <3>1. r \in Parsers /\ r.at = 8 BY DEF Parsers
      <3>2. q = [r EXCEPT !.old = l.no, !.multi = multi]
        BY DEF Parsers
      <3> HIDE DEF q, r
      <3> QED BY <3>1, <3>2, <2>7, <1>1 DEF Parsers
    <2> HIDE DEF q
    <2>9. x.prs = q /\ x.dsc = [d EXCEPT !.tracks = tracks]
      BY <2>1 DEF Parsed
    <2>10. x.dsc.title = d.title /\ x.dsc.tracks = tracks
      BY <2>9, DiscParts
    <2> HIDE DEF x
    <2>11. /\ x.prs \in Parsers /\ x.prs.at = 8 /\ x.prs.old = l.no /\ x.dsc.title = d.title
           /\ Len(x.dsc.tracks) = Len(d.tracks) /\ i \in DOMAIN d.tracks
           /\ x.dsc.tracks[i].title = IF l.artist = <<>> /\ l.no = p.old THEN d.tracks[i].title \o l.text ELSE l.text
           /\ \A j \in DOMAIN d.tracks : j # i => x.dsc.tracks[j].title = d.tracks[j].title
      BY <2>2, <2>5, <2>6, <2>8, <2>9, <2>10
    <2> QED BY <2>11, <1>4 DEF x, i
  <1> QED BY <1>3, <1>4

\* Tracks that are added have no title.
LEMMA AddedTracks ==
  ASSUME NEW d \in OwnDiscs, NEW n \in Nat
  PROVE  /\ AddTracks(d, n).title = d.title /\ AddTracks(d, n).artist = d.artist
         /\ DOMAIN AddTracks(d, n).tracks = 1 .. Len(d.tracks) + n
         /\ \A i \in 1 .. Len(d.tracks) + n :
              AddTracks(d, n).tracks[i].title = IF i <= Len(d.tracks) THEN d.tracks[i].title ELSE <<>>
  <1> DEFINE ts == Times(n, NoTrack)
             old == d.tracks
             tracks == old \o ts
  <1>1. ts \in Seq(KnownTracks) /\ Len(ts) = n /\ \A i \in 1 .. n : ts[i].title = <<>>
    <2>1. NoTrack \in KnownTracks /\ NoTrack.title = <<>> BY NoText DEF NoTrack, KnownTracks
    <2> QED BY <2>1 DEF Times
  <1>2. old \in Seq(KnownTracks) /\ Len(old) \in Nat /\ d = [title |-> d.title, artist |-> d.artist, tracks |-> old]
    BY DiscParts
  <1>3. AddTracks(d, n) = [d EXCEPT !.tracks = tracks]
    BY DEF AddTracks
  <1> HIDE DEF ts, old
  <1>4. /\ tracks \in Seq(KnownTracks) /\ Len(tracks) = Len(old) + Len(ts)
        /\ \A i \in 1 .. Len(old) + Len(ts) : tracks[i] = IF i <= Len(old) THEN old[i] ELSE ts[i - Len(old)]
    BY <1>1, <1>2, ConcatProperties
  <1> HIDE DEF tracks
  <1>5. DOMAIN tracks = 1 .. Len(old) + n
    BY <1>1, <1>4
  <1>6. AddTracks(d, n).title = d.title /\ AddTracks(d, n).artist = d.artist /\ AddTracks(d, n).tracks = tracks
    BY <1>2, <1>3
  <1>7. ASSUME NEW i \in 1 .. Len(old) + n
        PROVE  tracks[i].title = IF i <= Len(old) THEN old[i].title ELSE <<>>
    <2>1. tracks[i] = IF i <= Len(old) THEN old[i] ELSE ts[i - Len(old)] BY <1>1, <1>4
    <2>2. ~(i <= Len(old)) => i - Len(old) \in 1 .. n BY <1>2
    <2> QED BY <2>1, <2>2, <1>1
  <1> QED BY <1>5, <1>6, <1>7 DEF old

\* The places of a disc are that of its own title and those of its tracks.
LEMMA LoosePlaces ==
  ASSUME NEW d, Len(d.tracks) \in Nat, DOMAIN d.tracks = 1 .. Len(d.tracks), NEW gap
  PROVE  Loose(d) \subseteq gap <=>
           /\ Settled(d.title) \/ 0 \in gap
           /\ \A i \in DOMAIN d.tracks : Settled(d.tracks[i].title) \/ i \in gap
  <1>1. 0 .. Len(d.tracks) = {0} \cup DOMAIN d.tracks
    OBVIOUS
  <1>2. TitleAt(d, 0) = d.title /\ \A i \in DOMAIN d.tracks : TitleAt(d, i) = d.tracks[i].title
    BY DEF TitleAt
  <1>3. Loose(d) = {x \in {0} \cup DOMAIN d.tracks : ~Settled(TitleAt(d, x))}
    BY <1>1 DEF Loose
  <1> QED BY <1>2, <1>3

\* What is expected of a disc and of the parser before a line of a record is read.
Ready(d, p, l) ==
  /\ p \in Parsers
  /\ IsTitle(l) => Begins(l) \/ Closes(l)
  /\ Begins(l) => Untouched(d, p, l)
  /\ Closes(l) => Passed(p, l) \/ Awaits(d, p, l)
  /\ ParserInv(d, p, IF Closes(l) /\ Awaits(d, p, l) THEN {Place(l)} ELSE {})

\* And after it: of the next line that is the other half of this one, and of lines that
\* begin other titles.
Kept(d, p, l, e, q) ==
  /\ q \in Parsers
  /\ Opens(l) => Passed(q, l) \/ Awaits(e, q, l)
  /\ ParserInv(e, q, IF Opens(l) /\ Awaits(e, q, l) THEN {Place(l)} ELSE {})
  /\ \A m \in OwnLines :
       Begins(m) /\ Untouched(d, p, m) /\ (Begins(l) => Place(m) # Place(l)) => Untouched(e, q, m)

\* The title of the disc, when it ends.
LEMMA TitleEnds ==
  ASSUME NEW d \in OwnDiscs
  PROVE  /\ DiscTitleEnds(d).tracks = d.tracks /\ DiscTitleEnds(d).artist = d.artist
         /\ DiscTitleEnds(d).title = IF d.title = <<>> THEN d.artist ELSE d.title
  <1>1. d = [title |-> d.title, artist |-> d.artist, tracks |-> d.tracks]
    BY DiscParts
  <1> QED BY <1>1 DEF DiscTitleEnds

\* A line that changes no title that is there.
LEMMA NoneChanged ==
  ASSUME NEW d \in OwnDiscs, NEW p, NEW l \in OwnLines, Ready(d, p, l), ~(Closes(l) /\ Awaits(d, p, l)),
         NEW e \in OwnDiscs, NEW q \in Parsers, Opens(l) => Passed(q, l) /\ ~Awaits(e, q, l),
         q.multi = "NONE", Settled(e.title), Len(d.tracks) <= Len(e.tracks),
         \A i \in DOMAIN e.tracks : e.tracks[i].title = IF i \in DOMAIN d.tracks THEN d.tracks[i].title ELSE <<>>
  PROVE  Kept(d, p, l, e, q)
  <1> DEFINE gap == {}
  <1>1. /\ Len(d.tracks) \in Nat /\ DOMAIN d.tracks = 1 .. Len(d.tracks)
        /\ Len(e.tracks) \in Nat /\ DOMAIN e.tracks = 1 .. Len(e.tracks)
    BY DiscParts
  <1>2. Loose(d) \subseteq gap
    BY DEF Ready, ParserInv
  <1>3. \A i \in DOMAIN d.tracks : Settled(d.tracks[i].title)
    <2>1. \A i \in DOMAIN d.tracks : Settled(d.tracks[i].title) \/ i \in gap
      <3> HIDE DEF gap
      <3> QED BY <1>1, <1>2, LoosePlaces
    <2> QED BY <2>1
  <1>4. Loose(e) \subseteq gap
    <2>1. \A i \in DOMAIN e.tracks : Settled(e.tracks[i].title) BY <1>3 DEF Settled
    <2> HIDE DEF gap
    <2> QED BY <2>1, <1>1, LoosePlaces
  <1>5. ParserInv(e, q, {})
    BY <1>4 DEF ParserInv
  <1>6. ASSUME NEW m \in OwnLines, Begins(m), Untouched(d, p, m) PROVE Untouched(e, q, m)
    <2>1. ASSUME m.key = "TTITLE", HasTrack(e, m.no) PROVE e.tracks[m.no + 1].title = <<>>
      <3>1. m.no \in Nat /\ m.no + 1 \in DOMAIN e.tracks
        <4>1. m.no \in Nat BY DEF OwnLines, Lines
        <4> QED BY <4>1, <2>1, <1>1 DEF HasTrack
      <3>2. m.no + 1 \in DOMAIN d.tracks => d.tracks[m.no + 1].title = <<>>
        BY <3>1, <2>1, <1>6, <1>1 DEF Untouched, HasTrack
      <3> QED BY <3>1, <3>2
    <2> QED BY <2>1 DEF Untouched
  <1> QED BY <1>5, <1>6 DEF Kept

\* A line in a section before the titles.
LEMMA TopKept ==
  ASSUME disc \in Discs, NEW d \in OwnDiscs, NEW p, NEW l \in OwnLines, l.key # "NULL", Ready(d, p, l), p.at < 5
  PROVE  Kept(d, p, l, ParseLine(d, p, l).dsc, ParseLine(d, p, l).prs)
  <1> DEFINE e == ParseLine(d, p, l).dsc
             q == ParseLine(d, p, l).prs
             gap == {}
  <1>1. p \in Parsers /\ p.multi = "NONE" /\ Loose(d) \subseteq IF Closes(l) /\ Awaits(d, p, l) THEN {Place(l)} ELSE {}
    BY DEF Ready, ParserInv
  <1>2. ~Awaits(d, p, l)
    BY DEF Awaits
  <1>3. Settled(d.title)
    <2>1. Loose(d) \subseteq gap BY <1>1, <1>2
    <2>2. Len(d.tracks) \in Nat /\ DOMAIN d.tracks = 1 .. Len(d.tracks) BY DiscParts
    <2>3. Settled(d.title) \/ 0 \in gap
      <3> HIDE DEF gap
      <3> QED BY <2>1, <2>2, LoosePlaces
    <2> QED BY <2>3
  <1>4. e \in {d, AddTracks(d, 1)} /\ q \in Parsers /\ q.multi = "NONE" /\ (IsTitle(l) => q.at < 5)
    <2>1. p \in Parsers /\ p.multi = "NONE" BY <1>1
    <2>2. /\ ParseLine(d, p, l).dsc \in {d, AddTracks(d, 1)}
          /\ ParseLine(d, p, l).prs \in Parsers /\ ParseLine(d, p, l).prs.multi = p.multi
          /\ (IsTitle(l) => ParseLine(d, p, l).prs.at < 5)
      BY <2>1, TopLine
    <2> QED BY <2>1, <2>2
  <1>5. e \in OwnDiscs
    BY ParsedIsOwn
  <1>6. AddTracks(d, 1).title = d.title /\ DOMAIN AddTracks(d, 1).tracks = 1 .. Len(d.tracks) + 1
        /\ Len(AddTracks(d, 1).tracks) = Len(d.tracks) + 1
        /\ \A i \in 1 .. Len(d.tracks) + 1 :
             AddTracks(d, 1).tracks[i].title = IF i <= Len(d.tracks) THEN d.tracks[i].title ELSE <<>>
    <2>1. 1 \in Nat OBVIOUS
    <2> QED BY <2>1, AddedTracks, MoreTracks
  <1>7. Len(d.tracks) \in Nat /\ DOMAIN d.tracks = 1 .. Len(d.tracks)
    BY DiscParts
  <1> HIDE DEF e, q
  <1>8. Opens(l) => Passed(q, l) /\ ~Awaits(e, q, l)
    BY <1>4 DEF Opens, Passed, Awaits
  <1>9. e.title = d.title /\ Len(d.tracks) <= Len(e.tracks)
        /\ \A i \in DOMAIN e.tracks : e.tracks[i].title = IF i \in DOMAIN d.tracks THEN d.tracks[i].title ELSE <<>>
    <2> DEFINE f == AddTracks(d, 1)
    <2>1. /\ f.title = d.title /\ DOMAIN f.tracks = 1 .. Len(d.tracks) + 1 /\ Len(f.tracks) = Len(d.tracks) + 1
          /\ \A i \in 1 .. Len(d.tracks) + 1 :
               f.tracks[i].title = IF i <= Len(d.tracks) THEN d.tracks[i].title ELSE <<>>
      BY <1>6
    <2>2. e = d \/ e = f BY <1>4
    <2>3. \A i \in DOMAIN d.tracks : i \in 1 .. Len(d.tracks) BY <1>7
    <2> HIDE DEF f
    <2>4. CASE e = d BY <2>4, <1>7
    <2>5. CASE e = f BY <2>5, <2>1, <1>7, SMTT(30)
    <2> QED BY <2>2, <2>4, <2>5
  <1>10. Kept(d, p, l, e, q)
    BY <1>2, <1>3, <1>4, <1>5, <1>8, <1>9, NoneChanged
  <1> QED BY <1>10 DEF e, q

\* A line of the body that has no title, or one whose section is over.
LEMMA BodyKept ==
  ASSUME disc \in Discs, NEW d \in OwnDiscs, NEW p, NEW l \in OwnLines, l.key # "NULL", Ready(d, p, l), p.at >= 5,
         \/ ~IsTitle(l) \/ p.at > SectionNo(l.key)
         \/ l.key = "TTITLE" /\ p.at = 5 /\ p.multi = "NONE"
  PROVE  Kept(d, p, l, ParseLine(d, p, l).dsc, ParseLine(d, p, l).prs)
  <1> DEFINE e == ParseLine(d, p, l).dsc
             q == ParseLine(d, p, l).prs
             f == DiscTitleEnds(d)
             gap == {}
  <1>1. /\ p \in Parsers /\ p.at \in 5 .. 12
        /\ ParserInv(d, p, IF Closes(l) /\ Awaits(d, p, l) THEN {Place(l)} ELSE {})
    BY DEF Ready, Parsers
  <1>2. ~(Closes(l) /\ Awaits(d, p, l))
    BY <1>1, SectionNumbers DEF Awaits, Closes, IsTitle
  <1>3. ParserInv(d, p, gap)
    BY <1>1, <1>2
  <1>4. Len(d.tracks) \in Nat /\ DOMAIN d.tracks = 1 .. Len(d.tracks)
    BY DiscParts
  <1>5. Settled(d.title)
    <2>1. Settled(d.title) \/ 0 \in gap
      <3> HIDE DEF gap
      <3> QED BY <1>3, <1>4, LoosePlaces DEF ParserInv
    <2> QED BY <2>1
  <1>6. e \in OwnDiscs
    BY ParsedIsOwn
  <1>7. SUFFICES /\ e \in {d, f} /\ (e = f => Settled(f.title)) /\ q \in Parsers /\ q.multi = "NONE"
                 /\ IsTitle(l) => Passed(q, l)
    <2>1. f.tracks = d.tracks BY TitleEnds
    <2> HIDE DEF e, q, f
    <2>2. Settled(e.title) /\ Len(d.tracks) <= Len(e.tracks)
          /\ \A i \in DOMAIN e.tracks : e.tracks[i].title = IF i \in DOMAIN d.tracks THEN d.tracks[i].title ELSE <<>>
      BY <2>1, <1>4, <1>5, <1>7
    <2>3. Opens(l) => Passed(q, l) /\ ~Awaits(e, q, l)
      BY <1>7, SectionNumbers DEF Opens, IsTitle, Passed, Awaits
    <2>4. Kept(d, p, l, e, q)
      BY <2>2, <2>3, <1>2, <1>6, <1>7, NoneChanged
    <2> QED BY <2>4 DEF e, q
  <1>8. CASE p.at = 5 /\ l.key # "DTITLE" /\ p.multi = "NONE"
    <2>1. ParseLine(d, p, l) = Parsed(d, p, "more") BY <1>1, <1>8, LowerLine
    <2>2. e = d /\ q = p BY <2>1 DEF Parsed
    <2>3. IsTitle(l) => Passed(p, l) BY <1>8 DEF IsTitle, Passed
    <2> HIDE DEF e, q
    <2> QED BY <2>2, <2>3, <1>1, <1>5, <1>8
  <1>9. CASE p.at = 5 /\ p.multi # "NONE" /\ ~IsTitle(l)
    <2>1. ParseLine(d, p, l) = BodyLine(f, p, l) BY <1>1, <1>9, LowerLine DEF IsTitle
    <2>2. e = f /\ q \in Parsers /\ q.multi = "NONE" BY <2>1, <1>1, <1>9, BodyOther
    <2>3. Settled(f.title)
      <3>1. Settled(d.artist) \/ (p.multi = "TITLE" /\ d.title # <<>>) BY <1>1, <1>3, <1>9 DEF ParserInv, Parsers
      <3> QED BY <3>1, <1>5, TitleEnds
    <2> HIDE DEF e, q, f
    <2> QED BY <2>2, <2>3, <1>9
  <1>10. CASE p.at > 5 /\ (~IsTitle(l) \/ p.at > SectionNo(l.key))
    <2>1. ParseLine(d, p, l) = BodyLine(d, p, l) BY <1>1, <1>10, LowerLine
    <2>2. e = d /\ q \in Parsers /\ q.multi = "NONE" /\ q.at >= p.at BY <2>1, <1>1, <1>10, BodyOther
    <2> HIDE DEF e, q
    <2>3. IsTitle(l) => Passed(q, l)
      BY <2>2, <1>1, <1>10, SectionNumbers DEF IsTitle, Passed, Parsers
    <2> QED BY <2>2, <2>3, <1>5
  <1>11. l.key = "DTITLE" => SectionNo(l.key) = 5
    BY SectionNumbers
  <1>12. p.at = 5 \/ p.at > 5
    BY <1>1
  <1>13. IsTitle(l) /\ p.at > SectionNo(l.key) => p.at > 5
    BY <1>1, SectionNumbers DEF IsTitle
  <1>14. ~IsTitle(l) => l.key # "DTITLE"
    BY DEF IsTitle
  <1> QED BY <1>8, <1>9, <1>10, <1>12, <1>13, <1>14

\* A line of the title of the disc, where it is expected.
LEMMA DiscTitleKept ==
  ASSUME disc \in Discs, NEW d \in OwnDiscs, NEW p, NEW l \in OwnLines, Ready(d, p, l), p.at = 5, l.key = "DTITLE"
  PROVE  Kept(d, p, l, ParseLine(d, p, l).dsc, ParseLine(d, p, l).prs)
  <1> DEFINE e == ParseLine(d, p, l).dsc
             q == ParseLine(d, p, l).prs
             before == IF Closes(l) /\ Awaits(d, p, l) THEN {Place(l)} ELSE {}
             after == IF Opens(l) /\ Awaits(e, q, l) THEN {Place(l)} ELSE {}
  <1>1. /\ p \in Parsers /\ ParserInv(d, p, before) /\ (Begins(l) \/ Closes(l))
        /\ p.multi \in {"NONE", "TITLE", "ARTIST"} /\ Place(l) = 0
        /\ Begins(l) => p.multi = "NONE"
        /\ Closes(l) => Awaits(d, p, l) /\ l.artist = <<>>
    BY SectionNumbers DEF Ready, IsTitle, Untouched, Passed, Parsers, Place, Closes
  <1>2. /\ Len(d.tracks) \in Nat /\ DOMAIN d.tracks = 1 .. Len(d.tracks)
        /\ e \in OwnDiscs
    BY ParsedIsOwn, DiscParts
  <1>3. /\ e.tracks = d.tracks /\ q \in Parsers /\ q.at = 5
        /\ p.multi = "NONE" /\ l.artist # <<>> => e.title = l.text /\ q.multi = "TITLE"
        /\ p.multi = "NONE" /\ l.artist = <<>> => e.title = <<>> /\ e.artist = l.text /\ q.multi = "ARTIST"
        /\ p.multi = "TITLE" /\ l.artist = <<>> => e.title = d.title \o l.text /\ q.multi = "TITLE"
        /\ p.multi = "ARTIST" /\ l.artist = <<>> => e.title = d.title /\ e.artist = d.artist \o l.text /\ q.multi = "ARTIST"
    BY <1>1, DiscLine
  <1>4. \A i \in DOMAIN d.tracks : Settled(d.tracks[i].title)
    <2>1. before \subseteq {0} /\ 0 \notin DOMAIN d.tracks BY <1>1, <1>2
    <2> HIDE DEF before
    <2>2. Loose(d) \subseteq before BY <1>1 DEF ParserInv
    <2>3. \A i \in DOMAIN d.tracks : Settled(d.tracks[i].title) \/ i \in before BY <2>2, <1>2, LoosePlaces
    <2> QED BY <2>1, <2>3
  <1> HIDE DEF e, q
  <1>5. /\ Opens(l) => Awaits(e, q, l)
        /\ Settled(e.title) \/ 0 \in after
        /\ q.multi = "TITLE" => e.title # <<>>
        /\ q.multi = "ARTIST" => e.title = <<>> /\ (Settled(e.artist) \/ 0 \in after)
        /\ q.multi # "NONE"
    <2>1. Settled(<<>>) BY DEF Settled
    <2>2. /\ Begins(l) \/ Closes(l) => l.text # <<>>
          /\ Begins(l) => ~Closes(l)
          /\ Begins(l) => Opens(l) \/ Settled(l.text)
          /\ Opens(l) => l.text = HalfOf(Of(l))
      BY PartOfTitle DEF Begins, Opens
    <2>3. CASE Begins(l) /\ l.artist # <<>>
      <3>1. e.title = l.text /\ q.multi = "TITLE" BY <2>3, <1>1, <1>3
      <3>2. Opens(l) => Awaits(e, q, l) BY <3>1, <2>2, <1>3 DEF Awaits
      <3> QED BY <3>1, <3>2, <2>2, <2>3, <1>1
    <2>4. CASE Begins(l) /\ l.artist = <<>>
      <3>1. e.title = <<>> /\ e.artist = l.text /\ q.multi = "ARTIST" BY <2>4, <1>1, <1>3
      <3>2. Opens(l) => Awaits(e, q, l) BY <3>1, <2>2, <1>3 DEF Awaits
      <3> QED BY <3>1, <3>2, <2>1, <2>2, <2>4, <1>1
    <2>5. CASE Closes(l)
      <3>1. ~Opens(l) BY <2>2, <2>5 DEF Begins
      <3>2. Of(l) \in Nat /\ l.text = RestOf(Of(l)) BY <2>5, PartOfTitle DEF Closes
      <3>3. HalfOf(Of(l)) \o l.text = TitleOf(Of(l)) /\ Settled(TitleOf(Of(l))) /\ TitleOf(Of(l)) # <<>>
        BY <3>2, Halves, TitlesAreOwn
      <3>4. Awaits(d, p, l) /\ l.artist = <<>> BY <2>5, <1>1
      <3>5. CASE p.multi = "TITLE" /\ d.title = HalfOf(Of(l))
        BY <3>1, <3>3, <3>4, <3>5, <1>3
      <3>6. CASE p.multi = "ARTIST" /\ d.title = <<>> /\ d.artist = HalfOf(Of(l))
        BY <3>1, <3>3, <3>4, <3>6, <2>1, <1>3
      <3> QED BY <3>4, <3>5, <3>6 DEF Awaits
    <2> QED BY <1>1, <2>3, <2>4, <2>5
  <1>6. ParserInv(e, q, after)
    <2>1. \A i \in DOMAIN e.tracks : Settled(e.tracks[i].title) BY <1>3, <1>4
    <2>2. Len(e.tracks) \in Nat /\ DOMAIN e.tracks = 1 .. Len(e.tracks) BY <1>2, <1>3
    <2> HIDE DEF after
    <2>3. Loose(e) \subseteq after BY <2>1, <2>2, <1>5, LoosePlaces
    <2> QED BY <2>3, <1>3, <1>5 DEF ParserInv
  <1>7. ASSUME NEW m \in OwnLines, Begins(m), Untouched(d, p, m), Begins(l) => Place(m) # Place(l) PROVE Untouched(e, q, m)
    <2>1. m.key # "DTITLE"
      <3> SUFFICES ASSUME m.key = "DTITLE" PROVE FALSE OBVIOUS
      <3>1. p.multi = "NONE" BY <1>7 DEF Untouched
      <3>2. Place(m) = 0 BY DEF Place
      <3>3. Closes(l) BY <3>2, <1>1, <1>7
      <3> QED BY <3>1, <3>3, <1>1 DEF Awaits
    <2> QED BY <2>1, <1>3, <1>7 DEF Untouched, HasTrack
  <1>8. Kept(d, p, l, e, q)
    BY <1>3, <1>5, <1>6, <1>7 DEF Kept
  <1> QED BY <1>8 DEF e, q

\* A line of the title of a track, where it is expected.
LEMMA TrackTitleKept ==
  ASSUME disc \in Discs, NEW d \in OwnDiscs, NEW p, NEW l \in OwnLines, Ready(d, p, l), l.key = "TTITLE",
         p.at \in 5 .. 8, p.at = 5 => p.multi # "NONE", ParseLine(d, p, l).outcome # "bad"
  PROVE  Kept(d, p, l, ParseLine(d, p, l).dsc, ParseLine(d, p, l).prs)
  <1> DEFINE e == ParseLine(d, p, l).dsc
             q == ParseLine(d, p, l).prs
             f == IF p.at = 5 THEN DiscTitleEnds(d) ELSE d
             i == l.no + 1
             before == IF Closes(l) /\ Awaits(d, p, l) THEN {Place(l)} ELSE {}
             after == IF Opens(l) /\ Awaits(e, q, l) THEN {Place(l)} ELSE {}
  <1>1. /\ p \in Parsers /\ ParserInv(d, p, before) /\ (Begins(l) \/ Closes(l))
        /\ p.multi \in {"NONE", "TITLE", "ARTIST"} /\ Place(l) = i
        /\ Begins(l) /\ HasTrack(d, l.no) => d.tracks[i].title = <<>>
        /\ Closes(l) => Awaits(d, p, l) /\ l.artist = <<>>
    BY SectionNumbers DEF Ready, IsTitle, Untouched, Passed, Parsers, Place, Closes
  <1>2. /\ Len(d.tracks) \in Nat /\ DOMAIN d.tracks = 1 .. Len(d.tracks) /\ l.no \in Nat
        /\ e \in OwnDiscs /\ Len(e.tracks) \in Nat /\ DOMAIN e.tracks = 1 .. Len(e.tracks)
    BY ParsedIsOwn, DiscParts DEF OwnLines, Lines
  <1>3. f \in OwnDiscs /\ f.tracks = d.tracks
    BY TitleLines, TitleEnds
  <1>4. ParseLine(d, p, l) = BodyLine(f, p, l)
    <2>1. p \in Parsers /\ p.at >= 5 /\ l.key # "NULL" /\ l.key # "DTITLE" BY <1>1
    <2>2. CASE p.at = 5
      <3>1. p.multi # "NONE" BY <2>2
      <3>2. ParseLine(d, p, l) = BodyLine(DiscTitleEnds(d), p, l) BY <2>1, <2>2, <3>1, LowerLine
      <3> QED BY <2>2, <3>2
    <2>3. CASE p.at # 5
      <3>1. p.at > 5 BY <2>3
      <3>2. ParseLine(d, p, l) = BodyLine(d, p, l) BY <2>1, <3>1, LowerLine
      <3> QED BY <2>3, <3>2
    <2> QED BY <2>2, <2>3
  <1>5. HasTrack(f, l.no)
    <2> HIDE DEF f
    <2>1. p \in Parsers BY <1>1
    <2>2. ~HasTrack(f, l.no) => BodyLine(f, p, l).outcome = "bad" BY <2>1, <1>3, TrackLine
    <2> QED BY <2>2, <1>4
  <1>6. /\ q \in Parsers /\ q.at = 8 /\ q.old = l.no /\ e.title = f.title /\ Len(e.tracks) = Len(d.tracks)
        /\ i \in DOMAIN d.tracks
        /\ e.tracks[i].title = IF l.artist = <<>> /\ l.no = p.old THEN d.tracks[i].title \o l.text ELSE l.text
        /\ \A j \in DOMAIN d.tracks : j # i => e.tracks[j].title = d.tracks[j].title
    <2> DEFINE x == BodyLine(f, p, l)
    <2> HIDE DEF f
    <2>1. p \in Parsers BY <1>1
    <2>2. /\ x.prs \in Parsers /\ x.prs.at = 8 /\ x.prs.old = l.no
          /\ x.dsc.title = f.title /\ Len(x.dsc.tracks) = Len(f.tracks)
          /\ i \in DOMAIN f.tracks
          /\ x.dsc.tracks[i].title = IF l.artist = <<>> /\ l.no = p.old THEN f.tracks[i].title \o l.text ELSE l.text
          /\ \A j \in DOMAIN f.tracks : j # i => x.dsc.tracks[j].title = f.tracks[j].title
      BY <2>1, <1>3, <1>5, TrackLine
    <2>3. e = x.dsc /\ q = x.prs BY <1>4
    <2> HIDE DEF x, e, q
    <2> QED BY <2>2, <2>3, <1>3
  <1>7. before \subseteq {i} /\ 0 \notin before
    BY <1>1, <1>2
  <1>8. Settled(d.title) /\ \A j \in DOMAIN d.tracks : j # i => Settled(d.tracks[j].title)
    <2> HIDE DEF before
    <2>1. Loose(d) \subseteq before BY <1>1 DEF ParserInv
    <2>2. (Settled(d.title) \/ 0 \in before) /\ \A j \in DOMAIN d.tracks : Settled(d.tracks[j].title) \/ j \in before
      BY <2>1, <1>2, LoosePlaces
    <2> QED BY <2>2, <1>7
  <1>9. Settled(f.title)
    <2>1. CASE p.at = 5
      <3>1. Settled(d.artist) \/ d.title # <<>> BY <2>1, <1>1, <1>7 DEF ParserInv
      <3> QED BY <2>1, <3>1, <1>8, TitleEnds
    <2>2. CASE p.at # 5
      BY <2>2, <1>8
    <2> QED BY <2>1, <2>2
  <1>10. HasTrack(d, l.no) /\ HasTrack(e, l.no)
    <2> HIDE DEF e, f
    <2> QED BY <1>3, <1>5, <1>6 DEF HasTrack
  <1> HIDE DEF e, q, f
  <1>11. (Opens(l) => Awaits(e, q, l)) /\ (Settled(e.tracks[i].title) \/ i \in after)
    <2>1. /\ Begins(l) => ~Closes(l)
          /\ Begins(l) => Opens(l) \/ Settled(l.text)
          /\ Opens(l) => l.text = HalfOf(Of(l))
      BY PartOfTitle DEF Begins, Opens
    <2>2. CASE Begins(l)
      <3>1. l.text \in Text BY PartOfTitle
      <3>2. e.tracks[i].title = l.text BY <3>1, <2>2, <1>1, <1>6, <1>10, FromNothing
      <3>3. Opens(l) => Awaits(e, q, l) BY <3>2, <2>1, <1>6, <1>10 DEF Awaits
      <3> QED BY <3>2, <3>3, <2>1, <2>2, <1>1
    <2>3. CASE Closes(l)
      <3>1. ~Opens(l) BY <2>1, <2>3 DEF Begins
      <3>2. Of(l) \in Nat /\ l.text = RestOf(Of(l)) BY <2>3, PartOfTitle DEF Closes
      <3>3. HalfOf(Of(l)) \o l.text = TitleOf(Of(l)) /\ Settled(TitleOf(Of(l)))
        BY <3>2, Halves
      <3>4. p.old = l.no /\ d.tracks[i].title = HalfOf(Of(l)) /\ l.artist = <<>> BY <2>3, <1>1 DEF Awaits
      <3> QED BY <3>1, <3>3, <3>4, <1>6
    <2> QED BY <1>1, <2>2, <2>3
  <1>12. ParserInv(e, q, after)
    <2>1. \A j \in DOMAIN e.tracks : Settled(e.tracks[j].title) \/ j \in after
      <3> SUFFICES ASSUME NEW j \in DOMAIN e.tracks, j # i PROVE Settled(e.tracks[j].title)
        BY <1>11
      <3>1. j \in DOMAIN d.tracks BY <1>2, <1>6
      <3> QED BY <3>1, <1>6, <1>8
    <2>2. Settled(e.title) BY <1>6, <1>9
    <2> HIDE DEF after
    <2>3. Loose(e) \subseteq after BY <2>1, <2>2, <1>2, LoosePlaces
    <2> QED BY <2>3, <1>6 DEF ParserInv
  <1>13. ASSUME NEW m \in OwnLines, Begins(m), Untouched(d, p, m), Begins(l) => Place(m) # Place(l) PROVE Untouched(e, q, m)
    <2>1. ASSUME m.key = "TTITLE", HasTrack(e, m.no) PROVE e.tracks[m.no + 1].title = <<>>
      <3>1. m.no \in Nat BY DEF OwnLines, Lines
      <3>2. m.no + 1 \in DOMAIN d.tracks /\ d.tracks[m.no + 1].title = <<>>
        BY <3>1, <2>1, <1>2, <1>6, <1>13 DEF Untouched, HasTrack
      <3>3. m.no + 1 # i
        <4> SUFFICES ASSUME m.no + 1 = i PROVE FALSE OBVIOUS
        <4>1. Place(m) = Place(l) BY <2>1, <1>1 DEF Place
        <4>2. Closes(l) BY <4>1, <1>1, <1>13
        <4>3. d.tracks[i].title = HalfOf(Of(l)) /\ Of(l) \in Nat BY <4>2, <1>1, PartOfTitle DEF Awaits
        <4> QED BY <4>3, <3>2, Halves
      <3> QED BY <3>2, <3>3, <1>6
    <2> QED BY <2>1, <1>6 DEF Untouched
  <1>14. Kept(d, p, l, e, q)
    BY <1>6, <1>11, <1>12, <1>13 DEF Kept
  <1> QED BY <1>14 DEF e, q

\* Every line that is not bad.
LEMMA LineKept ==
  ASSUME disc \in Discs, NEW d \in OwnDiscs, NEW p, NEW l \in OwnLines, l.key # "NULL", Ready(d, p, l),
         ParseLine(d, p, l).outcome # "bad"
  PROVE  Kept(d, p, l, ParseLine(d, p, l).dsc, ParseLine(d, p, l).prs)
  <1>1. p.at \in 1 .. 12
    BY DEF Ready, Parsers
  <1>2. CASE p.at < 5
    BY <1>2, TopKept
  <1>3. CASE p.at >= 5 /\ ~IsTitle(l)
    BY <1>3, BodyKept
  <1>4. CASE p.at = 5 /\ l.key = "DTITLE"
    BY <1>4, DiscTitleKept
  <1>5. CASE p.at > 5 /\ l.key = "DTITLE"
    <2>1. p.at >= 5 /\ p.at > SectionNo(l.key) BY <1>1, <1>5, SectionNumbers
    <2> QED BY <2>1, BodyKept
  <1>6. CASE p.at \in 5 .. 8 /\ l.key = "TTITLE" /\ ~(p.at = 5 /\ p.multi = "NONE")
    BY <1>6, TrackTitleKept
  <1>7. CASE p.at = 5 /\ l.key = "TTITLE" /\ p.multi = "NONE"
    <2>1. p.at >= 5 BY <1>7
    <2> QED BY <2>1, <1>7, BodyKept
  <1>8. CASE p.at > 8 /\ l.key = "TTITLE"
    <2>1. p.at >= 5 /\ p.at > SectionNo(l.key) BY <1>1, <1>8, SectionNumbers
    <2> QED BY <2>1, BodyKept
  <1> QED BY <1>1, <1>2, <1>3, <1>4, <1>5, <1>6, <1>7, <1>8 DEF IsTitle

-----------------------------------------------------------------------------
(* A record, line by line *)

\* The lines after the first one.
LEMMA LaterLines ==
  ASSUME NEW S, NEW s \in Seq(S), s # <<>>
  PROVE  /\ Head(s) = s[1] /\ s[1] \in S /\ 1 \in DOMAIN s /\ Tail(s) \in Seq(S)
         /\ \A i \in DOMAIN Tail(s) : i \in Nat \ {0} /\ i + 1 \in DOMAIN s /\ Tail(s)[i] = s[i + 1]
         /\ \A i \in DOMAIN s : i > 1 => i - 1 \in DOMAIN Tail(s) /\ Tail(s)[i - 1] = s[i]
         /\ DOMAIN s \subseteq Nat \ {0}
  <1>1. Len(s) \in Nat /\ Len(s) # 0 /\ DOMAIN s = 1 .. Len(s) /\ Head(s) = s[1]
    OBVIOUS
  <1>2. /\ Tail(s) \in Seq(S) /\ Len(Tail(s)) = Len(s) - 1 /\ \A i \in 1 .. Len(s) - 1 : Tail(s)[i] = s[i + 1]
    BY HeadTailProperties
  <1>3. DOMAIN Tail(s) = 1 .. Len(s) - 1
    BY <1>2
  <1> QED BY <1>1, <1>2, <1>3

\* The rest of a record that is in order is in order, and begins with the other half of
\* a title if the line before was its first half.
LEMMA InOrderTail ==
  ASSUME NEW s \in Seq(OwnLines), s # <<>>, InOrder(s)
  PROVE  /\ InOrder(Tail(s))
         /\ Opens(s[1]) => Pending(Tail(s)) /\ Finishes(s[1], Tail(s)[1])
         /\ Pending(Tail(s)) => Opens(s[1])
         /\ \A i \in DOMAIN Tail(s) : Begins(Tail(s)[i]) /\ Begins(s[1]) => Place(Tail(s)[i]) # Place(s[1])
  <1> DEFINE t == Tail(s)
  <1>1. /\ 1 \in DOMAIN s /\ t \in Seq(OwnLines) /\ DOMAIN s \subseteq Nat \ {0}
        /\ \A i \in DOMAIN t : i \in Nat \ {0} /\ i + 1 \in DOMAIN s /\ t[i] = s[i + 1]
        /\ \A i \in DOMAIN s : i > 1 => i - 1 \in DOMAIN t /\ t[i - 1] = s[i]
    BY LaterLines
  <1>2. t # <<>> <=> 1 \in DOMAIN t
    BY <1>1
  <1> HIDE DEF t
  <1>3. \A i \in DOMAIN t : IsTitle(t[i]) => Begins(t[i]) \/ Closes(t[i])
    BY <1>1 DEF InOrder
  <1>4. ASSUME NEW i \in DOMAIN t, Opens(t[i]) PROVE i + 1 \in DOMAIN t /\ Finishes(t[i], t[i + 1])
    <2>1. i \in Nat \ {0} /\ i + 1 \in DOMAIN s /\ t[i] = s[i + 1] BY <1>1
    <2>2. (i + 1) + 1 \in DOMAIN s /\ Finishes(s[i + 1], s[(i + 1) + 1]) BY <2>1, <1>4 DEF InOrder
    <2>3. (i + 1) + 1 > 1 /\ ((i + 1) + 1) - 1 = i + 1 BY <2>1
    <2>4. i + 1 \in DOMAIN t /\ t[i + 1] = s[(i + 1) + 1] BY <2>2, <2>3, <1>1
    <2> QED BY <2>1, <2>2, <2>4
  <1>5. ASSUME NEW i \in DOMAIN t, Closes(t[i]), i > 1 PROVE Opens(t[i - 1])
    <2>1. i \in Nat \ {0} /\ i + 1 \in DOMAIN s /\ t[i] = s[i + 1] BY <1>1
    <2>2. i + 1 > 1 /\ (i + 1) - 1 = i BY <2>1
    <2>3. Opens(s[i]) BY <2>1, <2>2, <1>5 DEF InOrder
    <2>4. i \in DOMAIN s BY <2>1, <1>1
    <2>5. t[i - 1] = s[i] BY <2>4, <1>1, <1>5
    <2> QED BY <2>3, <2>5
  <1>6. ASSUME NEW i \in DOMAIN t, NEW j \in DOMAIN t, Begins(t[i]), Begins(t[j]), Place(t[i]) = Place(t[j]) PROVE i = j
    <2>1. i + 1 \in DOMAIN s /\ j + 1 \in DOMAIN s /\ t[i] = s[i + 1] /\ t[j] = s[j + 1] BY <1>1
    <2> DEFINE m == i + 1
               n == j + 1
    <2>2. Begins(s[m]) /\ Begins(s[n]) /\ Place(s[m]) = Place(s[n]) BY <1>6, <2>1
    <2> HIDE DEF m, n
    <2>3. m \in DOMAIN s /\ n \in DOMAIN s BY <2>1 DEF m, n
    <2>4. m = n BY <2>2, <2>3 DEF InOrder
    <2>5. i \in Nat /\ j \in Nat BY <1>1
    <2> QED BY <2>4, <2>5 DEF m, n
  <1>7. InOrder(t)
    BY <1>3, <1>4, <1>5, <1>6 DEF InOrder
  <1>8. ASSUME Opens(s[1]) PROVE Pending(t) /\ Finishes(s[1], t[1])
    <2>1. 1 + 1 \in DOMAIN s /\ Finishes(s[1], s[1 + 1]) BY <1>1, <1>8 DEF InOrder
    <2>2. 1 \in DOMAIN t /\ t[1] = s[1 + 1]
      <3>1. 1 + 1 > 1 /\ (1 + 1) - 1 = 1 OBVIOUS
      <3> QED BY <3>1, <2>1, <1>1
    <2> QED BY <2>1, <2>2, <1>2 DEF Pending, Finishes
  <1>9. ASSUME Pending(t) PROVE Opens(s[1])
    <2>1. 1 \in DOMAIN t /\ Closes(t[1]) BY <1>2, <1>9 DEF Pending
    <2>2. 1 + 1 \in DOMAIN s /\ t[1] = s[1 + 1] BY <2>1, <1>1
    <2>3. 1 + 1 > 1 /\ (1 + 1) - 1 = 1 OBVIOUS
    <2> QED BY <2>1, <2>2, <2>3 DEF InOrder
  <1>10. ASSUME NEW i \in DOMAIN t, Begins(t[i]), Begins(s[1]) PROVE Place(t[i]) # Place(s[1])
    <2>1. i \in Nat \ {0} /\ i + 1 \in DOMAIN s /\ t[i] = s[i + 1] /\ i + 1 # 1 BY <1>1
    <2> QED BY <2>1, <1>1, <1>10 DEF InOrder
  <1> QED BY <1>7, <1>8, <1>9, <1>10 DEF t

\* What is to come of a title is of the same place and is awaited alike.
LEMMA OtherHalf ==
  ASSUME NEW d, NEW p, NEW l, NEW m, Finishes(l, m)
  PROVE  Place(m) = Place(l) /\ (Passed(p, m) <=> Passed(p, l)) /\ (Awaits(d, p, m) <=> Awaits(d, p, l))
  BY DEF Finishes, Place, Passed, Awaits

\* Before each line of a record the disc and the parser are ready for it.
LEMMA RecordIsReady ==
  ASSUME NEW d, NEW p, NEW s \in Seq(OwnLines), s # <<>>, RecordInv(d, p, s)
  PROVE  Ready(d, p, s[1])
  <1>1. 1 \in DOMAIN s
    BY LaterLines
  <1>2. Pending(s) <=> Closes(s[1])
    BY DEF Pending
  <1>3. Gap(d, p, s) = IF Closes(s[1]) /\ Awaits(d, p, s[1]) THEN {Place(s[1])} ELSE {}
    BY <1>2 DEF Gap
  <1> QED BY <1>1, <1>2, <1>3 DEF RecordInv, Ready, InOrder

\* A line read as it was sent.
LEMMA RecordStep ==
  ASSUME disc \in Discs, NEW d \in OwnDiscs, NEW p, NEW s \in Seq(OwnLines), s # <<>>, RecordInv(d, p, s), s[1].key # "NULL",
         ParseLine(d, p, s[1]).outcome # "bad"
  PROVE  RecordInv(ParseLine(d, p, s[1]).dsc, ParseLine(d, p, s[1]).prs, Tail(s))
  <1> DEFINE l == s[1]
             t == Tail(s)
             e == ParseLine(d, p, l).dsc
             q == ParseLine(d, p, l).prs
  <1>1. /\ l \in OwnLines /\ 1 \in DOMAIN s /\ t \in Seq(OwnLines)
        /\ \A i \in DOMAIN t : i + 1 \in DOMAIN s /\ t[i] = s[i + 1] /\ t[i] \in OwnLines
    <2>1. l \in OwnLines /\ 1 \in DOMAIN s /\ t \in Seq(OwnLines) BY LaterLines
    <2>2. \A i \in DOMAIN t : i + 1 \in DOMAIN s /\ t[i] = s[i + 1] BY LaterLines
    <2>3. \A i \in DOMAIN t : t[i] \in OwnLines BY <2>1
    <2> QED BY <2>1, <2>2, <2>3
  <1>2. Kept(d, p, l, e, q)
    <2>1. Ready(d, p, l) BY RecordIsReady
    <2> QED BY <2>1, <1>1, LineKept
  <1>3. /\ InOrder(t) /\ (Pending(t) <=> Opens(l)) /\ (Opens(l) => Finishes(l, t[1]))
        /\ \A i \in DOMAIN t : Begins(t[i]) /\ Begins(l) => Place(t[i]) # Place(l)
    BY InOrderTail DEF RecordInv
  <1> HIDE DEF e, q, t, l
  <1>4. Gap(e, q, t) = IF Opens(l) /\ Awaits(e, q, l) THEN {Place(l)} ELSE {}
    BY <1>3, OtherHalf DEF Gap
  <1>5. Pending(t) => Passed(q, t[1]) \/ Awaits(e, q, t[1])
    BY <1>2, <1>3, OtherHalf DEF Kept
  <1>6. ASSUME NEW i \in DOMAIN t, Begins(t[i]) PROVE Untouched(e, q, t[i])
    <2>1. Untouched(d, p, t[i]) BY <1>1, <1>6 DEF RecordInv
    <2> QED BY <2>1, <1>1, <1>2, <1>3, <1>6 DEF Kept
  <1>7. RecordInv(e, q, t)
    BY <1>2, <1>3, <1>4, <1>5, <1>6 DEF RecordInv, Kept
  <1> QED BY <1>7 DEF e, q, t, l

\* At the end of a record, wherever that comes, one title at most is cut.
LEMMA RecordEnds ==
  ASSUME NEW d, NEW p, NEW s, RecordInv(d, p, s)
  PROVE  OneCut(d)
  <1>1. Loose(d) \subseteq Gap(d, p, s)
    BY DEF RecordInv, ParserInv
  <1> QED BY <1>1 DEF OneCut, Gap

\* A line whose end did not come in, or that is no line at all.
LEMMA BrokenOff ==
  ASSUME disc \in Discs, NEW d \in OwnDiscs, NEW p, NEW l \in OwnLines, Ready(d, p, l),
         NEW m \in OwnLines, m.key # "NULL", m.key = "junk" \/ (m.key = l.key /\ m.no = l.no)
  PROVE  OneCut(ParseLine(d, p, m).dsc)
  <1> DEFINE e == ParseLine(d, p, m).dsc
             f == DiscTitleEnds(d)
             gap == IF Closes(l) /\ Awaits(d, p, l) THEN {Place(l)} ELSE {}
             i == m.no + 1
  <1>1. /\ p \in Parsers /\ p.at \in 1 .. 12 /\ p.multi \in {"NONE", "TITLE", "ARTIST"} /\ m.key # "NULL"
        /\ ParserInv(d, p, gap)
    BY DEF Ready, Parsers
  <1>2. /\ Len(d.tracks) \in Nat /\ DOMAIN d.tracks = 1 .. Len(d.tracks) /\ m.no \in Nat
        /\ e \in OwnDiscs /\ Len(e.tracks) \in Nat /\ DOMAIN e.tracks = 1 .. Len(e.tracks)
    BY ParsedIsOwn, DiscParts DEF OwnLines, Lines
  <1>3. gap \subseteq {Place(l)} /\ (p.at < 5 => gap = {}) /\ (p.at = 5 => gap \subseteq {0})
    BY DEF Awaits, Place
  <1>4. /\ Loose(d) \subseteq gap
        /\ p.at = 5 /\ p.multi = "TITLE" => d.title # <<>>
        /\ p.at = 5 /\ p.multi = "ARTIST" => Settled(d.artist) \/ 0 \in gap
    BY <1>1 DEF ParserInv
  <1> HIDE DEF gap
  <1>5. (Settled(d.title) \/ 0 \in gap) /\ \A j \in DOMAIN d.tracks : Settled(d.tracks[j].title) \/ j \in gap
    BY <1>2, <1>4, LoosePlaces
  <1>6. f \in OwnDiscs /\ f.tracks = d.tracks /\ f.title = IF d.title = <<>> THEN d.artist ELSE d.title
    BY TitleEnds, TitleLines
  <1>7. Settled(<<>>)
    BY DEF Settled
  <1> HIDE DEF e, f
  <1> SUFFICES OneCut(e)
    BY DEF e
  <1>8. ASSUME NEW x, Loose(e) \subseteq {x} PROVE OneCut(e)
    BY <1>8 DEF OneCut
  <1>9. CASE p.at < 5
    <2>1. e \in {d, AddTracks(d, 1)} BY <1>1, <1>9, TopLine DEF e
    <2>2. /\ AddTracks(d, 1).title = d.title
          /\ \A j \in DOMAIN AddTracks(d, 1).tracks :
               AddTracks(d, 1).tracks[j].title = IF j <= Len(d.tracks) THEN d.tracks[j].title ELSE <<>>
      <3>1. 1 \in Nat OBVIOUS
      <3> QED BY <3>1, AddedTracks
    <2>3. DOMAIN AddTracks(d, 1).tracks \subseteq Nat \ {0}
      <3>1. 1 \in Nat OBVIOUS
      <3>2. DOMAIN AddTracks(d, 1).tracks = 1 .. Len(d.tracks) + 1 BY <3>1, AddedTracks
      <3> QED BY <3>2, <1>2
    <2>4. Settled(d.title) /\ \A j \in DOMAIN d.tracks : Settled(d.tracks[j].title) BY <1>3, <1>5, <1>9
    <2>5. Settled(e.title) /\ \A j \in DOMAIN e.tracks : Settled(e.tracks[j].title)
      <3>1. CASE e = d BY <3>1, <2>4
      <3>2. CASE e = AddTracks(d, 1)
        <4> SUFFICES ASSUME NEW j \in DOMAIN e.tracks PROVE Settled(e.tracks[j].title) BY <2>2, <2>4, <3>2
        <4>1. j \in Nat \ {0} BY <2>3, <3>2
        <4>2. j <= Len(d.tracks) => j \in DOMAIN d.tracks BY <4>1, <1>2
        <4> QED BY <4>2, <2>2, <2>4, <3>2, <1>7
      <3> QED BY <2>1, <3>1, <3>2
    <2> DEFINE zero == {0}
    <2>6. Loose(e) \subseteq zero
      <3> HIDE DEF zero
      <3> QED BY <2>5, <1>2, LoosePlaces
    <2> QED BY <2>6, <1>8
  <1>10. e = d => OneCut(e)
    BY <1>3, <1>4, <1>8
  <1>11. ASSUME p.at = 5, e.tracks = d.tracks PROVE OneCut(e)
    <2> DEFINE zero == {0}
    <2>1. Settled(e.title) \/ 0 \in zero OBVIOUS
    <2>2. \A j \in DOMAIN e.tracks : Settled(e.tracks[j].title) \/ j \in zero BY <1>3, <1>5, <1>11
    <2>3. Loose(e) \subseteq zero
      <3> HIDE DEF zero
      <3> QED BY <2>1, <2>2, <1>2, LoosePlaces
    <2> QED BY <2>3, <1>8
  <1>12. CASE p.at = 5 /\ m.key # "DTITLE" /\ p.multi = "NONE"
    <2>1. p.at >= 5 BY <1>12
    <2>2. ParseLine(d, p, m) = Parsed(d, p, "more") BY <2>1, <1>1, <1>12, LowerLine
    <2> QED BY <2>2, <1>10 DEF e, Parsed
  <1>13. CASE p.at = 5 /\ m.key # "DTITLE" /\ p.multi # "NONE" /\ ~IsTitle(m)
    <2>1. p.at >= 5 BY <1>13
    <2>2. ParseLine(d, p, m) = BodyLine(f, p, m) BY <2>1, <1>1, <1>13, LowerLine DEF f
    <2>3. BodyLine(f, p, m).dsc = f BY <2>1, <1>1, <1>13, BodyOther
    <2> QED BY <2>2, <2>3, <1>6, <1>11, <1>13 DEF e
  <1>14. CASE p.at > 5 /\ (~IsTitle(m) \/ p.at > SectionNo(m.key))
    <2>1. p.at >= 5 BY <1>1, <1>14
    <2>2. ParseLine(d, p, m) = BodyLine(d, p, m) BY <2>1, <1>1, <1>14, LowerLine
    <2>3. BodyLine(d, p, m).dsc = d BY <2>1, <1>1, <1>14, BodyOther
    <2> QED BY <2>2, <2>3, <1>10 DEF e
  <1>15. CASE p.at = 5 /\ m.key = "DTITLE"
    <2>1. e.tracks = d.tracks BY <1>1, <1>15, DiscLine DEF e
    <2> QED BY <2>1, <1>11, <1>15
  <1>16. CASE p.at \in 5 .. 8 /\ m.key = "TTITLE" /\ (p.at = 5 => p.multi # "NONE")
    <2> DEFINE g == IF p.at = 5 THEN f ELSE d
               y == BodyLine(g, p, m)
    <2>1. ParseLine(d, p, m) = y
      <3>1. p.at >= 5 /\ m.key # "DTITLE" BY <1>1, <1>16
      <3>2. CASE p.at = 5
        <4>1. p.multi # "NONE" BY <3>2, <1>16
        <4> QED BY <4>1, <3>1, <3>2, <1>1, LowerLine DEF f
      <3>3. CASE p.at # 5
        <4>1. p.at > 5 BY <3>3, <1>16
        <4> QED BY <4>1, <3>1, <3>3, <1>1, LowerLine
      <3> QED BY <3>2, <3>3
    <2>2. g \in OwnDiscs /\ g.tracks = d.tracks BY <1>6
    <2>3. gap \subseteq {i}
      <3>1. l.key = "TTITLE" /\ l.no = m.no BY <1>16
      <3> QED BY <3>1, <1>3 DEF Place
    <2>4. Settled(d.title) /\ Settled(g.title)
      <3>1. 0 \notin gap BY <2>3, <1>2
      <3>2. Settled(d.title) BY <3>1, <1>5
      <3>3. CASE p.at = 5
        <4>1. p.multi \in {"TITLE", "ARTIST"} BY <3>3, <1>1, <1>16
        <4>2. d.title # <<>> \/ Settled(d.artist) BY <3>1, <3>3, <4>1, <1>4
        <4> QED BY <4>2, <3>2, <3>3, <1>6
      <3> QED BY <3>2, <3>3
    <2>5. e = y.dsc BY <2>1 DEF e
    <2> HIDE DEF g
    <2>6. CASE ~HasTrack(g, m.no)
      <3>1. e = g BY <2>2, <2>5, <2>6, <1>1, <1>16, TrackLine
      <3>2. \A j \in DOMAIN e.tracks : Settled(e.tracks[j].title) \/ j \in gap BY <3>1, <2>2, <1>5
      <3>3. Loose(e) \subseteq gap BY <3>1, <3>2, <2>4, <1>2, LoosePlaces
      <3> QED BY <3>3, <1>3, <1>8
    <2>7. CASE HasTrack(g, m.no)
      <3>1. /\ y.dsc.title = g.title /\ Len(y.dsc.tracks) = Len(g.tracks)
            /\ \A j \in DOMAIN g.tracks : j # i => y.dsc.tracks[j].title = g.tracks[j].title
        BY <2>2, <2>7, <1>1, <1>16, TrackLine
      <3> HIDE DEF y
      <3>2. DOMAIN e.tracks = DOMAIN d.tracks /\ e.title = g.title
            /\ \A j \in DOMAIN d.tracks : j # i => e.tracks[j].title = d.tracks[j].title
        BY <3>1, <2>2, <2>5, <1>2
      <3> DEFINE this == {i}
      <3>3. \A j \in DOMAIN e.tracks : Settled(e.tracks[j].title) \/ j \in this
        BY <3>2, <2>3, <1>5
      <3>4. Loose(e) \subseteq this
        <4> HIDE DEF this
        <4> QED BY <3>2, <3>3, <2>4, <1>2, LoosePlaces
      <3> QED BY <3>4, <1>8
    <2> QED BY <2>6, <2>7
  <1>17. CASE p.at > 5 /\ m.key = "DTITLE"
    <2>1. p.at > SectionNo(m.key) BY <1>17, SectionNumbers
    <2> QED BY <2>1, <1>14, <1>17
  <1>18. CASE p.at > 8 /\ m.key = "TTITLE"
    <2>1. p.at > SectionNo(m.key) /\ p.at > 5 BY <1>1, <1>18, SectionNumbers
    <2> QED BY <2>1, <1>14
  <1>19. OneCut(e)
    <2>1. CASE p.at = 5
      BY <2>1, <1>12, <1>13, <1>15, <1>16 DEF IsTitle
    <2>2. CASE p.at > 5
      <3>1. p.at \in 5 .. 8 \/ p.at > 8 BY <2>2, <1>1
      <3> QED BY <3>1, <2>2, <1>14, <1>16, <1>17, <1>18 DEF IsTitle
    <2> QED BY <2>1, <2>2, <1>1, <1>9
  <1> QED BY <1>19 DEF e

-----------------------------------------------------------------------------
(* The entries of the database *)

\* Lines in order that begin with no second half and are of certain titles only.
LaidIn(s, places) ==
  /\ s \in Seq(Lines) /\ InOrder(s)
  /\ s # <<>> => ~Closes(s[1])
  /\ \A i \in DOMAIN s : Begins(s[i]) => Place(s[i]) \in places

\* A line made of its parts.
LEMMA LineHas ==
  ASSUME NEW key \in LineKeys, NEW no \in Nat, NEW artist \in Text, NEW text \in Text
  PROVE  /\ Line(key, no, artist, text) \in Lines
         /\ Line(key, no, artist, text).key = key /\ Line(key, no, artist, text).no = no
         /\ Line(key, no, artist, text).artist = artist /\ Line(key, no, artist, text).text = text
  BY DEF Line, Lines

\* Parts of an entry with different titles, one after the other.
LEMMA OneAfterTheOther ==
  ASSUME NEW s, NEW P, LaidIn(s, P), NEW t, NEW Q, LaidIn(t, Q), P \cap Q = {}
  PROVE  LaidIn(s \o t, P \cup Q)
  <1> DEFINE r == s \o t
             n == Len(s)
  <1>1. s \in Seq(Lines) /\ t \in Seq(Lines)
    BY DEF LaidIn
  <1>2. /\ r \in Seq(Lines) /\ Len(r) = Len(s) + Len(t)
        /\ \A i \in 1 .. Len(s) + Len(t) : r[i] = IF i <= Len(s) THEN s[i] ELSE t[i - Len(s)]
    BY <1>1, ConcatProperties
  <1>3. n \in Nat /\ Len(t) \in Nat /\ DOMAIN s = 1 .. n /\ DOMAIN t = 1 .. Len(t)
    BY <1>1
  <1> HIDE DEF r
  <1>4. DOMAIN r = 1 .. n + Len(t)
    BY <1>2, <1>3
  <1> HIDE DEF n
  <1>5. \A i \in DOMAIN r : \/ i \in DOMAIN s /\ r[i] = s[i]
                            \/ i > n /\ i \in Nat /\ i - n \in DOMAIN t /\ r[i] = t[i - n]
    BY <1>2, <1>3, <1>4 DEF n
  <1>6. (\A i \in DOMAIN s : i \in DOMAIN r /\ r[i] = s[i]) /\ (\A i \in DOMAIN t : n + i \in DOMAIN r /\ r[n + i] = t[i])
    BY <1>2, <1>3, <1>4 DEF n
  <1>7. \A i \in DOMAIN r : IsTitle(r[i]) => Begins(r[i]) \/ Closes(r[i])
    BY <1>5 DEF LaidIn, InOrder
  <1>8. ASSUME NEW i \in DOMAIN r, Opens(r[i]) PROVE i + 1 \in DOMAIN r /\ Finishes(r[i], r[i + 1])
    <2>1. CASE i \in DOMAIN s /\ r[i] = s[i]
      <3>1. i + 1 \in DOMAIN s /\ Finishes(s[i], s[i + 1]) BY <2>1, <1>8 DEF LaidIn, InOrder
      <3> QED BY <3>1, <2>1, <1>6
    <2>2. CASE i > n /\ i \in Nat /\ i - n \in DOMAIN t /\ r[i] = t[i - n]
      <3>1. (i - n) + 1 \in DOMAIN t /\ Finishes(t[i - n], t[(i - n) + 1]) BY <2>2, <1>8 DEF LaidIn, InOrder
      <3>2. n + ((i - n) + 1) = i + 1 BY <2>2, <1>3
      <3> QED BY <3>1, <3>2, <2>2, <1>6
    <2> QED BY <2>1, <2>2, <1>5
  <1>9. ASSUME NEW i \in DOMAIN r, Closes(r[i]), i > 1 PROVE Opens(r[i - 1])
    <2>1. CASE i \in DOMAIN s /\ r[i] = s[i]
      <3>1. Opens(s[i - 1]) BY <2>1, <1>9 DEF LaidIn, InOrder
      <3>2. i - 1 \in DOMAIN s BY <2>1, <1>3, <1>9
      <3> QED BY <3>1, <3>2, <1>6
    <2>2. CASE i > n /\ i \in Nat /\ i - n \in DOMAIN t /\ r[i] = t[i - n]
      <3>1. t # <<>> BY <2>2, <1>3
      <3>2. i - n # 1 BY <3>1, <2>2, <1>9 DEF LaidIn
      <3>3. i - n > 1 BY <3>2, <2>2, <1>3
      <3>4. Opens(t[(i - n) - 1]) BY <3>3, <2>2, <1>9 DEF LaidIn, InOrder
      <3>5. (i - n) - 1 \in DOMAIN t /\ n + ((i - n) - 1) = i - 1 BY <3>3, <2>2, <1>3
      <3> QED BY <3>4, <3>5, <1>6
    <2> QED BY <2>1, <2>2, <1>5
  <1>10. \A i \in DOMAIN r : Begins(r[i]) => \/ i \in DOMAIN s /\ r[i] = s[i] /\ Place(r[i]) \in P
                                             \/ i \in Nat /\ i - n \in DOMAIN t /\ r[i] = t[i - n] /\ Place(r[i]) \in Q
    BY <1>5 DEF LaidIn
  <1>11. ASSUME NEW i \in DOMAIN r, NEW j \in DOMAIN r, Begins(r[i]), Begins(r[j]), Place(r[i]) = Place(r[j])
         PROVE  i = j
    <2>1. CASE i \in DOMAIN s /\ r[i] = s[i] /\ Place(r[i]) \in P
      <3>1. j \in DOMAIN s /\ r[j] = s[j] BY <2>1, <1>10, <1>11
      <3> QED BY <3>1, <2>1, <1>11 DEF LaidIn, InOrder
    <2>2. CASE i \in Nat /\ i - n \in DOMAIN t /\ r[i] = t[i - n] /\ Place(r[i]) \in Q
      <3>1. j \in Nat /\ j - n \in DOMAIN t /\ r[j] = t[j - n] BY <2>2, <1>10, <1>11
      <3>2. i - n = j - n BY <3>1, <2>2, <1>11 DEF LaidIn, InOrder
      <3> QED BY <3>1, <3>2, <2>2, <1>3
    <2> QED BY <2>1, <2>2, <1>10, <1>11
  <1>12. ASSUME r # <<>> PROVE ~Closes(r[1])
    <2>1. 1 \in DOMAIN r BY <1>2, <1>12
    <2>2. CASE 1 \in DOMAIN s /\ r[1] = s[1]
      <3>1. s # <<>> BY <2>2, <1>3
      <3> QED BY <3>1, <2>2 DEF LaidIn
    <2>3. CASE 1 > n /\ 1 - n \in DOMAIN t /\ r[1] = t[1 - n]
      <3>1. n = 0 /\ 1 - n = 1 BY <2>3, <1>3
      <3>2. t # <<>> BY <2>3, <1>3
      <3> QED BY <3>1, <3>2, <2>3 DEF LaidIn
    <2> QED BY <2>1, <2>2, <2>3, <1>5
  <1>13. LaidIn(r, P \cup Q)
    BY <1>2, <1>7, <1>8, <1>9, <1>10, <1>11, <1>12 DEF LaidIn, InOrder
  <1> QED BY <1>13 DEF r

\* Lines that have no title.
LEMMA NoTitleIn ==
  ASSUME NEW s \in Seq(Lines), \A i \in DOMAIN s : ~IsTitle(s[i])
  PROVE  LaidIn(s, {})
  <1>1. \A i \in DOMAIN s : ~Begins(s[i]) /\ ~Closes(s[i]) /\ ~Opens(s[i])
    BY DEF Begins, Opens, Entire, Closes
  <1>2. s # <<>> => 1 \in DOMAIN s
    OBVIOUS
  <1> QED BY <1>1, <1>2 DEF LaidIn, InOrder

\* The two lines of a long title.
LEMMA HalvesInOrder ==
  ASSUME NEW a \in Lines, NEW b \in Lines, Opens(a), Finishes(a, b)
  PROVE  LaidIn(<<a, b>>, {Place(a)})
  <1> DEFINE s == <<a, b>>
  <1>1. s \in Seq(Lines) /\ DOMAIN s = 1 .. 2 /\ s[1] = a /\ s[2] = b
    OBVIOUS
  <1>2. ~Opens(b) /\ ~Begins(b) /\ Closes(b) /\ ~Closes(a) /\ Begins(a)
    <2>1. Len(a.text) # 0 /\ Len(b.text) # 0 /\ a.text[1][2] = 1 /\ Len(b.text) = 1 /\ b.text[1][2] = 2
      BY DEF Opens, Finishes, Closes, HalfOf, RestOf
    <2>2. ~Opens(b) /\ ~Entire(b) /\ ~Closes(a)
      BY <2>1 DEF Opens, Entire, Closes, HalfOf, RestOf, TitleOf
    <2> QED BY <2>2 DEF Begins, Finishes
  <1> HIDE DEF s
  <1>3. InOrder(s)
    BY <1>1, <1>2 DEF InOrder
  <1>4. LaidIn(s, {Place(a)})
    BY <1>1, <1>2, <1>3 DEF LaidIn
  <1> QED BY <1>4 DEF s

\* Whole titles, each of its own place.
LEMMA WholesInOrder ==
  ASSUME NEW s \in Seq(Lines), \A i \in DOMAIN s : Entire(s[i]),
         \A i, j \in DOMAIN s : Place(s[i]) = Place(s[j]) => i = j
  PROVE  LaidIn(s, {Place(s[i]) : i \in DOMAIN s})
  <1>1. ASSUME NEW i \in DOMAIN s PROVE Begins(s[i]) /\ ~Opens(s[i]) /\ ~Closes(s[i])
    <2> DEFINE k == Of(s[i])
               x == s[i].text
    <2>1. x = TitleOf(k) BY DEF Entire
    <2>2. Len(TitleOf(k)) = 2 /\ Len(HalfOf(k)) = 1 /\ Len(RestOf(k)) = 1 BY DEF TitleOf, HalfOf, RestOf
    <2> HIDE DEF x, k
    <2>3. x # HalfOf(k) /\ x # RestOf(k) BY <2>1, <2>2
    <2>4. Entire(s[i]) OBVIOUS
    <2> QED BY <2>3, <2>4 DEF x, k, Begins, Opens, Closes
  <1>2. s # <<>> => 1 \in DOMAIN s
    OBVIOUS
  <1> QED BY <1>1, <1>2 DEF LaidIn, InOrder

\* The title of every track on two lines.
LEMMA TitlesInOrder ==
  ASSUME NEW n \in Nat, n # 0
  PROVE  LaidIn(FlattenSeq([i \in 1 .. n |-> LongTitle("TTITLE", i - 1, i)]), 1 .. n)
  <1> DEFINE each == [i \in 1 .. n |-> LongTitle("TTITLE", i - 1, i)]
  <1>1. ASSUME NEW i \in 1 .. n PROVE LaidIn(each[i], {i}) /\ each[i] \in Seq(Lines)
    <2> DEFINE a == Line("TTITLE", i - 1, <<>>, HalfOf(i))
               b == Line("TTITLE", i - 1, <<>>, RestOf(i))
    <2>1. i \in Nat /\ i - 1 \in Nat /\ (i - 1) + 1 = i OBVIOUS
    <2>2. "TTITLE" \in LineKeys BY DEF LineKeys
    <2>3. /\ a \in Lines /\ a.key = "TTITLE" /\ a.no = i - 1 /\ a.artist = <<>> /\ a.text = HalfOf(i)
          /\ b \in Lines /\ b.key = "TTITLE" /\ b.no = i - 1 /\ b.artist = <<>> /\ b.text = RestOf(i)
      <3>1. HalfOf(i) \in Text /\ RestOf(i) \in Text BY <2>1, Halves
      <3> DEFINE h == HalfOf(i)
                 r == RestOf(i)
                 no == i - 1
      <3> HIDE DEF h, r, no
      <3>2. h \in Text /\ r \in Text /\ no \in Nat /\ <<>> \in Text BY <3>1, <2>1, NoText DEF h, r, no
      <3>3. /\ Line("TTITLE", no, <<>>, h) \in Lines
            /\ Line("TTITLE", no, <<>>, h).key = "TTITLE" /\ Line("TTITLE", no, <<>>, h).no = no
            /\ Line("TTITLE", no, <<>>, h).artist = <<>> /\ Line("TTITLE", no, <<>>, h).text = h
        BY <2>2, <3>2, LineHas
      <3>4. /\ Line("TTITLE", no, <<>>, r) \in Lines
            /\ Line("TTITLE", no, <<>>, r).key = "TTITLE" /\ Line("TTITLE", no, <<>>, r).no = no
            /\ Line("TTITLE", no, <<>>, r).artist = <<>> /\ Line("TTITLE", no, <<>>, r).text = r
        BY <2>2, <3>2, LineHas
      <3> QED BY <3>3, <3>4 DEF h, r, no
    <2>4. each[i] = <<a, b>> BY DEF LongTitle, HalfOf, RestOf
    <2> HIDE DEF a, b, each
    <2>5. Of(a) = i /\ Of(b) = i BY <2>3 DEF Of, HalfOf, RestOf
    <2>6. Opens(a) /\ Finishes(a, b) /\ Place(a) = i
      BY <2>1, <2>3, <2>5 DEF Opens, Finishes, Closes, IsTitle, Place
    <2>7. LaidIn(<<a, b>>, {Place(a)}) BY <2>3, <2>6, HalvesInOrder
    <2> QED BY <2>4, <2>6, <2>7 DEF LaidIn
  <1>2. each \in Seq(Seq(Lines)) /\ each # <<>> /\ Len(each) = n
    <2>1. each \in [1 .. n -> Seq(Lines)] BY <1>1
    <2> HIDE DEF each
    <2> QED BY <2>1
  <1> HIDE DEF each
  <1>3. PICK f : /\ f[1] = each[1] /\ FlattenSeq(each) = f[n]
                 /\ \A i \in 2 .. n : f[i] = f[i - 1] \o each[i]
    BY <1>2, FlattenGrows
  <1> DEFINE N == {i \in Nat : i \in 1 .. n => LaidIn(f[i], 1 .. i)}
  <1>4. 0 \in N
    OBVIOUS
  <1>5. ASSUME NEW i \in Nat, i \in N PROVE i + 1 \in N
    <2> SUFFICES ASSUME i + 1 \in 1 .. n PROVE LaidIn(f[i + 1], 1 .. i + 1)
      OBVIOUS
    <2>1. CASE i = 0
      <3>1. 1 .. i + 1 = {1} /\ i + 1 = 1 BY <2>1
      <3>2. LaidIn(each[1], {1}) BY <1>1, <3>1
      <3> QED BY <3>1, <3>2, <1>3
    <2>2. CASE i # 0
      <3> DEFINE P == 1 .. i
                 Q == {i + 1}
      <3>1. LaidIn(f[i], P) BY <2>2, <1>5
      <3>2. LaidIn(each[i + 1], Q) BY <1>1
      <3>3. f[i + 1] = f[i] \o each[i + 1]
        <4>1. i + 1 \in 2 .. n /\ (i + 1) - 1 = i BY <2>2
        <4> QED BY <4>1, <1>3
      <3>4. P \cap Q = {} /\ P \cup Q = 1 .. i + 1 OBVIOUS
      <3> HIDE DEF P, Q
      <3>5. LaidIn(f[i] \o each[i + 1], P \cup Q) BY <3>1, <3>2, <3>4, OneAfterTheOther
      <3> QED BY <3>3, <3>4, <3>5
    <2> QED BY <2>1, <2>2
  <1>6. n \in N
    <2> HIDE DEF N
    <2> QED BY <1>4, <1>5, Counting
  <1>7. LaidIn(f[n], 1 .. n)
    BY <1>6
  <1> QED BY <1>3, <1>7 DEF each

\* The lines above the titles, and below them.
LEMMA TopAndBottom ==
  ASSUME NEW n \in Nat
  PROVE  /\ LaidIn(Top(n), {}) /\ LaidIn(Bottom, {})
         /\ Top(n) # <<>> /\ Top(n)[1] = Plain("Track_frame_offsets")
  <1>1. ASSUME NEW key \in LineKeys, key \notin {"DTITLE", "TTITLE"} PROVE Plain(key) \in Lines /\ ~IsTitle(Plain(key))
    BY <1>1, NoText, LineHas DEF Plain, IsTitle
  <1> DEFINE first == Plain("Track_frame_offsets")
             offset == Plain("offset")
             length == Plain("Disc_length")
             revision == Plain("Revision")
             order == Plain("PLAYORDER")
             dot == Plain(".")
             offsets == Times(n, offset)
  <1>2. /\ first \in Lines /\ offset \in Lines /\ length \in Lines /\ revision \in Lines /\ order \in Lines /\ dot \in Lines
        /\ ~IsTitle(first) /\ ~IsTitle(offset) /\ ~IsTitle(length) /\ ~IsTitle(revision) /\ ~IsTitle(order) /\ ~IsTitle(dot)
    BY <1>1 DEF LineKeys
  <1> HIDE DEF first, offset, length, revision, order, dot
  <1> DEFINE a == <<first>>
             c == <<length, revision>>
             b == <<order, dot>>
             ab == a \o offsets
             all == ab \o c
  <1>3. LaidIn(a, {}) /\ LaidIn(c, {}) /\ LaidIn(b, {})
    <2>1. a \in Seq(Lines) /\ c \in Seq(Lines) /\ b \in Seq(Lines) BY <1>2
    <2>2. (\A i \in DOMAIN a : ~IsTitle(a[i])) /\ (\A i \in DOMAIN c : ~IsTitle(c[i])) /\ (\A i \in DOMAIN b : ~IsTitle(b[i]))
      BY <1>2
    <2> HIDE DEF a, b, c
    <2> QED BY <2>1, <2>2, NoTitleIn
  <1>4. LaidIn(offsets, {})
    <2>1. offsets \in Seq(Lines) /\ \A i \in DOMAIN offsets : ~IsTitle(offsets[i]) BY <1>2 DEF Times
    <2> QED BY <2>1, NoTitleIn
  <1>5. Len(a) = 1 /\ a[1] = first
    OBVIOUS
  <1>6. Top(n) = all /\ Bottom = b
    BY DEF Top, Bottom, first, offset, length, revision, order, dot
  <1> HIDE DEF a, b, c, offsets
  <1> DEFINE none == {}
  <1>7. none \cap none = none /\ none \cup none = none
    OBVIOUS
  <1>8. LaidIn(ab, {})
    <2>1. LaidIn(a, none) /\ LaidIn(offsets, none) BY <1>3, <1>4
    <2> HIDE DEF none
    <2>2. LaidIn(a \o offsets, none \cup none) BY <2>1, <1>7, OneAfterTheOther DEF none
    <2> QED BY <2>2, <1>7 DEF none
  <1>9. LaidIn(all, {})
    <2>1. LaidIn(ab, none) /\ LaidIn(c, none) BY <1>3, <1>8
    <2> HIDE DEF none, ab
    <2>2. LaidIn(ab \o c, none \cup none) BY <2>1, <1>7, OneAfterTheOther DEF none
    <2> QED BY <2>2, <1>7 DEF none
  <1>10. ab[1] = first /\ Len(ab) \in Nat /\ Len(ab) >= 1
    <2>1. a \in Seq(Lines) /\ offsets \in Seq(Lines) /\ Len(offsets) \in Nat BY <1>3, <1>4 DEF LaidIn
    <2>2. Len(ab) = Len(a) + Len(offsets) /\ \A i \in 1 .. Len(a) + Len(offsets) : ab[i] = IF i <= Len(a) THEN a[i] ELSE offsets[i - Len(a)]
      BY <2>1, ConcatProperties
    <2> HIDE DEF ab
    <2> QED BY <2>1, <2>2, <1>5
  <1>11. all[1] = first /\ all # <<>>
    <2> HIDE DEF ab
    <2>1. ab \in Seq(Lines) /\ c \in Seq(Lines) /\ Len(c) \in Nat BY <1>3, <1>8 DEF LaidIn
    <2>2. all \in Seq(Lines) /\ Len(all) = Len(ab) + Len(c)
          /\ \A i \in 1 .. Len(ab) + Len(c) : all[i] = IF i <= Len(ab) THEN ab[i] ELSE c[i - Len(ab)]
      BY <2>1, ConcatProperties
    <2> HIDE DEF all
    <2> QED BY <2>1, <2>2, <1>10
  <1> QED BY <1>3, <1>6, <1>9, <1>11 DEF first

\* The lines of the title of the disc.
LEMMA DiscTitleInOrder ==
  ASSUME NEW artist \in Text
  PROVE  /\ LaidIn(<<Line("DTITLE", 0, artist, HalfOf(0)), Line("DTITLE", 0, <<>>, RestOf(0))>>, {0})
         /\ Line("DTITLE", 0, artist, HalfOf(0)) \in Lines /\ Line("DTITLE", 0, <<>>, RestOf(0)) \in Lines
         /\ Line("DTITLE", 0, artist, TitleOf(0)) \in Lines /\ Entire(Line("DTITLE", 0, artist, TitleOf(0)))
         /\ Place(Line("DTITLE", 0, artist, TitleOf(0))) = 0
  <1> DEFINE a == Line("DTITLE", 0, artist, HalfOf(0))
             b == Line("DTITLE", 0, <<>>, RestOf(0))
             c == Line("DTITLE", 0, artist, TitleOf(0))
  <1>1. "DTITLE" \in LineKeys /\ 0 \in Nat
    BY DEF LineKeys
  <1>2. HalfOf(0) \in Text /\ RestOf(0) \in Text /\ TitleOf(0) \in Text /\ <<>> \in Text
    BY <1>1, Halves, NoText, TitlesAreOwn
  <1>3. a \in Lines /\ a.key = "DTITLE" /\ a.no = 0 /\ a.artist = artist /\ a.text = HalfOf(0)
    <2> DEFINE h == HalfOf(0)
    <2>1. h \in Text BY <1>2
    <2> HIDE DEF h
    <2>2. /\ Line("DTITLE", 0, artist, h) \in Lines
          /\ Line("DTITLE", 0, artist, h).key = "DTITLE" /\ Line("DTITLE", 0, artist, h).no = 0
          /\ Line("DTITLE", 0, artist, h).artist = artist /\ Line("DTITLE", 0, artist, h).text = h
      BY <2>1, <1>1, LineHas
    <2> QED BY <2>2 DEF h
  <1>4. b \in Lines /\ b.key = "DTITLE" /\ b.no = 0 /\ b.artist = <<>> /\ b.text = RestOf(0)
    BY <1>1, <1>2, LineHas
  <1>5. c \in Lines /\ c.key = "DTITLE" /\ c.no = 0 /\ c.text = TitleOf(0)
    BY <1>1, <1>2, LineHas
  <1> HIDE DEF a, b, c
  <1>6. Of(a) = 0 /\ Of(b) = 0 /\ Of(c) = 0
    BY <1>3, <1>4, <1>5 DEF Of, HalfOf, RestOf, TitleOf
  <1>7. Opens(a) /\ Finishes(a, b) /\ Place(a) = 0
    BY <1>3, <1>4, <1>6 DEF Opens, Finishes, Closes, IsTitle, Place
  <1>8. Entire(c) /\ Place(c) = 0
    BY <1>5, <1>6 DEF Entire, IsTitle, Place
  <1>9. LaidIn(<<a, b>>, {0})
    BY <1>3, <1>4, <1>7, HalvesInOrder
  <1> QED BY <1>3, <1>4, <1>5, <1>8, <1>9 DEF a, b, c

\* An entry: what is above the titles, the titles, and what is below.
LEMMA EntryInOrder ==
  ASSUME NEW n \in Nat, NEW s, NEW P, LaidIn(s, P)
  PROVE  LaidIn(Top(n) \o s, P) /\ (Top(n) \o s)[1] = Plain("Track_frame_offsets") /\ (Top(n) \o s) # <<>>
  <1> DEFINE none == {}
             all == Top(n) \o s
  <1>1. LaidIn(Top(n), none) /\ Top(n) # <<>> /\ Top(n)[1] = Plain("Track_frame_offsets")
    BY TopAndBottom
  <1>2. none \cap P = {} /\ none \cup P = P
    OBVIOUS
  <1>3. Top(n) \in Seq(Lines) /\ s \in Seq(Lines)
    BY <1>1 DEF LaidIn
  <1>4. 1 \in 1 .. Len(Top(n)) + Len(s) /\ 1 <= Len(Top(n))
    BY <1>1, <1>3
  <1>5. Len(all) = Len(Top(n)) + Len(s) /\ \A i \in 1 .. Len(Top(n)) + Len(s) : all[i] = IF i <= Len(Top(n)) THEN Top(n)[i] ELSE s[i - Len(Top(n))]
    BY <1>3, ConcatProperties
  <1>6. all[1] = Plain("Track_frame_offsets")
    BY <1>1, <1>4, <1>5
  <1>7. all # <<>>
    <2> HIDE DEF all
    <2> QED BY <1>4, <1>5
  <1> HIDE DEF none
  <1>8. LaidIn(all, none \cup P)
    BY <1>1, <1>2, OneAfterTheOther
  <1> QED BY <1>2, <1>6, <1>7, <1>8

\* What follows the titles in an entry.
LEMMA RestInOrder ==
  ASSUME NEW s, NEW P, LaidIn(s, P), NEW t \in Seq(Lines), \A i \in DOMAIN t : ~IsTitle(t[i])
  PROVE  LaidIn(s \o t, P)
  <1> DEFINE none == {}
  <1>1. LaidIn(t, none) /\ P \cap none = {} /\ P \cup none = P
    BY NoTitleIn
  <1> HIDE DEF none
  <1>2. LaidIn(s \o t, P \cup none)
    BY <1>1, OneAfterTheOther
  <1> QED BY <1>1, <1>2

\* A line that is no title.
LEMMA Untitled ==
  ASSUME NEW key \in LineKeys, key \notin {"DTITLE", "TTITLE"}, NEW no \in Nat
  PROVE  Line(key, no, <<>>, <<>>) \in Lines /\ ~IsTitle(Line(key, no, <<>>, <<>>))
  BY NoText, LineHas DEF IsTitle

\* Three sequences put together.
LEMMA Regrouped ==
  ASSUME NEW S, NEW a \in Seq(S), NEW b \in Seq(S), NEW c \in Seq(S)
  PROVE  (a \o b) \o c = a \o (b \o c)
  BY ConcatAssociative

\* The titles of a record of every kind come in order.
LEMMA EntriesInOrder ==
  ASSUME NEW n \in Nat, n # 0, NEW s \in {DiscEntry(n), Sampler(n), TooManyTitles(n), TooManyNotes(n)}
  PROVE  \E P : LaidIn(s, P) /\ s # <<>> /\ s[1] = Plain("Track_frame_offsets")
  <1> DEFINE year == Plain("DYEAR")
             genre == Plain("DGENRE")
             extd == Plain("EXTD")
             order == Plain("PLAYORDER")
             dot == Plain(".")
             top == Top(n)
  <1>1. \A l \in {year, genre, extd, order, dot} : l \in Lines /\ ~IsTitle(l)
    <2>1. 0 \in Nat /\ \A key \in {"DYEAR", "DGENRE", "EXTD", "PLAYORDER", "."} : key \in LineKeys /\ key \notin {"DTITLE", "TTITLE"}
      BY DEF LineKeys
    <2>2. \A key \in {"DYEAR", "DGENRE", "EXTD", "PLAYORDER", "."} : Plain(key) \in Lines /\ ~IsTitle(Plain(key))
      BY <2>1, Untitled DEF Plain
    <2> QED BY <2>2
  <1>2. Bottom \in Seq(Lines) /\ \A i \in DOMAIN Bottom : ~IsTitle(Bottom[i])
    <2>1. order \in Lines /\ dot \in Lines /\ ~IsTitle(order) /\ ~IsTitle(dot) BY <1>1
    <2>2. Bottom = <<order, dot>> BY DEF Bottom
    <2> HIDE DEF order, dot
    <2>3. Bottom[1] = order /\ Bottom[2] = dot /\ DOMAIN Bottom = 1 .. 2 /\ Bottom \in Seq(Lines) BY <2>1, <2>2
    <2> QED BY <2>1, <2>3
  <1>3. ASSUME NEW r, NEW P, LaidIn(r, P), s = top \o r
        PROVE  LaidIn(s, P) /\ s # <<>> /\ s[1] = Plain("Track_frame_offsets")
    BY <1>3, EntryInOrder
  <1> HIDE DEF year, genre, extd, order, dot
  <1>4. ArtistOf(0) \in Text /\ <<>> \in Text
    <2>1. 0 \in Nat OBVIOUS
    <2> QED BY <2>1, TitlesAreOwn, NoText
  <1>5. top \in Seq(Lines)
    BY TopAndBottom DEF LaidIn
  <1>6. CASE s = DiscEntry(n)
    <2> DEFINE a == Line("DTITLE", 0, ArtistOf(0), HalfOf(0))
               b == Line("DTITLE", 0, <<>>, RestOf(0))
               two == <<a, b>>
               after == <<year, genre>>
               head == two \o after
               titles == FlattenSeq([i \in 1 .. n |-> LongTitle("TTITLE", i - 1, i)])
               one == <<extd>>
               notes == [i \in 1 .. n |-> Line("EXTT", i - 1, <<>>, <<>>)]
               t1 == head \o titles
               t2 == t1 \o one
               t3 == t2 \o notes
               t4 == t3 \o Bottom
    <2>1. LaidIn(two, {0}) BY <1>4, DiscTitleInOrder
    <2>2. <<a, b, year, genre>> = head
      <3>1. a \in Lines /\ b \in Lines /\ year \in Lines /\ genre \in Lines BY <1>1, <1>4, DiscTitleInOrder
      <3> HIDE DEF a, b
      <3> QED BY <3>1
    <2>3. LaidIn(head, {0})
      <3>1. year \in Lines /\ genre \in Lines /\ ~IsTitle(year) /\ ~IsTitle(genre) BY <1>1
      <3>2. after \in Seq(Lines) /\ \A i \in DOMAIN after : ~IsTitle(after[i]) BY <3>1
      <3> HIDE DEF after, two
      <3> QED BY <2>1, <3>2, RestInOrder
    <2>4. LaidIn(titles, 1 .. n) BY TitlesInOrder
    <2> DEFINE zero == {0}
               tracks == 1 .. n
    <2>5. zero \cap tracks = {} OBVIOUS
    <2>6. LaidIn(t1, zero \cup tracks)
      <3>1. LaidIn(head, zero) /\ LaidIn(titles, tracks) BY <2>3, <2>4
      <3> HIDE DEF zero, tracks, head, titles
      <3> QED BY <3>1, <2>5, OneAfterTheOther
    <2> DEFINE P == zero \cup tracks
    <2>7. LaidIn(t2, P)
      <3>1. extd \in Lines /\ ~IsTitle(extd) BY <1>1
      <3>2. one \in Seq(Lines) /\ \A i \in DOMAIN one : ~IsTitle(one[i]) BY <3>1
      <3> HIDE DEF one, t1, P
      <3> QED BY <2>6, <3>2, RestInOrder DEF P
    <2>8. LaidIn(t3, P)
      <3>1. "EXTT" \in LineKeys /\ "EXTT" \notin {"DTITLE", "TTITLE"} BY DEF LineKeys
      <3>2. ASSUME NEW i \in 1 .. n PROVE Line("EXTT", i - 1, <<>>, <<>>) \in Lines /\ ~IsTitle(Line("EXTT", i - 1, <<>>, <<>>))
        <4>1. i - 1 \in Nat OBVIOUS
        <4> QED BY <4>1, <3>1, Untitled
      <3>3. notes \in Seq(Lines) /\ \A i \in DOMAIN notes : ~IsTitle(notes[i]) BY <3>2
      <3> HIDE DEF notes, t2, P
      <3> QED BY <2>7, <3>3, RestInOrder
    <2>9. LaidIn(t4, P)
      <3> HIDE DEF t3, P
      <3> QED BY <2>8, <1>2, RestInOrder
    <2>10. s = top \o head \o titles \o one \o notes \o Bottom
      BY <1>6, <2>2 DEF DiscEntry, HalfOf, RestOf, extd, year, genre
    <2>11. s = top \o t4
      <3>1. head \in Seq(Lines) /\ titles \in Seq(Lines) /\ t1 \in Seq(Lines) /\ t2 \in Seq(Lines) /\ t3 \in Seq(Lines)
        BY <2>3, <2>4, <2>6, <2>7, <2>8 DEF LaidIn
      <3>2. one \in Seq(Lines) BY <1>1
      <3>3. notes \in Seq(Lines)
        <4>1. "EXTT" \in LineKeys /\ "EXTT" \notin {"DTITLE", "TTITLE"} BY DEF LineKeys
        <4>2. ASSUME NEW i \in 1 .. n PROVE Line("EXTT", i - 1, <<>>, <<>>) \in Lines
          <5>1. i - 1 \in Nat OBVIOUS
          <5> QED BY <5>1, <4>1, Untitled
        <4> QED BY <4>2
      <3> HIDE DEF head, titles, one, notes, top
      <3>4. (top \o head) \o titles = top \o t1
        <4>1. head \in Seq(Lines) /\ titles \in Seq(Lines) BY <3>1
        <4> QED BY <4>1, <1>5, Regrouped, SMTT(40)
      <3>5. (top \o t1) \o one = top \o t2
        <4>1. t1 \in Seq(Lines) /\ one \in Seq(Lines) BY <3>1, <3>2
        <4> HIDE DEF t1
        <4> QED BY <4>1, <1>5, Regrouped, SMTT(40)
      <3>6. (top \o t2) \o notes = top \o t3
        <4>1. t2 \in Seq(Lines) /\ notes \in Seq(Lines) BY <3>1, <3>3
        <4> HIDE DEF t2
        <4> QED BY <4>1, <1>5, Regrouped, SMTT(40)
      <3>7. (top \o t3) \o Bottom = top \o t4
        <4>1. t3 \in Seq(Lines) /\ Bottom \in Seq(Lines) BY <3>1, <1>2
        <4> HIDE DEF t3
        <4> QED BY <4>1, <1>5, Regrouped, SMTT(40)
      <3> QED BY <2>10, <3>4, <3>5, <3>6, <3>7
    <2> HIDE DEF t4, P
    <2> QED BY <2>9, <2>11, <1>3
  <1>7. CASE s = Sampler(n)
    <2> DEFINE a == Line("DTITLE", 0, <<>>, HalfOf(0))
               b == Line("DTITLE", 0, <<>>, RestOf(0))
               two == <<a, b>>
               line(i) == Line("TTITLE", i - 1, ArtistOf(i), TitleOf(i))
               titles == [i \in 1 .. n |-> line(i)]
               t1 == two \o titles
               t2 == t1 \o Bottom
               zero == {0}
               tracks == {Place(titles[i]) : i \in DOMAIN titles}
               P == zero \cup tracks
    <2>1. LaidIn(two, zero) BY <1>4, DiscTitleInOrder
    <2>2. ASSUME NEW i \in 1 .. n PROVE line(i) \in Lines /\ Entire(line(i)) /\ Place(line(i)) = i
      <3> DEFINE no == i - 1
                 x == ArtistOf(i)
                 y == TitleOf(i)
      <3>1. i \in Nat /\ no \in Nat /\ no + 1 = i OBVIOUS
      <3>2. x \in Text /\ y \in Text BY <3>1, TitlesAreOwn
      <3>3. "TTITLE" \in LineKeys BY DEF LineKeys
      <3> HIDE DEF no, x, y
      <3>4. Line("TTITLE", no, x, y) \in Lines /\ Line("TTITLE", no, x, y).key = "TTITLE"
            /\ Line("TTITLE", no, x, y).no = no /\ Line("TTITLE", no, x, y).text = y
        BY <3>1, <3>2, <3>3, LineHas
      <3>5. line(i) = Line("TTITLE", no, x, y) BY DEF no, x, y
      <3> HIDE DEF line
      <3>6. Of(line(i)) = i BY <3>4, <3>5 DEF Of, y, TitleOf
      <3> QED BY <3>1, <3>4, <3>5, <3>6 DEF Entire, IsTitle, Place, y
    <2> HIDE DEF line
    <2>3. titles \in Seq(Lines) /\ DOMAIN titles = 1 .. n /\ \A i \in 1 .. n : titles[i] = line(i)
      BY <2>2
    <2> HIDE DEF titles
    <2>4. LaidIn(titles, tracks)
      <3>1. (\A i \in DOMAIN titles : Entire(titles[i])) /\ \A i, j \in DOMAIN titles : Place(titles[i]) = Place(titles[j]) => i = j
        BY <2>2, <2>3
      <3> QED BY <3>1, <2>3, WholesInOrder
    <2>5. zero \cap tracks = {} BY <2>2, <2>3
    <2>6. LaidIn(t1, P)
      <3> HIDE DEF zero, tracks, two
      <3> QED BY <2>1, <2>4, <2>5, OneAfterTheOther
    <2>7. LaidIn(t2, P)
      <3> HIDE DEF t1, P
      <3> QED BY <2>6, <1>2, RestInOrder
    <2>8. s = top \o two \o titles \o Bottom
      BY <1>7 DEF Sampler, LongTitle, HalfOf, RestOf, titles, line
    <2>9. s = top \o t2
      <3>1. two \in Seq(Lines) /\ t1 \in Seq(Lines) BY <2>1, <2>6 DEF LaidIn
      <3> HIDE DEF two, top
      <3>2. (top \o two) \o titles = top \o t1 BY <3>1, <2>3, <1>5, Regrouped, SMTT(40)
      <3>3. (top \o t1) \o Bottom = top \o t2
        <4>1. Bottom \in Seq(Lines) /\ top \in Seq(Lines) BY <1>2, <1>5 DEF LaidIn
        <4> HIDE DEF t1
        <4>2. (top \o t1) \o Bottom = top \o (t1 \o Bottom) BY <3>1, <4>1, Regrouped, SMTT(40)
        <4> QED BY <4>2
      <3> DEFINE u == (top \o two) \o titles
                 v == top \o t1
                 w == top \o t2
      <3>4. s = u \o Bottom BY <2>8
      <3>5. u = v /\ v \o Bottom = w BY <3>2, <3>3
      <3> HIDE DEF u, v, w
      <3>6. s = w BY <3>4, <3>5
      <3> QED BY <3>6 DEF w
    <2> HIDE DEF t2, P
    <2> QED BY <2>7, <2>9, <1>3
  <1>8. CASE s \in {TooManyTitles(n), TooManyNotes(n)}
    <2> DEFINE a == Line("DTITLE", 0, ArtistOf(0), TitleOf(0))
               b == Line("TTITLE", n, <<>>, TitleOf(n))
               c == Line("EXTT", n, <<>>, <<>>)
               ab == <<a, b>>
               one == <<a>>
               rest == <<c>>
               ac == one \o rest
               P == {Place(ab[i]) : i \in DOMAIN ab}
               Q == {Place(one[i]) : i \in DOMAIN one}
    <2>1. a \in Lines /\ Entire(a) /\ Place(a) = 0 BY <1>4, DiscTitleInOrder
    <2>2. b \in Lines /\ Entire(b) /\ Place(b) = n + 1
      <3> DEFINE y == TitleOf(n)
      <3>1. y \in Text BY TitlesAreOwn
      <3>2. "TTITLE" \in LineKeys BY DEF LineKeys
      <3> HIDE DEF y
      <3>3. Line("TTITLE", n, <<>>, y) \in Lines /\ Line("TTITLE", n, <<>>, y).key = "TTITLE"
            /\ Line("TTITLE", n, <<>>, y).no = n /\ Line("TTITLE", n, <<>>, y).text = y
        BY <3>1, <3>2, <1>4, LineHas
      <3>4. b = Line("TTITLE", n, <<>>, y) BY DEF y
      <3> HIDE DEF b
      <3>5. Of(b) = n BY <3>3, <3>4 DEF Of, y, TitleOf
      <3> QED BY <3>3, <3>4, <3>5 DEF Entire, IsTitle, Place, y
    <2>3. c \in Lines /\ ~IsTitle(c)
      <3>1. "EXTT" \in LineKeys /\ "EXTT" \notin {"DTITLE", "TTITLE"} BY DEF LineKeys
      <3> QED BY <3>1, Untitled
    <2>4. s = top \o ab \/ s = top \o <<a, c>> BY <1>8 DEF TooManyTitles, TooManyNotes
    <2> HIDE DEF a, b, c
    <2>5. LaidIn(ab, P)
      <3>1. ab \in Seq(Lines) /\ DOMAIN ab = 1 .. 2 /\ ab[1] = a /\ ab[2] = b BY <2>1, <2>2
      <3> HIDE DEF ab
      <3>2. \A i \in DOMAIN ab : Entire(ab[i]) BY <3>1, <2>1, <2>2
      <3>3. \A i, j \in DOMAIN ab : Place(ab[i]) = Place(ab[j]) => i = j BY <3>1, <2>1, <2>2
      <3> QED BY <3>1, <3>2, <3>3, WholesInOrder
    <2>6. LaidIn(ac, Q)
      <3>1. one \in Seq(Lines) /\ DOMAIN one = 1 .. 1 /\ one[1] = a BY <2>1
      <3>2. rest \in Seq(Lines) /\ \A i \in DOMAIN rest : ~IsTitle(rest[i]) BY <2>3
      <3> HIDE DEF one, rest
      <3>3. LaidIn(one, Q)
        <4>1. \A i \in DOMAIN one : Entire(one[i]) BY <3>1, <2>1
        <4>2. \A i, j \in DOMAIN one : Place(one[i]) = Place(one[j]) => i = j BY <3>1
        <4> QED BY <3>1, <4>1, <4>2, WholesInOrder
      <3> HIDE DEF Q
      <3> QED BY <3>2, <3>3, RestInOrder
    <2>7. <<a, c>> = ac BY <2>1, <2>3, PairTuple
    <2> HIDE DEF ab, ac, P, Q
    <2> QED BY <2>4, <2>5, <2>6, <2>7, <1>3
  <1> QED BY <1>6, <1>7, <1>8

\* A record read from its beginning on: no title is there yet but the one that the match
\* has given the disc.
LEMMA RecordBegins ==
  ASSUME NEW n \in Nat, n # 0, NEW s \in {DiscEntry(n), Sampler(n), TooManyTitles(n), TooManyNotes(n)},
         NEW d \in OwnDiscs, Settled(d.title), \A i \in DOMAIN d.tracks : d.tracks[i].title = <<>>
  PROVE  RecordInv(d, ParseBegin, s)
  <1> DEFINE none == {}
             p == ParseBegin
  <1>1. PICK P : LaidIn(s, P) /\ s # <<>> /\ s[1] = Plain("Track_frame_offsets")
    BY EntriesInOrder
  <1>2. p \in Parsers /\ p.at = 1 /\ p.multi = "NONE"
    BY DEF ParseBegin, Parsers
  <1>3. ~Pending(s)
    BY <1>1 DEF LaidIn, Pending
  <1>4. Len(d.tracks) \in Nat /\ DOMAIN d.tracks = 1 .. Len(d.tracks)
    BY DiscParts
  <1>5. Loose(d) \subseteq none
    <2>1. \A i \in DOMAIN d.tracks : Settled(d.tracks[i].title) BY DEF Settled
    <2> HIDE DEF none
    <2> QED BY <2>1, <1>4, LoosePlaces
  <1>6. ParserInv(d, p, Gap(d, p, s))
    BY <1>2, <1>3, <1>5 DEF ParserInv, Gap
  <1>7. ASSUME NEW i \in DOMAIN s PROVE Untouched(d, p, s[i])
    <2>1. s[i].no \in Nat
      <3>1. s \in Seq(Lines) BY <1>1 DEF LaidIn
      <3>2. s[i] \in Lines BY <3>1
      <3> QED BY <3>2 DEF Lines
    <2> QED BY <2>1, <1>2, <1>4 DEF Untouched, HasTrack
  <1> HIDE DEF p
  <1>8. RecordInv(d, p, s)
    BY <1>1, <1>2, <1>3, <1>6, <1>7 DEF RecordInv, LaidIn
  <1> QED BY <1>8 DEF p

-----------------------------------------------------------------------------
(* A call, answer by answer *)

\* The tracks of a disc before the record comes.
Blank(d) == \A i \in DOMAIN d.tracks : d.tracks[i].title = <<>>

\* A list of matches that is being read: only the last line of what came in may be cut.
Listing ==
  /\ \A i \in DOMAIN inbox : inbox[i].key \in {"match", "."} /\ Settled(inbox[i].text)
  /\ (\A i \in DOMAIN hits : Settled(hits[i].title)) \/ (link # "up" /\ inbox = <<>>)

\* The answer to the second call: lines of a list that came late hide it.
Reading ==
  \/ inbox = <<>>
  \/ inbox[1].key \in {"match", "."}
  \/ inbox \in Answers("read", Len(dsc.tracks)) /\ Settled(dsc.title)

\* The call, stage by stage: what has come in is what was asked for, and only the record
\* tells the titles of tracks.
CallInv ==
  /\ call \in {"idle", "connect"} => inbox = <<>>
  /\ call \in {"banner", "hello", "proto"} => Len(inbox) <= 1
  /\ call = "query" => inbox = <<>> \/ inbox \in Answers("query", Len(dsc.tracks))
  /\ call = "list" => Listing
  /\ call = "read" => Reading
  /\ call = "record" => RecordInv(dsc, prs, inbox) \/ (inbox = <<>> /\ OneCut(dsc))
  /\ call = "found" => OneCut(dsc)
  /\ call = "idle" => prs = ParseBegin
  /\ call \in CddbStages =>
       /\ prs = ParseBegin /\ Blank(dsc) /\ (call # "read" => dsc.title = <<>>)
       /\ \A i \in DOMAIN hits : Blank(hits[i])
  /\ call \in CddbStages \ {"list", "read"} => hits = <<>>

\* What may be read: nothing; a line as it was sent; or the last one, and less of it.
LEMMA ReadCases ==
  ASSUME inbox \in Seq(OwnLines), NEW r \in Reads
  PROVE  \/ r.line.key = "NULL" /\ r.link = link /\ r.inbox = inbox
         \/ inbox # <<>> /\ r.line = inbox[1] /\ r.link = link /\ r.inbox = Tail(inbox)
         \/ inbox # <<>> /\ r.link = "eos" /\ r.inbox = <<>>
            /\ (r.line.key = "junk" \/ (r.line.key = inbox[1].key /\ r.line.no = inbox[1].no))
  <1>1. NoLine.key = "NULL" /\ Plain("junk").key = "junk"
    BY DEF NoLine, Plain, Line
  <1>2. CASE r \in Nothing
    BY <1>1, <1>2 DEF Nothing
  <1>3. CASE inbox # <<>> /\ r = [line |-> Head(inbox), link |-> link, inbox |-> Tail(inbox)]
    <2>1. Head(inbox) = inbox[1] BY <1>3
    <2> QED BY <2>1, <1>3
  <1>4. ASSUME inbox # <<>>, NEW l \in {Plain("junk"), [Head(inbox) EXCEPT !.text = Cut(@)]},
               r = [line |-> l, link |-> "eos", inbox |-> <<>>]
        PROVE  r.link = "eos" /\ r.inbox = <<>>
               /\ (r.line.key = "junk" \/ (r.line.key = inbox[1].key /\ r.line.no = inbox[1].no))
    <2>1. inbox[1] \in OwnLines /\ Head(inbox) = inbox[1] BY <1>4, LaterLines
    <2> DEFINE h == inbox[1]
               t == Cut(h.text)
               c == [h EXCEPT !.text = t]
    <2>2. l = Plain("junk") \/ l = c BY <2>1, <1>4
    <2> HIDE DEF t
    <2>3. c.key = h.key /\ c.no = h.no BY <2>1 DEF OwnLines, Lines
    <2> HIDE DEF c, h
    <2>4. l.key = "junk" \/ (l.key = h.key /\ l.no = h.no) BY <2>2, <2>3, <1>1
    <2> QED BY <2>4, <1>4 DEF h
  <1> QED BY <1>2, <1>3, <1>4 DEF Reads

\* What has come in after a command: what was there, and its answer.
LEMMA SentCases ==
  ASSUME disc \in Discs, NEW cmd \in {"connect", "hello", "proto", "query", "read"}, NEW from,
         Len(dsc.tracks) = Len(Toc[disc]), Send(cmd, from)
  PROVE  /\ link' = from.link
         /\ \/ inbox' = from.inbox
            \/ from.link = "up" /\ \E a \in Answers(cmd, Len(dsc.tracks)) : a \in Seq(OwnLines) /\ inbox' = from.inbox \o a
  <1>1. link' = from.link /\ inbox' \in WrittenFrom(cmd, from)
    BY DEF Send
  <1>2. \A a \in Answers(cmd, Len(dsc.tracks)) : a \in Seq(OwnLines)
    BY AnswersAreOwn
  <1> QED BY <1>1, <1>2 DEF WrittenFrom

\* Nothing came in before an answer.
LEMMA AfterNothing ==
  ASSUME NEW a \in Seq(OwnLines)
  PROVE  <<>> \o a = a
  <1> DEFINE S == OwnLines
  <1>1. a \in Seq(S)
    OBVIOUS
  <1> HIDE DEF S
  <1> QED BY <1>1, ConcatEmptySeq

\* The shapes of the answers.
LEMMA ShortAnswers ==
  ASSUME NEW cmd \in {"connect", "hello", "proto"}, NEW n, NEW a \in Answers(cmd, n)
  PROVE  Len(a) = 1
  <1>1. a \in {Code("201"), Code("433"), Code("200"), Code("431"), Code("501")}
    BY DEF Answers
  <1>2. \A key : Len(Code(key)) = 1
    BY DEF Code
  <1> QED BY <1>1, <1>2

\* The answer to the query, and the lines of a list after its first.
LEMMA QueryAnswers ==
  ASSUME NEW n, NEW a \in Answers("query", n)
  PROVE  /\ a[1].key = "200" => Settled(a[1].text) /\ Tail(a) = <<>>
         /\ a[1].key \in {"210", "211"} =>
              \A i \in DOMAIN Tail(a) : Tail(a)[i].key \in {"match", "."} /\ Settled(Tail(a)[i].text)
  <1> DEFINE m == Match
             m2 == [m EXCEPT !.key = "200"]
             dot == Plain(".")
             c0 == Plain("210")
             c1 == Plain("211")
             L == Lines
             Good(l) == l.key \in {"match", "."} /\ Settled(l.text)
  <1>1. a \in {<<m2>>, Code("210") \o <<m>> \o Code("."), Code("211") \o <<m, m>> \o Code("."),
               Code("211") \o Code("."), Code("202"), Code("403")}
    BY DEF Answers
  <1>2. /\ m \in L /\ Good(m)
        /\ m2.key = "200" /\ Settled(m2.text)
        /\ dot \in L /\ Good(dot) /\ c0 \in L /\ c1 \in L /\ c0.key = "210" /\ c1.key = "211"
    <2>1. 0 \in Nat /\ TitleOf(0) \in Text /\ ArtistOf(0) \in Text /\ Settled(TitleOf(0)) /\ Settled(<<>>) /\ <<>> \in Text
      <3>1. 0 \in Nat OBVIOUS
      <3> QED BY <3>1, TitlesAreOwn, Halves, NoText DEF Settled
    <2>2. m \in L /\ m.key = "match" /\ m.text = TitleOf(0)
      <3>1. "match" \in LineKeys BY DEF LineKeys
      <3> QED BY <3>1, <2>1, LineHas DEF Match
    <2>3. m2.key = "200" /\ m2.text = TitleOf(0)
      <3> HIDE DEF m
      <3> QED BY <2>2 DEF Lines
    <2>4. ASSUME NEW key \in LineKeys PROVE Plain(key) \in L /\ Plain(key).key = key /\ Plain(key).text = <<>>
      BY <2>1, LineHas DEF Plain
    <2>5. "." \in LineKeys /\ "210" \in LineKeys /\ "211" \in LineKeys BY DEF LineKeys
    <2> HIDE DEF m, m2, L
    <2> QED BY <2>1, <2>2, <2>3, <2>4, <2>5
  <1>3. Code("210") = <<c0>> /\ Code("211") = <<c1>> /\ Code(".") = <<dot>>
        /\ Code("202")[1].key = "202" /\ Code("403")[1].key = "403"
    BY DEF Code, Plain, Line
  <1> HIDE DEF m, m2, dot, c0, c1, L
  <1>4. (<<c0>> \o <<m>>) \o <<dot>> = <<c0, m, dot>> /\ (<<c1>> \o <<m, m>>) \o <<dot>> = <<c1, m, m, dot>>
        /\ <<c1>> \o <<dot>> = <<c1, dot>>
    <2>1. <<c0>> \o <<m>> = <<c0, m>> /\ <<c1>> \o <<dot>> = <<c1, dot>> BY <1>2, PairTuple
    <2>2. <<c0, m>> \o <<dot>> = <<c0, m, dot>> /\ <<c1>> \o <<m, m>> = <<c1, m, m>> BY <1>2, ShortTuples
    <2>3. <<c1, m, m>> \o <<dot>> = <<c1, m, m, dot>> BY <1>2, LongerTuple
    <2> QED BY <2>1, <2>2, <2>3
  <1>5. a \in {<<m2>>, <<c0, m, dot>>, <<c1, m, m, dot>>, <<c1, dot>>, Code("202"), Code("403")}
    BY <1>1, <1>3, <1>4
  <1>6. ASSUME NEW s \in Seq(L), s # <<>>, \A i \in DOMAIN s : i > 1 => Good(s[i])
        PROVE  \A i \in DOMAIN Tail(s) : Good(Tail(s)[i])
    <2> HIDE DEF Good
    <2>1. \A i \in DOMAIN Tail(s) : i \in Nat \ {0} /\ i + 1 \in DOMAIN s /\ Tail(s)[i] = s[i + 1] BY <1>6, LaterLines
    <2> QED BY <2>1, <1>6
  <1>7. CASE a = <<m2>>
    <2>1. a[1] = m2 /\ Tail(a) = <<>> BY <1>7
    <2> QED BY <2>1, <1>2
  <1>8. CASE a \in {<<c0, m, dot>>, <<c1, m, m, dot>>, <<c1, dot>>}
    <2>1. a \in Seq(L) /\ a # <<>> /\ a[1].key \in {"210", "211"}
      <3>1. CASE a = <<c0, m, dot>> BY <1>2, <3>1
      <3>2. CASE a = <<c1, m, m, dot>> BY <1>2, <3>2
      <3>3. CASE a = <<c1, dot>> BY <1>2, <3>3
      <3> QED BY <1>8, <3>1, <3>2, <3>3
    <2>2. \A i \in DOMAIN a : i > 1 => Good(a[i])
      <3> HIDE DEF Good
      <3> QED BY <1>2, <1>8
    <2> QED BY <2>1, <2>2, <1>6
  <1>9. CASE a \in {Code("202"), Code("403")}
    BY <1>3, <1>9
  <1> QED BY <1>5, <1>7, <1>8, <1>9

\* The answer to the read command is one of the entries.
LEMMA ReadAnswers ==
  ASSUME disc \in Discs, NEW n, n = Len(Toc[disc]), NEW a \in Answers("read", n), a[1].key = "210"
  PROVE  Tail(a) \in {DiscEntry(n), Sampler(n), TooManyTitles(n), TooManyNotes(n)}
  <1> DEFINE c == Plain("210")
             L == OwnLines
  <1>1. a = Code("401") \/ \E e \in {DiscEntry(n), Sampler(n), TooManyTitles(n), TooManyNotes(n)} : a = Code("210") \o e
    BY DEF Answers
  <1>2. Code("401")[1].key = "401" /\ Code("210") = <<c>>
    BY DEF Code, Plain, Line
  <1>3. PICK e \in {DiscEntry(n), Sampler(n), TooManyTitles(n), TooManyNotes(n)} : a = <<c>> \o e
    BY <1>1, <1>2
  <1>4. e \in Seq(L)
    BY EntriesAreOwn
  <1>5. c \in L
    BY PlainIsOwn DEF LineKeys
  <1> HIDE DEF c, L
  <1>6. Tail(a) = e
    BY <1>3, <1>4, <1>5
  <1> QED BY <1>6

\* The discs of a call until the record comes: no track has a title.
LEMMA BlankAtFirst ==
  ASSUME NEW n \in Nat
  PROVE  Blank(AddTracks(NoDisc, n)) /\ AddTracks(NoDisc, n).title = <<>>
  <1>1. NoDisc \in OwnDiscs /\ NoDisc.title = <<>> /\ NoDisc.tracks = <<>>
    <2>1. <<>> \in Text /\ <<>> \in Seq(KnownTracks) /\ DOMAIN <<>> = {} BY NoText, EmptySeq
    <2> QED BY <2>1, OwnDisc DEF NoDisc, OwnTracks
  <1>2. Len(NoDisc.tracks) = 0 /\ DOMAIN AddTracks(NoDisc, n).tracks = 1 .. Len(NoDisc.tracks) + n
        /\ AddTracks(NoDisc, n).title = <<>>
    BY <1>1, AddedTracks
  <1>3. \A i \in 1 .. Len(NoDisc.tracks) + n : AddTracks(NoDisc, n).tracks[i].title = IF i <= Len(NoDisc.tracks) THEN NoDisc.tracks[i].title ELSE <<>>
    BY <1>1, AddedTracks
  <1> QED BY <1>2, <1>3 DEF Blank

\* A call begins with nothing.
LEMMA CallBegins ==
  ASSUME disc \in Discs, CddbInv, CallInv, CddbBegin(Len(Toc[disc]))
  PROVE  CallInv'
  <1>1. call = "idle" /\ inbox' = inbox /\ hits' = hits /\ prs' = prs /\ dsc' = AddTracks(NoDisc, Len(Toc[disc]))
        /\ call' \in {"connect", "failed"}
    BY DEF CddbBegin
  <1>2. inbox = <<>> /\ hits = <<>> /\ prs = ParseBegin
    BY <1>1 DEF CallInv, CddbInv
  <1>3. Len(Toc[disc]) \in Nat
    BY MetadataAssumption
  <1>4. Blank(dsc') /\ dsc'.title = <<>> /\ DOMAIN hits' = {}
    <2>1. DOMAIN <<>> = {} BY EmptySeq
    <2> QED BY <2>1, <1>1, <1>2, <1>3, BlankAtFirst
  <1> QED BY <1>1, <1>2, <1>4 DEF CallInv, CddbStages

\* A step of the client.
LEMMA CallGoesOn ==
  ASSUME disc \in Discs, CddbInv, CallInv, CddbStep
  PROVE  CallInv'
  <1>1. /\ inbox \in Seq(OwnLines) /\ dsc \in OwnDiscs /\ hits \in Seq(OwnDiscs)
        /\ call \in CddbStages => Len(dsc.tracks) = Len(Toc[disc]) /\ \A i \in DOMAIN hits : Len(hits[i].tracks) = Len(Toc[disc])
    BY DEF CddbInv, SameLength
  <1>2. /\ Len(dsc.tracks) \in Nat /\ DOMAIN dsc.tracks = 1 .. Len(dsc.tracks)
        /\ Len(Toc[disc]) \in Nat /\ Len(Toc[disc]) # 0
    BY <1>1, DiscParts, MetadataAssumption
  <1>3. CASE Connect
    <2>1. call = "connect" /\ inbox = <<>> /\ dsc' = dsc /\ hits' = hits /\ prs' = prs
      BY <1>3 DEF Connect, CallInv
    <2>2. Blank(dsc) /\ prs = ParseBegin /\ dsc.title = <<>> /\ hits = <<>> /\ \A i \in DOMAIN hits : Blank(hits[i])
      BY <2>1 DEF CallInv, CddbStages
    <2>3. PICK known \in timeout_gethostbyname, to \in timeout_connect :
             IF known /\ to = "up"
             THEN call' = "banner" /\ Send("connect", [link |-> to, inbox |-> inbox])
             ELSE call' = "failed" /\ UNCHANGED <<link, inbox>>
      BY <1>3 DEF Connect
    <2>4. CASE known /\ to = "up"
      <3> DEFINE from == [link |-> to, inbox |-> inbox]
      <3>1. call' = "banner" /\ Send("connect", from) BY <2>3, <2>4
      <3>2. from.inbox = <<>> BY <2>1
      <3> HIDE DEF from
      <3>3. Len(dsc.tracks) = Len(Toc[disc]) BY <1>1, <2>1 DEF CddbStages
      <3>4. inbox' = <<>> \/ \E a \in Answers("connect", Len(dsc.tracks)) : a \in Seq(OwnLines) /\ inbox' = <<>> \o a
        BY <3>1, <3>2, <3>3, SentCases
      <3>5. Len(inbox') <= 1
        <4>1. CASE inbox' = <<>> BY <4>1
        <4>2. ASSUME NEW a \in Answers("connect", Len(dsc.tracks)), a \in Seq(OwnLines), inbox' = <<>> \o a PROVE Len(inbox') <= 1
          <5>1. inbox' = a BY <4>2, AfterNothing
          <5>2. Len(a) = 1 BY ShortAnswers
          <5> QED BY <5>1, <5>2
        <4> QED BY <3>4, <4>1, <4>2
      <3> QED BY <3>1, <3>5, <2>1, <2>2 DEF CallInv
    <2>5. CASE ~(known /\ to = "up")
      <3>1. call' = "failed" BY <2>3, <2>5
      <3> QED BY <3>1 DEF CallInv, CddbStages
    <2> QED BY <2>4, <2>5
  <1>4. CASE Handshake
    <2>1. /\ call \in {"banner", "hello", "proto"} /\ dsc' = dsc /\ hits' = hits /\ prs' = prs
          /\ Len(inbox) <= 1 /\ Len(inbox) \in Nat
      BY <1>1, <1>4 DEF Handshake, CallInv
    <2>2. Blank(dsc) /\ prs = ParseBegin /\ dsc.title = <<>> /\ hits = <<>> /\ (\A i \in DOMAIN hits : Blank(hits[i]))
          /\ Len(dsc.tracks) = Len(Toc[disc])
      BY <1>1, <2>1 DEF CallInv, CddbStages
    <2>3. PICK r \in Reads : \/ call' = "failed"
                             \/ r.line.key # "NULL" /\ call' = Then(call) /\ Send(Then(call), r)
      BY <1>4 DEF Handshake
    <2>4. CASE call' = "failed"
      BY <2>4 DEF CallInv, CddbStages
    <2>5. CASE r.line.key # "NULL" /\ call' = Then(call) /\ Send(Then(call), r)
      <3> DEFINE cmd == Then(call)
      <3>1. cmd \in {"hello", "proto", "query"} BY <2>1 DEF Then
      <3>2. r.inbox = <<>>
        <4>1. inbox # <<>> => Tail(inbox) = <<>>
          <5> SUFFICES ASSUME inbox # <<>> PROVE Tail(inbox) = <<>> OBVIOUS
          <5>1. Tail(inbox) \in Seq(OwnLines) /\ Len(Tail(inbox)) = Len(inbox) - 1 BY <1>1, HeadTailProperties
          <5>2. Len(inbox) # 0 BY <1>1
          <5> QED BY <5>1, <5>2, <2>1
        <4> QED BY <4>1, <2>5, <1>1, ReadCases
      <3> HIDE DEF cmd
      <3>3. inbox' = <<>> \/ \E a \in Answers(cmd, Len(dsc.tracks)) : a \in Seq(OwnLines) /\ inbox' = <<>> \o a
        <4>1. Send(cmd, r) BY <2>5 DEF cmd
        <4>2. cmd \in {"connect", "hello", "proto", "query", "read"} BY <3>1
        <4>3. \/ inbox' = r.inbox
              \/ r.link = "up" /\ \E a \in Answers(cmd, Len(dsc.tracks)) : a \in Seq(OwnLines) /\ inbox' = r.inbox \o a
          BY <4>1, <4>2, <2>2, SentCases
        <4> QED BY <4>3, <3>2
      <3>4. inbox' = <<>> \/ inbox' \in Answers(cmd, Len(dsc.tracks))
        BY <3>3, AfterNothing
      <3>5. cmd \in {"hello", "proto"} => Len(inbox') <= 1
        <4> SUFFICES ASSUME cmd \in {"hello", "proto"} PROVE Len(inbox') <= 1 OBVIOUS
        <4>1. CASE inbox' = <<>> BY <4>1
        <4>2. CASE inbox' \in Answers(cmd, Len(dsc.tracks))
          <5>1. Len(inbox') = 1 BY <4>2, ShortAnswers
          <5> QED BY <5>1
        <4> QED BY <3>4, <4>1, <4>2
      <3>6. cmd = "query" => inbox' = <<>> \/ inbox' \in Answers("query", Len(dsc'.tracks))
        BY <2>1, <3>4
      <3>7. call' = cmd BY <2>5 DEF cmd
      <3> QED BY <3>1, <3>5, <3>6, <3>7, <2>1, <2>2 DEF CallInv
    <2> QED BY <2>3, <2>4, <2>5
  <1>5. CASE QueryReply
    <2>1. call = "query" /\ hits' = hits /\ prs' = prs /\ (inbox = <<>> \/ inbox \in Answers("query", Len(dsc.tracks)))
      BY <1>5 DEF QueryReply, CallInv
    <2>2. Blank(dsc) /\ prs = ParseBegin /\ dsc.title = <<>> /\ hits = <<>> /\ (\A i \in DOMAIN hits : Blank(hits[i]))
          /\ Len(dsc.tracks) = Len(Toc[disc])
      BY <1>1, <2>1 DEF CallInv, CddbStages
    <2>3. PICK r \in Reads :
            CASE r.line.key = "200" -> dsc' = Named(dsc, r.line) /\ call' = "read" /\ Send("read", r)
              [] r.line.key \in {"210", "211"} -> call' = "list" /\ Keep(r) /\ UNCHANGED dsc
              [] OTHER -> call' = "failed" /\ Keep(r) /\ UNCHANGED dsc
      BY <1>5 DEF QueryReply
    <2>4. \/ r.line.key = "NULL" /\ r.link = link /\ r.inbox = inbox
          \/ inbox # <<>> /\ r.line = inbox[1] /\ r.link = link /\ r.inbox = Tail(inbox)
          \/ inbox # <<>> /\ r.link = "eos" /\ r.inbox = <<>>
             /\ (r.line.key = "junk" \/ (r.line.key = inbox[1].key /\ r.line.no = inbox[1].no))
      BY <1>1, ReadCases
    <2>5. CASE r.line.key = "200"
      <3>1. dsc' = Named(dsc, r.line) /\ call' = "read" /\ Send("read", r) BY <2>3, <2>5
      <3>2. inbox # <<>> /\ inbox \in Answers("query", Len(dsc.tracks)) /\ inbox[1].key = "200"
        BY <2>1, <2>4, <2>5
      <3>3. Settled(inbox[1].text) /\ Tail(inbox) = <<>> BY <3>2, QueryAnswers
      <3>4. r.inbox = <<>> /\ (r.link = "eos" \/ r.line = inbox[1]) BY <2>4, <2>5, <3>3
      <3>5. \/ inbox' = <<>>
            \/ r.link = "up" /\ \E a \in Answers("read", Len(dsc.tracks)) : a \in Seq(OwnLines) /\ inbox' = <<>> \o a
        BY <3>1, <3>4, <2>2, SentCases
      <3>6. r.line \in OwnLines BY <1>1, ReadsAreOwn
      <3>7. dsc'.title = r.line.text /\ dsc'.tracks = dsc.tracks
        <4> DEFINE t == r.line.text
                   b == r.line.artist
        <4>1. dsc' = [dsc EXCEPT !.artist = b, !.title = t] BY <3>1 DEF Named
        <4>2. dsc = [title |-> dsc.title, artist |-> dsc.artist, tracks |-> dsc.tracks] BY <1>1, DiscParts
        <4> HIDE DEF t, b
        <4>3. dsc'.title = t /\ dsc'.tracks = dsc.tracks BY <4>1, <4>2
        <4> QED BY <4>3 DEF t
      <3>8. inbox' = <<>> \/ (inbox' \in Answers("read", Len(dsc'.tracks)) /\ Settled(dsc'.title))
        <4>1. CASE inbox' = <<>> BY <4>1
        <4>2. ASSUME r.link = "up", NEW a \in Answers("read", Len(dsc.tracks)), a \in Seq(OwnLines), inbox' = <<>> \o a
              PROVE  inbox' \in Answers("read", Len(dsc'.tracks)) /\ Settled(dsc'.title)
          <5>1. inbox' = a BY <4>2, AfterNothing
          <5>2. r.line = inbox[1] BY <4>2, <3>4
          <5> QED BY <5>1, <5>2, <3>3, <3>7
        <4> QED BY <3>5, <4>1, <4>2
      <3>9. Blank(dsc') BY <3>7, <2>2 DEF Blank
      <3> QED BY <3>1, <3>8, <3>9, <2>1, <2>2 DEF CallInv, Reading
    <2>6. CASE r.line.key \in {"210", "211"}
      <3>1. call' = "list" /\ inbox' = r.inbox /\ link' = r.link /\ dsc' = dsc BY <2>3, <2>6 DEF Keep
      <3>2. inbox # <<>> /\ inbox \in Answers("query", Len(dsc.tracks)) /\ inbox[1].key \in {"210", "211"}
        BY <2>1, <2>4, <2>6
      <3>3. \A i \in DOMAIN Tail(inbox) : Tail(inbox)[i].key \in {"match", "."} /\ Settled(Tail(inbox)[i].text)
        BY <3>2, QueryAnswers
      <3>4. inbox' = Tail(inbox) \/ inbox' = <<>> BY <2>4, <2>6, <3>1
      <3>5. \A i \in DOMAIN inbox' : inbox'[i].key \in {"match", "."} /\ Settled(inbox'[i].text)
        <4>1. DOMAIN <<>> = {} BY EmptySeq
        <4>2. CASE inbox' = Tail(inbox) BY <4>2, <3>3
        <4>3. CASE inbox' = <<>> BY <4>1, <4>3
        <4> QED BY <3>4, <4>2, <4>3
      <3>6. \A i \in DOMAIN hits' : Settled(hits'[i].title)
        <4>1. DOMAIN <<>> = {} BY EmptySeq
        <4> QED BY <4>1, <2>1, <2>2
      <3>7. Listing' BY <3>5, <3>6 DEF Listing
      <3> QED BY <3>1, <3>7, <2>1, <2>2 DEF CallInv
    <2>7. CASE r.line.key \notin {"200", "210", "211"}
      <3>1. call' = "failed" BY <2>3, <2>7
      <3> QED BY <3>1 DEF CallInv, CddbStages
    <2> QED BY <2>5, <2>6, <2>7
  <1>6. CASE QueryList
    <2>1. call = "list" /\ prs' = prs /\ Listing
      BY <1>6 DEF QueryList, CallInv
    <2>2. Blank(dsc) /\ prs = ParseBegin /\ dsc.title = <<>> /\ (\A i \in DOMAIN hits : Blank(hits[i]))
          /\ Len(dsc.tracks) = Len(Toc[disc]) /\ (\A i \in DOMAIN hits : Len(hits[i].tracks) = Len(Toc[disc]))
      BY <1>1, <2>1 DEF CallInv, CddbStages
    <2>3. PICK r \in Reads :
             IF r.line.key \in {"NULL", "."}
             THEN /\ UNCHANGED hits
                  /\ dsc' = IF hits = <<>> THEN dsc ELSE cddb_disc_copy(dsc, hits[1])
                  /\ IF Len(hits) = 1 THEN call' = "read" /\ Send("read", r) ELSE call' = "failed" /\ Keep(r)
             ELSE /\ Keep(r)
                  /\ UNCHANGED dsc
                  /\ IF r.line.key = "match" THEN hits' = Noted(r.line) /\ UNCHANGED call
                     ELSE call' = "failed" /\ UNCHANGED hits
      BY <1>6 DEF QueryList
    <2>4. \/ r.line.key = "NULL" /\ r.link = link /\ r.inbox = inbox
          \/ inbox # <<>> /\ r.line = inbox[1] /\ r.link = link /\ r.inbox = Tail(inbox)
          \/ inbox # <<>> /\ r.link = "eos" /\ r.inbox = <<>>
             /\ (r.line.key = "junk" \/ (r.line.key = inbox[1].key /\ r.line.no = inbox[1].no))
      BY <1>1, ReadCases
    <2>5. r.inbox \in Seq(OwnLines) /\ r.line \in OwnLines BY <1>1, ReadsAreOwn
    <2>6. \A i \in DOMAIN r.inbox : r.inbox[i].key \in {"match", "."} /\ Settled(r.inbox[i].text)
      <3>1. inbox # <<>> => \A i \in DOMAIN Tail(inbox) : i + 1 \in DOMAIN inbox /\ Tail(inbox)[i] = inbox[i + 1]
        BY <1>1, LaterLines
      <3>2. \A i \in DOMAIN inbox : inbox[i].key \in {"match", "."} /\ Settled(inbox[i].text) BY <2>1 DEF Listing
      <3>3. DOMAIN <<>> = {} BY EmptySeq
      <3>4. r.inbox = inbox \/ (inbox # <<>> /\ r.inbox = Tail(inbox)) \/ r.inbox = <<>> BY <2>4
      <3> QED BY <3>1, <3>2, <3>3, <3>4
    <2>7. CASE r.line.key \in {"NULL", "."} /\ Len(hits) = 1
      <3> DEFINE h == hits[1]
      <3>1. call' = "read" /\ Send("read", r) /\ hits' = hits /\ dsc' = cddb_disc_copy(dsc, h)
        <4>1. hits # <<>>
          <5>1. Len(<<>>) = 0 BY EmptySeq
          <5>2. Len(hits) # Len(<<>>) BY <5>1, <2>7
          <5> QED BY <5>2, Zenon
        <4> QED BY <4>1, <2>3, <2>7
      <3>2. 1 \in DOMAIN hits /\ h \in OwnDiscs
        <4>1. hits \in Seq(OwnDiscs) /\ Len(hits) = 1 BY <2>7, <1>1
        <4>2. DOMAIN hits = 1 .. 1 /\ \A i \in DOMAIN hits : hits[i] \in OwnDiscs BY <4>1
        <4> QED BY <4>2
      <3>3. h.title # <<>> => dsc'.title = h.title
        BY <3>1 DEF cddb_disc_copy, Copied
      <3>4. h.title = <<>> => dsc'.title = <<>>
        BY <3>1, <2>2 DEF cddb_disc_copy, Copied
      <3>5. /\ DOMAIN dsc'.tracks = DOMAIN dsc.tracks /\ Len(dsc'.tracks) = Len(dsc.tracks)
            /\ \A i \in DOMAIN dsc.tracks : dsc'.tracks[i].title = <<>>
        <4> DEFINE tracks == [i \in DOMAIN dsc.tracks |-> cddb_track_copy(dsc.tracks[i], h.tracks[i])]
        <4>1. dsc'.tracks = tracks BY <3>1 DEF cddb_disc_copy
        <4>2. DOMAIN tracks = DOMAIN dsc.tracks OBVIOUS
        <4>3. ASSUME NEW i \in DOMAIN dsc.tracks PROVE tracks[i].title = <<>>
          <5>1. dsc.tracks[i].title = <<>> BY <2>2 DEF Blank
          <5>2. h.tracks[i].title = <<>>
            <6>1. Len(h.tracks) = Len(dsc.tracks) /\ DOMAIN h.tracks = 1 .. Len(h.tracks) BY <3>2, <2>2, DiscParts
            <6> QED BY <6>1, <3>2, <2>2, <1>2 DEF Blank
          <5>3. tracks[i] = cddb_track_copy(dsc.tracks[i], h.tracks[i]) OBVIOUS
          <5> HIDE DEF tracks
          <5> QED BY <5>1, <5>2, <5>3 DEF cddb_track_copy, Copied
        <4> HIDE DEF tracks
        <4>4. Len(dsc'.tracks) = Len(dsc.tracks)
          <5>1. Len(h.tracks) = Len(dsc.tracks) BY <3>2, <2>2
          <5> QED BY <5>1, <3>1, <3>2, <1>1, CopyIsOwn
        <4> QED BY <4>1, <4>2, <4>3, <4>4
      <3>6. \/ inbox' = r.inbox
            \/ r.link = "up" /\ \E a \in Answers("read", Len(dsc.tracks)) : a \in Seq(OwnLines) /\ inbox' = r.inbox \o a
        BY <3>1, <2>2, SentCases
      <3>7. Reading'
        <4>1. CASE r.inbox # <<>>
          <5>1. r.inbox[1].key \in {"match", "."} BY <4>1, <2>5, <2>6, LaterLines
          <5>2. inbox'[1] = r.inbox[1]
            <6>1. ASSUME NEW a \in Seq(OwnLines) PROVE (r.inbox \o a)[1] = r.inbox[1]
              <7>1. Len(r.inbox) \in Nat /\ Len(r.inbox) # 0 /\ Len(a) \in Nat BY <4>1, <2>5
              <7>2. 1 \in 1 .. Len(r.inbox) + Len(a) /\ 1 <= Len(r.inbox) BY <7>1
              <7>3. \A i \in 1 .. Len(r.inbox) + Len(a) : (r.inbox \o a)[i] = IF i <= Len(r.inbox) THEN r.inbox[i] ELSE a[i - Len(r.inbox)]
                BY <2>5, ConcatProperties
              <7> QED BY <7>2, <7>3
            <6>2. CASE inbox' = r.inbox BY <6>2
            <6>3. ASSUME NEW a \in Seq(OwnLines), inbox' = r.inbox \o a PROVE inbox'[1] = r.inbox[1]
              BY <6>1, <6>3
            <6> QED BY <3>6, <6>2, <6>3
          <5> QED BY <5>1, <5>2 DEF Reading
        <4>2. CASE r.inbox = <<>> /\ inbox' = <<>>
          BY <4>2 DEF Reading
        <4>3. ASSUME r.inbox = <<>>, r.link = "up", NEW a \in Answers("read", Len(dsc.tracks)), a \in Seq(OwnLines), inbox' = r.inbox \o a
              PROVE  Reading'
          <5>1. inbox' = a BY <4>3, AfterNothing
          <5>2. link = "up" BY <4>3, <2>4
          <5>3. \A i \in DOMAIN hits : Settled(hits[i].title) BY <5>2, <2>1 DEF Listing
          <5>4. Settled(dsc'.title)
            <6>1. Settled(h.title) BY <5>3, <3>2
            <6> QED BY <6>1, <3>3, <3>4
          <5> QED BY <5>1, <5>4, <3>5 DEF Reading
        <4> QED BY <3>6, <4>1, <4>2, <4>3
      <3>8. Blank(dsc') BY <3>5 DEF Blank
      <3> QED BY <3>1, <3>7, <3>8, <2>1, <2>2 DEF CallInv
    <2>8. CASE r.line.key = "match"
      <3> DEFINE h == Named(dsc, r.line)
      <3>1. call' = "list" /\ inbox' = r.inbox /\ link' = r.link /\ dsc' = dsc /\ hits' = Append(hits, h)
        BY <2>1, <2>3, <2>8 DEF Keep, Noted
      <3>2. h \in OwnDiscs /\ h.tracks = dsc.tracks BY <1>1, <2>5, NamedIsOwn
      <3>3. h.title = r.line.text
        <4> DEFINE t == r.line.text
                   b == r.line.artist
        <4>1. h = [dsc EXCEPT !.artist = b, !.title = t] BY DEF Named
        <4>2. dsc = [title |-> dsc.title, artist |-> dsc.artist, tracks |-> dsc.tracks] BY <1>1, DiscParts
        <4> HIDE DEF t, b, h
        <4>3. h.title = t BY <4>1, <4>2
        <4> QED BY <4>3 DEF t
      <3>4. Blank(h) BY <3>2, <2>2 DEF Blank
      <3> HIDE DEF h
      <3>5. \A i \in DOMAIN hits' : hits'[i] = h \/ (i \in DOMAIN hits /\ hits'[i] = hits[i])
        BY <3>1, <3>2, <1>1
      <3>6. Listing'
        <4>1. CASE inbox # <<>> /\ r.line = inbox[1] /\ r.link = link /\ r.inbox = Tail(inbox)
          <5>1. Settled(h.title)
            <6>1. 1 \in DOMAIN inbox BY <4>1, <1>1, LaterLines
            <6> QED BY <6>1, <4>1, <3>3, <2>1 DEF Listing
          <5>2. \A i \in DOMAIN hits : Settled(hits[i].title) BY <4>1, <2>1 DEF Listing
          <5>3. \A i \in DOMAIN hits' : Settled(hits'[i].title) BY <3>5, <5>1, <5>2
          <5> QED BY <5>3, <3>1, <2>6 DEF Listing
        <4>2. CASE r.link = "eos" /\ r.inbox = <<>>
          BY <4>2, <3>1, <2>6 DEF Listing
        <4> QED BY <2>4, <2>8, <4>1, <4>2
      <3>7. \A i \in DOMAIN hits' : Blank(hits'[i]) BY <3>4, <3>5, <2>2
      <3> QED BY <3>1, <3>6, <3>7, <2>1, <2>2 DEF CallInv, CddbStages
    <2>9. CASE ~(r.line.key \in {"NULL", "."} /\ Len(hits) = 1) /\ r.line.key # "match"
      <3>1. call' = "failed" BY <2>3, <2>9
      <3> QED BY <3>1 DEF CallInv, CddbStages
    <2> QED BY <2>7, <2>8, <2>9
  <1>7. CASE ReadReply
    <2>1. call = "read" /\ dsc' = dsc /\ hits' = hits /\ prs' = prs /\ Reading
      BY <1>7 DEF ReadReply, CallInv
    <2>2. Blank(dsc) /\ prs = ParseBegin /\ Len(dsc.tracks) = Len(Toc[disc])
      BY <1>1, <2>1 DEF CallInv, CddbStages
    <2>3. PICK r \in Reads : call' = (IF r.line.key = "210" THEN "record" ELSE "failed") /\ Keep(r)
      BY <1>7 DEF ReadReply
    <2>4. \/ r.line.key = "NULL" /\ r.link = link /\ r.inbox = inbox
          \/ inbox # <<>> /\ r.line = inbox[1] /\ r.link = link /\ r.inbox = Tail(inbox)
          \/ inbox # <<>> /\ r.link = "eos" /\ r.inbox = <<>>
             /\ (r.line.key = "junk" \/ (r.line.key = inbox[1].key /\ r.line.no = inbox[1].no))
      BY <1>1, ReadCases
    <2>5. CASE r.line.key # "210"
      <3>1. call' = "failed" BY <2>3, <2>5
      <3> QED BY <3>1 DEF CallInv, CddbStages
    <2>6. CASE r.line.key = "210"
      <3>1. call' = "record" /\ inbox' = r.inbox BY <2>3, <2>6 DEF Keep
      <3>2. inbox # <<>> /\ inbox[1].key = "210" BY <2>4, <2>6
      <3>3. inbox \in Answers("read", Len(dsc.tracks)) /\ Settled(dsc.title) BY <3>2, <2>1 DEF Reading
      <3> DEFINE n == Len(Toc[disc])
                 s == Tail(inbox)
      <3>4. s \in {DiscEntry(n), Sampler(n), TooManyTitles(n), TooManyNotes(n)} BY <3>2, <3>3, <2>2, ReadAnswers
      <3>5. RecordInv(dsc, ParseBegin, s)
        <4> HIDE DEF s, n
        <4>1. \A i \in DOMAIN dsc.tracks : dsc.tracks[i].title = <<>> BY <2>2 DEF Blank
        <4>2. n \in Nat /\ n # 0 BY <1>2 DEF n
        <4> QED BY <4>1, <4>2, <3>3, <3>4, <1>1, RecordBegins
      <3>6. inbox' = s \/ inbox' = <<>> BY <3>1, <2>4, <2>6
      <3> HIDE DEF s, n
      <3>7. OneCut(dsc) BY <3>5, RecordEnds
      <3>8. RecordInv(dsc', prs', inbox') \/ (inbox' = <<>> /\ OneCut(dsc'))
        BY <3>5, <3>6, <3>7, <2>1, <2>2
      <3> QED BY <3>1, <3>8 DEF CallInv, CddbStages
    <2> QED BY <2>5, <2>6
  <1>8. CASE ReadRecord
    <2>1. call = "record" /\ (RecordInv(dsc, prs, inbox) \/ (inbox = <<>> /\ OneCut(dsc)))
      BY <1>8 DEF ReadRecord, CallInv
    <2>2. PICK r \in Reads : LET x == ParseLine(dsc, prs, r.line)
                             IN  /\ Keep(r) /\ dsc' = x.dsc /\ prs' = x.prs
                                 /\ call' = CASE x.outcome = "more" -> "record" [] x.outcome = "stop" -> "found" [] OTHER -> "failed"
      BY <1>8 DEF ReadRecord
    <2> DEFINE x == ParseLine(dsc, prs, r.line)
    <2>3. /\ inbox' = r.inbox /\ dsc' = x.dsc /\ prs' = x.prs
          /\ call' \in {"record", "found", "failed"}
          /\ (call' = "record" => x.outcome # "bad") /\ (call' = "found" => x.outcome # "bad") /\ (x.outcome = "stop" => call' = "found")
      <3>1. inbox' = r.inbox /\ dsc' = x.dsc /\ prs' = x.prs BY <2>2 DEF Keep
      <3>2. call' = CASE x.outcome = "more" -> "record" [] x.outcome = "stop" -> "found" [] OTHER -> "failed" BY <2>2
      <3> HIDE DEF x
      <3>3. x.outcome = "more" => call' = "record" BY <3>2
      <3>4. x.outcome = "stop" => call' = "found" BY <3>2
      <3>5. x.outcome \notin {"more", "stop"} => call' = "failed" BY <3>2
      <3> QED BY <3>1, <3>3, <3>4, <3>5
    <2>4. OneCut(dsc) BY <2>1, RecordEnds
    <2>5. \/ r.line.key = "NULL" /\ r.link = link /\ r.inbox = inbox
          \/ inbox # <<>> /\ r.line = inbox[1] /\ r.link = link /\ r.inbox = Tail(inbox)
          \/ inbox # <<>> /\ r.link = "eos" /\ r.inbox = <<>>
             /\ (r.line.key = "junk" \/ (r.line.key = inbox[1].key /\ r.line.no = inbox[1].no))
      BY <1>1, ReadCases
    <2>6. r.line \in OwnLines BY <1>1, ReadsAreOwn
    <2>7. CASE r.line.key = "NULL"
      <3>1. x = Parsed(dsc, prs, "stop") BY <2>7 DEF ParseLine
      <3> HIDE DEF x
      <3>2. x.outcome = "stop" /\ x.dsc = dsc BY <3>1 DEF Parsed
      <3> QED BY <3>2, <2>3, <2>4 DEF CallInv, CddbStages
    <2>8. CASE r.line.key # "NULL" /\ inbox # <<>> /\ r.line = inbox[1] /\ r.inbox = Tail(inbox)
      <3>1. RecordInv(dsc, prs, inbox) BY <2>1, <2>8
      <3>2. CASE call' = "failed" BY <3>2 DEF CallInv, CddbStages
      <3>3. CASE call' \in {"record", "found"}
        <4>1. ParseLine(dsc, prs, inbox[1]).outcome # "bad" BY <3>3, <2>3, <2>8
        <4>2. RecordInv(ParseLine(dsc, prs, inbox[1]).dsc, ParseLine(dsc, prs, inbox[1]).prs, Tail(inbox))
          BY <4>1, <3>1, <2>8, <1>1, RecordStep
        <4>3. RecordInv(dsc', prs', inbox') BY <4>2, <2>3, <2>8
        <4>4. OneCut(dsc') BY <4>3, RecordEnds
        <4> QED BY <3>3, <4>3, <4>4 DEF CallInv, CddbStages
      <3> QED BY <3>2, <3>3, <2>3
    <2>9. CASE /\ r.line.key # "NULL" /\ inbox # <<>> /\ r.inbox = <<>>
               /\ (r.line.key = "junk" \/ (r.line.key = inbox[1].key /\ r.line.no = inbox[1].no))
      <3>1. RecordInv(dsc, prs, inbox) BY <2>1, <2>9
      <3>2. Ready(dsc, prs, inbox[1]) /\ inbox[1] \in OwnLines BY <3>1, <2>9, <1>1, RecordIsReady, LaterLines
      <3>3. OneCut(x.dsc) BY <3>2, <2>6, <2>9, <1>1, BrokenOff
      <3> HIDE DEF x
      <3> QED BY <3>3, <2>3, <2>9 DEF CallInv, CddbStages
    <2> QED BY <2>5, <2>7, <2>8, <2>9
  <1> QED BY <1>3, <1>4, <1>5, <1>6, <1>7, <1>8 DEF CddbStep

-----------------------------------------------------------------------------
(* What is filled into an album *)

\* What a provider knows is put where there is no title yet.
LEMMA FilledTitles ==
  ASSUME disc \in Discs, NEW a, OfDisc(a), NEW d \in OwnDiscs
  PROVE  /\ Filled(a, d).title = Fill(a.title, d.title)
         /\ DOMAIN Filled(a, d).tracks = DOMAIN a.tracks
         /\ \A i \in DOMAIN a.tracks :
              Filled(a, d).tracks[i].title = IF i > Len(d.tracks) THEN a.tracks[i].title
                                             ELSE Fill(a.tracks[i].title, d.tracks[i].title)
  <1> DEFINE main == Fill(a.artist, d.artist)
             track(i) == IF i > Len(d.tracks) THEN a.tracks[i]
                         ELSE [a.tracks[i] EXCEPT !.title = Fill(@, d.tracks[i].title),
                                                  !.artist = FillArtist(@, d.tracks[i].artist, main)]
             tracks == [i \in DOMAIN a.tracks |-> track(i)]
  <1>1. ASSUME NEW i \in DOMAIN a.tracks
        PROVE  track(i).title = IF i > Len(d.tracks) THEN a.tracks[i].title
                                ELSE Fill(a.tracks[i].title, d.tracks[i].title)
    <2> DEFINE t == a.tracks[i]
    <2>1. t \in AlbumTracks
      BY DiscAlbum
    <2>2. CASE i > Len(d.tracks)
      BY <2>2
    <2>3. CASE ~(i > Len(d.tracks))
      <3> DEFINE x == Fill(t.title, d.tracks[i].title)
                 y == FillArtist(t.artist, d.tracks[i].artist, main)
      <3>1. track(i) = [t EXCEPT !.title = x, !.artist = y]
        BY <2>3
      <3> HIDE DEF x, y, t
      <3>2. [t EXCEPT !.title = x, !.artist = y].title = x
        BY <2>1 DEF AlbumTracks
      <3> HIDE DEF track
      <3> QED BY <3>1, <3>2, <2>3 DEF x, t
    <2> QED BY <2>2, <2>3
  <1>2. DOMAIN tracks = DOMAIN a.tracks /\ \A i \in DOMAIN a.tracks : tracks[i] = track(i)
    OBVIOUS
  <1>3. Filled(a, d) = [title |-> Fill(a.title, d.title), artist |-> main, tracks |-> tracks]
    BY DEF Filled, tracks, track
  <1> HIDE DEF track, tracks, main
  <1>4. Filled(a, d).title = Fill(a.title, d.title) /\ Filled(a, d).tracks = tracks
    BY <1>3
  <1> QED BY <1>1, <1>2, <1>4

\* So its titles are cut off only where those of one or the other are.
LEMMA FilledIsLoose ==
  ASSUME disc \in Discs, NEW a, OfDisc(a), NEW d \in OwnDiscs
  PROVE  Loose(Filled(a, d)) \subseteq Loose(a) \cup Loose(d)
  <1> DEFINE gap == Loose(a) \cup Loose(d)
             f == Filled(a, d)
  <1>1. Loose(a) \subseteq gap /\ Loose(d) \subseteq gap
    OBVIOUS
  <1> HIDE DEF gap
  <1>2. Len(a.tracks) \in Nat /\ DOMAIN a.tracks = 1 .. Len(a.tracks) /\ Len(d.tracks) \in Nat /\ DOMAIN d.tracks = 1 .. Len(d.tracks)
    BY DiscAlbum, DiscParts
  <1>3. Settled(a.title) \/ 0 \in gap
    BY <1>1, <1>2, LoosePlaces
  <1>4. \A i \in DOMAIN a.tracks : Settled(a.tracks[i].title) \/ i \in gap
    BY <1>1, <1>2, LoosePlaces
  <1>5. Settled(d.title) \/ 0 \in gap
    BY <1>1, <1>2, LoosePlaces
  <1>6. \A i \in DOMAIN d.tracks : Settled(d.tracks[i].title) \/ i \in gap
    BY <1>1, <1>2, LoosePlaces
  <1>7. OfDisc(f)
    BY FilledOfDisc
  <1>8. Len(f.tracks) \in Nat /\ DOMAIN f.tracks = 1 .. Len(f.tracks)
    <2> HIDE DEF f
    <2> QED BY <1>7, DiscAlbum
  <1>9. Settled(f.title) \/ 0 \in gap
    BY <1>3, <1>5, FilledTitles DEF Fill
  <1>10. ASSUME NEW i \in DOMAIN f.tracks PROVE Settled(f.tracks[i].title) \/ i \in gap
    <2>1. i \in DOMAIN a.tracks /\ f.tracks[i].title = IF i > Len(d.tracks) THEN a.tracks[i].title
                                                        ELSE Fill(a.tracks[i].title, d.tracks[i].title)
      BY FilledTitles
    <2> HIDE DEF f
    <2>2. CASE i > Len(d.tracks)
      BY <2>1, <2>2, <1>4
    <2>3. CASE ~(i > Len(d.tracks))
      <3>1. i \in DOMAIN d.tracks BY <2>1, <2>3, <1>2
      <3> QED BY <3>1, <2>1, <2>3, <1>4, <1>6 DEF Fill
    <2> QED BY <2>2, <2>3
  <1> HIDE DEF f
  <1>11. Loose(f) \subseteq gap
    BY <1>8, <1>9, <1>10, LoosePlaces
  <1> QED BY <1>11 DEF f, gap

\* What MusicBrainz answers has no cut titles.
LEMMA ReleasesAreClean ==
  ASSUME disc \in Discs, NEW r \in Releases(Toc[disc])
  PROVE  Clean(r)
  <1> DEFINE audio == Album(Toc[disc]).tracks
             known(k) == [i \in 1 .. k |-> [title |-> TitleOf(audio[i].no), artist |-> ArtistOf(IF i = 1 THEN 0 ELSE i)]]
             gap == {}
  <1>1. Settled(<<>>) /\ Settled(TitleOf(0))
    <2>1. 0 \in Nat OBVIOUS
    <2> QED BY <2>1, Halves DEF Settled
  <1>2. audio \in Seq(AlbumTracks)
    BY AlbumOfToc DEF Albums
  <1> HIDE DEF audio
  <1>3. r \in OwnDiscs
    BY ReleasesAreOwn
  <1>4. Len(r.tracks) \in Nat /\ DOMAIN r.tracks = 1 .. Len(r.tracks)
    BY <1>3, DiscParts
  <1>5. Settled(r.title) /\ \A i \in DOMAIN r.tracks : Settled(r.tracks[i].title)
    <2>1. CASE r = NoDisc
      <3>1. r.title = <<>> /\ r.tracks = <<>> BY <2>1 DEF NoDisc
      <3>2. DOMAIN <<>> = {} BY EmptySeq
      <3> QED BY <3>1, <3>2, <1>1
    <2>2. ASSUME NEW t \in {<<>>, TitleOf(0)}, NEW k \in 0 .. Len(audio),
                 r = [title |-> t, artist |-> ArtistOf(0), tracks |-> known(k)]
          PROVE  Settled(r.title) /\ \A i \in DOMAIN r.tracks : Settled(r.tracks[i].title)
      <3>1. r.title = t /\ r.tracks = known(k) BY <2>2
      <3>2. ASSUME NEW i \in 1 .. k PROVE Settled(known(k)[i].title)
        <4>1. i \in DOMAIN audio /\ audio[i] \in AlbumTracks BY <1>2
        <4>2. audio[i].no \in Nat BY <4>1 DEF AlbumTracks
        <4>3. known(k)[i].title = TitleOf(audio[i].no) OBVIOUS
        <4> HIDE DEF known
        <4> QED BY <4>2, <4>3, Halves
      <3>3. DOMAIN known(k) = 1 .. k OBVIOUS
      <3> HIDE DEF known
      <3> QED BY <3>1, <3>2, <3>3, <1>1
    <2>3. r = NoDisc \/ \E t \in {<<>>, TitleOf(0)}, k \in 0 .. Len(audio) :
                          r = [title |-> t, artist |-> ArtistOf(0), tracks |-> known(k)]
      BY DEF Releases, audio, known
    <2> HIDE DEF known
    <2> QED BY <2>1, <2>2, <2>3
  <1> HIDE DEF gap
  <1>6. Loose(r) \subseteq gap
    BY <1>4, <1>5, LoosePlaces
  <1> QED BY <1>6 DEF gap, Clean

\* An album without any titles.
LEMMA UntitledIsClean ==
  ASSUME disc \in Discs
  PROVE  Clean(Album(Toc[disc]))
  <1> DEFINE a == Album(Toc[disc])
             gap == {}
  <1>1. a.title = <<>> /\ a \in Albums /\ \A i \in DOMAIN a.tracks : a.tracks[i].title = <<>>
    <2>1. a.title = <<>> BY DEF Album
    <2> QED BY <2>1, AlbumOfToc
  <1> HIDE DEF a, gap
  <1>2. Len(a.tracks) \in Nat /\ DOMAIN a.tracks = 1 .. Len(a.tracks)
    BY <1>1 DEF Albums
  <1>3. Loose(a) \subseteq gap
    BY <1>1, <1>2, LoosePlaces DEF Settled
  <1> QED BY <1>3 DEF a, gap, Clean

\* If one of the two has no cut title, and the other one at most, so has the album.
LEMMA FilledCuts ==
  ASSUME disc \in Discs, NEW a, OfDisc(a), NEW d \in OwnDiscs
  PROVE  /\ Clean(a) /\ Clean(d) => Clean(Filled(a, d))
         /\ OneCut(a) /\ Clean(d) => OneCut(Filled(a, d))
         /\ Clean(a) /\ OneCut(d) => OneCut(Filled(a, d))
         /\ Clean(a) => OneCut(a)
  <1>1. Loose(Filled(a, d)) \subseteq Loose(a) \cup Loose(d)
    BY FilledIsLoose
  <1> QED BY <1>1 DEF Clean, OneCut

-----------------------------------------------------------------------------
(* What is written to the file, and read *)

\* Entries for some of the places of an album, one title at most for each.
TitlesOf(a, v, from, to) ==
  /\ v \in Seq(FileEntries)
  /\ \A j \in DOMAIN v : v[j].no \in from .. to /\ (v[j].kind = "title" => v[j].text = TitleAt(a, v[j].no))
  /\ \A j, k \in DOMAIN v : v[j].kind = "title" /\ v[k].kind = "title" /\ v[j].no = v[k].no => j = k

\* The entries of one place have one title at most.
LEMMA TitlesOfOne ==
  ASSUME NEW a, NEW no \in Nat, NEW artist \in Text, NEW title \in Text, title = TitleAt(a, no)
  PROVE  TitlesOf(a, _entry_to_vec(no, artist, title), no, no)
  <1> DEFINE ea == [kind |-> "artist", no |-> no, text |-> artist]
             et == [kind |-> "title", no |-> no, text |-> title]
             v == _entry_to_vec(no, artist, title)
  <1>1. /\ ea \in FileEntries /\ ea.kind = "artist" /\ ea.no = no /\ ea.text = artist
        /\ et \in FileEntries /\ et.kind = "title" /\ et.no = no /\ et.text = title
    BY DEF FileEntries
  <1>2. v = (IF artist = <<>> THEN <<>> ELSE <<ea>>) \o (IF title = <<>> THEN <<>> ELSE <<et>>)
    BY DEF _entry_to_vec
  <1> HIDE DEF ea, et, v
  <1>3. EntriesOf(v, no, title)
    BY EntryVec DEF v
  <1>4. \A j, k \in DOMAIN v : v[j].kind = "title" /\ v[k].kind = "title" => j = k
    <2>1. CASE artist = <<>> /\ title = <<>>
      <3>1. v = <<>> BY <1>2, <2>1
      <3>2. DOMAIN <<>> = {} BY EmptySeq
      <3> QED BY <3>1, <3>2
    <2>2. CASE artist # <<>> /\ title = <<>>
      <3>1. v = <<ea>> BY <1>1, <1>2, <2>2
      <3> QED BY <3>1
    <2>3. CASE artist = <<>> /\ title # <<>>
      <3>1. v = <<et>> BY <1>1, <1>2, <2>3
      <3> QED BY <3>1
    <2>4. CASE artist # <<>> /\ title # <<>>
      <3>1. <<ea>> \o <<et>> = <<ea, et>> BY <1>1, PairTuple
      <3>2. v = <<ea, et>> BY <3>1, <1>2, <2>4
      <3>3. DOMAIN v = {1, 2} /\ v[1] = ea BY <3>2
      <3> QED BY <3>3, <1>1
    <2> QED BY <2>1, <2>2, <2>3, <2>4
  <1>5. TitlesOf(a, v, no, no)
    <2>1. no \in no .. no OBVIOUS
    <2> QED BY <2>1, <1>3, <1>4 DEF TitlesOf, EntriesOf
  <1> QED BY <1>5 DEF v

\* Those of some places and of others after them.
LEMMA TitlesOfBoth ==
  ASSUME NEW a, NEW from \in Nat, NEW mid \in Nat, NEW to \in Nat, from <= mid, mid < to,
         NEW v, NEW w, TitlesOf(a, v, from, mid), TitlesOf(a, w, mid + 1, to)
  PROVE  TitlesOf(a, v \o w, from, to)
  <1> DEFINE all == v \o w
             m == Len(v)
             n == Len(w)
  <1>1. v \in Seq(FileEntries) /\ w \in Seq(FileEntries)
    BY DEF TitlesOf
  <1>2. /\ all \in Seq(FileEntries) /\ Len(all) = m + n
        /\ \A j \in 1 .. m + n : all[j] = IF j <= m THEN v[j] ELSE w[j - m]
    BY <1>1, ConcatProperties
  <1>3. m \in Nat /\ n \in Nat /\ DOMAIN v = 1 .. m /\ DOMAIN w = 1 .. n
    BY <1>1
  <1> HIDE DEF all, m, n
  <1>4. DOMAIN all = 1 .. m + n
    BY <1>2
  <1>5. ASSUME NEW j \in DOMAIN all
        PROVE  \/ j \in 1 .. m /\ j \in DOMAIN v /\ all[j] = v[j] /\ all[j].no \in from .. mid
               \/ j - m \in 1 .. n /\ j - m \in DOMAIN w /\ all[j] = w[j - m] /\ all[j].no \in mid + 1 .. to
    <2>1. CASE j <= m
      <3>1. j \in DOMAIN v /\ all[j] = v[j] BY <2>1, <1>2, <1>3, <1>4
      <3> QED BY <3>1, <1>3 DEF TitlesOf
    <2>2. CASE ~(j <= m)
      <3>1. j - m \in DOMAIN w /\ all[j] = w[j - m] BY <2>2, <1>2, <1>3, <1>4
      <3> QED BY <3>1, <1>3 DEF TitlesOf
    <2> QED BY <2>1, <2>2
  <1>6. ASSUME NEW j \in DOMAIN all
        PROVE  all[j].no \in from .. to /\ (all[j].kind = "title" => all[j].text = TitleAt(a, all[j].no))
    <2>1. CASE j \in DOMAIN v /\ all[j] = v[j]
      BY <2>1 DEF TitlesOf
    <2>2. CASE j - m \in DOMAIN w /\ all[j] = w[j - m]
      BY <2>2 DEF TitlesOf
    <2> QED BY <2>1, <2>2, <1>5
  <1>7. ASSUME NEW j \in DOMAIN all, NEW k \in DOMAIN all,
               all[j].kind = "title", all[k].kind = "title", all[j].no = all[k].no
        PROVE  j = k
    <2>1. CASE j \in DOMAIN v /\ all[j] = v[j] /\ k \in DOMAIN v /\ all[k] = v[k]
      BY <2>1, <1>7 DEF TitlesOf
    <2>2. CASE j - m \in DOMAIN w /\ all[j] = w[j - m] /\ k - m \in DOMAIN w /\ all[k] = w[k - m]
      <3>1. j - m = k - m BY <2>2, <1>7 DEF TitlesOf
      <3> QED BY <3>1, <1>3, <1>4
    <2>3. ~(all[j].no \in from .. mid /\ all[k].no \in mid + 1 .. to) /\ ~(all[k].no \in from .. mid /\ all[j].no \in mid + 1 .. to)
      BY <1>7
    <2> QED BY <2>1, <2>2, <2>3, <1>5
  <1>8. TitlesOf(a, all, from, to)
    BY <1>2, <1>6, <1>7 DEF TitlesOf
  <1> QED BY <1>8 DEF all

\* The entries of an album have one title at most for every place, and that of the place.
LEMMA TitlesOfAlbum ==
  ASSUME disc \in Discs, ~DataFirst, NEW a, OfDisc(a)
  PROVE  TitlesOf(a, Entries(a), 0, Len(a.tracks))
  <1> DEFINE n == Len(a.tracks)
             vec(i) == _entry_to_vec(a.tracks[i].no, a.tracks[i].artist, a.tracks[i].title)
             vecs == [i \in DOMAIN a.tracks |-> vec(i)]
             top == _entry_to_vec(0, a.artist, a.title)
             flat == FlattenSeq(vecs)
  <1>1. /\ a.title \in Text /\ a.artist \in Text /\ n \in Nat /\ DOMAIN a.tracks = 1 .. n
        /\ \A i \in DOMAIN a.tracks : a.tracks[i] \in AlbumTracks /\ a.tracks[i].no = i
    BY DiscAlbum DEF Counted
  <1>2. TitlesOf(a, top, 0, 0)
    <2>1. 0 \in Nat /\ TitleAt(a, 0) = a.title BY DEF TitleAt
    <2> HIDE DEF top
    <2> QED BY <2>1, <1>1, TitlesOfOne DEF top
  <1>3. ASSUME NEW i \in 1 .. n PROVE TitlesOf(a, vec(i), i, i)
    <2>1. i \in Nat /\ i # 0 /\ a.tracks[i].no = i /\ a.tracks[i].artist \in Text /\ a.tracks[i].title \in Text
      BY <1>1 DEF AlbumTracks
    <2>2. a.tracks[i].title = TitleAt(a, i)
      BY <2>1 DEF TitleAt
    <2>3. vec(i) = _entry_to_vec(i, a.tracks[i].artist, a.tracks[i].title)
      BY <2>1
    <2> HIDE DEF vec
    <2> QED BY <2>1, <2>2, <2>3, TitlesOfOne
  <1>4. Entries(a) = top \o flat
    BY DEF Entries, top, flat, vecs, vec
  <1> HIDE DEF vec, top, flat
  <1>5. vecs \in Seq(Seq(FileEntries)) /\ DOMAIN vecs = 1 .. n /\ Len(vecs) = n /\ \A i \in 1 .. n : vecs[i] = vec(i)
    <2>1. \A i \in 1 .. n : vec(i) \in Seq(FileEntries) BY <1>3 DEF TitlesOf
    <2> QED BY <2>1, <1>1
  <1> HIDE DEF vecs, n
  <1>6. CASE n = 0
    <2>1. flat \in Seq(FileEntries) /\ \A j \in DOMAIN flat : \E i \in DOMAIN vecs : \E k \in DOMAIN vecs[i] : flat[j] = vecs[i][k]
      BY <1>5, FlattenHas DEF flat
    <2>2. DOMAIN flat = {}
      <3>1. n = 0 /\ DOMAIN vecs = 1 .. n BY <1>5, <1>6
      <3>2. DOMAIN vecs = {} BY <3>1
      <3> HIDE DEF flat
      <3> QED BY <3>2, <2>1
    <2>3. flat = <<>>
      <3>1. Len(flat) \in Nat /\ DOMAIN flat = 1 .. Len(flat) BY <2>1
      <3>2. Len(flat) = 0 BY <3>1, <2>2
      <3> QED BY <3>2, <2>1
    <2>4. top \in Seq(FileEntries) BY <1>2 DEF TitlesOf
    <2>5. Entries(a) = top BY <2>3, <2>4, <1>4
    <2> QED BY <2>5, <1>2, <1>6 DEF n
  <1>7. CASE n # 0
    <2>1. vecs # <<>> BY <1>5, <1>7
    <2>2. PICK f : f[1] = vecs[1] /\ (\A i \in 2 .. Len(vecs) : f[i] = f[i - 1] \o vecs[i]) /\ FlattenSeq(vecs) = f[Len(vecs)]
      BY <2>1, <1>5, FlattenGrows
    <2> DEFINE M == {i \in Nat : i + 1 \in 1 .. n => TitlesOf(a, f[i + 1], 1, i + 1)}
    <2>3. 0 \in M
      <3>1. 1 \in 1 .. n /\ f[0 + 1] = vec(1) BY <1>1, <1>5, <1>7, <2>2 DEF n
      <3> QED BY <3>1, <1>3
    <2>4. ASSUME NEW i \in Nat, i \in M PROVE i + 1 \in M
      <3> SUFFICES ASSUME (i + 1) + 1 \in 1 .. n PROVE TitlesOf(a, f[(i + 1) + 1], 1, (i + 1) + 1)
        OBVIOUS
      <3> DEFINE mid == i + 1
                 to == mid + 1
      <3>1. mid \in Nat /\ to \in Nat /\ 1 \in Nat /\ 1 <= mid /\ mid < to /\ mid \in 1 .. n /\ to \in 2 .. Len(vecs) /\ to - 1 = mid
            /\ to \in 1 .. n
        BY <1>1, <1>5 DEF n
      <3>2. TitlesOf(a, f[mid], 1, mid) BY <2>4, <3>1
      <3> HIDE DEF M, mid
      <3>3. f[to] = f[mid] \o vec(to) BY <2>2, <3>1, <1>5
      <3>4. TitlesOf(a, vec(to), mid + 1, to) BY <3>1, <1>3
      <3>5. TitlesOf(a, f[mid] \o vec(to), 1, to)
        <4> DEFINE one == 1
        <4>1. one \in Nat /\ one <= mid /\ TitlesOf(a, f[mid], one, mid) BY <3>1, <3>2
        <4> HIDE DEF one, to
        <4>2. TitlesOf(a, f[mid] \o vec(to), one, to) BY <4>1, <3>1, <3>4, TitlesOfBoth
        <4> QED BY <4>2 DEF one
      <3> QED BY <3>3, <3>5 DEF mid
    <2>5. \A i \in Nat : i \in M
      <3> HIDE DEF M
      <3> QED BY <2>3, <2>4, Counting
    <2>6. TitlesOf(a, flat, 1, n)
      <3>1. n - 1 \in Nat /\ (n - 1) + 1 = n /\ n \in 1 .. n BY <1>1, <1>7 DEF n
      <3>2. n - 1 \in M BY <3>1, <2>5
      <3>3. TitlesOf(a, f[n], 1, n) BY <3>1, <3>2
      <3> QED BY <3>3, <2>2, <1>5 DEF flat
    <2>7. TitlesOf(a, top \o flat, 0, n)
      <3> DEFINE zero == 0
      <3>1. zero \in Nat /\ zero <= zero /\ zero < n /\ n \in Nat /\ TitlesOf(a, top, zero, zero) /\ TitlesOf(a, flat, zero + 1, n)
        BY <1>1, <1>2, <1>7, <2>6 DEF n
      <3> HIDE DEF zero
      <3>2. TitlesOf(a, top \o flat, zero, n) BY <3>1, TitlesOfBoth
      <3> QED BY <3>2 DEF zero
    <2> QED BY <2>7, <1>4 DEF n
  <1> QED BY <1>6, <1>7

\* An album with one cut title at most makes a file with one at most.
LEMMA OneCutIsWritten ==
  ASSUME disc \in Discs, ~DataFirst, NEW a, OfDisc(a), OneCut(a)
  PROVE  Cardinality({i \in {j \in DOMAIN Entries(a) : Entries(a)[j].kind = "title"} : ~WholeText(Entries(a)[i].text)}) <= 1
  <1> DEFINE s == Entries(a)
             C == {i \in {j \in DOMAIN s : s[j].kind = "title"} : ~WholeText(s[i].text)}
  <1>1. TitlesOf(a, s, 0, Len(a.tracks)) /\ s \in Seq(OwnEntries)
    BY TitlesOfAlbum, EntriesOfDisc
  <1> HIDE DEF s
  <1>2. ASSUME NEW i \in C PROVE i \in DOMAIN s /\ s[i].kind = "title" /\ s[i].no \in Loose(a)
    <2>1. i \in DOMAIN s /\ s[i].kind = "title" /\ ~WholeText(s[i].text)
      OBVIOUS
    <2>2. s[i] \in OwnEntries
      BY <2>1, <1>1
    <2>3. s[i].text # <<>> /\ s[i].text = TitleAt(a, s[i].no) /\ s[i].no \in 0 .. Len(a.tracks)
      BY <2>1, <2>2, <1>1 DEF OwnEntries, TitlesOf
    <2> QED BY <2>1, <2>3 DEF Loose, Settled
  <1> HIDE DEF C
  <1>3. \A i, k \in C : i = k
    <2> SUFFICES ASSUME NEW i \in C, NEW k \in C PROVE i = k
      OBVIOUS
    <2>1. s[i].no = s[k].no BY <1>2 DEF OneCut
    <2> QED BY <2>1, <1>1, <1>2 DEF TitlesOf
  <1>4. Cardinality(C) <= 1
    <2>1. CASE C = {}
      BY <2>1, FS_EmptySet
    <2>2. CASE C # {}
      <3>1. PICK i : i \in C BY <2>2
      <3>2. C = {i} BY <3>1, <1>3
      <3>3. Cardinality(C) = 1 BY <3>2, FS_Singleton
      <3> QED BY <3>3
    <2> QED BY <2>1, <2>2
  <1> QED BY <1>4 DEF C, s

\* An entry of a track that the album has is read.
LEMMA EntryIsRead ==
  ASSUME disc \in Discs, NEW x \in Readings, x.ok, NEW e \in OwnEntries, e.no <= Len(x.album.tracks)
  PROVE  ReadEntry(x, e).ok
  <1> DEFINE a == x.album
             n == Len(a.tracks)
             y == ReadEntry(x, e)
  <1>1. x = [ok |-> x.ok, album |-> a] /\ OfDisc(a)
    BY DEF Readings
  <1>2. n \in Nat /\ DOMAIN a.tracks = 1 .. n
    BY <1>1, DiscAlbum
  <1>3. e.no \in Nat /\ e.kind \in {"title", "artist"} /\ e.no <= n
    BY DEF OwnEntries, FileEntries
  <1>4. ASSUME NEW b PROVE [x EXCEPT !.album = b].ok
    BY <1>1
  <1>5. CASE e.no = 0 /\ e.kind = "artist"
    <2>1. y = [x EXCEPT !.album = [a EXCEPT !.artist = e.text]] BY <1>5 DEF ReadEntry
    <2> HIDE DEF y, a
    <2>2. y.ok BY <2>1, <1>4
    <2> QED BY <2>2 DEF y
  <1>6. CASE e.no = 0 /\ e.kind = "title"
    <2>1. y = [x EXCEPT !.album = [a EXCEPT !.title = e.text]] BY <1>6 DEF ReadEntry
    <2> HIDE DEF y, a
    <2>2. y.ok BY <2>1, <1>4
    <2> QED BY <2>2 DEF y
  <1>7. CASE e.no # 0
    <2>1. e.no \in DOMAIN a.tracks /\ ~(e.no > n) BY <1>2, <1>3, <1>7
    <2> DEFINE t == a.tracks[e.no]
               b == [a EXCEPT !.tracks = [a.tracks EXCEPT ![e.no] = [t EXCEPT !.artist = e.text]]]
               c == [a EXCEPT !.tracks = [a.tracks EXCEPT ![e.no] = [t EXCEPT !.title = e.text]]]
    <2>2. y = [x EXCEPT !.album = b] \/ y = [x EXCEPT !.album = c]
      <3>1. CASE e.kind = "artist"
        <4>1. y = [x EXCEPT !.album.tracks[e.no].artist = e.text] BY <1>7, <2>1, <3>1 DEF ReadEntry
        <4> QED BY <4>1
      <3>2. CASE e.kind = "title"
        <4>1. y = [x EXCEPT !.album.tracks[e.no].title = e.text] BY <1>7, <2>1, <3>2 DEF ReadEntry
        <4> QED BY <4>1
      <3> QED BY <3>1, <3>2, <1>3
    <2> HIDE DEF y, a, b, c
    <2>3. y.ok BY <2>2, <1>4
    <2> QED BY <2>3 DEF y
  <1> QED BY <1>3, <1>5, <1>6, <1>7

\* A file of the disc is read to its end, where numbers are places.
LEMMA FileIsRead ==
  ASSUME disc \in Discs, ~DataFirst, NEW a, OfDisc(a), NEW from, OfDisc(from)
  PROVE  ReadEntries(a, Entries(from)).ok
  <1> DEFINE s == Entries(from)
             n == Len(a.tracks)
             E == {e \in OwnEntries : e.no <= n}
             base == [ok |-> TRUE, album |-> a]
             J == [i \in 0 .. Len(s) |-> {x \in Readings : x.ok}]
  <1>1. s \in Seq(OwnEntries) /\ Len(s) \in Nat /\ DOMAIN s = 1 .. Len(s)
    BY EntriesOfDisc
  <1>2. TitlesOf(from, s, 0, Len(from.tracks)) /\ Len(from.tracks) = n /\ n \in Nat
    BY TitlesOfAlbum, DiscAlbum DEF OfDisc, SameTracks
  <1> HIDE DEF s
  <1>3. s \in Seq(E)
    <2>1. \A i \in 1 .. Len(s) : s[i] \in E
      <3> TAKE i \in 1 .. Len(s)
      <3>1. s[i] \in OwnEntries /\ s[i].no \in 0 .. n BY <1>1, <1>2 DEF TitlesOf
      <3> QED BY <3>1, <1>2
    <2>2. s = [i \in 1 .. Len(s) |-> s[i]] BY <1>1
    <2> HIDE DEF E
    <2> QED BY <2>1, <2>2, <1>1
  <1>4. base \in Readings /\ base.ok /\ 0 \in 0 .. Len(s)
    BY <1>1, DiscAlbum DEF Readings
  <1>5. base \in J[0]
    BY <1>4
  <1>6. \A x \in Readings, e \in E : ReadEntry(x, e) \in Readings
    BY EntryRead
  <1>7. ASSUME NEW x \in Readings PROVE Len(x.album.tracks) = n
    <2>1. OfDisc(x.album) BY DEF Readings
    <2> QED BY <2>1 DEF OfDisc, SameTracks
  <1>8. ASSUME NEW x \in Readings, x.ok, NEW e \in E PROVE ReadEntry(x, e).ok
    <2>1. e \in OwnEntries /\ e.no <= Len(x.album.tracks) BY <1>7
    <2> HIDE DEF E, n
    <2> QED BY <1>8, <2>1, EntryIsRead
  <1>9. ASSUME NEW i \in 1 .. Len(s), NEW x \in J[i - 1], x \in Readings PROVE ReadEntry(x, s[i]) \in J[i]
    <2>1. i \in 0 .. Len(s) /\ i - 1 \in 0 .. Len(s) /\ s[i] \in E BY <1>1, <1>3
    <2>2. x.ok BY <2>1, <1>9
    <2> HIDE DEF E
    <2>3. ReadEntry(x, s[i]) \in Readings /\ ReadEntry(x, s[i]).ok BY <2>1, <2>2, <1>6, <1>8, <1>9
    <2> QED BY <2>1, <2>3
  <1>10. ReadEntries(a, s) \in J[Len(s)]
    <2> HIDE DEF J, E
    <2> QED BY <1>3, <1>4, <1>5, <1>6, <1>9, ReadEntriesKeep
  <1>11. Len(s) \in 0 .. Len(s)
    BY <1>1
  <1> QED BY <1>10, <1>11 DEF s

-----------------------------------------------------------------------------
(* The titles that are cut off *)

\* Until the CDDB client has been asked no title is cut, and after it one at most.
AlbumInv ==
  ~DataFirst =>
    /\ mpc \in Unread => OneCut(album)
    /\ mpc \in {"cacheable", "cddb"} /\ "CDDB" \in left => Clean(album)
    /\ mpc = "load" => Clean(album)

\* There is a call while it is asked, and only then.
CallOfFetch ==
  /\ mpc = "cddb" => "CDDB" \in left
  /\ mpc # "cddb" => call = "idle"

\* What is claimed of the file.
FewCuts(entries) ==
  Cardinality({i \in {j \in DOMAIN entries : entries[j].kind = "title"} : ~WholeText(entries[i].text)}) <= 1

\* The inductive invariant.
CutInv == FetchInv /\ CddbInv /\ CallInv /\ AlbumInv /\ CallOfFetch /\ OneCutAtMost

\* A file without a content has none.
LEMMA NoCuts ==
  ASSUME NEW kind
  PROVE  FewCuts(File(kind, <<>>).entries) /\ FewCuts(NoFile.entries)
  <1>1. File(kind, <<>>).entries = <<>> /\ NoFile.entries = <<>>
    BY DEF File, NoFile
  <1>2. FewCuts(<<>>)
    <2> DEFINE C == {i \in {j \in DOMAIN <<>> : <<>>[j].kind = "title"} : ~WholeText(<<>>[i].text)}
    <2>1. C = {}
      <3>1. DOMAIN <<>> = {} BY EmptySeq
      <3> QED BY <3>1
    <2>2. Cardinality(C) = 0 BY <2>1, FS_EmptySet
    <2> HIDE DEF C
    <2>3. Cardinality(C) <= 1 BY <2>2
    <2> QED BY <2>3 DEF FewCuts, C
  <1> QED BY <1>1, <1>2

\* The same of the next state, while the disc stays.
LEMMA AlbumStep ==
  ASSUME disc' = disc, NEW a, NEW f, NEW m, NEW l, album' = a, file' = f, mpc' = m, left' = l,
         ~DataFirst => /\ m \in Unread => OneCut(a)
                       /\ m \in {"cacheable", "cddb"} /\ "CDDB" \in l => Clean(a)
                       /\ m = "load" => Clean(a)
                       /\ FewCuts(f.entries)
  PROVE  AlbumInv' /\ OneCutAtMost'
  <1>1. DataFirst' = DataFirst
    BY SameDisc
  <1>2. AlbumInv'
    BY <1>1 DEF AlbumInv
  <1>3. OneCutAtMost'
    BY <1>1 DEF OneCutAtMost, FewCuts
  <1> QED BY <1>2, <1>3

\* A call that nothing happens to.
LEMMA SameCall ==
  ASSUME CallInv, UNCHANGED cddbVars
  PROVE  CallInv'
  BY DEF CallInv, cddbVars, Listing, Reading

\* A call that is over, or was never made.
LEMMA NoCall ==
  ASSUME call' = "idle", inbox' = <<>>, hits' = <<>>, prs' = ParseBegin
  PROVE  CallInv'
  BY DEF CallInv, CddbStages

\* Nothing is cut at first.
LEMMA CutInit == DiscInit => CutInv
  <1> SUFFICES ASSUME DiscInit PROVE CutInv
    OBVIOUS
  <1>1. FetchInv /\ CddbInv
    BY FetchInit
  <1>2. mpc = "idle" /\ call = "idle" /\ inbox = <<>> /\ hits = <<>> /\ prs = ParseBegin /\ file \in {NoFile, File("foreign", <<>>)}
    BY DEF DiscInit, CddbInit
  <1>3. CallInv
    BY <1>2 DEF CallInv, CddbStages
  <1>4. AlbumInv /\ CallOfFetch
    BY <1>2 DEF AlbumInv, CallOfFetch, Unread
  <1>5. OneCutAtMost
    <2>1. FewCuts(file.entries) BY <1>2, NoCuts
    <2> QED BY <2>1 DEF OneCutAtMost, FewCuts
  <1> QED BY <1>1, <1>3, <1>4, <1>5 DEF CutInv

\* Every step of the fetch, of the client within it and of the changer keeps it so.
LEMMA CutNext == CutInv /\ [DiscNext]_discVars => CutInv'
  <1> SUFFICES ASSUME CutInv, [DiscNext]_discVars PROVE CutInv'
    OBVIOUS
  <1>1. /\ FetchInv /\ CddbInv /\ CallInv /\ disc \in Discs
        /\ (mpc = "cddb" => "CDDB" \in left) /\ (mpc # "cddb" => call = "idle")
        /\ (mpc # "idle" => OfDisc(album))
    BY DEF CutInv, FetchInv, CallOfFetch
  <1>2. ~DataFirst =>
          /\ mpc \in Unread => OneCut(album)
          /\ mpc \in {"cacheable", "cddb"} /\ "CDDB" \in left => Clean(album)
          /\ mpc = "load" => Clean(album)
          /\ FewCuts(file.entries)
    BY DEF CutInv, AlbumInv, OneCutAtMost, FewCuts
  <1>3. FetchInv' /\ CddbInv'
    BY <1>1, FetchNext
  <1>4. SUFFICES CallInv' /\ AlbumInv' /\ CallOfFetch' /\ OneCutAtMost'
    BY <1>3 DEF CutInv
  <1>5. Clean(album) => OneCut(album)
    BY DEF Clean, OneCut
  <1>6. ASSUME NEW kind PROVE FewCuts(File(kind, <<>>).entries) /\ FewCuts(NoFile.entries)
    BY NoCuts
  \* A step that is none of the call, to a stage in which no cut titles matter.
  <1>7. ASSUME disc' = disc, UNCHANGED cddbVars, mpc # "cddb", mpc' \notin Unread \cup {"load"},
               FewCuts(file.entries) => FewCuts(file'.entries)
        PROVE  CallInv' /\ AlbumInv' /\ CallOfFetch' /\ OneCutAtMost'
    <2> DEFINE a == album'
               f == file'
               m == mpc'
               l == left'
    <2>1. album' = a /\ file' = f /\ mpc' = m /\ left' = l OBVIOUS
    <2>2. m \notin Unread /\ m # "load" /\ m \notin {"cacheable", "cddb"} BY <1>7 DEF Unread
    <2>3. ~DataFirst => FewCuts(f.entries) BY <1>2, <1>7
    <2> HIDE DEF a, f, m, l
    <2>4. AlbumInv' /\ OneCutAtMost' BY <1>7, <2>1, <2>2, <2>3, AlbumStep
    <2>5. CallInv' BY <1>1, <1>7, SameCall
    <2>6. call' = call BY <1>7 DEF cddbVars
    <2>7. CallOfFetch' BY <1>1, <1>7, <2>1, <2>2, <2>6 DEF CallOfFetch
    <2> QED BY <2>4, <2>5, <2>7
  <1>8. CASE FetchAlbum
    <2> DEFINE a == Album(Toc[disc])
    <2>1. mpc = "idle" /\ mpc' = "load" /\ album' = a /\ UNCHANGED <<disc, left, file, cddbVars>> BY <1>8 DEF FetchAlbum
    <2>2. Clean(a) BY <1>1, UntitledIsClean
    <2> HIDE DEF a
    <2>3. AlbumInv' /\ OneCutAtMost' BY <1>2, <2>1, <2>2, AlbumStep DEF Unread
    <2>4. CallInv' /\ call' = call BY <1>1, <2>1, SameCall DEF cddbVars
    <2>5. CallOfFetch' BY <1>1, <2>1, <2>4 DEF CallOfFetch
    <2> QED BY <2>3, <2>4, <2>5
  <1>9. CASE Load
    <2> DEFINE read == ReadEntries(album, file.entries)
    <2>1. mpc = "load" /\ UNCHANGED <<disc, cddbVars>> BY <1>9 DEF Load
    <2>2. \/ mpc' = "cacheable" /\ album' = album /\ file' \in {file, NoFile}
          \/ mpc' = "cacheable" /\ Whole(file) /\ ~read.ok /\ file' = NoFile /\ album' = read.album
          \/ mpc' = "served" /\ file' = file
      BY <1>9 DEF Load, NotServed
    <2>3. ASSUME Whole(file), ~DataFirst PROVE read.ok
      <3>1. PICK b : OfDisc(b) /\ file.entries = Entries(b) BY <1>1, <2>3 DEF FetchInv, FileOfDisc
      <3> QED BY <1>1, <2>1, <2>3, <3>1, FileIsRead
    <2> HIDE DEF read
    <2>4. CallInv' /\ call' = call BY <1>1, <2>1, SameCall DEF cddbVars
    <2>5. CallOfFetch' BY <1>1, <2>1, <2>2, <2>4 DEF CallOfFetch
    <2>6. CASE mpc' = "cacheable"
      <3> DEFINE a == album'
                 f == file'
                 l == left'
      <3>1. ~DataFirst => Clean(a) /\ OneCut(a) /\ FewCuts(f.entries)
        BY <1>2, <1>5, <1>6, <2>1, <2>2, <2>3, <2>6
      <3>2. album' = a /\ file' = f /\ left' = l OBVIOUS
      <3> HIDE DEF a, f, l
      <3>3. AlbumInv' /\ OneCutAtMost' BY <2>1, <2>6, <3>1, <3>2, AlbumStep
      <3> QED BY <2>4, <2>5, <3>3
    <2>7. CASE mpc' = "served" /\ file' = file
      <3>1. mpc' \notin Unread \cup {"load"} BY <2>7 DEF Unread
      <3> QED BY <1>7, <2>1, <2>7, <3>1
    <2> QED BY <2>2, <2>6, <2>7
  <1>10. CASE AskMusicBrainz
    <2>1. PICK r \in Releases(Toc[disc]) : Asked("MusicBrainz", Filled(album, r))
      BY <1>10 DEF AskMusicBrainz
    <2>2. mpc = "cacheable" /\ UNCHANGED <<mpc, disc, file, cddbVars>>
      BY <1>10 DEF AskMusicBrainz
    <2> DEFINE a == Filled(album, r)
               l == left'
    <2>3. album' = a /\ ("CDDB" \in l => "CDDB" \in left)
      BY <2>1 DEF Asked
    <2>4. OfDisc(album) /\ r \in OwnDiscs /\ Clean(r)
      BY <1>1, <2>2, ReleasesAreOwn, ReleasesAreClean
    <2>5. (Clean(album) => Clean(a)) /\ (OneCut(album) => OneCut(a))
      BY <1>1, <2>4, FilledCuts
    <2>6. CallInv' /\ call' = call BY <1>1, <2>2, SameCall DEF cddbVars
    <2>7. CallOfFetch' BY <1>1, <2>2, <2>6 DEF CallOfFetch
    <2>8. left' = l OBVIOUS
    <2> HIDE DEF a, l
    <2>9. ~DataFirst => OneCut(a) /\ ("CDDB" \in l => Clean(a)) /\ FewCuts(file.entries)
      BY <1>2, <2>2, <2>3, <2>5 DEF Unread
    <2>10. AlbumInv' /\ OneCutAtMost' BY <2>2, <2>3, <2>8, <2>9, AlbumStep
    <2> QED BY <2>6, <2>7, <2>10
  <1>11. CASE AskCddb
    <2>1. mpc = "cacheable" /\ mpc' = "cddb" /\ "CDDB" \in left /\ CddbBegin(Len(Toc[disc])) /\ UNCHANGED <<disc, album, left, file>>
      BY <1>11 DEF AskCddb, IsNext
    <2>2. CallInv' BY <1>1, <2>1, CallBegins
    <2>3. CallOfFetch' BY <2>1 DEF CallOfFetch
    <2>4. AlbumInv' /\ OneCutAtMost' BY <1>2, <2>1, AlbumStep DEF Unread
    <2> QED BY <2>2, <2>3, <2>4
  <1>12. CASE TakeCddb
    <2> DEFINE a == IF call = "found" THEN Filled(album, dsc) ELSE album
               l == left'
    <2>1. mpc = "cddb" /\ mpc' = "cacheable" /\ CddbEnd /\ UNCHANGED <<disc, file>> /\ album' = a /\ "CDDB" \notin l
      BY <1>12 DEF TakeCddb, Asked
    <2>2. CallInv'
      BY <2>1, NoCall DEF CddbEnd, cddb_disconnect
    <2>3. CallOfFetch'
      BY <2>1 DEF CallOfFetch, CddbEnd
    <2>4. ~DataFirst => OneCut(a) /\ FewCuts(file.entries)
      <3> SUFFICES ASSUME ~DataFirst PROVE OneCut(a) /\ FewCuts(file.entries)
        OBVIOUS
      <3>1. Clean(album) /\ OneCut(album) /\ FewCuts(file.entries) BY <1>1, <1>2, <1>5, <2>1
      <3>2. ASSUME call = "found" PROVE OneCut(Filled(album, dsc))
        <4>1. dsc \in OwnDiscs /\ OneCut(dsc) /\ OfDisc(album) BY <1>1, <2>1, <3>2 DEF CddbInv, CallInv
        <4> QED BY <1>1, <3>1, <4>1, FilledCuts
      <3> QED BY <3>1, <3>2
    <2>5. left' = l OBVIOUS
    <2> HIDE DEF a, l
    <2>6. AlbumInv' /\ OneCutAtMost' BY <2>1, <2>4, <2>5, AlbumStep
    <2> QED BY <2>2, <2>3, <2>6
  <1>13. ASSUME mpc \in Unread \ {"cddb"}, mpc' \in Saving \cup {"served"}, UNCHANGED <<disc, album, left, cddbVars>>,
                ~DataFirst => FewCuts(file'.entries)
         PROVE  CallInv' /\ AlbumInv' /\ CallOfFetch' /\ OneCutAtMost'
    <2> DEFINE f == file'
               m == mpc'
    <2>1. CallInv' /\ call' = call BY <1>1, <1>13, SameCall DEF cddbVars
    <2>2. m \notin {"cacheable", "cddb", "load"} /\ file' = f /\ mpc' = m BY <1>13 DEF Saving
    <2>3. ~DataFirst => OneCut(album) /\ FewCuts(f.entries) BY <1>2, <1>13
    <2> HIDE DEF f, m
    <2>4. AlbumInv' /\ OneCutAtMost' BY <1>13, <2>2, <2>3, AlbumStep
    <2>5. CallOfFetch' BY <1>1, <1>13, <2>1, <2>2 DEF CallOfFetch
    <2> QED BY <2>1, <2>4, <2>5
  <1>14. CASE Collected
    <2>1. mpc \in Unread \ {"cddb"} /\ mpc' \in Saving \cup {"served"} /\ UNCHANGED <<disc, album, left, file, cddbVars>>
      BY <1>14 DEF Collected, Unread, Saving
    <2> QED BY <1>2, <1>13, <2>1
  <1>15. CASE Save
    <2>1. mpc \in Unread \ {"cddb"} /\ mpc \in Saving /\ UNCHANGED <<disc, album, left, cddbVars>>
      BY <1>15 DEF Save, Unread, Saving
    <2>2. mpc' \in Saving \cup {"served"} /\ (~DataFirst => FewCuts(file'.entries))
      <3>1. \/ mpc' = (IF mpc = "part" THEN "served" ELSE Grown(mpc)) /\ Stored(Grown(mpc))
            \/ mpc' = "served" /\ file' \in {file, NoFile}
            \/ mpc' = "served" /\ \E kind \in {"empty", "header", "part"} : Stored(kind)
        BY <1>15 DEF Save
      <3>2. CASE mpc' = "served" /\ file' \in {file, NoFile}
        BY <3>2, <1>2, <1>6
      <3>3. CASE mpc = "part" /\ mpc' = "served" /\ Stored(Grown(mpc))
        <4>1. file'.entries = Entries(album) BY <3>3 DEF Stored, Grown, File
        <4>2. ASSUME ~DataFirst PROVE FewCuts(Entries(album))
          <5>1. OneCut(album) /\ OfDisc(album) BY <1>1, <1>2, <2>1, <3>3, <4>2
          <5> QED BY <1>1, <4>2, <5>1, OneCutIsWritten DEF FewCuts
        <4> QED BY <3>3, <4>1, <4>2
      <3>4. CASE mpc # "part" /\ mpc' = Grown(mpc) /\ Stored(Grown(mpc))
        <4>1. Grown(mpc) \in {"empty", "header", "part"} BY <2>1, <3>4 DEF Grown, Saving
        <4>2. file' = File(Grown(mpc), <<>>) BY <3>4, <4>1 DEF Stored
        <4> QED BY <3>4, <4>1, <4>2, <1>6 DEF Saving
      <3>5. CASE mpc' = "served" /\ \E kind \in {"empty", "header", "part"} : Stored(kind)
        <4>1. PICK kind \in {"empty", "header", "part"} : file' = File(kind, <<>>) BY <3>5 DEF Stored
        <4> QED BY <3>5, <4>1, <1>6
      <3> QED BY <3>1, <3>2, <3>3, <3>4, <3>5
    <2> QED BY <1>13, <2>1, <2>2
  <1>16. CASE GiveArtists \/ AskCdText \/ AskLrcLib \/ AskNetEase \/ AskQQ \/ Fetched
    <2>1. UNCHANGED <<disc, file, cddbVars>> /\ mpc \in {"served", "others"} /\ mpc' \in {"others", "idle"}
      BY <1>16 DEF GiveArtists, AskCdText, AskLrcLib, AskNetEase, AskQQ, AskForLyrics, AskOther, Fetched
    <2>2. mpc # "cddb" /\ mpc' \notin Unread \cup {"load"} BY <2>1 DEF Unread
    <2> QED BY <1>7, <2>1, <2>2
  <1>17. CASE CddbStep /\ UNCHANGED metaVars
    <2>1. UNCHANGED <<mpc, disc, album, left, file>> BY <1>17 DEF metaVars
    <2>2. call # "idle" BY <1>17 DEF CddbStep, Connect, Handshake, QueryReply, QueryList, ReadReply, ReadRecord
    <2>3. CallInv' BY <1>1, <1>17, CallGoesOn
    <2>4. CallOfFetch' BY <1>1, <2>1, <2>2 DEF CallOfFetch
    <2>5. AlbumInv' /\ OneCutAtMost' BY <1>2, <2>1, AlbumStep
    <2> QED BY <2>3, <2>4, <2>5
  <1>18. CASE ClearCache
    <2>1. mpc = "idle" /\ mpc' = mpc /\ UNCHANGED <<disc, cddbVars>> /\ file' \in {NoFile, file}
      BY <1>18 DEF ClearCache
    <2>2. mpc' \notin Unread \cup {"load"} /\ mpc # "cddb" BY <2>1 DEF Unread
    <2>3. FewCuts(file.entries) => FewCuts(file'.entries) BY <2>1, <1>6
    <2> QED BY <1>7, <2>1, <2>2, <2>3
  <1>19. CASE PowerLoss
    <2>1. mpc' = "idle" /\ disc' = disc /\ call' = "idle" /\ inbox' = <<>> /\ hits' = <<>> /\ prs' = ParseBegin
      BY <1>19 DEF PowerLoss
    <2>2. file' = file \/ \E i \in 1 .. 4 : file' = File(FileKinds[i], <<>>)
      BY <1>19 DEF PowerLoss
    <2> DEFINE a == album'
               f == file'
               l == left'
    <2>3. ~DataFirst => FewCuts(f.entries) BY <1>2, <1>6, <2>2
    <2>4. album' = a /\ file' = f /\ left' = l OBVIOUS
    <2> HIDE DEF a, f, l
    <2>5. AlbumInv' /\ OneCutAtMost' BY <2>1, <2>3, <2>4, AlbumStep DEF Unread
    <2>6. CallInv' /\ CallOfFetch' BY <2>1, NoCall DEF CallOfFetch
    <2> QED BY <2>5, <2>6
  <1>20. CASE UNCHANGED discVars
    <2>1. UNCHANGED <<mpc, disc, album, left, file>> /\ UNCHANGED cddbVars BY <1>20 DEF discVars, metaVars
    <2>2. CallInv' /\ call' = call BY <1>1, <2>1, SameCall DEF cddbVars
    <2>3. CallOfFetch' BY <1>1, <2>1, <2>2 DEF CallOfFetch
    <2>4. AlbumInv' /\ OneCutAtMost' BY <1>2, <2>1, AlbumStep
    <2> QED BY <2>2, <2>3, <2>4
  <1> QED BY <1>8, <1>9, <1>10, <1>11, <1>12, <1>14, <1>15, <1>16, <1>17, <1>18, <1>19, <1>20
          DEF DiscNext, FetchStep

\* Of the titles in the file one at most is cut, whatever the servers answer, wherever
\* the connection breaks and whenever the power fails.
THEOREM OneCutIsKept == DiscSpec => []OneCutAtMost
  <1>1. DiscInit => CutInv
    BY CutInit
  <1>2. CutInv /\ [DiscNext]_discVars => CutInv'
    BY CutNext
  <1>3. CutInv => OneCutAtMost
    BY DEF CutInv
  <1> QED BY <1>1, <1>2, <1>3, PTL DEF DiscSpec

-----------------------------------------------------------------------------
(* The end of a fetch *)

\* The phases of a fetch, and of a call, in the order that they are gone through.
Phase == [load |-> 1, cacheable |-> 2, cddb |-> 2, create |-> 3, empty |-> 4, header |-> 5, part |-> 6,
          served |-> 7, others |-> 8]
Stage == [idle |-> 1, connect |-> 2, banner |-> 3, hello |-> 4, proto |-> 5, query |-> 6, list |-> 7,
          read |-> 8, record |-> 9, found |-> 10, failed |-> 10]

\* Later; or with fewer providers, further on in the call, or with fewer lines to read.
EndIsNearer ==
  \/ mpc' = "idle"
  \/ Phase[mpc'] > Phase[mpc]
  \/ Phase[mpc'] = Phase[mpc] /\ left' \subseteq left /\ left' # left
  \/ Phase[mpc'] = Phase[mpc] /\ left' = left
       /\ (Stage[call'] > Stage[call] \/ (call' = call /\ Len(inbox') < Len(inbox)))

\* Nothing that a fetch does can go on for ever: each step ends it or leads to a later
\* phase, or leaves fewer providers to ask, or goes on with the call to the CDDB server,
\* or reads a line of what is there.  No loop over an answer reads on where nothing
\* comes any more.
EachStepLeadsOn == [][mpc # "idle" => EndIsNearer]_discVars

\* What has been read is the line of nothing, or it is fewer lines that are left.
LEMMA LessToRead ==
  ASSUME inbox \in Seq(OwnLines), NEW r \in Reads
  PROVE  r.line.key = "NULL" \/ Len(r.inbox) < Len(inbox)
  <1> DEFINE S == OwnLines
  <1>1. inbox \in Seq(S)
    OBVIOUS
  <1>2. \/ r.line.key = "NULL"
        \/ inbox # <<>> /\ r.inbox = Tail(inbox)
        \/ inbox # <<>> /\ r.inbox = <<>>
    BY ReadCases
  <1> HIDE DEF S
  <1>3. ASSUME inbox # <<>> PROVE Len(inbox) \in Nat /\ Len(inbox) > 0 /\ Len(Tail(inbox)) = Len(inbox) - 1
    BY <1>1, <1>3, HeadTailProperties
  <1> QED BY <1>2, <1>3

\* A step of the call leads to a later stage of it, or reads a line.
LEMMA CallLeadsOn ==
  ASSUME CddbInv, CddbStep
  PROVE  Stage[call'] > Stage[call] \/ (call' = call /\ Len(inbox') < Len(inbox))
  <1>1. inbox \in Seq(OwnLines)
    BY DEF CddbInv
  <1>2. CASE Connect
    BY <1>2 DEF Connect, Stage
  <1>3. CASE Handshake
    <2>1. call \in {"banner", "hello", "proto"} /\ call' \in {"failed", Then(call)} BY <1>3 DEF Handshake
    <2> QED BY <2>1 DEF Then, Stage
  <1>4. CASE QueryReply
    <2>1. call = "query" /\ call' \in {"read", "list", "failed"} BY <1>4 DEF QueryReply
    <2> QED BY <2>1 DEF Stage
  <1>5. CASE QueryList
    <2>1. PICK r \in Reads :
            \/ call' \in {"read", "failed"}
            \/ r.line.key # "NULL" /\ call' = call /\ inbox' = r.inbox
      BY <1>5 DEF QueryList, Keep
    <2>2. call = "list" BY <1>5 DEF QueryList
    <2>3. CASE call' \in {"read", "failed"} BY <2>2, <2>3 DEF Stage
    <2>4. CASE r.line.key # "NULL" /\ call' = call /\ inbox' = r.inbox BY <1>1, <2>4, LessToRead
    <2> QED BY <2>1, <2>3, <2>4
  <1>6. CASE ReadReply
    <2>1. call = "read" /\ call' \in {"record", "failed"} BY <1>6 DEF ReadReply
    <2> QED BY <2>1 DEF Stage
  <1>7. CASE ReadRecord
    <2> DEFINE O(r) == ParseLine(dsc, prs, r.line).outcome
    <2>1. PICK r \in Reads :
            inbox' = r.inbox /\ call' = CASE O(r) = "more" -> "record" [] O(r) = "stop" -> "found" [] OTHER -> "failed"
      BY <1>7 DEF ReadRecord, Keep
    <2>2. ASSUME r.line.key = "NULL" PROVE O(r) = "stop"
      BY <2>2 DEF ParseLine, Parsed
    <2>3. call = "record" BY <1>7 DEF ReadRecord
    <2> HIDE DEF O
    <2>4. CASE O(r) = "more"
      <3>1. r.line.key # "NULL" BY <2>2, <2>4
      <3>2. call' = call BY <2>1, <2>3, <2>4
      <3> QED BY <1>1, <2>1, <3>1, <3>2, LessToRead
    <2>5. CASE O(r) # "more"
      <3>1. call' \in {"found", "failed"} BY <2>1, <2>5
      <3> QED BY <2>3, <3>1 DEF Stage
    <2> QED BY <2>4, <2>5
  <1> QED BY <1>2, <1>3, <1>4, <1>5, <1>6, <1>7 DEF CddbStep

\* The same of the whole fetch.
LEMMA StepLeadsOn ==
  ASSUME FetchInv, CddbInv, CallOfFetch, mpc # "idle", DiscNext
  PROVE  EndIsNearer
  <1>1. CASE FetchAlbum \/ ClearCache
    BY <1>1 DEF FetchAlbum, ClearCache
  <1>2. CASE Load
    <2>1. mpc = "load" /\ mpc' \in {"cacheable", "served"} BY <1>2 DEF Load, NotServed
    <2> QED BY <2>1 DEF EndIsNearer, Phase
  <1>3. CASE AskMusicBrainz
    <2>1. mpc' = mpc /\ "MusicBrainz" \in left BY <1>3 DEF AskMusicBrainz, IsNext
    <2>2. left' = {} \/ left' = left \ {"MusicBrainz"} BY <1>3 DEF AskMusicBrainz, Asked
    <2> QED BY <2>1, <2>2 DEF EndIsNearer
  <1>4. CASE AskCddb
    <2>1. mpc = "cacheable" /\ mpc' = "cddb" /\ left' = left /\ call = "idle" /\ call' \in {"connect", "failed"}
      BY <1>4 DEF AskCddb, CddbBegin
    <2> QED BY <2>1 DEF EndIsNearer, Phase, Stage
  <1>5. CASE TakeCddb
    <2>1. mpc = "cddb" /\ mpc' = "cacheable" /\ "CDDB" \in left BY <1>5 DEF TakeCddb, CallOfFetch
    <2>2. left' = {} \/ left' = left \ {"CDDB"} BY <1>5 DEF TakeCddb, Asked
    <2> QED BY <2>1, <2>2 DEF EndIsNearer, Phase
  <1>6. CASE Collected
    <2>1. mpc = "cacheable" /\ mpc' \in {"create", "served"} BY <1>6 DEF Collected
    <2> QED BY <2>1 DEF EndIsNearer, Phase
  <1>7. CASE Save
    <2>1. mpc \in {"create", "empty", "header", "part"} /\ (mpc' = "served" \/ (mpc # "part" /\ mpc' = Grown(mpc)))
      BY <1>7 DEF Save
    <2> QED BY <2>1 DEF EndIsNearer, Phase, Grown
  <1>8. CASE GiveArtists
    <2>1. mpc = "served" /\ mpc' = "others" BY <1>8 DEF GiveArtists
    <2> QED BY <2>1 DEF EndIsNearer, Phase
  <1>9. CASE AskCdText \/ AskLrcLib \/ AskNetEase \/ AskQQ
    <2>1. PICK provider : AskOther(provider) BY <1>9 DEF AskCdText, AskLrcLib, AskNetEase, AskQQ, AskForLyrics
    <2>2. mpc' = mpc /\ provider \in left /\ left' = left \ {provider} BY <2>1 DEF AskOther, IsNext
    <2> QED BY <2>2 DEF EndIsNearer
  <1>10. CASE Fetched
    BY <1>10 DEF Fetched, EndIsNearer
  <1>11. CASE CddbStep /\ UNCHANGED metaVars
    <2>1. mpc' = mpc /\ left' = left BY <1>11 DEF metaVars
    <2> QED BY <1>11, <2>1, CallLeadsOn DEF EndIsNearer
  <1>12. CASE PowerLoss
    BY <1>12 DEF PowerLoss, EndIsNearer
  <1> QED BY <1>1, <1>2, <1>3, <1>4, <1>5, <1>6, <1>7, <1>8, <1>9, <1>10, <1>11, <1>12 DEF DiscNext, FetchStep

\* No step of a fetch leaves it as far from its end as it was, whatever the servers send or
\* keep back: that a fetch ends is then up to its steps being taken.
THEOREM FetchLeadsOn == DiscSpec => EachStepLeadsOn
  <1>1. DiscInit => CutInv
    BY CutInit
  <1>2. CutInv /\ [DiscNext]_discVars => CutInv'
    BY CutNext
  <1>3. CutInv /\ [DiscNext]_discVars => [mpc # "idle" => EndIsNearer]_discVars
    BY StepLeadsOn DEF CutInv
  <1> QED BY <1>1, <1>2, <1>3, PTL DEF DiscSpec, EachStepLeadsOn

=============================================================================
