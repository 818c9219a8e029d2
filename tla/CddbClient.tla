----------------------------- MODULE CddbClient -----------------------------
(***************************************************************************)
(* lib/cddb as CDDBMetadataProvider uses it: CDDBP over a socket, its own  *)
(* cache off.  One call of cddb_query() and, after a single match, one of  *)
(* cddb_read(): connect, shake hands, query, read the answers line by      *)
(* line, parse the record.                                                 *)
(*                                                                         *)
(* A text is the sequence of its parts; a part is the number of the track  *)
(* it is about (0: the disc) and which part of the text it is: the artist, *)
(* or one of the lines that a long title is split into.  A line is its     *)
(* keyword or response code, its track number and its texts.               *)
(***************************************************************************)
EXTENDS Naturals, Sequences, SequencesExt

VARIABLES
  call,     \* how far the two calls are; at the end "found" or "failed"
  link,     \* the connection: "none", "up", or "eos" when the server has closed it
  inbox,    \* lines that have come in and were not read
  dsc,      \* the cddb_disc_t
  hits,     \* query_data: the discs of a list so far
  prs       \* the locals of cddb_parse_record()

cddbVars == <<call, link, inbox, dsc, hits, prs>>

-----------------------------------------------------------------------------
(* Texts, lines and the entries of the database *)

Artist == 3
CutShort == 0
TitleOf(n) == << <<n, 1>>, <<n, 2>> >>
ArtistOf(n) == << <<n, Artist>> >>

\* A text whose end did not come in.
Cut(text) == IF text = <<>> THEN text ELSE Append(Front(text), <<Last(text)[1], CutShort>>)

Line(key, no, artist, text) == [key |-> key, no |-> no, artist |-> artist, text |-> text]
Plain(key) == Line(key, 0, <<>>, <<>>)
Times(n, line) == [i \in 1 .. n |-> line]
Match == Line("match", 0, ArtistOf(0), TitleOf(0))

Top(n) == <<Plain("Track_frame_offsets")>> \o Times(n, Plain("offset"))
          \o <<Plain("Disc_length"), Plain("Revision")>>
LongTitle(key, no, of) == <<Line(key, no, <<>>, << <<of, 1>> >>), Line(key, no, <<>>, << <<of, 2>> >>)>>
Bottom == <<Plain("PLAYORDER"), Plain(".")>>

\* An entry of n tracks whose titles, the disc's too, are split.
DiscEntry(n) ==
  Top(n) \o <<Line("DTITLE", 0, ArtistOf(0), << <<0, 1>> >>), Line("DTITLE", 0, <<>>, << <<0, 2>> >>),
              Plain("DYEAR"), Plain("DGENRE")>>
  \o FlattenSeq([i \in 1 .. n |-> LongTitle("TTITLE", i - 1, i)])
  \o <<Plain("EXTD")>> \o [i \in 1 .. n |-> Line("EXTT", i - 1, <<>>, <<>>)] \o Bottom

\* A sampler: "artist / title" on the lines of the tracks, the disc named once.
Sampler(n) ==
  Top(n) \o LongTitle("DTITLE", 0, 0)
  \o [i \in 1 .. n |-> Line("TTITLE", i - 1, ArtistOf(i), TitleOf(i))] \o Bottom

\* An entry with the title of a track that is not in it, and one with its notes.
TooManyTitles(n) == Top(n) \o <<Line("DTITLE", 0, ArtistOf(0), TitleOf(0)), Line("TTITLE", n, <<>>, TitleOf(n))>>
TooManyNotes(n) == Top(n) \o <<Line("DTITLE", 0, ArtistOf(0), TitleOf(0)), Line("EXTT", n, <<>>, <<>>)>>

Code(c) == <<Plain(c)>>
Answers(cmd, n) ==
  CASE cmd = "connect" -> {Code("201"), Code("433")}
    [] cmd = "hello" -> {Code("200"), Code("431")}
    [] cmd = "proto" -> {Code("201"), Code("501")}
    [] cmd = "query" -> {<<[Match EXCEPT !.key = "200"]>>, Code("210") \o <<Match>> \o Code("."),
                         Code("211") \o <<Match, Match>> \o Code("."), Code("211") \o Code("."),
                         Code("202"), Code("403")}
    [] cmd = "read" -> {Code("210") \o e : e \in {DiscEntry(n), Sampler(n), TooManyTitles(n), TooManyNotes(n)}}
                       \cup {Code("401")}

-----------------------------------------------------------------------------
(* The socket *)

NoLine == Plain("NULL")

\* Mutant: waits for the next line as long as the connection is up.
NothingAwaited == IF link = "up" THEN {} ELSE {[line |-> NoLine, link |-> link, inbox |-> inbox]}

Nothing == {[line |-> NoLine, link |-> link, inbox |-> inbox]}

\* What cddb_read_line() may return, with what it leaves: the next line; what there
\* was of it when the server closed the connection; nothing, at the end of the
\* stream or when the deadline has passed (lines that are late stay to be read).
Reads ==
  Nothing
  \cup (IF inbox = <<>> THEN {}
        ELSE {[line |-> Head(inbox), link |-> link, inbox |-> Tail(inbox)]}
             \cup {[line |-> l, link |-> "eos", inbox |-> <<>>] :
                     l \in {Plain("junk"), [Head(inbox) EXCEPT !.text = Cut(@)]}})

\* What comes in after a command was written: its answer; nothing when the server keeps
\* silent or has closed the connection, or when the command did not get out before its
\* deadline.
WrittenFrom(cmd, from) ==
  {from.inbox} \cup (IF from.link = "up" THEN {from.inbox \o a : a \in Answers(cmd, Len(dsc.tracks))} ELSE {})

\* cddb_send_cmd() does not look at what became of the writing.
Send(cmd, from) == link' = from.link /\ inbox' \in WrittenFrom(cmd, from)

\* The name of the server is found or not.
timeout_gethostbyname == BOOLEAN

\* The connection stands or not.  What could not be tried at all is taken for one that
\* stands; nothing comes in then, as from a silent server.
timeout_connect == {"up", "none"}

Keep(r) == link' = r.link /\ inbox' = r.inbox

-----------------------------------------------------------------------------
(* cddb_parse_record() *)

Sections == <<"Track_frame_offsets", "offset", "Disc_length", "Revision", "DTITLE", "DYEAR", "DGENRE",
              "TTITLE", "EXTD", "EXTT", "PLAYORDER", ".">>
SectionNo(key) == CHOOSE i \in DOMAIN Sections : Sections[i] = key

\* The section that is expected after a line of another one.
Following(key) ==
  CASE key \in {"offset", "DTITLE", "TTITLE", "EXTD", "EXTT"} -> SectionNo(key)
    [] key = "PLAYORDER" -> SectionNo(".")
    [] OTHER -> SectionNo(key) + 1

NoTrack == [title |-> <<>>, artist |-> <<>>]

\* cddb_disc_add_track() n times, and whether there is a track of this number.
AddTracks(d, n) == [d EXCEPT !.tracks = @ \o Times(n, NoTrack)]
HasTrack(d, no) == no < Len(d.tracks)

AppendTitle(x, text) == [x EXCEPT !.title = @ \o text]
AppendArtist(x, text) == [x EXCEPT !.artist = @ \o text]

ParseBegin == [at |-> 1, count |-> 0, multi |-> "NONE", old |-> 99]
Parsed(d, p, outcome) == [dsc |-> d, prs |-> p, outcome |-> outcome]

OffsetLine(d, p) ==
  Parsed(IF HasTrack(d, p.count) THEN d ELSE AddTracks(d, 1), [p EXCEPT !.count = @ + 1], "more")

DiscTitleLine(d, p, l) ==
  LET fresh == IF p.multi = "NONE" THEN [d EXCEPT !.artist = <<>>, !.title = <<>>] ELSE d
  IN  IF l.artist # <<>>
      THEN Parsed(AppendTitle(AppendArtist(fresh, l.artist), l.text), [p EXCEPT !.multi = "TITLE"], "more")
      ELSE IF p.multi = "TITLE"
           THEN Parsed(AppendTitle(fresh, l.text), p, "more")
           ELSE Parsed(AppendArtist(fresh, l.text), [p EXCEPT !.multi = "ARTIST"], "more")

\* The first line after the disc's title: a title without an artist is both.
DiscTitleEnds(d) == IF d.artist # <<>> /\ d.title = <<>> THEN [d EXCEPT !.title = d.artist] ELSE d

\* Mutant: a line begins the title anew.
TitledAnew(t, l) == [t EXCEPT !.title = l.text]

\* A track with one more line of its title; what stood before a " / " on the lines so
\* far was the artist.
Titled(t, l) ==
  IF l.artist = <<>> THEN AppendTitle(t, l.text)
  ELSE [title |-> l.text, artist |-> t.title \o l.artist]

TrackTitleLine(d, p, l) ==
  LET i == l.no + 1
      t == IF l.no # p.old THEN NoTrack ELSE d.tracks[i]
  IN  IF ~HasTrack(d, l.no) THEN Parsed(d, p, "bad")
      ELSE Parsed([d EXCEPT !.tracks[i] = Titled(t, l)],
                  [p EXCEPT !.at = SectionNo("TTITLE"), !.old = l.no,
                            !.multi = IF l.artist # <<>> THEN "TITLE" ELSE IF l.no # p.old THEN "ARTIST" ELSE @], "more")

\* One line in the sections from the disc's title on: it belongs to the expected one
\* or to one after that, or it is of none.
BodyLine(d, p, l) ==
  LET known == \E i \in p.at .. Len(Sections) : Sections[i] = l.key
      past == [p EXCEPT !.multi = "NONE", !.old = 99]
  IN  CASE known /\ l.key = "DTITLE" -> DiscTitleLine(d, p, l)
        [] known /\ l.key = "TTITLE" -> TrackTitleLine(d, p, l)
        [] known /\ l.key = "EXTT" /\ ~HasTrack(d, l.no) -> Parsed(d, past, "bad")
        [] known /\ l.key = "." -> Parsed(d, past, "stop")
        [] known /\ l.key \notin {"DTITLE", "TTITLE", "."} /\ (l.key = "EXTT" => HasTrack(d, l.no)) ->
             Parsed(d, [past EXCEPT !.at = Following(l.key)], "more")
        [] OTHER -> Parsed(d, past, "more")

ParseLine(d, p, l) ==
  LET at == IF p.at = SectionNo("offset") /\ l.key # "offset" THEN p.at + 1 ELSE p.at
      q == [p EXCEPT !.at = at]
  IN  CASE l.key = "NULL" -> Parsed(d, p, "stop")         \* "change state to STOP if end of stream reached"
        [] l.key # "NULL" /\ at = SectionNo("offset") -> OffsetLine(d, q)
        [] l.key # "NULL" /\ at < SectionNo("DTITLE") /\ at # SectionNo("offset") ->
             Parsed(d, IF l.key = Sections[at] THEN [q EXCEPT !.at = at + 1] ELSE q, "more")
        [] l.key \notin {"NULL", "DTITLE"} /\ at = SectionNo("DTITLE") ->
             IF p.multi = "NONE" THEN Parsed(d, q, "more") ELSE BodyLine(DiscTitleEnds(d), q, l)
        [] OTHER -> BodyLine(d, q, l)

-----------------------------------------------------------------------------
(* cddb_query() and cddb_read() *)

NoDisc == [title |-> <<>>, artist |-> <<>>, tracks |-> <<>>]

CddbInit ==
  /\ call = "idle" /\ link = "none" /\ inbox = <<>>
  /\ dsc = NoDisc /\ hits = <<>> /\ prs = ParseBegin

\* cddb_disc_calc_discid(): the number of tracks is its last byte.
HasDiscId(n) == n # 0

\* cddb_new(), a disc with n tracks, cddb_query() up to the connection.
CddbBegin(n) ==
  /\ call = "idle"
  /\ call' = IF HasDiscId(n) THEN "connect" ELSE "failed"
  /\ dsc' = AddTracks(NoDisc, n)
  /\ UNCHANGED <<link, inbox, hits, prs>>

Connect ==
  /\ call = "connect"
  /\ UNCHANGED <<dsc, hits, prs>>
  /\ \E known \in timeout_gethostbyname, to \in timeout_connect :
       IF known /\ to = "up"
       THEN call' = "banner" /\ Send("connect", [link |-> to, inbox |-> inbox])
       ELSE call' = "failed" /\ UNCHANGED <<link, inbox>>

Then(stage) == CASE stage = "banner" -> "hello" [] stage = "hello" -> "proto" [] stage = "proto" -> "query"

\* A stage of the handshake: an unknown code counts as consent.  After the last one
\* the query goes out.
Handshake ==
  /\ call \in {"banner", "hello", "proto"}
  /\ \E r \in Reads :
       IF \/ r.line.key \in {"NULL", "junk"}
          \/ call = "banner" /\ r.line.key \in {"432", "433", "434"}
          \/ call = "hello" /\ r.line.key = "431"
       THEN call' = "failed" /\ Keep(r)
       ELSE call' = Then(call) /\ Send(Then(call), r)
  /\ UNCHANGED <<dsc, hits, prs>>

Named(d, match) == [d EXCEPT !.artist = match.artist, !.title = match.text]

\* The answer to the query: a match, the head of a list, or none.  CDDBMetadataProvider
\* goes on only with one match.
QueryReply ==
  /\ call = "query"
  /\ \E r \in Reads :
       CASE r.line.key = "200" -> dsc' = Named(dsc, r.line) /\ call' = "read" /\ Send("read", r)
         [] r.line.key \in {"210", "211"} -> call' = "list" /\ Keep(r) /\ UNCHANGED dsc
         [] OTHER -> call' = "failed" /\ Keep(r) /\ UNCHANGED dsc
  /\ UNCHANGED <<hits, prs>>

Copied(old, new) == IF new = <<>> THEN old ELSE new

\* What the source has is put over what the disc had; a clone has as many tracks.
cddb_track_copy(dst, src) == [title |-> Copied(dst.title, src.title), artist |-> Copied(dst.artist, src.artist)]
cddb_disc_copy(dst, src) ==
  [title |-> Copied(dst.title, src.title), artist |-> Copied(dst.artist, src.artist),
   tracks |-> [i \in DOMAIN dst.tracks |-> cddb_track_copy(dst.tracks[i], src.tracks[i])]]

\* A match of a list is noted as a clone of the disc, by its name.
Noted(match) == Append(hits, Named(dsc, match))

\* The list ends at its dot, or when nothing comes any more.
QueryList ==
  /\ call = "list"
  /\ UNCHANGED prs
  /\ \E r \in Reads :
       IF r.line.key \in {"NULL", "."}
       THEN /\ UNCHANGED hits
            /\ dsc' = IF hits = <<>> THEN dsc ELSE cddb_disc_copy(dsc, hits[1])
            /\ IF Len(hits) = 1 THEN call' = "read" /\ Send("read", r) ELSE call' = "failed" /\ Keep(r)
       ELSE /\ Keep(r)
            /\ UNCHANGED dsc
            /\ IF r.line.key = "match" THEN hits' = Noted(r.line) /\ UNCHANGED call
               ELSE call' = "failed" /\ UNCHANGED hits

ReadReply ==
  /\ call = "read"
  /\ \E r \in Reads : call' = (IF r.line.key = "210" THEN "record" ELSE "failed") /\ Keep(r)
  /\ UNCHANGED <<dsc, hits, prs>>

ReadRecord ==
  /\ call = "record"
  /\ UNCHANGED hits
  /\ \E r \in Reads :
       LET x == ParseLine(dsc, prs, r.line)
       IN  /\ Keep(r)
           /\ dsc' = x.dsc
           /\ prs' = x.prs
           /\ call' = CASE x.outcome = "more" -> "record" [] x.outcome = "stop" -> "found" [] OTHER -> "failed"

cddb_disconnect == link' = "none" /\ inbox' = <<>>

\* cddb_disc_destroy(), cddb_destroy()
CddbEnd ==
  /\ call \in {"found", "failed"}
  /\ call' = "idle"
  /\ cddb_disconnect
  /\ dsc' = NoDisc /\ hits' = <<>> /\ prs' = ParseBegin

CddbStep == Connect \/ Handshake \/ QueryReply \/ QueryList \/ ReadReply \/ ReadRecord

=============================================================================
