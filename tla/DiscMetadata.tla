---------------------------- MODULE DiscMetadata ----------------------------
(***************************************************************************)
(* What the metadata task does with one album: CachingMetadataAggregate-   *)
(* Provider::fetch_album() with its cache file and its providers, among    *)
(* them the CDDB client.  Power may fail at any step.  The servers of      *)
(* MusicBrainz and of the lyrics, the file system and the text on the disc *)
(* are outside: they answer as the code is prepared for.  Albums of other  *)
(* discs have other files: one disc comes up again and again.              *)
(***************************************************************************)
EXTENDS CddbClient, FiniteSets

CONSTANTS
  Discs,      \* the discs there are
  Toc,        \* disc -> its tracks: number, and whether it is data
  Settings    \* the sets of features that the preferences may switch on

Order == <<"CDText", "MusicBrainz", "CDDB", "LrcLib", "NetEase", "QQ">>
Cacheable == {"MusicBrainz", "CDDB"}

ASSUME MetadataAssumption ==
  /\ Toc \in [Discs -> Seq([no : Nat, data : BOOLEAN])]
  /\ \A d \in Discs : Toc[d] # <<>> /\ \A i \in DOMAIN Toc[d] : Toc[d][i].no = i
  /\ \A s \in Settings : s \subseteq {Order[i] : i \in DOMAIN Order} \cup {"cache"}

VARIABLES
  enabled,    \* the features that the CD mode was made with
  mpc,        \* where fetch_album() is
  disc,       \* the disc
  album,      \* the album
  left,       \* the providers that the loop still has to ask
  file        \* its file in the cache

metaVars == <<enabled, mpc, disc, album, left, file>>
discVars == <<metaVars, cddbVars>>

-----------------------------------------------------------------------------
(* Albums *)

\* Album(toc): the audio tracks of the disc, without any text.
AddAudio(tracks, t) ==
  IF t.data THEN tracks ELSE Append(tracks, [no |-> t.no, title |-> <<>>, artist |-> <<>>, lyrics |-> "none"])

Album(toc) == [title |-> <<>>, artist |-> <<>>, tracks |-> FoldLeft(AddAudio, <<>>, toc)]

is_metadata_good_for_caching(a) == a.title # <<>> /\ \A i \in DOMAIN a.tracks : a.tracks[i].title # <<>>
is_metadata_complete(a) == is_metadata_good_for_caching(a) /\ a.artist # <<>>

Fill(old, new) == IF old = <<>> THEN new ELSE old
\* A track's artist who is the album's is not noted (CDDB and MusicBrainz).
FillArtist(old, new, main) == IF old = <<>> /\ new # main THEN new ELSE old

\* What a provider knows put where there is nothing yet: its i-th track is taken for
\* the i-th of the album.
Filled(a, from) ==
  LET main == Fill(a.artist, from.artist)
  IN  [title |-> Fill(a.title, from.title), artist |-> main,
       tracks |-> [i \in DOMAIN a.tracks |->
                     IF i > Len(from.tracks) THEN a.tracks[i]
                     ELSE [a.tracks[i] EXCEPT !.title = Fill(@, from.tracks[i].title),
                                              !.artist = FillArtist(@, from.tracks[i].artist, main)]]]

-----------------------------------------------------------------------------
(* The cache file *)

FileKinds == <<"none", "empty", "header", "part", "full", "foreign">>
File(kind, entries) == [kind |-> kind, entries |-> entries]
NoFile == File("none", <<>>)

_entry_to_vec(no, artist, title) ==
  (IF artist = <<>> THEN <<>> ELSE <<[kind |-> "artist", no |-> no, text |-> artist]>>)
  \o (IF title = <<>> THEN <<>> ELSE <<[kind |-> "title", no |-> no, text |-> title]>>)

Entries(a) ==
  _entry_to_vec(0, a.artist, a.title)
  \o FlattenSeq([i \in DOMAIN a.tracks |-> _entry_to_vec(a.tracks[i].no, a.tracks[i].artist, a.tracks[i].title)])

\* Mutant: takes the header for the content.
WholeHeader(f) == f.kind \in {"header", "part", "full"}

\* What the header and the checks of populate_from_cache() let pass: a file whose
\* content is all there.
Whole(f) == f.kind = "full"

\* The loop over the entries of a file: the track's number is taken for its place in
\* the album.
ReadEntry(acc, e) ==
  CASE ~acc.ok -> acc
    [] acc.ok /\ e.no = 0 /\ e.kind = "artist" -> [acc EXCEPT !.album.artist = e.text]
    [] acc.ok /\ e.no = 0 /\ e.kind = "title" -> [acc EXCEPT !.album.title = e.text]
    [] acc.ok /\ e.no > Len(acc.album.tracks) -> [acc EXCEPT !.ok = FALSE]
    [] acc.ok /\ e.no \in DOMAIN acc.album.tracks /\ e.kind = "artist" -> [acc EXCEPT !.album.tracks[e.no].artist = e.text]
    [] OTHER -> [acc EXCEPT !.album.tracks[e.no].title = e.text]

ReadEntries(a, entries) == FoldLeft(ReadEntry, [ok |-> TRUE, album |-> a], entries)

-----------------------------------------------------------------------------
(* The text on the disc *)

End == <<0, 8>>
Same == <<0, 9>>
Pack(seq, kind, no, payload) == [seq |-> seq, ok |-> TRUE, kind |-> kind, no |-> no, payload |-> payload]

\* The packs of a disc with n tracks: a title ends in the pack after the one that it
\* begins in; the artist of every track is that of the disc.
Packs(n) ==
  [i \in 1 .. n + 1 |->
     LET k == i - 1 IN
     Pack(k, "TITLE", k, (IF k = 0 THEN << <<0, 1>> >> ELSE <<>>) \o << <<k, 2>>, End>>
                         \o (IF k = n THEN <<>> ELSE << <<k + 1, 1>> >>))]
  \o <<Pack(n + 1, "ARTIST", 0, ArtistOf(0) \o <<End>> \o FlattenSeq([i \in 1 .. n |-> <<Same, End>>]))>>

\* As it may be read: not at all, whole, with one pack that is broken (or of another
\* block or alphabet), or with one missing.
Subchannels(n) ==
  {<<>>, Packs(n)}
  \cup {[Packs(n) EXCEPT ![i].ok = FALSE] : i \in 1 .. n + 2}
  \cup {SubSeq(Packs(n), 1, i - 1) \o SubSeq(Packs(n), i + 1, n + 2) : i \in 1 .. n + 2}

\* One character of a payload; what is beyond the last track is skipped.
Char(acc, c) ==
  CASE acc.no >= Len(acc.texts) -> acc
    [] acc.no < Len(acc.texts) /\ c = End -> [acc EXCEPT !.no = @ + 1]
    [] acc.no < Len(acc.texts) /\ c = Same /\ acc.no > 0 -> [acc EXCEPT !.texts[acc.no + 1] = acc.texts[acc.no]]
    [] OTHER -> [acc EXCEPT !.texts[acc.no + 1] = Append(@, c)]

\* Mutant: a pack begins after the track that it names.
ReadPackNext(acc, p) ==
  LET texts == FoldLeft(Char, [no |-> p.no + 1, texts |-> acc[p.kind]], p.payload).texts
  IN  CASE acc.over \/ p.seq # acc.seq -> [acc EXCEPT !.over = TRUE]
        [] ~acc.over /\ p.seq = acc.seq /\ ~p.ok -> [acc EXCEPT !.seq = @ + 1]
        [] OTHER -> [acc EXCEPT !.seq = @ + 1, ![p.kind] = texts]

\* A pack begins with the track that it names.
ReadPack(acc, p) ==
  LET texts == FoldLeft(Char, [no |-> p.no, texts |-> acc[p.kind]], p.payload).texts
  IN  CASE acc.over \/ p.seq # acc.seq -> [acc EXCEPT !.over = TRUE]
        [] ~acc.over /\ p.seq = acc.seq /\ ~p.ok -> [acc EXCEPT !.seq = @ + 1]
        [] OTHER -> [acc EXCEPT !.seq = @ + 1, ![p.kind] = texts]

CdText(a, packs) ==
  LET none == [i \in 1 .. Len(a.tracks) + 1 |-> <<>>]
      read == FoldLeft(ReadPack, [over |-> FALSE, seq |-> 0, TITLE |-> none, ARTIST |-> none], packs)
      main == read.ARTIST[1]
  IN  IF a.tracks = <<>> \/ packs = <<>> THEN a
      ELSE [title |-> Fill(a.title, read.TITLE[1]), artist |-> Fill(a.artist, main),
            tracks |-> [i \in DOMAIN a.tracks |->
                          [a.tracks[i] EXCEPT !.title = Fill(@, read.TITLE[i + 1]),
                                              !.artist = FillArtist(@, read.ARTIST[i + 1], main)]]]

-----------------------------------------------------------------------------
(* The servers *)

\* MusicBrainz: no usable answer, a release without this medium or without a title, or
\* one with the first so many audio tracks of the disc.
Releases(toc) ==
  LET audio == Album(toc).tracks
      known(k) == [i \in 1 .. k |-> [title |-> TitleOf(audio[i].no), artist |-> ArtistOf(IF i = 1 THEN 0 ELSE i)]]
  IN  {NoDisc} \cup {[title |-> t, artist |-> ArtistOf(0), tracks |-> known(k)] : t \in {<<>>, TitleOf(0)}, k \in 0 .. Len(audio)}

\* A lyrics provider asks for the tracks that have a title and no lyrics yet.
WithLyrics(a, provider, found) ==
  [a EXCEPT !.tracks = [i \in DOMAIN @ |->
     IF a.tracks[i].lyrics = "none" /\ a.tracks[i].title # <<>> /\ i \in found
     THEN [a.tracks[i] EXCEPT !.lyrics = provider] ELSE a.tracks[i]]]

-----------------------------------------------------------------------------
(* fetch_album() *)

Providers(cacheable) ==
  {p \in {Order[i] : i \in DOMAIN Order} : p \in enabled /\ (p \in Cacheable) = cacheable}

\* The next one that the loop comes to.
IsNext(provider) ==
  /\ provider \in left
  /\ \A i, j \in DOMAIN Order : Order[i] = provider /\ Order[j] \in left => i <= j

NoAlbum == [title |-> <<>>, artist |-> <<>>, tracks |-> <<>>]

\* An album comes from the player's queue.
FetchAlbum ==
  /\ mpc = "idle"
  /\ mpc' = "load"
  /\ album' = Album(Toc[disc])
  /\ UNCHANGED <<enabled, disc, left, file, cddbVars>>

NotServed ==
  /\ mpc' = "cacheable"
  /\ left' = Providers(TRUE)

\* populate_from_cache(): no file, a file that is broken or cannot be unpacked, an
\* entry that is of no track, or all of it.
Load ==
  /\ mpc = "load"
  /\ UNCHANGED <<enabled, disc, cddbVars>>
  /\ LET read == ReadEntries(album, file.entries)
     IN  \/ file.kind = "none" /\ NotServed /\ UNCHANGED <<album, file>>
         \/ file.kind # "none" /\ file' = NoFile /\ NotServed /\ UNCHANGED album
         \/ Whole(file) /\ ~read.ok /\ file' = NoFile /\ NotServed /\ album' = read.album
         \/ Whole(file) /\ read.ok /\ mpc' = "served" /\ album' = read.album /\ UNCHANGED <<left, file>>

Asked(provider, a) ==
  /\ album' = a
  /\ left' = IF is_metadata_complete(a) THEN {} ELSE left \ {provider}

AskMusicBrainz ==
  /\ mpc = "cacheable" /\ IsNext("MusicBrainz")
  /\ \E r \in Releases(Toc[disc]) : Asked("MusicBrainz", Filled(album, r))
  /\ UNCHANGED <<enabled, mpc, disc, file, cddbVars>>

AskCddb ==
  /\ mpc = "cacheable" /\ IsNext("CDDB")
  /\ mpc' = "cddb"
  /\ CddbBegin(Len(Toc[disc]))
  /\ UNCHANGED <<enabled, disc, album, left, file>>

TakeCddb ==
  /\ mpc = "cddb"
  /\ CddbEnd
  /\ mpc' = "cacheable"
  /\ Asked("CDDB", IF call = "found" THEN Filled(album, dsc) ELSE album)
  /\ UNCHANGED <<enabled, disc, file>>

\* The loop is over: save_to_cache(), if there is something to save.
Collected ==
  /\ mpc = "cacheable" /\ left = {}
  /\ mpc' = IF is_metadata_good_for_caching(album) /\ "cache" \in enabled THEN "create" ELSE "served"
  /\ UNCHANGED <<enabled, disc, album, left, file, cddbVars>>

\* What follows the file's creation, header and content; the size of the content is
\* in the header, so that a file that was cut off is seen to be.
Grown(kind) == CASE kind = "create" -> "empty" [] kind = "empty" -> "header"
                 [] kind = "header" -> "part" [] kind = "part" -> "full"

Stored(kind) == file' = File(kind, IF kind = "full" THEN Entries(album) ELSE <<>>)

\* save_to_cache(), write by write; what fails to be written takes the file with it.
\* Whether fclose() could write what was still in its buffer nobody looks at.
Save ==
  /\ mpc \in {"create", "empty", "header", "part"}
  /\ \/ mpc' = (IF mpc = "part" THEN "served" ELSE Grown(mpc)) /\ Stored(Grown(mpc))
     \/ mpc = "create" /\ mpc' = "served" /\ UNCHANGED file
     \/ mpc # "create" /\ mpc' = "served" /\ file' = NoFile
     \/ mpc = "part" /\ mpc' = "served" /\ \E kind \in {"empty", "header", "part"} : Stored(kind)
  /\ UNCHANGED <<enabled, disc, album, left, cddbVars>>

\* A track without an artist is by the album's.
OfAlbum(track, main) == [track EXCEPT !.artist = Fill(@, main)]

\* The artists; then the rest of the providers.
GiveArtists ==
  /\ mpc = "served"
  /\ mpc' = "others"
  /\ album' = [album EXCEPT !.tracks = [i \in DOMAIN @ |-> OfAlbum(album.tracks[i], album.artist)]]
  /\ left' = Providers(FALSE)
  /\ UNCHANGED <<enabled, disc, file, cddbVars>>

AskOther(provider) ==
  /\ mpc = "others" /\ IsNext(provider)
  /\ left' = left \ {provider}
  /\ UNCHANGED <<enabled, mpc, disc, file, cddbVars>>

AskCdText == AskOther("CDText") /\ \E packs \in Subchannels(Len(Toc[disc])) : album' = CdText(album, packs)

\* Track by track, so that some are found and others not.
AskForLyrics(provider) ==
  AskOther(provider) /\ \E found \in SUBSET DOMAIN album.tracks : album' = WithLyrics(album, provider, found)

\* One request for each track; a search and a request; the same.
AskLrcLib == AskForLyrics("LrcLib")
AskNetEase == AskForLyrics("NetEase")
AskQQ == AskForLyrics("QQ")

Fetched ==
  /\ mpc = "others" /\ left = {}
  /\ mpc' = "idle"
  /\ album' = NoAlbum
  /\ UNCHANGED <<enabled, disc, left, file, cddbVars>>

FetchStep ==
  \/ Load \/ AskMusicBrainz \/ AskCddb \/ TakeCddb \/ Collected \/ Save \/ GiveArtists
  \/ AskCdText \/ AskLrcLib \/ AskNetEase \/ AskQQ \/ Fetched
  \/ CddbStep /\ UNCHANGED metaVars

\* clear_cddb_cache(), from the menu of the settings, where no fetch is on its way any
\* more; what cannot be removed stays.
ClearCache ==
  /\ mpc = "idle"
  /\ file' \in {NoFile, file}
  /\ UNCHANGED <<enabled, mpc, disc, album, left, cddbVars>>

\* Power fails: of a file that is being written there is what has got to the flash.
PowerLoss ==
  /\ mpc' = "idle" /\ album' = NoAlbum /\ left' = {}
  /\ call' = "idle" /\ link' = "none" /\ inbox' = <<>> /\ dsc' = NoDisc /\ hits' = <<>> /\ prs' = ParseBegin
  /\ IF mpc \in {"empty", "header", "part"}
     THEN \E i \in 1 .. 4 : /\ \E j \in i .. 4 : FileKinds[j] = mpc
                            /\ file' = File(FileKinds[i], <<>>)
     ELSE UNCHANGED file
  /\ enabled' \in Settings
  /\ UNCHANGED disc

DiscInit ==
  /\ enabled \in Settings
  /\ mpc = "idle"
  /\ disc \in Discs
  /\ album = NoAlbum /\ left = {}
  /\ file \in {NoFile, File("foreign", <<>>)}
  /\ CddbInit

DiscNext == FetchAlbum \/ FetchStep \/ ClearCache \/ PowerLoss

DiscSpec == DiscInit /\ [][DiscNext]_discVars /\ WF_discVars(FetchStep)

-----------------------------------------------------------------------------
(* Properties *)

\* A title that an album has for a track is the title of that track, from whichever
\* providers and the cache it was put together; so for the discs whose numbers are
\* their places in the album, those where no track of data comes before one of audio.
DataFirst == \E i, j \in DOMAIN Toc[disc] : i < j /\ Toc[disc][i].data /\ ~Toc[disc][j].data
OwnText(text, no) == \A i \in DOMAIN text : text[i][1] = no
TitlesOfOwnTrack ==
  ~DataFirst => \A i \in DOMAIN album.tracks : OwnText(album.tracks[i].title, album.tracks[i].no)

\* Of the titles that go to the cache, and are shown for ever after, one at most is
\* not the whole title: a record that breaks off counts as read, but what is cut is
\* its last line.
WholeText(text) == text = TitleOf(text[1][1])
OneCutAtMost ==
  ~DataFirst =>
    LET titles == {i \in DOMAIN file.entries : file.entries[i].kind = "title"}
    IN  Cardinality({i \in titles : ~WholeText(file.entries[i].text)}) <= 1

\* What is served from the cache is as good as what may be put there, wherever the
\* power failed while it was written.
ServedWhole == mpc = "served" /\ Whole(file) => is_metadata_good_for_caching(album)

\* A fetch ends, whatever the servers do: they may be silent or close the connection
\* at any line.
FetchEnds == (mpc # "idle") ~> (mpc = "idle")

=============================================================================
