------------------------------ MODULE MCAlbum ------------------------------
(***************************************************************************)
(* What is about the albums and the listener, each part by itself: the     *)
(* fetch of the metadata, the file of the lyrics and their player, the     *)
(* scrobbler, the menus, the update that is one of them, the screen of the *)
(* Bluetooth mode.  They share no variable: which one moves is chosen at   *)
(* the beginning, and the others stay as they begin.                       *)
(***************************************************************************)
EXTENDS DiscMetadata, LyricPlayer, Scrobbler, Menus, FirmwareUpdate, LrcLines, BluetoothScreen, TLC

VARIABLE part  \* the one that moves

CONSTANTS album3, album2, mixed  \* discs: with audio alone, with a track of data first

Tracks(data) == [i \in DOMAIN data |-> [no |-> i, data |-> data[i]]]
MCToc == album3 :> Tracks(<<FALSE, FALSE, FALSE>>) @@ album2 :> Tracks(<<FALSE, FALSE>>)
         @@ mixed :> Tracks(<<TRUE, FALSE>>)
MCSettings == {{"cache", "CDDB", "MusicBrainz", "CDText", "LrcLib"}, {"cache", "CDDB"}, {"CDDB", "QQ", "NetEase"}}

\* The third line of a song begins when the second does.
MCLyrics == <<1, 2, 2>>
\* A track that is long enough to be scrobbled, and one that is not.
MCFullTime == 1 :> 4 @@ 2 :> 1
\* Three seconds, in a minute and at its end, written to no fraction, to tenths, hundredths
\* and thousandths.
MCStamps == [min : {0}, sec : {1, 59}, frac : {<<>>, <<9>>, <<0, 5>>, <<5, 0, 0>>, <<0, 5, 0>>}]
            \cup {[min |-> 1, sec |-> 0, frac |-> <<0, 0>>]}
MCMoreStamps == {s \in MCStamps : s.frac = <<0, 0>>}
MCLetters == "NUM_2" :> [upper |-> <<1, 2>>, lower |-> <<3, 4>>]

albumVars == <<part, discVars, lyricVars, scrobblerVars, menuVars, fvuVars, lrcVars, btVars>>

AlbumInit ==
  /\ part \in {"fetch", "lyrics", "scrobbler", "menus", "update", "file of lyrics", "bluetooth"}
  /\ DiscInit /\ LyricInit /\ ScrobblerInit /\ MenusInit /\ FvuInit /\ LrcInit /\ BtInit
  /\ part # "fetch" => disc = mixed /\ file = NoFile /\ enabled = {"cache", "CDDB"}
  /\ part # "lyrics" => inDrive = mixed
  /\ part # "menus" => pref = <<>>
  /\ part # "bluetooth" => ~cur_sts

AlbumNext ==
  /\ UNCHANGED part
  /\ \/ part = "fetch" /\ DiscNext
        /\ UNCHANGED <<lyricVars, scrobblerVars, menuVars, fvuVars, lrcVars, btVars>>
     \/ part = "lyrics" /\ LyricNext
        /\ UNCHANGED <<discVars, scrobblerVars, menuVars, fvuVars, lrcVars, btVars>>
     \/ part = "scrobbler" /\ ScrobblerNext
        /\ UNCHANGED <<discVars, lyricVars, menuVars, fvuVars, lrcVars, btVars>>
     \/ part = "menus" /\ MenusNext
        /\ UNCHANGED <<discVars, lyricVars, scrobblerVars, fvuVars, lrcVars, btVars>>
     \/ part = "update" /\ FvuNext
        /\ UNCHANGED <<discVars, lyricVars, scrobblerVars, menuVars, lrcVars, btVars>>
     \/ part = "file of lyrics" /\ LrcNext
        /\ UNCHANGED <<discVars, lyricVars, scrobblerVars, menuVars, fvuVars, btVars>>
     \/ part = "bluetooth" /\ BtNext
        /\ UNCHANGED <<discVars, lyricVars, scrobblerVars, menuVars, fvuVars, lrcVars>>

\* The fairness of DiscSpec and of ScrobblerSpec, of the part that moves.
AlbumSpec ==
  /\ AlbumInit
  /\ [][AlbumNext]_albumVars
  /\ WF_discVars(part = "fetch" /\ FetchStep)
  /\ WF_scrobblerVars(part = "scrobbler" /\ SenderStep)

=============================================================================
