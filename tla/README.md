# Verification of the ESPer CD player firmware

`firm/` is the firmware of an ESP32 board that turns an ATAPI CD drive into a CD player with
internet radio and Bluetooth. This directory holds TLA+ models of its components, the TLC runs
that check them, and TLAPS proofs about them. Paths below are relative to the repository.

## The system

FreeRTOS tasks (priority, core): the Arduino loop task runs `ModeHost::loop()`, called the UI
task here; `APPHOST` draws; `KEYP` polls the keypad and the infrared remote; inside the CD mode
`CDPoll` (5) and `CDMeta` (1), and `SCROBBLE` (1); inside the radio mode `IRANET` (8) and
`IRADEC` (4). They share memory and binary semaphores; there are no message queues of the
operating system.

| Component | State | Operations | Meets | What is hard | What makes it correct |
|---|---|---|---|---|---|
| CD player `lib/espercdp/src/player.cpp` | the state machine `sts`, slots with their albums, auto-play, shuffle history, two semaphores, the metadata queue | `poll_state`, `process_metadata_queue`, `do_command`, `navigate_to_track`, `set_play_mode`, setup and teardown | the drive (commands, samples), the UI, the metadata pipeline | three tasks; calls without the lock; samples that are stale when used; a drive with its own buttons and tray | a state that plays has an album; nothing starts, skips or stops that should not; locks come free; leaving works |
| ATAPI device `lib/espercdp/src/atapi.cpp` | device semaphore, last answers, quirks | one method per packet command, `read_toc`, `wait_ready` | IDE bus, player, mode host | unbounded waits, short answers, TOC retry | one command at a time; a TOC is whole or empty |
| CD mode `src/mode/cd_mode.cpp` | entered digits, seek by button, title to show | key handlers, `loop`, `teardown` | player, scrobbler, lyrics, router | acts on a state that is stale; order of teardown | no use of what is deleted |
| Mode host `include/mode_host.h` | `activeMode`, `cur_mode`, `req_mode`, one semaphore | `loop`, `activate_mode`, `set_external_mode`, `composition_pass` | every mode, the compositor task | drawing beside switching; a request while switching | the last request wins; one mode at a time is set up |
| Audio router `lib/espercore/src/audio_router.cpp`, `spdif.cpp` | `current_route`, who drives the I2S bus, mute pin | `activate_route`, `set_enabled` | modes, CPU output, transceiver | order of release and set-up | never two drivers on the bus |
| Internet radio `src/mode/netradio/pipeline.h`, `netradio_mode.cpp` | `running`, two semaphores, two tasks, net buffer, codec | `start`, `stop`, reconnecting | network, codec, view | stop against a start, a stall or an error | `stop` returns; nothing is used after it |
| Metadata pipeline `lib/espercdp/src/metadata/` | cache files, providers | `fetch_album`, `populate_from_cache`, `save_to_cache` | player, file system, network | power loss, half read files | what comes from the cache is what was saved |
| Scrobbler `include/scrobbler.h` | current track, `scrobbled`; a queue and a counting semaphore | `feed_track`, `feed_position`, the task | CD mode, Last.fm | unlocked queue, bounded semaphore | once per track, in order, nothing stuck |
| Lyric player `include/lyric_player.h` | cursor | `feed_track`, `feed_position` | CD mode | the last line | the shown line is the one of the position |
| Keypad, buttons, remote `lib/espercore/src/keypad.cpp`, `remote.cpp` | last value; click and hold flags; a pending code | `update`, `get_state`, `has_new_code`, `code` | every mode | state consumed by looking | every press is one click or one hold |
| WLAN `lib/espercore/src/wlan.cpp` | connection flags, credentials | `start`, `connect`, events | settings, Bluetooth, radio | events race with `connect` | only working credentials are saved |
| IDE bus, I2C lock `lib/espercore/src/ide.cpp`, `thread_safe_i2c.cpp` | direction, flags and data of two port expanders | register reads and writes of several transactions | drive, keypad | a lost write in the middle; the keypad on the same chip | never two drivers on the bus; keys read from the keys' port |
| Settings menus `include/menus/framework.h`, `src/mode/settings*` | a stack of views, the editor's text and cursor | keys, `push`, `pop` | preferences, updates | keys of several kinds on one editor; leaving at any point | cursor inside the text; what was typed is stored |
| Bluetooth mode `src/mode/bluetooth_mode.cpp` | the view's state | `loop`, the sink's callbacks | A2DP library | both write without a lock | what is shown is of the phone that is connected |
| Firmware update `src/otafvu.cpp`, `httpfvu.cpp` | files and firmware on flash | check, unpack, write, restart | server, mode host | failure between files and firmware | a failed update can be repaired |
| CDDB client `lib/cddb` (vendored) | connection, disc, tracks | `cddb_query`, `cddb_read` | metadata pipeline | answers that stop or break off | it ends; nothing wrong is noted |
| Views, fonts, localization, stations, preferences, telnet, compression | - | - | - | - | not modelled, see below |

## Modules

| Module | Models |
|---|---|
| `AtapiDrive` | the drive as `ATAPI::Device` shows it: eight variables, one operator per command or query of `atapi.cpp`, and the drive's own moves (spinning up, playing on, scanning, front panel, hands at the tray) |
| `CDPlayer` | `CD::Player` and what `CDMode` does with it, extending `AtapiDrive` |
| `TrayHistory` | `CDPlayer` with a history variable: whether the tray was shut behind a look of LOAD at the disc |
| `MCCDPlayer` | the discs, the view and the restricted environments of the TLC instances of `CDPlayer` |
| `MCTrayHistory` | the changer's instance, with the history of the tray |
| `MCLive` | the instance for the liveness of a single drive |
| `CDPlayerProofs` | the theorems about `CDPlayer` and `TrayHistory` |
| `ModeHost` | the mode host with the scripts of the modes' `setup()` and `teardown()`, the audio router, the transceiver, the update task and the boot |
| `AudioBus` | what the modes may rely on about the one DAC: only the active mode is heard, and one follows another in silence; `ModeHost` is shown to implement it |
| `ModeHostProofs` | the theorems about `ModeHost` |
| `StreamingPipeline` | the internet radio: the UI task's `play()` and `stop()`, the network and codec tasks of one station's pipeline, its buffer, and the server |
| `MCModes` | `ModeHost` and `StreamingPipeline` side by side, for TLC |
| `AtapiPacket` | the methods of `ATAPI::Device` as packets, polls and reads under its semaphore: start-up, `read_toc()` with its retries, `wait_ready()`, and a drive whose answers may be short, long or nonsense |
| `IdeBus` | register access over two port expanders, the keypad on one of them, the lock of the I2C bus, transactions that fail |
| `IdeProofs` | the theorems about `IdeBus` and `AtapiPacket`, and lemmas on lists of steps as paths, which both use |
| `CDModeKeys` | `Button` and the chain of questions in `CDMode::loop()` |
| `RemoteControl` | the infrared remote control between the keypad task and the UI task |
| `NumberEntry` | a track's number typed digit by digit |
| `KeysProofs` | the theorems about `CDModeKeys`, `RemoteControl` and `NumberEntry` |
| `CddbClient` | libcddb over CDDBP: connection, lines, record, timeouts |
| `DiscMetadata` | `fetch_album()` with its cache file, all providers and power loss; extends `CddbClient` |
| `DiscMetadataProofs` | the theorems about `DiscMetadata`, `CddbClient` and `LrcLines`, and lemmas on folds |
| `OneCutProofs` | the theorem about the titles that are cut off, which follows a record through the client, the album and the file |
| `LrcLines` | how a file of lyrics becomes lines with times |
| `LyricPlayer` | the cursor in the lyrics and the label, beside the poll task |
| `Scrobbler` | tracks, queue, semaphore, sender and session |
| `PlaybackProofs` | the theorems about `Scrobbler`, `LyricPlayer` and `StreamingPipeline` |
| `Menus` | navigator, lists, text editor and message boxes of the settings |
| `FirmwareUpdate` | the update over HTTP |
| `BluetoothScreen` | passes of the Bluetooth mode, the sink's callbacks, the view |
| `ScreensProofs` | the theorems about `Menus`, `FirmwareUpdate` and `BluetoothScreen` |
| `MCHardware` | `AtapiPacket`, `IdeBus`, `CDModeKeys`, `RemoteControl` and `NumberEntry` side by side, for TLC |
| `MCAlbum` | `DiscMetadata`, `LrcLines`, `LyricPlayer`, `Scrobbler`, `Menus`, `FirmwareUpdate` and `BluetoothScreen` side by side, for TLC |

How they fit: `CDPlayer` takes each method of the device as one effect and a fetch as one long step;
`AtapiPacket` and `DiscMetadata` are what is inside. `IdeBus` is inside a read or write of a register of
`AtapiPacket`, and its `KeypadRequest` is what `CDModeKeys` and `RemoteControl` are polled with.
`LrcLines` ends in the sorted lines that `LyricPlayer` assumes (`LyricAssumption`). `ModeHost` has what the
modes do to the shared devices, the other modules what goes on inside a mode.

### Correspondence to the code

The variables of `CDPlayer` carry the names of the members of `Player` (`disc`, `disc_present`
and `nslots` are the fields of `slots` and its size). A disc is the sequence of the numbers of
its audio tracks, so `Album(toc)` dropping data tracks is the identity and `<<2>>` is a mixed-mode
disc whose first track is data. A position (`abs_ts`, `pos`, the ends of a play command) is the
number of the track that it lies in; 0 stands for 00:00:00 as a start and for the end of the
disc as an end. Where the code looks at the position inside a track (`rel_ts` in PREV, the hop
of the soft scan) the model allows each outcome. The index of a position, speeds and delays are
left out. `esp_random()` is any choice, and `next_trk_no`, which NEXT reads uninitialized in
shuffle mode, is any track or none.

One pass of `poll_state()` is cut into steps where something can come in between: taking the
lock and sampling the medium (`PollBegin`), sampling the mechanism and updating the slots
(`PollMech`), sampling the position (`PollPosition`), the case of the state machine with its
commands (`PollOpen` ... `PollFollows`), and in LOAD the push under the second semaphore
(`PollLoadPush`). `pollPc`, `media_type` and `audio_sts` are its locals. `do_command()` is one
step per command: it holds `_cmdSemaphore`, so only the drive could come in between, and no
command samples it. `navigate_to_track()` and `set_play_mode()` do not take it and are cut
between play, pause and the store of the mode (`NavBegin/NavPlay/NavHold`,
`ModeBegin/ModeEnd`). Leaving the CD mode is `TearStop`, `TearPoll`, `TearMeta`; `Construct`
enters it again. The drive's commands are atomic because each runs under the device's own
semaphore.

The drive is external. It is modelled by what the player may rely on and what the comments in
the code report of real drives: a drive at rest reports any track or the lead-out; one that is
told to play may report itself stopped at the lead-out for a while (`player.cpp:244`); the front
panel may start and stop it (`player.cpp:235`); it is not ready for a time after the tray closed
or the changer moved; a TOC may come back empty (`player.cpp:168`). Hands open the tray and change
the disc in it at any step. They shut it between any two steps in the states whose passes wait, for
the drive, for a TOC (`read_toc()` tries up to 21 times, a second and more each) or for the metadata
task: `INIT`, `OPEN`, `CLOSE`, `LOAD`, `CHANGE_DISC` (`Unhurried`). In the others a pass asks for
medium and mechanism at once and polls are 10 ms apart: there the model assumes that an open tray
has been noticed, which leaves the state, before anyone has changed the disc and shut it.

In `ModeHost`, `Setup`, `Teardown` and `RouteOps` list what `setup()`, `teardown()` and
`activate_route()` do to the shared devices, one entry per call; the actions after them play the
scripts entry by entry, so that a restart, the other task or a lost write comes between any two. The
variables of the host carry the names of its members; `last_mode` is the preference of that name,
`modeSwitchSema` says which task holds the semaphore, `switchPc` and `switchStep` where it is in the
switch, `mainPc` where `setup()` of `main.cpp` is. Levels of pins are what the DAC gets:
`bypassed` (relay), `unmuted` (the mute pin as set by hand), `by_lock` (the pin follows the
transceiver's lock instead). `aif` is the transceiver's interface itself, `told` what it was told last:
they differ after a lost write (`spdif.cpp:104`, `114`) and after a restart, which the transceiver
does not notice. A pass of `loop()` with its key is one step (`LoopPass`): it holds the semaphore,
and nothing else that it touches is touched by another task. What the preferences let the mode switch
go to is any of the three sources. `source` is what writes to the I2S stream: a station, which a key of
the radio mode starts or stops, or the A2DP sink.

In `StreamingPipeline` the members keep their names. `level` is `bufferNetData`'s level in steps of
5 %, which all marks of the code are multiples of (`StallLevel` 20 %, `FirstMark` 35 %, `TunedMark`
80 %, `LastMark` 90 %); a guess of the mark below 5 % counts as 5 %. `netPc` and `codecPc` say where the
tasks are; `overdue` is the comparison of the clock with `last_successful_copy`. After a reconnect that
variable holds a time from before the retries, so `NetBegin` leaves `overdue` to chance. `NetConnect`
stands for the first connection with its timeouts, the choice of the codec and `codecTask.begin()`;
`forever` is the sleep without a wake-up at `pipeline.h:132` and `141`. A copy from the network moves
something exactly when data come and there is room, as the branches at `pipeline.h:213-221` assume. The
loop task has priority 1 and `IRADEC` priority 4, on the same core (`pipeline.h:43`): `UiRuns` keeps
the UI task from going on before a codec task that was just made has got to its first wait. No other
priority is used. `stop()` is cut at its two semaphores; `again` says whether `play()` called it. The
loading indicator, the buffer display and the metadata of the station are left out.

In `AtapiPacket` a response is a sequence of units, one per field that the code looks at, and `todo` is
what a method still has to do: `send_packet()`, a poll of the status, a read, a step of `read_toc()`. A
method is a list, so that the other task, or the drive, may come between any two calls; `sem` is the
device's semaphore, `rd` the locals of `read_toc()`. A read beyond the end of an answer takes what the
data register holds: with `no_drq_in_toc`, where `read_response()` does not look at DRQ, that is any number
that can be told apart in an entry (`RegisterHolds`), the same in each read of an attempt.

In `IdeBus` an access is the list of its transactions; `flags`, `dir` and `port` are what the expanders
hold, and a failed transaction leaves them as they were. Not more than one fails in two accesses one
after the other. `last_value` is not a byte but the port that it was read from.

`CDModeKeys` asks the questions of the chain one by one, each a call of `get_state()` that changes the
button; time is whether a button's 500 ms are over. In `RemoteControl` each store of `update()` and
each load of `has_new_code()` is a step, for the two run on different cores; `recent` is the comparison of
the clock with `last_reception_ts`. In `NumberEntry` a key's handler is a step, `since` the comparison of
the clock with `last_digit_time`.

In `CddbClient` and `DiscMetadata` a text is the sequence of its parts and a part says which track it is
about, so that a title that ends up at another track, or is cut, shows. The server answers line by
line, stops or closes the connection. The cache file is a header that is whole or not and entries;
`populate_from_cache()`, `save_to_cache()` and each provider are steps, power may fail between and, in the
file, after each entry. What `fclose()` could not write nobody notices (`Save`). A request to MusicBrainz or for lyrics is a step with its kinds of answers.

`LrcLines` reads a line character by character, as `process_lrc_line()` does, since its times come out of
where a character stands; `written` and `first` are the file's own view of an entry, for the property.
`LyricPlayer` has a pass of the UI task in two steps, number before time, with the poll task in between;
cursor -1 is 0. `Scrobbler` has a pass of the UI task in two (`feed_track`, `feed_position`) and the
sender's semaphore, pop, login and request each in one.

`Menus` handles one key per step, the whole handler at once, as the UI task does; a character is its place
on the input wheel, and the tree has one node of each kind of the settings. `FirmwareUpdate` keeps of a
file and of the firmware the release that it is of. In `BluetoothScreen` a callback is asked, writes and
draws in three steps, a pass of `loop()` writes and draws in two; a name or a text is the phone it is of.

## What the runs check

| Run | Instance | Shows |
|---|---|---|
| `single` | one slot, discs `<<1,2>>` and `<<>>` (data) and none, soft scan, one queued album; 1.7 M states | `AutoPlayPending` |
| `changer` | two slots, in the first disc `<<1>>`, data (`<<>>`) or none, exchanged by hand, in the last `<<2>>`; all commands but seeking; 2.0 M states | `AlbumOfItsDisc`, `StoppedTrackSelectable`, `ChangeIsHeadedThere` |
| `live` | one slot, disc `<<1>>`, panel, `Fairness`; keys for tray, PLAY, PAUSE, STOP and tracks, and either the mode left and entered, with two queued albums, or play modes, with one; 301 thousand states | `TeardownEnds`, `PlayingIsNoticed`, and the action properties `NoTaskKilledMidway`, `QueueNotSharedDuringFetch` |
| `changer_live` | two slots, disc `<<1>>`, discs stay in their slots, `Fairness`; no play modes, no picking of tracks; 63 thousand states | `LoadingEnds` |
| `modes`, two parts; 94 thousand states | mode host: all modes, one update task, restarts at any step, `FairSpec` | `OneBusDriver`, `RouteInEffect`, `SourceHasBus`, `WakesUp`, `UpdateKeepsScreen`, `UpdateIsShown`, and the refinement `BusSpec` |
| | radio: the marks of the code, a server that stalls and comes back, keys at any step, `RadioFairSpec` | `NobodyEndedMidway`, `StopEnds`, `PlaysWhenFed`, `DrainedIsNoticed` |
| `hardware`, five parts; 628 thousand states | packets: two tasks, drives with and without DRQ in a TOC, a disc of two tracks | `TocRightOrEmpty`, `LeftoverOnlyOfNonsense`, `SemaphoreComesFree` |
| | bus: reads and writes of two registers, the keypad, lost transactions | `OneFaultNoFight`, `KeysFromKeyPort` |
| | keys: one that seeks and one that is held or clicked | `OnePressOneCommand` |
| | remote: two keys of one meaning, one of another, unmapped and broken frames | `EachKeyOnce` |
| | numbers: digits 0, 1, 9 on discs of 0, 9, 15, 90 and 99 tracks | `NumberAsTyped` |
| `album`, seven parts; 458 thousand states | fetch: three sets of providers, three discs, one that begins with data | `TitlesOfOwnTrack`, `OneCutAtMost`, `ServedWhole`, `FetchEnds` |
| | file of lyrics: two lines of up to two stamps | `SungInOrder` |
| | lyrics: two discs, two tracks, three lines of which two begin at once | `LineIsSung` |
| | scrobbler: a long and a short track, a semaphore that counts to two, three waiting | `AnnouncedThenScrobbled`, `StrandedOnlyWhenFull` |
| | menus: a wheel of six characters, texts of two | `CursorInText`, `TextIsKept` |
| | update: three releases | `RepairIsOffered` |
| | Bluetooth: two phones | `ScreenOfPeer` |
| `shuffle_play`, `skipped`, `shuffle_resume`, `data_disc`, `radio_stall` | `skipped`: nothing but PLAY in STOP is pressed; `shuffle_resume`: nothing but PLAY, PAUSE and, in STOP, the choice of the mode; `data_disc`: no media codes | five disagreements, below |

The parts of `modes`, `hardware` and `album` share no variable: what one needs of another is an assumption of its
module, or an action of its environment (a mode set up or torn down is a key of the radio). So one run checks them side by side: `part`, chosen at the
beginning, says which moves, and the fairness is that of the part's own specification. Checking them in one
state space shows for each what a run of its own would.

- `AlbumOfItsDisc` ties the state machine to the slots: STOP, PLAY, PAUSE and the seeks show the disc
  at the head as what it is, its album filed under its slot and with tracks, through stale samples,
  moving changers and hands that swap the disc in the middle of LOAD. LOAD looks at the disc three times
  (slot, medium, TOC) and then waits for the metadata task; only the trays that were shut behind a look
  are left out, and `TrayHistory` notes which: one shut after the medium was looked at may let a data
  disc pass (its TOC has tracks, its album none), one shut after the TOC was read leaves the album
  of the disc before until somebody opens the tray. Both happen in the run; the rest of the
  property holds in these cases, too. Without media codes a data disc needs no hands to get there
  (`ReadyIsPlayable`, below).
- `AutoPlayPending`: a request to start the next disc never outlives that disc's loading.
- `StoppedTrackSelectable`: what PLAY would index in STOP is a track, although `cur_track`
  follows whatever the drive last reported, the lead-out included.
- `ChangeIsHeadedThere`: CHANGE_DISC waits for the slot the changer was sent to last; it takes no
  commands, so that, an opened tray apart, anything else is for ever.
- `NoTaskKilledMidway`, `TeardownEnds`: teardown deletes no task inside its section, and ends.
- `QueueNotSharedDuringFetch`: the queue has one user at a time (the doubt of the comment at
  `player.cpp:177`).
- `LoadingEnds`, `PlayingIsNoticed`: loading ends, and a drive that plays under a stopped player, because of
  its own buttons or of `navigate_to_track()` and `set_play_mode()`, which do not take the lock, is noticed.
- `OneBusDriver`: transceiver and processor are never on the audio bus together, in the middle of a
  switch neither (`spdif.h:10`). It is stated for a transceiver that has heard what it was told: the
  code does not look whether a write got through, so otherwise nothing holds.
- `RouteInEffect`: once `activate_route()` is through, pins and outputs are what the route says,
  whatever was in effect before; `SourceHasBus`: nothing writes to a stream that was ended, and
  Bluetooth does not play while the network is on.
- `BusSpec`: seen from outside, a switch is silence, another mode, then that mode's sound.
- `WakesUp`: whenever power goes, the device comes back in a mode that can be left.
- `UpdateIsShown`, `UpdateKeepsScreen`: an update gets the screen although `loop()` holds the lock nearly
  always, and nothing asks for another mode under it. During boot something does:
  `activate_last_used_mode()` and the recovery screen replace the screen of an update that was
  quick enough to begin before them, and the update goes on with a deleted one. The property
  leaves this out; no comment or test of the project speaks of it.
- `NobodyEndedMidway`: `stop()` suspends and deletes no task that is at work, whether the tasks have just
  been made, wait, copy, reconnect or are through.
- `StopEnds`: `stop()` returns from all of these. The one place from which it does not is the sleep after
  a station that answers with no supported type: the network task keeps `semaNet`, and the UI task
  waits for it, on leaving the mode with the mode switch held. The code marks the place as a
  TODO; the property leaves it out, and every other place is covered.
- `PlaysWhenFed`: however often playing has hiccuped or stalled before, as long as data come the radio gets
  back to playing; the mark that grows with each hiccup stays below a full buffer.
- `DrainedIsNoticed`: a stream that falls silent while it plays is connected again, because playing
  empties the buffer.
- `TocRightOrEmpty`, `LeftoverOnlyOfNonsense`: the retries of `read_toc()` do not flush what an attempt
  that made no sense has left in the drive, and still no mixture of two answers becomes a table. What is
  left when the semaphore is free is the rest of a read that gave up, or of a drive that does not
  assert DRQ.
- `SemaphoreComesFree`: every method gives the device back, for a drive that ends what it began. The
  exception, named `Starved`: a drive that ends an answer while `wait_drq()` polls for more of it.
- `OneFaultNoFight`: although no error on the I2C bus has a consequence in the code, a single lost write
  does not let the expander drive the IDE bus against the drive: each read sets its ports to inputs first.
- `KeysFromKeyPort`: the keypad holds the lock over all of its transactions, so it reads its own port.
- `OnePressOneCommand`: the chain asks some buttons twice, and each question changes the answer to the next.
- `EachKeyOnce`: the two tasks of the remote control race on three variables; a key may be lost or
  replaced by a newer one, but is neither doubled nor acted on when it is old.
- `NumberAsTyped`: the typo rule, the number that no digit could follow, the time-out and a change of
  disc, together: the track gone to is made of the last digits typed in a row, as many as make a track. If
  the disc changes before ENTER or the time-out, it is a track of the disc that the digits were typed for
  (`offered`, which the code does not keep).
- `TitlesOfOwnTrack`, `OneCutAtMost`: no combination of providers, cache and broken records gives a track the
  title of another, and at most the line where a record broke off is wrong in the cache. Both leave out
  discs with data before audio (`DataFirst`), whose places and numbers differ (see the observations).
- `ServedWhole`: wherever the power went while the file was written, what it lets through is as good as
  what may be stored.
- `FetchEnds`: a fetch, which holds the metadata semaphore, ends with any server.
- `SungInOrder`: with any way to write fractions, lines are sung in their second and in order.
- `LineIsSung`: the label is of the track and time that were fed, through seeks, other discs, lyrics that
  come late and a poll task that writes between two reads.
- `AnnouncedThenScrobbled`, `StrandedOnlyWhenFull`: a track is sent once, after it was announced; an
  entry waits for others only if more wait than the semaphore counts.
- `CursorInText`, `TextIsKept`: the editor's cursor stays where `update_labels()` may cut the text, and a text
  is stored however the navigator closes the editor.
- `RepairIsOffered`: what a failed or interrupted update leaves is offered again.
- `ScreenOfPeer`: late callbacks of a phone that has gone do not put its texts beside the next one's name.

### Bounds

`Discs` and `SlotCount` give each instance one disc more than none: two audio tracks are the
least that has a next, a last and a track left to shuffle; a disc that begins with a data track
makes numbers and indices differ; two slots are the least with another disc, and the theorems
cover any number. `MaxQueue` bounds the metadata queue: `PollLoadPush` waits for room, which the
code does not; with two places the queue is filled behind a fetch, and what is queued is never
read by the player again. In `single`, once a disc is ready nothing but the poll task moves until
the metadata task is done with it, and the CD mode is not left; `changer` and `live` mix the two tasks
freely and `live` tears them down, where no play mode is chosen (`MCLive`). `MCView` leaves out of the states what no step reads before it is
written. `MCTrayHistory` takes the front panel, seeking, picking tracks and play modes away from the changer (they move
neither disc nor album; their interplay is in `single`), `MCCDPlayer` takes
discs exchanged by hand from the liveness: a player that is kept changing discs by hand makes no
promise.

`ModeHost`, `StreamingPipeline`, `BluetoothScreen`, `CDModeKeys` and `IdeBus` need no bound: their
states are finite. In the other modules:

- `Slots = 1` in `AtapiPacket` (the table of a changer is one read more), a disc of two tracks, so that a
  TOC may break off before, between and after them; the number of attempts is the code's.
- `MaxNews = 3` new codes of the remote control: one pending, one being noted, one acted on.
  The theorem has no such bound. Two keys suffice for `KeysInUse`: buttons share nothing but the pass,
  and the two are the two kinds that are asked twice.
- `Digits`, `Sizes`, `MaxTyped = 999`: discs without tracks, with less than ten and with more; digits that
  no other could follow, that may be followed and zero; one digit more than a track has.
- two or three tracks of a disc, titles of two parts: the least with a cut inside a title and a track after it.
- `MaxLines = 2` lines of a file with stamps at both ends of a minute, to none, one, two and three places;
  two entries are the least that may be in the wrong order, and a line does not see the others.
- `MaxTokens = 2` instead of 4, `MaxWaiting = 3`: the queue gets longer than the semaphore counts;
  `FullTime`: a track that is over after half its length, and one too short.
- `WheelLength = 6`, `MaxText = 2`: a text that is empty, full and in between, with a character that the
  wheel has not.
- `LastRelease = 3`: one installed, one crossing the update, one after it; the theorem covers any number.
- two phones: the one that has gone and the next.

Deadlock is checked in every run but `radio_stall`, `hardware` and `album`: packets stop with a starved
semaphore, a file of lyrics ends when it is read, bounded histories end, and in the radio the UI task may wait in
`stop()` for a network task that sleeps for good. `modes` names that last place (`Sleeps`), so any other
deadlock of the radio or of the host would show.

### Fairness

`Poll` and `MetaBegin` are strongly fair: both tasks delay for a fixed time and then ask for a
semaphore that the others give again and again, and FreeRTOS wakes the waiting task of the
highest priority. The UI task goes on inside its unlocked calls and its teardown (weak and
strong fairness of those steps), but no key is ever owed. `MetaEnd` is weakly fair: the
providers' requests have timeouts. The drive finishes what it has begun (`DriveReady`,
`DriveStarts`); the firmware waits for it without a timeout, so without this nothing can be
promised. In `ModeHost` each step of a switch that has begun is weakly fair, and so is a pass of `loop()`
that has the lock; `OtaTakes` is strongly fair: the update task has priority 2 (`otafvu.cpp:165`), the
loop task 1, so the lock goes to the update task when `loop()` gives it. Strong fairness of `Poll` as a whole also says that the poll task asks the drive for
its readiness often enough to see it between two movements of the tray.

In `StreamingPipeline` each task is weakly fair: it runs, and its waits are delays. Of the data that flow some
are copied (strong fairness of `NetCopies`: the server may change its mind between two looks). Ten
seconds pass (weak fairness of `Overdue`). No key is owed, nor does any server come or go, and
`CodecWaits`, the guess of a mark, is not fair.

`PacketSpec`: the drive ends what it works on and gets ready (`DriveAnswers`, `DriveSettles`; the code
polls without a time-out), and the steps of each task are weakly fair; a call is never owed. `DiscSpec`: the steps
of a fetch are weakly fair, silence included, since `cddb_set_timeout()` and the timeouts of the HTTP
clients end it. `ScrobblerSpec`: the sender runs, and its requests have timeouts.

### Disagreements with the project's own words

- `PlayStarts`: in shuffle mode, PLAY counts the current track as played before it draws. On a
  disc with one track nothing is left, and PLAY does nothing.
- `NoDiscSkipped`: `did_see_actual_playback` is stale when auto-play starts the next disc of a
  changer. If the drive still reports the lead-out at the first poll, the disc is skipped.
- `TracksAreDrawn`: in shuffle mode the drive is told to play up to the next track, so that the end of each
  drawn track is reported. PLAY in PAUSE tells it the end of the disc (`player.cpp:480`), and the
  track behind the one that was paused follows without having been drawn. (Ending a seek and picking a
  track tell it the same.)
- `ReadyIsPlayable`: LOAD goes to BAD_DISC when the TOC has no tracks, but tracks of data count and
  are not in the album. A drive that names no media (`no_media_codes`) gets to STOP with an album
  without tracks.
- `StallIsNoticed`: the network task takes ten silent seconds for a stall only below 20 %
  (`pipeline.h:199`), and the codec task empties the buffer only once its mark is reached. A server that
  falls silent between the two leaves the radio loading until the station is stopped.

## What is proved

About `CDPlayer`, for every `SlotCount`, every set of discs, both quirks and every bound of the queue
(`DriveAssumption`, `QueueAssumption`), about every behaviour of `Spec`:

- `LocksHeld`: `LockInv` says of each semaphore which task holds it, by the program counters. It
  is inductive by itself and everything else about the tasks rests on it.
- `KillsNothingMidway` (`NoTaskKilledMidway`) from it: who can take a semaphore finds its task
  outside.
- `TypeCorrect` (`TypeOK`): inductive together with `QueueInv` (a fetch has an album at the
  head of the queue). The lemmas say that each drive command preserves the drive's types,
  whatever track it names.
- `AutoPlayIsPending` (`AutoPlayPending`) and `ChangeGoesThere` (`ChangeIsHeadedThere`): each needs
  the state in which the poll task is in its LOAD, resp. at a step that may change discs.
- `ReadyIsItsDisc` (`AlbumOfItsDisc`), about every behaviour of `HistorySpec`, which is `Spec` with the
  history variable (`HistoryIsSpec`). `LoadInv`, of `Spec` alone: the changer rests where it was sent
  last (`RestsOnTarget`); in the states after that the active slot is the one at the head
  (`ActiveAtHead`); a pass asks for the position, or hands an album over, in the states that do so
  (`PassPlaces`). `HistoryInv` has what the property says nothing of, the time between the looks: as long
  as no tray was shut behind it, the audio disc that was sampled is still there or the tray is
  open (`SampleHolds`), and from the TOC on the album is the disc's (`AlbumHolds`). One lemma per kind
  of step (steps that keep to the disc, ends of passes, changes of disc, each task, the
  environment) shows that they are kept.
- `StoppedIsSelectable` (`StoppedTrackSelectable`) from `LoadInv`: in STOP the slot that `query_state()`
  takes from the mechanism is the one that was active, so the album under the selection stays.
- `QueueIsNotShared` (`QueueNotSharedDuringFetch`) from `LockInv`.

About every behaviour of the specification of `ModeHost`, which has no constants:

- `OneDriver` (`OneBusDriver`): `BusInv` says that the transceiver is not told to be on while the
  processor's output is, and that an `activate_route()` beyond the entry that frees the bus has
  freed it. It needs that every script frees the bus before it takes it (`RouteScripts`), wherever a
  switch begins and from whatever route.
- `HostTypes` (`TypeOK`) and `AlwaysWakesUp` (`WakesUp`): `HostInv` ties the program counters of both
  tasks to the semaphore and says that what `loop()` switches to is a mode.
- `UpdateIsKept` (`UpdateKeepsScreen`): `ScreenInv` adds that no mode is valid under the screen of an
  update, so that the keys are inert, and that `loop()` never switches to the mode that is on.
- `RouteTakesEffect` (`RouteInEffect`): `EffectInv` says after which entry of its script each output is what
  the route wants; each entry moves what it is named for alone (`LevelMoves`).
- `SourcesHaveBus` (`SourceHasBus`): `PlaceInv` says in which modes a route can be on and that it is given
  back before the mode is deleted, `SourceInv` at which steps of its mode a source writes. Both rest on
  where the entries stand in the scripts of the modes (`SetupEntries`, `TeardownEntries`).
- `HostImplementsBus` (`BusSpec`), the refinement: what is heard is nothing or the mode that is on
  (`HeardIsMode`), the mode changes only where it has been torn down, which is in silence
  (`SilentWhenTornDown`), and with a restart; so each step is one of `AudioBus` or none.

About every behaviour of `StreamingPipeline`, for every size of the buffer and all marks that
`MarkAssumption` allows (none above what the mark grows to, and that below the size):

- `EndsNobody` (`NobodyEndedMidway`): `LockInv` says who holds each semaphore, by the program counters of
  the three tasks, and which counters go with a pipeline that is made, stopped or gone. It is
  inductive together with the types. The step of `StopCodec` needs `UiRuns`: without the
  priority of the codec task a key could delete it before it takes its semaphore.
- `RadioTypes` (`RadioTypeOK`): the mark and the level stay in their bounds.
- `TasksGetToEnd` (`TasksWindUp`), the part of `StopEnds` that no fairness is needed for: once `running` is FALSE no
  loop of the two tasks goes round again, so neither holds its semaphore for ever by being busy. `StoppingInv`, that the tasks can see it whenever the UI task waits for one of their
  semaphores, is all it needs; `NetToGo` and `CodecToGo` order the places of each task.

About `Scrobbler`, for any tracks, lengths and capacities:

- `ScrobblerTypes`, `TokensHaveEntries`: the semaphore never counts more than the queue holds, so the sender
  never takes the front of an empty queue; inductive with the types.
- `OnlyFullStrands` (`StrandedOnlyWhenFull`) from these two, step by step.
- `ScrobblesAreAnnounced` (`AnnouncedThenScrobbled`): the invariant says of the entry popped last followed by the
  queue that each scrobble stands right behind the announcement of its track, and that the last entry is
  that of the track being fed, scrobbled exactly if `scrobbled`.

About `LyricPlayer`, for any lyrics in order of time, discs and ends:

- `LyricTypes` and `LabelFollowsTime` (`LineIsSung`): `LyricInv` adds to the types that the cursor's line has
  begun (`CursorInv`) and that a label that is shown is the cursor's (`LabelInv`). The search starts at the
  cursor; the lemma `Between` says that some line from there on has begun and not ended, by the
  least-number principle that `LeastNat` derives from finite sets.

About `IdeBus`, for any registers and bytes:

- `KeysAreKeys` (`KeysFromKeyPort`). `KeypadInv`: while the keypad is in its transactions the lock is its own,
  so the register that it selected is still selected.
- `FaultMakesNoFight` (`OneFaultNoFight`): the property is not inductive, since it does not say what the rest of
  an access will do to flags and directions. `FightInv` says that what is left of it leads from a stage (`Stages`:
  the ports turned to inputs one by one, a read, a write, the ports turned back) to its end by transactions
  that the stage allows, and `AtStage` what holds there if nothing was lost yet, was lost in this
  access, or in the one before.

About `AtapiPacket`, for any disc with ascending tracks, any tasks, sets of methods, quirks and slots, whatever
the drive answers: `TocIsRightOrEmpty` (`TocRightOrEmpty`) and `LeftoversAreOfNonsense`
(`LeftoverOnlyOfNonsense`). Each needs what a method is still going to do, in any number of tasks, each with its
own list of calls. `PacketInv` has two parts:

- `TasksInv`: every task is at a place (`Places`), each call leads from one place to another (`Goes`), and the
  rest of its list is a path (`Going`) from its place to the one without the semaphore. So who is in the
  middle of an answer is the one that holds the semaphore, and nobody else's next call touches the drive.
- `DeviceInv`: what the drive holds of a table of contents is the tail of a whole one (`WholeToc`), the last
  table read is the disc's or empty, and when the semaphore is free after a good read the drive is empty.
- `Holds` says what is certain at each place. Before an entry is read (`BeforeEntry`) the table read so far is a
  beginning of the one being answered and counts up from its first track (`ReadUpTo`), or the
  attempt is lost already. An entry keeps this or ends the attempt, and only an answer that was read to the
  lead-out succeeds; the strictly ascending numbers make it the whole disc.

Each call has a lemma, the two properties follow from `PacketInv`.

About `CDModeKeys`, for any keys: `PressesAnsweredOnce` (`OnePressOneCommand`). `KeysInv`: a button of which a press
was answered has spent its click and, as long as its key is down, its hold (`SpentButton`), so no later
question of this or a later pass finds the same press.

About `NumberEntry`, for any digits and any sizes up to the 99 tracks of a disc: `NumbersAsTyped` (`NumberAsTyped`).
`EntryInv`: a number that waits is its last digit, and fits the disc it was offered for better than any other
number that the digits end in (`Fits`); what was gone to does, too.

About `RemoteControl`, for any number of frames: `KeysOnce` (`EachKeyOnce`). `CountInv`: a raised flag and a code
about to be taken stand for one new code each. `FreshInv`: the time that `has_new_code()` found recent stays so
until the code is taken, and while it is, the noted code is one that was heard.

About `FirmwareUpdate`, for any number of releases: `AlwaysRepaired` (`RepairIsOffered`). `ReleaseInv`: from the
check on the firmware is older than what is published; `FilesInv`: as long as no release crosses, what
follows the files is of their release.

About `BluetoothScreen`, for any devices: `TextsOfPeer` (`ScreenOfPeer`). `BtInv` has three parts: what a pass
without a phone leaves is nobody's (`AloneInv`), a phone that is there owns the texts, the running callback and,
once the connection shows, the name (`PeerInv`), and labels are renewed before the next pass looks (`LabelsInv`).

About `Menus`, for a wheel and texts of any length and any texts stored before:

- `MenusTypes` (`MenusTypeOK`) and from it `CursorStays` (`CursorInText`): the type of an editor has its cursor in
  its text, and each key's handler, with all that it inserts, cuts and turns, returns an editor.
- `EditedIsStored` (`TextIsKept`), an action property: `EditorOnTop` says that nothing is ever opened over an editor,
  so that whatever pops views comes to it first, with its `on_exit()`.

About `DiscMetadata` with `CddbClient`, for any discs (`MetadataAssumption`) and sets of providers:
`TitlesAreOfTheirTracks` (`TitlesOfOwnTrack`) and `CacheServesWhole` (`ServedWhole`). Two invariants, proved together:

- `CddbInv`: every line on its way from the server, of a long title, a cut one or another release, has a
  title of the track it names (`OwnLines`), and so have the disc and the matches of the client (`OwnDiscs`),
  which between connection and answer have as many tracks as the disc. `ParsedIsOwn` goes through
  the parser: whatever section it is in, a line adds to the title of its own track or to none.
- `FetchInv`: the album has the tracks of the disc in the drive, each with its own title (`OfDisc`); a file that
  is whole has the entries of such an album, good for it (`FileOfDisc`); once the file was
  found of no use there is no whole one until the album has been saved, and what is being saved is good.
- `CdTextOfDisc`: broken packs and repeated texts (`Same`) included, `ReadPack` puts a title where it belongs.
- `FileRead`: what `populate_from_cache()` reads back of a good album is one. That no entry names a
  track past the last forces numbers to be places (`PlacesAreNumbers`), so a disc with data
  before audio, for which the claim would be false, is never served.

These work through sequences of any length. The library's induction has an operator as a parameter, so the
module derives its own from the least element of a set of numbers: `Counting` for sets, `Unfolding`, which shows
that the function `FoldLeft` chooses exists, and from it one lemma for each fold, such as `PacksKeep` (the operator
cannot be a parameter here either), and `FlattenHas` for `FlattenSeq`. The proof changed the
models in two places: guards of `CASE` in the parser that overlapped, and `DataFirst`, which looked at the first track only.

About `LrcLines`, for any stamps of up to 99 minutes, with any fraction of up to three digits
(`LrcAssumption`), and any number of lines: `LinesAreInOrder` (`SungInOrder`). `FirstTimeIsRight` follows the scan of a
line: `Scanned` says what is in the numbers after each character of its first stamp (`StampBegins`, `StampGoesOn`,
`StampEnds`), and no later character changes a time that is there (`ScanTypes`). A line without a stamp gives no time
(`NoStampNoTime`). `LrcInv`: what came first on its line is in the second that was written, and sorting keeps
that. The last step is that division keeps the order.

About the titles that a broken connection cuts off: `OneCutIsKept` (`OneCutAtMost`), in `OneCutProofs`, for any
discs and sets of providers. The property speaks of the file alone, and is not inductive; `CutInv` has what
leads to it, from the line that comes in to the entry that is written:

- `InOrder`: in every record of the server's the two lines of a long title follow one another and none is begun
  twice. The lemmas on `LaidIn` put a record of any number of tracks together from its titles. Where the
  connection breaks off, what is read of it is a first part of that, with less of its last line (`ReadCases`).
- `RecordInv`, for a record of which some lines are still to come: every title is whole but the one whose
  other half is the next line (`Gap`), and what the lines to come begin has not begun. `ParseLine` keeps
  that in each of its sections, and while an artist may still turn out to be a title. A record that ends in
  the middle counts as read, and then one title wants its other half.
- `CallInv`: the matches and the disc of the client before the record have whole titles or none, and
  what is on the line is of the call that was made. A list of matches that came late and is taken for a record has
  no line of a title.
- `AlbumInv`: until CDDB has been asked no title of the album is cut (`Clean`), and then one is (`OneCut`): it is
  asked once (`CallOfFetch`), and other providers tell whole titles. `Filled` is where a second cut title
  could come from, since it fills what is empty from the disc it is given.
- `TitlesOf`: what is written to the file has one title for each place, which is the album's; and when the file
  is read back no album gets a title that its entries do not have.

The prover cannot expand `SelectSeq`, so the providers that are still to be asked are a set, and `IsNext` takes the
first of them in `Order`.

`FetchLeadsOn` (`EachStepLeadsOn`) is the part of `FetchEnds` that no fairness is needed for. It orders the states of
a fetch by phase, providers that are left, stage of the call and lines to read, in this order; the first three are
finite, and the inbox is. `LessToRead` says that a read which gives a line takes one, `CallLeadsOn` that each
loop of the client ends with the read that gives none, and `CallOfFetch` (of `CutInv`) that a call which
is over takes CDDB off the list. That the next step can be taken at all is left to TLC.

Only model-checked: liveness, which under fairness is out of the prover's reach (`PlayingIsNoticed`,
`TeardownEnds`, `LoadingEnds`, `UpdateIsShown`, `StopEnds`, `PlaysWhenFed`, `DrainedIsNoticed`, `SemaphoreComesFree`,
`FetchEnds`). TLC also checked the strengthened invariants, and `EachStepLeadsOn` and `TasksWindUp`, which stand in
the proof modules and belong to no run, before they were proved.

## Observations

What the models show of the code where no line of the project promises otherwise:

- Of a line of lyrics with several stamps all but the first get a wrong time unless they are in the first
  minute: `timepos` (`lyrics.cpp:28`) is not set back to the minutes. `[offset:]` is never recognized: nine
  characters are compared with eight (`lyrics.cpp:30`).
- For a disc that begins with a data track, number and place of a track differ: `populate_from_cache()`
  takes one for the other (`caching.cpp:187`, `220`), so its file is never served, and the texts of CDDB and
  CD-Text are off by one.
- `timeout_connect()` takes an immediate success for a failure and an immediate failure for a success
  (`cddb_net.c:302`), `sock_fwrite()` counts EAGAIN as -1 bytes sent (`cddb_net.c:186`); both end in the timeouts.
- The entry after the last line of lyrics is read (`lyric_player.h:42`); what it holds decides whether the last
  line is shown.
- A hold of a button is missed unless its 500 ms end between two questions of the right kind; a digit that
  comes just after its second has run out drops the number typed (`cd_mode.cpp:429`).
- An unmapped frame of the remote control counts as another key: a key that is held is then taken for a new
  press (`remote.h:104`).
- A release published between the files and the firmware of an update leaves the files behind for good
  (`httpfvu.cpp:111`); after an error the menu stays locked until the mode changes.
- What a phone tells in the 125 ms before `loop()` notices the connection is dropped (`bluetooth_mode.cpp:89`,
  `112`), and the PIN of a phone is shown beside the name of the one before.
- The same track number on another disc is neither announced nor scrobbled (`scrobbler.h:14`).

## Not modelled

- WLAN service: its handlers depend on the order in which the platform's WiFi library reports its events, which
  the repository does not show. `ModeHost` has the network on or off.
- Of the device: the second poll of `wait_ready()` (DRDY), the additional write in `reset()`, packets of 16 bytes,
  an answer that breaks off inside an entry, delays for single drives.
- Of libcddb: HTTP, its own cache, search, sites and submission, which the firmware does not use.
- Of Bluetooth: the commands to the phone, the volume's value. Of the pushed update: the transfer.
- In the remote control the tick between the two loads of the time; in `Scrobbler` and `CDPlayer` the inside of
  `std::queue`; the life of C++ objects under their users (listed as a hazard).
- The compositor task beside a switch of modes, the loading indicator of the radio.
- Views and fonts (pixels), localization and stations (look-ups), preferences, NTP and telnet (wrappers),
  compression (a conversion around a ROM library).

## Plan

All modules of the plan are written: player and drive, mode host and audio bus, radio, packets and bus, keys,
remote control and numbers, metadata, lyrics, scrobbler, menus, updates, Bluetooth. What is worth doing next:
the compositor beside the switch; the WLAN service against a specification of its library.
