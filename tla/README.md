# TTPlayer in TLA+

This directory is the formal model of TTPlayer, a C++ reimplementation of the
TTPlayer (千千静听) music player. It models the parts of the program whose
correctness depends on the order of events: threads that share an audio engine,
a background shuffler, a download with several readers, a library that is scanned
while it changes, files that are replaced while the program may crash. Parsers,
skins, dialogs and signal processing are not its subject.

All line numbers refer to `src/`; `PROJECT.json` maps every definition that
models code to the lines it stands for.

## 1. The system

| Part | State it keeps | Operations | Who interacts | What is hard | Correct when |
|---|---|---|---|---|---|
| **AudioEngine** `audio/audio_engine.cpp` | playback state, pending seek, fade, native handle, one worker thread, one fade thread | Play, Stop, StopAsync, Pause, Resume, Seek, BeginStopFade, RestoreAfterOutputRestart, TryReapStopped | window thread calls; playback worker and fade worker share it under `mutex_`; some atomics are stored without it | interleavings, hanging readers, open timeout, late answers, fades interrupted by commands | one decoder per engine; no use of a closed handle; latest seek wins; every stop fade ends; a playing track is heard; no command but StopAndWait blocks |
| **RandomPlaybackOrder** `playlist/playback_order.cpp` | three shuffled rounds, cursor, generation, one job, one result | Prepare, Start, TrySelect, PreviewNext, AtEnd | window thread posts jobs and polls; worker shuffles without the lock | stale results, refill still pending, cancelled and failed shuffles | rounds are permutations of the right list; no repeats; a request is answered |
| **PlayerWindow, navigation and track change** `ui/player_window.cpp` | list and row, random requests; current and outgoing engines, the track it shows, deferred changes | PlayCurrent, SelectRelative, AdvanceAfterNaturalEnd, Stop, PrepareTrackChange, PollWaveTrackChange, timers, file access, close | drives the engines and the order; list edits, prompts and file writers come in between | a change waits for a fade, a gap or a notice while rows move and files are written; an end is told from a stop by polling | engines are bounded; an advance follows an end; a deferred change is made, for the song asked for, or overruled |
| **Playlist store** `playlist/playlist_store.cpp` | entries with slots; numbered files, `.tmp` files, staged files, a marker | Load, NewList, Delete, ReorderList, FlushDirty with compaction, recovery | window thread only (timer, shutdown, dialogs); what interleaves is a crash | crash or refusal between file operations, retries after later edits | no saved list is lost, doubled or resurrected; a compaction is completed |
| **Media library** `ui/player_window_library.cpp` | catalogue, pending edits, removals and notifications with their revisions, queued work, one scan worker | refresh, apply a result, rate, add, remove, configure, shut down | window thread, a detached scan worker, the directory monitor, `Music.library` | results older than edits and notifications; results that cannot be posted; closing before the file was loaded | the library is current once it is quiet; no edit is undone; no track is lost |
| **Directory change monitor** `ui/directory_change_monitor.cpp` | watches, their armed reads, a generation | start, stop, arm, read, notify | detached worker posts to the window; the system records changes | overflows, failed arming, messages of a stopped monitor | a change is recorded or scanned |
| **Update packages** `update/*.cpp`, `updater/main.cpp` | staged files, backups, a recovery list | stage, apply, roll back, commit | updater process, the file system, other programs | failure or kill between two files | what the user had can be brought back |
| **HTTP stream and cache** `audio/http_stream.cpp`, `http_cache.inl` | temporary file and its coverage, consumers, one request | Attach, Detach, WaitOpen, Read, Seek, BufferToEnd, Prefetch | several consumers share one download and its worker | seeks interrupt the request of another; the resource changes; a live window overruns | a reader only sees bytes of the resource; it fails only for a cause |
| **ReplayGain scanner** `audio/replay_gain_scanner.cpp` | pending commit per file | scan, queue, commit with retries | scan workers and playback, which holds the file | a retry after a newer scan | the newest result is written |
| **File mutation guard** `audio/file_mutation.cpp` | set of files being written | acquire, release | tag writers of all windows | aliases of one file | one writer per file |
| **File information worker** `app/file_info_worker.cpp`, `ui/file_info_probe_client.cpp` | a child process, its session | probe, reuse, idle exit | pipe between two processes | the file changes while it is decoded; the child exits | an answer belongs to the file asked for |
| **Discord presence** `integrations/discord_presence.cpp` | desired presence, connection | set, clear, reconnect | worker thread with blocking I/O | state changes while it connects | the last presence is shown |
| **DSP host** `audio/winamp_dsp.cpp`, `dsp_dispatcher.h`, `app/dsp_worker.cpp` | a window thread | process, configure, stop | `SendMessage` between threads | stop while a caller waits | nobody waits for ever |
| **Output sinks** `wasapi_sink.cpp`, `asio_sink.cpp`, `kernel_streaming_sink.cpp` | one command slot, device thread | start, pause, reset, write | worker and device thread | close while a command is in the slot | a command is answered |
| **Single instance** `app/single_instance.cpp` | mutex and window handle | acquire, forward | two processes | start-up race | one process owns the window |
| Decoded sources, format probes, archives, cue sheets, settings, plug-in host, lyrics, system media controls, skins, dialogs | values and files | parse, draw, store | called by one thread | formats | not modelled |

## 2. Modules

| Module | Role |
|---|---|
| `AudioEngine` | one engine, its window thread, playback worker and fade worker |
| `AudioEngineProofs` | inductive invariant and theorems about `AudioEngine` |
| `MCAudioEngine` | constant values for TLC |
| `MCAudioOutputs` | a WASAPI and a MIDI instance of `AudioEngine` in one specification |
| `RandomPlaybackOrder` | the random order, its worker, the window's request queue |
| `RandomPlaybackOrderProofs` | inductive invariant and theorems about `RandomPlaybackOrder` |
| `MCRandomPlaybackOrder` | constant values for TLC |
| `PlaylistCatalogue` | what the store promises: each list has one stored version or none |
| `PlaylistStore` | the store's files and operations, which implement the catalogue |
| `PlaylistStoreProofs` | inductive invariant, theorems and refinement of `PlaylistStore` |
| `MCPlaylistStore` | constant values for TLC |
| `TrackChange` | the window's track changes over engines reduced to what it observes of them |
| `TrackChangeProofs` | inductive invariant and theorems about `TrackChange` |
| `MCTrackChange` | the sessions TLC explores |
| `DirectoryMonitor` | a watched directory and the worker that watches it |
| `MediaLibrary` | the library, its scan worker and edits, composed with `DirectoryMonitor` |
| `MediaLibraryProofs` | inductive invariants and theorems about `MediaLibrary` |
| `MediaLibraryTracks` | its theorems about the ratings and tracks of the user and about the mirrored directory |
| `MCMediaLibrary` | the environments TLC explores |
| `HttpCacheTask` | one shared download, its worker and its consumers |
| `HttpCacheTaskProofs` | inductive invariant and theorems about `HttpCacheTask` |
| `MCHttpCacheTask` | the servers TLC explores |
| `PackageInstall` | the installation of an update and its rollback |
| `PackageInstallProofs` | theorems about `PackageInstall` |
| `MCPackageInstall` | a package with nested folders |

### AudioEngine

*Threads.* `uiPc`, `workerPc` and `fadePc` are the program counters of the
window thread, the playback worker and the fade worker. A block under `mutex_`
is one action. What the code does to its atomics without the mutex is an action
of its own:

- `RequestStop` is three steps: the two unlocked stores (`RequestStopFlags`,
  4267-4268), the locked cancellation (`RequestStopLocked`, 4277-4288), and the
  last store, `stop_fade_pending_` (`RequestStopDone`, 4291). The window thread
  and the fade worker both run it.
- `Play` is: a `Stop`, the refusal to replace a worker that has not returned
  (`UiRefusePlay`), unlocked stores (`UiPrepareOpen`), a locked reset
  (`UiResetOpen`), the thread (`UiSpawn`), and the wait for the open, with its
  budget (`UiOpened`, `UiOpenTimeout`).
- `StopAndWait` (4325-4328) is a `Stop` followed by a join without a budget
  (`UiJoin`): a worker that never returns holds the window thread there.
- `PublishOpened` is split in two because it decides on `stop_requested_`, which
  `RequestStop` stores without the lock. Between its halves nobody else enters a
  locked block (`LockFree`).
- The playback loop is: `WorkerTakeSeek`, then for a seek `WorkerResetOutput`
  and `WorkerFinishSeek`, then `WorkerPump` and `WorkerPublishPosition` or
  `WorkerEndOfTrack`. In every operation of the reader or the output it may fail
  (`WorkerFails`) or return because it was cancelled (`WorkerGivesUp`). The
  tear-down is `WorkerRevoke`, `WorkerClose`, `WorkerCancelSeek`, `WorkerExit`.
- The fade worker is represented by the moments at which a ramp ends
  (`FadeInEnds`, `FadePauseEnds`, `FadeSeekEnds`, `FadeStopEnds`).

*The backends* differ in the actions where the code differs: who pauses the
output (the window thread through a shared handle for waveOut and DirectSound,
the worker for WASAPI, ASIO and kernel streaming, the worker's loop for MIDI),
whether it can fade, whether the state is decided under the lock.

*Abstractions.* A wait with a budget may time out whenever the event has not
come; a ramp may end at any time; a revision number is represented by the
comparison it is used for (`takenIsLatest`). Gain is 0 or 1: where a ramp started
or ended. Metadata, DSP, visualisation, archives, lyric writing are left out.

### RandomPlaybackOrder

The window thread's side is the order (`rounds`, `cursor`, `expected`,
`pending`, `failed`) and the request queue (`requests`, `polling`). `job` and
`result` are the two slots under the worker's mutex. `BuildRound` is represented
by the set of all shuffles its `acceptable` lets pass (`Acceptable`, `Built`),
so that TLC and the proofs consider every outcome of the generator.
`PollRandomNavigation` is one action per way a queued request is handled;
`PollRefused` is the one in which `SelectTrackFrom` opens nothing because lyrics or tags
are being saved (8042): the order has moved on and the player has not.
A list change (`ListChanges`) only alters the list: the order finds out the next
time it is asked, which is the hazard.

### PlaylistStore

One action is one file operation: a `.tmp` is written (`SaveWrite`), renamed
(`SaveRename`), a list is staged (`StageWrite`), the marker is published
(`StagePublish`), a staged file replaces its destination (`RecoverMove`), an
old file or a left-over is removed (`RecoverDeleteOld`, `RecoverDeleteStage`), the
marker goes (`RecoverDone`). `Crash` may come between any two of them, and `Load`
(`Start`, the recovery, `Scan`) starts again from the directory.
`RecoverCompaction` begins at the top whenever it is called, so its position is
not a variable: the next operation is the first one the directory still needs.
`caller` tells Load, the timer's flush, a forced flush and CompactSlots
apart. A list is an identity with a version; `saved` remembers, for the
properties, the version the user was last told is stored.

`Restored(s)` is what a restart would find in slot `s`: what the recovery at start-up
moves there (`Recovered`: up to the first destination that has neither a staged file
nor a file, where the code refuses, 92-93), what it has deleted, and otherwise the
files, since Load goes on to scan whether the recovery was complete or not (138). With it,
`ImplementsCatalogue` maps the directory to `PlaylistCatalogue`: temporary files,
renumbering and crashes are stutters, a `SaveRename` commits, a first
`SaveWrite` of a list may already make it visible.

Left out: external catalogues, which are never stored; the active index;
unreadable files and failures of Delete, which the code ignores; the hint that
limits Load to the first 100 or more slots.

### TrackChange

The window thread runs one handler at a time, so a handler is one action: a command,
a timer, the start or the end of a file access. `player` holds the fields of the
window and its engines. A handler calls others (`Advance` calls `SelectFrom`, which
calls `PlayCurrent`, which calls `PlayNow`), so each of them is an operator from a
player to the players the engines' answers allow. An engine is what the window can
observe of `AudioEngine`: its state, whether its stop fade is pending, whether its
worker can still be joined, and whether its fade worker is about to cancel it
(`cancels`). Its steps (`EngineOpens`, `EngineFails`, `EngineEnds`, `FadeEnds`,
`FadeCancels`, `TailEnds`, `WorkerReturns`) are those of that module's workers. The
fade worker releases the mutex at the end of its ramp (`FadeEnds`, 4498) and calls
`RequestStop` after it (`FadeCancels`, 4499), so that handlers come in between: the
cancellation then hits the track that a Play has started by then, before it opens,
while it opens or later (`Started`). `fade` stands for the output: cut off, shared
(waveOut, WASAPI: the change waits for the fade) or overlapping (DirectSound). A
prompt that pumps messages and a file write are intervals (`saving`) in which timers
and commands still arrive.

A write begins with `begin_file_access`, which calls `StopAndWait` on each engine that may
hold the file: `BeginWrite`, `StopTail` and `StopOpened` cancel an engine, a tail is given up
by `StopTail` and the opened engine left by `JoinOpened` only once its worker has returned.
In these phases (`saving` is "tails" or "audio") the window thread is in a join and
handles nothing else; commands and timers come again while the file is being
written ("write", until `EndWrite`).

`promised` (the song of the deferred change) and `spurious` (an advance without
an end) are history variables. Left out: random mode (the other module), list
switching, the library as the playing list, follow-cursor, and the lyric prompt
inside PlayCurrent and Stop, which is the separate `BeginSave`; an access that does
not stop playback (`begin_file_access` without it) and the reloading of tags.

### DirectoryMonitor and MediaLibrary

`MediaLibrary` extends `DirectoryMonitor`; `Next` interleaves the programs
that write to the directory, the watch worker, the scan worker and the window, and
`messages` is the window's queue, in order. `recorded` is the buffer the system
keeps from the first arming of a handle on. `Notify` may fail to allocate or to post a
notification (directory_change_monitor.cpp 72-83): it is dropped (`DropRecord` is the
case of a single record), and nothing asks for it again. A scan (`worker`) takes the queued
work with it (`Job`), reads the changed files (`ScanFile`), merges the seeds and
posts a partial result, lists the directory, reads it file by file, looks for
missing files, and posts a complete result.
A read of a file that is there may fail or time out (`Outcomes`; 803-828, 862-867): it is
skipped, and a file tried once is not read again by the same scan (`tried`). A
listing may be incomplete without the scan noticing (904, 979-981). `Seeds` is the load
of Music.library, which may fail unnoticed (939-953). `Applied` is
`ApplyMediaLibraryIndex`: exclusions, notifications newer than the scan, edits
newer than the scan. A result that cannot be posted stays with the control block
for the 250 ms poll (`PollWorkers`). `Snapshot` is what closing writes, unless reading
the old file or writing the new one throws (`SaveFails`, 2054-2077).

A track is its file, with the version its tags were read from and its rating.
`env` is the set of hazards a behaviour may meet (`Hazards`), among them "drop" (a
notification), "unread" (a file or part of a listing), "unloaded" and "unsaved"
(Music.library); properties name those they exclude.

Left out: numbered lists as further seeds, archives, cue sheets, a disabled
library (which fills a numbered list), corrections of paths, tags read on demand.

### HttpCacheTask

Positions count buffers (16 KB). The worker is `pc`: `connect` and `pump` are in the
transport, without the lock; `decide` is one round of `Prefetch` under it. `Failed`
tells an interruption by a seek from the end of the stream. A consumer's call is
`pc` too: it polls (`ReadCovered`, `ReadMissing`, `Opened`, `Buffered`), each time
under the lock. `disk` records for each position of the temporary file which
entity's which block was written there, so that a mixed or overrun cache shows.
Errors of the temporary file (`WorkerFileFails` for the task, 394; `ReadFails` for
one reader, 139, 157) and the limit of a spooled live stream are part of it:
`Exceeds` is tested when the spooling begins (`StartBuffering`, 230-232, where the
stream has stopped being sequential already) and after each buffer (`PumpData`,
445-446), and ends the task for every consumer. The limit on the size of a response
(381) is one of the reasons of `RequestFails`. `Detach` waits for its consumer's own
call, as the wrappers do.

Left out: writing the persistent journal and its quota, stream titles,
redirects, the registry of tasks, personal sources.

### PackageInstall

A file is staged and backed up (`Stage`), checked with all others (`Check`), put in
place (`Put`, or `PutFails` with what a failed ReplaceFile may leave; the hash taken
afterwards, 339, may differ or fail although the content is intact), and rolled
back in reverse order (`RollBackFile`, then `RollBackFolders`), at most twice: by
the call and by the destructor. A kill is a behaviour that takes no further step
of the updater: `Spec` has no fairness, so every invariant holds at every place where
the process may die. `ByHand` is what `files.txt` tells the user to do. Other
programs may change installed, staged and backed-up files at any time.

Left out: download, verification and extraction of the package, waiting for the
player to exit, the replacement of the updater itself.

## 3. Runs

| Run | Instance | Shows |
|---|---|---|
| `shared` | waveOut, all fades, two positions, `FadeSpec` | types, one decoder, handle use, seek acknowledgement, audibility; commands return, but for the join of StopAndWait; stop fades end |
| `wasapi` | WASAPI, no pause fade, `PlaybackSpec` | an ended track does not claim to play; seeks are answered |
| `outputs` | WASAPI with all fades, or MIDI with three positions | a pause reaches the output; the end of a MIDI track never discards an accepted seek |
| `target` | waveOut, pause fade only | *violation*, finding 1 |
| `order` | lists of 0 to 4 rows, three rounds up to 3 rows, two requests, `FairSpec` | rounds fit and differ, boundaries do not repeat, the order follows the player, requests are answered |
| `store` | three lists, one of them edited, crashes and failing renames, `RestartSpec` | the directory implements the catalogue; no list twice, none comes back; a forced flush that succeeds is exact; a published compaction is completed |
| `refused` | three lists, failing writes and refused recoveries, no crash | no saved list is lost by a retry: a restart finds it, or the compaction cannot be completed and it is still staged |
| `retry` | two lists, failing writes and refused recoveries | *violation*, finding 2 |
| `library` | one file, two changes of the directory, two commands, one hazard | the quiet library is current; ratings and removals hold; a scan is never waited for in vain; closing loses no track of a library that can be loaded and written |
| `track` | three rows of two songs, four commands, every fade, gap and opening with each interruption | engines bounded; every advance follows an end, a failure or the late cancellation of a fade; a deferred change stays pending, opens what was asked for, and ends unless a write waits for a hanging worker |
| `http` | two consumers, three buffers, a window of two, nine servers, among them one with local file errors and one live stream with a low spool limit | the cache is the resource; cancellations and failures have their owner and cause; the window keeps the unread; calls return |
| `install` | three files, two nested folders, two interferences | recoverable at every step; reports are true; added files are kept |

*Bounds.* `Duration = 1` gives two positions, enough to tell an older seek target
from the latest one; the theorems hold for every duration. A session is not bounded:
engines are played, stopped and replayed for ever, since no counter grows. In
`order`, lists of two rows are the smallest with a boundary, of three the smallest
whose rounds must differ, of four those above the limit here, which cycle one
shuffle (the code's limit is over a million rows); zero and one are the lists
without an order. `MaxQueue = 2` lets a request wait behind another one. In `store`,
three slots hold the permutations that matter: a swap (a cycle, where a move
overwrites a file that is still a source), a gap to be closed and an old slot beyond
the new end. One edited list is enough to tell an older image from a newer one.
Crashes and edits are not counted; only the versions of `Edited` lists are bounded.
In `library`, no rule relates two files: one is in every part of the catalogue in
turn; two changes are a removal with a return or two modifications, two commands an
edit with the command that interferes with it; each behaviour has one of the nine
environments of `OneHazard` (files that appear and change, or dropped notifications
with failed reads, or one other hazard), the removal of files is always allowed. In
`track`, the rows a, b, a let a row be taken over by the same or by the other song;
four commands are two changes, an edit and a stop, or three changes over two tails.
Files are written there only where tracks come from files (`network` is off). In
`http`, with three buffers the first and the last are out of each other's reach, so
that two consumers interrupt each other's request; a window of two is overrun within
them. In `install`, three files are one at the top, one in a folder, one in the
folder within; two interferences hit two files, or one file twice.

*Fairness.* `UiSpec`: the window thread goes on with a command it has begun, for
every wait in it has a budget, except the join of `StopAndWait`, which is enabled
only once the worker has returned, and `PublishOpened`, which holds the mutex
without waiting, ends. `FadeSpec` adds the fade worker, which only waits for its own
steps of 10 ms. `PlaybackSpec` adds the playback worker, i.e. that readers and
outputs return: it is only assumed where the property needs it (an answer to a seek,
a pause of an output that the worker owns). `CommandsReturn` and `StopFadeCompletes`
are checked without it: a decoder may hang for ever, and `CommandsReturn` then says
that every command returns or stands in that join. Fairness of the playback worker
is of its steps as a whole: a worker that keeps failing or keeps looping is allowed.
In `FairSpec` the timer fires, a poll is finished and a shuffle ends. `RestartSpec`
says that the user starts the program again, and (strongly) that recoveries, which
any crash may interrupt, take a step now and then. In `library` the watch worker,
the scan worker and the window each go on; in `track` the timers fire, deadlines
pass, prompts are answered and the window goes on when what it joins has returned
(`Release`), but no engine has to do anything, not even to end a fade, and
`PendingChangeEnds` excuses a window that is `Blocked` in a join for ever; in `http`
the transport answers or times out in the end, since its calls have timeouts, and a
waiting call polls every 25 ms. `install` has none. `SeekIsAnswered` and
`RequestsAreAnswered` except a user who never stops seeking or navigating.

Deadlock is checked where the system never stops: in the engine, order, store
and track runs, whose windows can always be given a command or a tick. A closed
library, a task whose consumers have left and an update that is over are ends.

*Further definitions.* Each module has a type invariant, which is a theorem
(that of `AudioEngine` is also in run `shared`; the others were checked with the
constants of their runs). So was, with those of `wasapi`,
`TargetCanBeAcknowledged`, and with those of `track`, `OpenedIsShown`. Definitions
that state what the code does not keep, for the observations below:
`CancelsFadedTrackOnly` (waveOut, all fades), `PlayingIsAudible` with the pause
fade only, `OutputFollowsState` (waveOut, no fades), `RatingIsKept` (`Modify` in
`MCMediaLibrary`), `ReturnedFileIsShown` (`Recreate`), `IndexingIsOwned`
(`Cancel`), `DeferredOpensRequested`, `NamedBackupExists`.

## 4. Findings

1. **`target`** A pause fade that ends after its track did. When the output
   refuses the pause the fade worker sets the state back to playing (4472); if
   the worker has cleaned up in the meantime the engine says it plays, accepts
   seeks and shows a target nobody will answer, against the comment at 2687.
   Without the pause fade nothing else breaks the rule.
2. **`retry`** A compaction is published, its recovery is refused after a move
   (a virus scanner holds a file), and the user deletes a list: Delete removes the
   file at the list's new slot, and from then on `RecoverCompaction` misses
   that destination (92-93). Every FlushDirty returns before it saves
   anything, now and after each restart, against
   `docs/FILE_INTAKE_RECOVERY.md:484`.

Observed without a run of their own.

*Engine, three definitions TLC refutes.* The fade worker releases the mutex before
`RequestStop` (4498): a manual Play in between is cancelled in place of the
faded track, while the comment at 4289 says that reuse waits for the flag. Without
a play fade, Resume restores the gain (4154-4157) but leaves the pause fade, which
then silences and pauses the resumed track
(`docs/PLAYER_FULL_FEATURE_AUDIO_20261020.md:134`). The waveOut worker
restores, after a seek, the state it read before it (3725, 3739, 3782): a Pause
or Resume in between is undone on the device (`docs/AUDIO_ENGINE.md:76`).

*Store.* Where a compaction can no longer be completed (finding 2), a restart may
miss a saved list: it is only in a staged file, the recovery stops before it
(92-93), and Load scans all the same (138). `NoSavedListLost` excepts it (`Stranded`); no
flush touches that file any more. A Load whose recovery is refused
goes on (138) and reads slots that a later flush renumbers under the lists in
memory, so that the next save overwrites another list; a crash between the two
removals of Delete (326-328) lets the next Load promote the `.tmp`, which after a
reordering may be another list's; the file of an unreadable list is
overwritten by the next list that gets its slot.

*Engine.* The waveOut and DirectSound
loops let the end of a track discard a seek that was just accepted (3289, 3868),
which only the MIDI loop guards against (4009-4013); a MIDI engine that is
stopped between the test and the stores of `PublishOpened` keeps the state
playing after its worker has ended, since `MidiWorker` trusts
`stop_requested_` (4030-4031); a fading seek followed by a fading Pause
loses the seek's target.

*Library.* The library stays stale, with nothing left to correct it until the next change
or start, when a notification is dropped (directory_change_monitor.cpp 72-83), a file that is
there cannot be read (803-828, 862-867) or a listing is incomplete without being canceled
(904, 979-981): `LibraryIsCurrent` excludes them (`drop`, `unread`). A Music.library that
cannot be loaded counts as loaded (939-953, 2209), so closing neither reads it again nor
keeps it (2057) and overwrites it with a library that lacks its tracks; an exception
at close leaves the old file without the edits of the session (2073-2076). `NoTrackLost`
and the properties about ratings and removals exclude both (`unloaded`, `unsaved`). A file
that is modified before the first scan knows it is added with
rating 0 and hides the rating of its seed (915-924; `RatingIsKept`,
`docs/MEDIA_LIBRARY_FIXES.md:18`). When a first scan has posted its partial result
and is then canceled in the directory (980), `indexing` stays set and no scan
runs until the restart (1670-1676; `IndexingIsOwned`), which the comment at 703
means to exclude. A file that returns while its excluded track is still among the
items is not queued (1958; `ReturnedFileIsShown`,
`docs/MEDIA_LIBRARY_FIXES.md:13`). Adding a track overrides newer tags of a running
scan; a failed scan loses the work it had taken (1738-1757); a removal by the
user is undone when a notification of the file's appearance is newer than the
running scan (2120-2131).

*Track change.* A fade worker that cancels late cuts off the track a Stop and a Play have
started meanwhile, and the timer takes that for its end and advances (3788):
`AdvanceIsEarned` counts it as one (`FadeCancels`). Writing a file joins its engine on the
window thread without a budget (player_window_playlist_properties.cpp 2156, 2197, 2199,
`StopAndWait`): a reader that hangs holds the window, its timers and any deferred
change for ever (`Blocked`). A serial change is forgotten when the file that fades is written,
or when a close is refused after `CancelWaveTrackChange` (3881); a change waiting
for the gap is forgotten when the finished song's file is written
(`DeferredIsPending`). Removing the chosen row in the gap replays the finished song
(`DeferredOpensRequested`). The timer of a failed advance (3723-3730) does not
wait for prompts as the others do.

*Download.* A seek back into a rolling window is accepted while a buffer is read;
the position may be dropped before the Read, which then fails (environment
`rewind`).

*Update.* The text of an incomplete rollback names the backup directory, which the
destructor's second attempt may have removed by the time it is read
(`NamedBackupExists`, `docs/RELEASE_UPDATE_IMPLEMENTATION.md:94`). An installed
file changed between the last check and ReplaceFile is overwritten, and only the
older version is in the backup.

## 5. Proofs

All theorems hold for every value of the constants that satisfies the assumptions
named in the modules: `BackendAssumption`, `FadeModesAssumption`,
`DurationAssumption` (AudioEngine); `CountsAssumption`, `LimitAssumption`,
`AutoSwitchAssumption`, `QueueAssumption` (RandomPlaybackOrder);
`MaxListsAssumption`, `MaxVersionAssumption`, `EditedAssumption`,
`FaultsAssumption` (PlaylistStore); `TrackAssumption`, `NoneAssumption`
(TrackChange); `CacheAssumption` (HttpCacheTask); `MonitorAssumption`,
`LibraryAssumption` (DirectoryMonitor, MediaLibrary); `PackageAssumption`
(PackageInstall). They only give the constants their types and exclude empty
ranges. A theorem that needs more says so in its statement; these hypotheses are
named and explained below.

**AudioEngine.** `Inductive` is `TypeOK` and `Control`, whose parts are:

- `WorkersCounted`: `decoders` is 1 exactly while the worker is neither none nor
  exited. `OneDecoder` follows; alone it is not inductive, since nothing in it
  says that the worker `UiSpawn` replaces has returned.
- `HandleOwned`: what is registered or open belongs to the worker's phase.
- `SeekAgreed`: requests, taken requests and displayed targets agree.
- `Canceled`, `OpeningIsQuiet`: what holds in the middle of a cancellation and
  while a track is opening.
- `StopFadeOwned`: a stop fade has its owner.

One step per action, one lemma per group of actions; the action property
`SeekAckIsLatest` follows from `SeekAgreed`. Three further invariants rest on
`Inductive` and need a hypothesis about the constants, each of which names the
configurations in which the code breaks the property:

- `NoRevival` (not MIDI, no pause fade on an output that can fade):
  `EndedTracksDoNotPlay` and `TargetsHaveAWorker`. With a pause fade finding 1
  revives a dead track; MIDI leaves the state to whoever asked for the stop
  (section 4). `TrackEnd` says that a playing output is open, so that the worker
  passes `WorkerClose`, that nothing plays from there on, and that no target is
  left after `WorkerCancelSeek`.
- `FadesPaired` (if a pause fades, so does play): `PlayingTracksAreHeard`. Without
  it Resume restores the gain but leaves the pause fade (section 4). `Audible`
  adds the paused track of which `RestoreAfterOutputRestart` is about to
  decide whether it plays.
- `Backend = "midi"`: `MidiSeeksAreHonoured`. Only the MIDI loop promises it.

**RandomPlaybackOrder.** The inductive invariant says of jobs, of the worker's
work if it is current, of results and of the rounds in use that they are for
`orderCount` rows and satisfy `NoRepeat` and `Different`. A result is only
published for a current job; every operation that changes the rounds makes the
work stale or takes the result with it; so the rounds a refill was computed
against are still those in use when it is collected. `RoundsAlwaysFit`,
`BoundariesNeverRepeat`, `RoundsAlwaysDiffer`, `CursorFollowsOrder`,
`PendingHasOwner` and `NavigationMoves` follow for lists of any length, and so
does `OrderFollows`: a preview does not move the cursor, and a poll that selects
a row leaves the order expecting it.

**PlaylistStore.** `Found` is the image of the directory a restart would load; the
proofs are about it and not about single files. The parts of `Inductive`:

- `Control`: which caller is at which operation, and that a marker in place is
  being worked off by the recovery.
- `Memory`: the lists in memory have identities and slots of their own; what is
  found is an older or the same version of one of them (`Covers`), the same of
  one that is not dirty (`Clean`); none was deleted (`Alive`).
- `Orphans`: a `.tmp` without its file is being renamed or deleted, or belongs to an
  old slot the compaction will clean. Without it a `.tmp` could become visible
  when its file is removed.
- `Halfway`, `Progress`: what holds between the two file operations of a save and
  of a deletion; a forced flush leaves no dirty list behind its cursor, a staging
  has staged what is behind its own. `ForcedFlushesAreExact` follows.
- `Finishable`: each destination of a published marker has a file or a staged one.
- `Kept`: the promises themselves, with the strengthening that a saved list is
  found in a numbered file and not only in a `.tmp` whose rename may fail.

Every operation lemma proves `Inductive'` together with `CatalogueStep`, what the
operation does to the image: nothing, a list withdrawn or deleted, or a version
that becomes visible or is committed. `StoreImplementsCatalogue` puts these together
into the refinement. The hypothesis `Covered` leaves out two faults. A refused
recovery leaves a marker behind while the lists are edited: `Finishable` then fails
(finding 2), and with it the argument for the rest; a stranded list is then possible, which
`SavedListsAreKept` excludes with the hypothesis. A crash between the two removals
of Delete leaves the `.tmp` of a deleted list, which the next Load promotes
(section 4). Both faults alone or together with others remain in the runs
`refused` and `retry`; failing writes and renames and all other crashes are covered
by the theorems.

**TrackChange.** `Inductive` is about the player record: what it counts as active has
an end that is still owed an advance (`EndsOK`), a change that waits is the one
that was asked for and waits for an engine that has stopped (`WaitOK`), a promise
is pending unless writes or closing interfere (`PromiseOK`), engines in the
background are stopped and at most two (`TailsOK`), a track that a late
cancellation cuts off is owed an advance as one that ended, rows never outgrow the first list
(`Bounded`). Since handlers call each other, each operator from players to players
(`PlayNow`, `PlayCurrent`, `SelectFrom`, `Advance`, `Prepare`...) has a lemma that
says what it needs and keeps; the lemmas of the handlers only cite those.
`EnginesAreBounded`, `EveryAdvanceIsEarned`, `EveryRequestIsPending` and the action
property `EveryWaveOpensRequested` hold for every list, all settings and any number
of commands.

**HttpCacheTask.** The invariant is about the task (`CoverOK`: what is covered is the
window of a live stream or the prefix of a response that cannot be resumed;
`RequestOK`, `OpenOK`, `EndOK`: when the transport may be asked, what is known
before the opening, why the worker ends; `DiskOK`: what is on the disk at every
covered position) and its consumers (`LeasesOK`: who is in the list, and that
inactive ones were canceled by their owner; `ReadersOK`: who reads has opened;
`WindowOK`: the rolling window has room for one more buffer before the transport
reads it; `Blamed`: an error has a cause, which is the server's, a local file's or the
spool limit's). `DiskOK` for a rolling window needs that
two positions less than `Capacity` apart never share a place of the file, which is
proved from the remainders. `CacheHoldsTheResource`, `OnlyOwnersCancel`,
`FailuresHaveACause` and `NothingUnreadIsDropped` hold for any number of consumers,
any length and every server.

**MediaLibrary.** `IInv` holds in every environment. Its parts:

- `Typed`: what the handlers, the worker and the messages may hold.
- `Stamped`, `Numbered`, `MailStamped`: edits, removals and notifications have a
  revision the library has given out, and no result and no scan has one that is
  still to come. Each handler is reduced to `Grown`: what it records is newer than
  everything there was.
- `Protocol`: a scan has at most a partial result and, behind it in the queue,
  the complete one, also where one of them was refused and waits in the worker.
- `Delivery`: where no partial result is refused and no scan given up, the complete
  result of the last scan is still to come while `indexing` is set, and while the
  partial result that would set it again is on its way. `IndexingIsAlwaysOwned` is
  this together with the order of the results.

`RInv` adds, for a directory in which no file appears, why a removed track stays
removed; in the file too, where Music.library is loaded and written (`unloaded` and
`unsaved` are excluded). What was removed from the list may only come back through a
result that saw the file; so whatever a scan saw must be absent from the removals
stamped after it started (`Ahead`), notifications only ever say that a file is gone
(`Gone`), and a result that finds a file missing must not be followed by an older
one that saw it. `ReceiveResult` and `PollWorkers` deliver in order except in one
case: a partial result that was refused is taken from the worker after the complete
one has been received. `Blind` says that such a result has seen no file. This needs
`Benign`, the hypothesis of `RemovedTracksStayRemoved`: a failed scan (after which
the next one both loads the library file and reads queued files) and modified files
(which queue them) do not come together with a result that is refused. The
hypothesis is necessary: in the environment {`throw`, `modify`, `partial`}, and with
`handoff` in place of `partial`, TLC finds a behaviour in which the late partial
result revives a track the user had removed. The environments of the runs satisfy
it.

`MediaLibraryTracks` proves the other two promises to the user and that the library
shows the directory, each from an invariant of its own that is conditional on what
the property excludes.

`QInv`, for `RatingHolds`, is about one rated file at a time. The catalogue shows
the rating wherever it keeps the track (`RatedHere`), which alone is not inductive:
the next result replaces the catalogue. So the tracks a running scan has or is about
to merge (`Coming`), and those of every result on its way, must agree: they have the
rating, or an edit newer than the scan overrides them (`Scanned`, `Agrees`). Scans
that fail or are canceled, refused results and a Music.library that is not loaded
are excluded with the property (`Calm`); dropped notifications and failed reads are
not. A partial result followed by the complete one of the same scan is harmless as
long as the second has every track of the first (`Lineage`); only a complete result
may be refused there (`Whole`). The argument leans on `RInv`: without a notification
that a file has appeared nothing leaves the removals but by the user.

`TInv`, for `NoTrackLost`, holds with files that appear, change and vanish. Since no
name comes back (`Ever`, `Lost`), every removal that is recorded, posted, noted in the
catalogue or found by a scan is about a file that is gone (`Told`, `RecordsTold`,
`Known`, `KnownScan`, `KnownResults`). A wanted track is in the catalogue, or in the
library file that has not been loaded (`Here`), and the running scan and every result
on its way find it or it was added since they started (`Finds`). Two facts about the
scans are needed: until the library is loaded the scan that will load it is running or
has delivered (`Loading`), and whatever is on its way belongs to one scan
(`OneScan`), so that applying one result does not discard the edits that protect a
track from the next. `NoTrackIsLost` then only has to look at `SaveLibrary`.

`CInv`, for `LibraryIsCurrent`, rests on `TInv`. The property only speaks of the
moment when nothing is left to do, so the invariant has to say of every other state
where the missing piece of news is (`Mirrored`). For a file in the directory
(`Appears`), for the tags last written to it (`Refreshes`) and for a file that is
gone (`Vanishes`) it is in one of three places: `Upstream`, in the buffer of the
monitor or in the queue of the window, or the directory will be listed again because
the monitor is starting or has lost notifications; in the files or the listing the
catalogue has queued for the next scan; or it has been dealt with as far as the scan
has come. The third case follows the scan (`Shown`, `Fresh`, `Hidden`): the worker
has still to read the file or has it among its tracks; then the complete result has
it; then, once `Idle`, the catalogue has. A step may move the news downstream but not
drop it, which is `Carries` for the steps of a scan and `Answers` for the
notifications; `HandlerMirrors` is common to the handlers.

The hard step is the result of a scan that is older than what the library knows: a
notification or an edit that came after the scan started wins over it, an older one
must not. `Ordered` has the facts this needs: what the catalogue still holds back was
removed or noted after the scan saw it (`Behind`), seeds and published tracks agree
(`Fits`), a partial result has nothing the scan does not go on with and none comes
from a failed scan (`Parts`), and without the indexing flag nothing is on its way
(`Resting`). `Plain`, which `TInv` needs too, excludes names that come back, partial results
that are refused, scans that fail or are canceled, and failures of Music.library;
`Steady` adds dropped notifications and failed reads, of which no invariant could say
where the news is.

**PackageInstall.** The invariant says, file by file, what may differ from before:
nothing up to `Check`; afterwards only touched files, for which the transaction
still has the intact backup and the line in the list, until every one of them has been
restored. A rollback discards the transaction only when no file before the cursor
is touched any more, so `AlwaysRecoverable` holds at each step and `RestoredIsTrue`
at its end; `UpdatedIsTrue` and `AddedStays` follow from the guards of `Put` with
`touched`. The number of files, the folders and what others do are arbitrary.

*Technique.* A least element of a set of naturals (`Min`, `CHOOSE` of a first
position) is found by the well-foundedness of `<`, not by an induction over data:
`LeastNat`, `MinYields`. Sequences that are built by removing, inserting or appending
have lemmas about their elements (`RemoveAtYields`, `InsertAtYields`, `AppendYields`).

Some invariants are proved and in no passing run: `PendingRequestIsShown`,
`StopFadeHasOwner`, `TargetsHaveAWorker` and `RecoveriesCanFinish` (their
properties are refuted in `target` and `retry`, under the constants the hypotheses
exclude), `MidiSeeksAreHonoured` (run `outputs` checks an equivalent of it for its
two instances), `CursorFollowsOrder`, `PendingHasOwner`, `NavigationMoves`,
`UpdatedIsTrue`, and `TypeCorrect` of the modules other than `AudioEngine`.

**Only model-checked:** every liveness property, which needs ENABLED; what the
hypotheses above exclude (`NoSavedListLost` under refused recoveries, in run
`refused`); `PauseReachesOutput` of `MCAudioOutputs`.

## 6. Plan

1. Proofs: `NoSavedListLost` of `PlaylistStore` with refused recoveries and no crash.
2. An abstract player (stopped, opening, playing, paused) that `AudioEngine`
   implements and `TrackChange` uses in place of its own engine.
3. `HttpCacheTask`: the persistent journal and its torn records, the registry that
   hands one task to several streams. `MediaLibrary`: numbered lists as seeds.
   `PlaylistStore`: unreadable files.
4. Smaller protocols of worker threads: DSP dispatcher, ReplayGain commit, file
   information worker, Discord presence, WASAPI command slot, file mutation guard,
   single instance.

## 7. Not modelled

What an output or a decoder computes; file formats; number and repair of
`BuildRound`'s attempts; time in seconds; Windows message dispatch other than
that the window thread runs one handler at a time and that timers yield to posted
messages. The other components are
listed with their reasons in `PROJECT.json`.
