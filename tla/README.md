# CamStation: a TLA+ development

CamStation is a network video recorder: a Go daemon (`camstationd`) that records
cameras and serves a web console, and a Windows Viewer that shows the console's
live page and that the operators control remotely. This directory holds TLA+
modules for its protocols, TLC configurations that check them on small
instances, and proofs for TLAPS.

## 1. Inventory

| Component | State | Operations | What is hard |
|---|---|---|---|
| Viewer command queue (`internal/store/viewer_commands.go`) | `viewer_commands` rows: state, type, error code, operation key, TTL | create, ensure update, deliver with expiry, apply result, cancel, delete | head-of-line order, late and repeated reports, expiry only as part of a delivery |
| Viewer command engine (`internal/viewerservice/command_engine.go`, `command_journal.go`) | durable journal of command records, boot generation; one mutex | Handle, finish, Reconcile, startLocked | crash between save, report and effect; duplicates; bounded journal; failing storage |
| Remote-control path (`viewerservice/control.go`, `service.go`, `cmd/camstationd/routes_viewers.go`) | control loop, SSE session, fallback flag, poll, 16-place queue | connect, write, receive, poll, report, restart of the loop | overlap of SSE and poll, lost connections, timeouts, overflow |
| Recording retention (`cleanup`, `store/recording_segment_delete.go`, backup markers) | rows and files of ready segments | capacity cleanup, operator delete, backup cleanup | two deleters, crash between file and row |
| Jobs and backup (`store/jobs*.go`, `internal/backup`) | job rows, active runs, remembered requests | create, start, finish, cancel, retry, recover | single flight, cancel racing the end, restart |
| Web live playback (`useWebRtcMseStream.ts`, `playbackRecovery.ts`, `playbackConnection.ts`) | per tile: episode, transport, timers, promoter; per connection: socket, peer, source buffer, pending media | attempt, stall, retry, probe, promote; open, append, trim, close | stale timers and callbacks, silence, order of media |
| Camera control (`usePtzHold.ts`, `PtzControlPanel.tsx`, `internal/cameracontrol`) | hold, renewal, panel, mode; gate and generation per stream | press, renew, release, preset, seek; move, stop | a release or a seek while a move is in flight |
| Recorded playback (`usePlaybackWorkspace.ts`, `RecordedVideo*.tsx`) | playhead, requests, one file and video per camera | seek, resolve, barrier, drive, next file, gap, retry | late answers, a camera that holds the others back |
| Recording browser (`RecordingsPage.tsx`, `RecordingBrowserWorkspace.tsx`, `PlaybackTimeline.tsx`) | tab, camera, day, window, request, gesture | list, delete, play, pan, drag, zoom, keys | requests served late or twice, gestures cut short |
| Live layouts and tiles (`LiveWorkspace.tsx`, `LiveLayoutControls`, `RecordedVideoViewport.tsx`) | drafts, saved and default layouts, mutations; selection, focus, enlargement | edit, save, load, delete, set default, refetch; select, focus, drag | answers and refetches that meet newer edits; focus that outlives its camera |
| Viewer pages (`ViewerCommandPanel.tsx`, `ViewerRegistryPanel.tsx`) | selection, what is armed, mutations | arm, confirm, cancel, delete, remove, rename | rows replaced by a poll between two clicks |
| Windows Viewer application (`viewer-app/src/main.ts`) | pipe, lease, heartbeat, pages, reconnect timer | launch, configure, show live, reconnect, run commands | the end of a replaced pipe, timers during a load |
| Viewer page bridge (`main.ts`, `preload.ts`, `viewerBridge.ts`) | window's full screen, waiting commands; page's observation | resubscribe, request and observe full screen | answers overtaken by events, reloads |
| Windows target tool (`scripts/windows/Invoke-CamStationWindowsTarget.mjs`) | what lies on the PC: uploads, tasks, run directories | eleven modes, each a chain of remote calls | calls given up while the PC goes on, failing removal |
| Viewer lease and IPC (`viewerservice/lease.go`, `server.go`) | the lease, its owner and expiry, waiting command results | acquire, refresh, authorize, release, dispatch | expiry between authorisation and use, 20 s wait |
| Viewer update validation (`store/viewer_update_validation.go`, `viewers.go`) | one row per Viewer: healthy since, last seen, token | observe, reset | continuity of observations, clocks |
| Legacy agent, installer, bootstrap (`vieweragent`, `viewerinstall`, `viewerbootstrap`) | transaction journal, commit marker, current version | apply, recover, roll back | crash between steps, ownership |
| Recorder (`internal/recorder`) | workers by stream, segment rows, temp and final files | start, stop, suspend, open, close, finalize, recover | unlock while a worker stops, crash recovery, disk guard |
| Stream runtime and camera policies (`internal/stream`, `cmd/camstationd/apply.go`) | go2rtc configuration, last good copy, policy rows | prepare, commit, roll back, reconcile | failure half way, recorder handoff |
| ffmpeg supervisor | GPU slots, status files | run, probe, fall back | slots of dead processes |
| Cron, profiles, probing, media index, incidents, logs, legacy import, packaging | see `PROJECT.json` | | mostly sequential data handling |

The server and the Viewer Service talk over HTTP: commands go down an SSE stream
or, while it is not proven alive, a long poll; results come up as one request
each. The Service hands commands to its engine through an in-memory queue and to
the Viewer application through a named pipe that only the lease owner may use.
The application shows the server's live page and passes commands on to it
through the bridge. The page's tiles open connections to go2rtc and are
promoted, stopped or hidden one by one; PTZ and recorded playback share the page
with them. The recorder, the cleanup and the backup share the recording rows and
files.

`PROJECT.json` lists every component with its status, and under `hazards` what a
test of this code would hardly reach, each with the properties that cover it.

## 2. Modules

| Module | Models |
|---|---|
| `ViewerCommands` | vocabulary of both ends: types, states, error codes, operation keys, results |
| `ViewerCommandQueue` | the server's table; one action per transaction |
| `ViewerCommandEngine` | the Service's engine and journal in an arbitrary environment, and its properties |
| `ViewerControl` | queue and engine composed with the transports, reports and process ends |
| `RemoteCommand` | the abstract promise: each command is revoked, closed without effect, or takes effect once and is settled |
| `MCViewerControl` | sets of command types for TLC |
| `ViewerCommandEngineProofs` | the engine's inductive invariants and theorems |
| `ViewerControlProofs` | the path end to end: its invariant, the engine's theorems inherited, the order of effects, the refinement of `RemoteCommand` |
| `BackupJobs` | the backup rows of the jobs table; one operator per guarded update |
| `RecordingRetention` | closed segments: archive move, staged delete, capacity cleanup, backup runs, kills of the daemon |
| `RecordingRetentionProofs` | its inductive invariant and theorems |
| `LivePlayback` | one live tile: recovery budget, timers, transports, the probe back to the primary stream |
| `PlaybackConnection` | one connection of a video element: WebRTC or MSE, pending media, probe, close |
| `PtzControl` | hold, panel and seek in the browser, gate and generation on the server, the camera |
| `LivePictureProofs` | invariants and theorems of `PlaybackConnection` and `PtzControl` |
| `RecordedPlayback` | several recorded tiles behind one clock and one barrier |
| `PlaybackProofs` | invariants and theorems of `LivePlayback` and `RecordedPlayback` |
| `RecordingBrowser` | the recordings page and the gestures on its time line |
| `LiveLayouts` | layouts of the live page: drafts, saves, defaults, refetches |
| `LiveTiles` | selection, focus and the enlargement of a recorded picture |
| `ViewerPanels` | the Viewer pages: arming, confirming, polling |
| `ConsolePageProofs` | invariants and theorems of `LiveTiles`, `ViewerPanels`, `RecordingBrowser` and `LiveLayouts` |
| `ViewerApp` | the Windows Viewer's process with its pipe, lease and pages |
| `ViewerBridge` | commands and full screen between that process and the page |
| `WindowsTarget` | the operations of the tool for the Windows PCs and what they leave there |
| `ViewerPcProofs` | invariants and theorems of `ViewerBridge`, `WindowsTarget` and `ViewerApp` |
| `MCConsole` | the eleven components from `LivePlayback` to `WindowsTarget` for TLC |
| `ConsoleProofs` | the console as the composition of those eleven |

**Engine.** `engine` says where the holder of `engine.mu` stands. `Handle` is cut
at every journal save, report and effect: `Handle*` runs to the first of them,
then `SaveRunning`, `ExecuteBegin`, `ExecuteEnd`, `Finish`, `Report` and
`Confirm` follow. The order acknowledged-save, acknowledged-report,
running-save, running-report, effect, terminal-save, terminal-report,
reported-save is that of the source. `Reconcile` is a sweep over the records in
an arbitrary order (Go map iteration). `Stop` loses everything but the journal
and the boot number, and can happen anywhere. A journal write replaces the whole
file by a rename, hence it is atomic; a write that fails leaves the old file.
`executions` and `pruned` are history variables: how often an effect began, and
which records the bound of 256 has dropped.

**Queue.** Commands of one Viewer. Clocks appear as sets: the ids whose TTL has
passed on the server (`serverLapsed`) and on the Viewer (`viewerLapsed`).
Expiry is not a step of its own: the delivery transaction expires what is
overdue and then hands out the oldest open row.

**Path.** A frame in flight can be lost with its session; a poll answer can
arrive after SSE has come back; a report is answered, lost on the way there, lost
on the way back, or arrives at the server after the client gave up (`late`).
`LoopStops` stands for every end of `HTTPControlLoop.Run`: changed
configuration and an overflowing queue.

**Refinement.** `PhaseOf` maps a row, its journal record and its effects to the
phase of `RemoteCommand`; `KeepsRemoteCommandPromise` is `Remote!Spec`.

**Retention.** `row` and `file` are what the database and the directory say of
each segment; three parties change them. The archive move (`MoveToRecordings`,
`CloseSegment`) and the staged delete (`StageDelete` to `DeleteTakesRowBack`)
hold the recording media mutex, so at most one of them is between two of its
steps (`LockFree` is the mutex free). The capacity cleanup holds only a mutex of
its own and is cut at each stat, removal and row update (`Cleaner*`), hence it
meets staged files. With failing storage every rename can fail, the rename back
of a delete that gives up included (`RenameBack`); `stranded` is history, the
segments that this or a kill has left under the staged name. rclone holds nothing: `RcloneLists` is one reading of the
directory, `RcloneCopies` transfers one listed name at a time and fails when the
name is no longer there. A staged file is listed under its staged name, as
rclone does.

A backup run is a goroutine of its own (`run[j].pc`): created, started,
cutoff read and registered (`BackupLaunches`), rclone, `MarkBackedUp`,
`ListBackedUp`, one delete at a time, end. Its context can be cancelled or time
out, but only rclone looks at it: from `RcloneSucceeds` on the code uses
`context.Background()`. The job row (`BackupJobs`) is moved by the run and, at
any moment, by the routes under `/api/jobs`; each update is guarded in SQL, so
that a run whose row was finished by somebody else goes on, and a second run may
start beside it. `DaemonRestarts` kills every goroutine between any two steps
and runs `RecoverInterruptedSegments`, which puts the files of open segments in
quarantine, except those it preserves and those whose move fails; it leaves staged
files and active jobs as they are, because no code restores them.

**Console.** The eleven components that `MCConsole` extends run in a browser, in
the Viewer's process or in a script: one thread each, so that a handler is one
step and what interleaves are timers, answers, events of the browser and the
operator. They share no state the properties speak of; a behaviour of
`MCConsole` therefore runs one of them, chosen by `part` in the initial state,
and the number of states is their sum.

*Tile and connection.* `LivePlayback` is the effect of `useWebRtcMseStream`. It
abstracts a connection to whether its route works (`up`) and counts time in
seconds: a timer runs in the second it is due, in any order with what else
happens then. `PlaybackConnection` is the inside: an action per callback and per
continuation after an await, each of which may run after `Close`. Pieces of media
are numbered, so that order, loss and repetition can be seen.

*PTZ.* The counters of the code (`intentRef`, `generationRef`,
`playbackIntentRef`, the controller's generation) are only compared with their
present value. So each request carries what the comparison would say: `then` is
what the browser still wants to do with the answer, `stale` whether the
controller has gone on. `wanted` and `passed` are history.

*Recorded playback.* A call of the resolver carries its number; it is answered,
fails, or is aborted after 15 s and then rejects. `tiles` is the video element
with what its events still refer to.

*Layouts, tiles, browser, panels.* The page's copy of the server's data is a
variable of its own and is replaced by polls and refetches at any moment.
`ViewerPanels.meant`, `RecordingBrowser.due` and `leftover`, and
`LiveTiles.chosen` are history: what the operator's clicks and gestures asked
for.

*Viewer.* `ViewerApp` cuts `connectAndShow`, the saves of the setup page and the
commands at each await; a pipe that was replaced still reports its end. The
Service is what the application sees of it: lease granted, busy, expired or
refused. `ViewerBridge` keeps what main sends in order and lets the answers to
`invoke` come on their own. `WindowsTarget` gives each mode of the tool as a
record of the calls it makes; a call that times out goes on at the PC.

## 3. Runs

| Run | Instance | Shows |
|---|---|---|
| `control_overlap` | 2 commands, SSE and poll at once, one late report | nothing runs twice or out of order, revoked commands never run, rows never move back |
| `control_crash` | 1 command incl. `restart_service`, 2 boots, failing storage, late report | the server shows what happened; effects are journaled; outcomes are earned and final; `RemoteCommand` is implemented |
| `control_settles` | 1 command, 2 boots, clocks that disagree, fair | accepted commands are settled; restarted loops deliver results |
| `control_drains` | 2 commands, one an update the Service ignores, journal bound 1, 2 frames, fair | no row waits for ever; head-of-line delivery makes the bounded journal sufficient |
| `retention` | 1 segment, 2 backup jobs, 1 second, 1 kill, failing storage | no footage is lost, marks are true, rows match files under the mutex but for what is stranded, job outcomes are final |
| `console` | each of the eleven components, safety | one connection per tile and bounded silence; one move at a time and none after the release; media in order; recordings as last asked; no live page abandoned; edits not shown as saved; only what was confirmed; reports of the tool hold; bridge and page agree |
| `console_progress` | five of them, fair, shorter timers | a tile returns to its primary stream, the camera comes to rest, waiting media is appended, recorded playback goes on, the Viewer returns to its live page |
| `control_reconnect`, `control_expired`, `control_journal_failure`, `retention_same_second`, `viewer_save_twice` | smallest instance that shows it | a sentence of the documentation that the code does not keep (section 5) |

*Bounds of the command path.* Two commands are enough for order, overtaking and the bounded journal
(bound 1 stands for 256: what matters is that a settled record of an earlier
command is dropped while a later one is stored). Two boots give one crash or
restart with recovery in the second; the last boot of an instance does not stop.
Every recovery path depends on `accepted < boot` or `target <= boot` only, so a
third boot repeats the second. One frame in flight is what the session's
`lastCommandID` allows per head of queue; a second one needs the head to change
while the first is in flight, hence the two frames of `control_drains`. A queue of one
place overflows in `control_overlap`. `restart_service` and one plain type are
the two shapes a record can have; `update_app` is the type the engine refuses.
`ExecutionCap` lets executions saturate at 2.

*Bounds of retention.* One segment meets every pair of its users: archive move,
operator delete, cleanup, and two runs of which one may outlive its job row. Two
seconds (0 and 1) separate an update before a cutoff from one after it. More
segments only add order within a list; the theorems of section 4 hold for any
number of segments, jobs, seconds and kills. Three switches select the
environment: `ProtectUnbacked` is the setting the documentation recommends
(without it the cleanup deletes what is not backed up, on purpose);
`StoreErrors` lets database writes, renames and removals fail; `SameSecond`
lets a segment be closed in the second a pending backup took as its cutoff.
`CHECK_DEADLOCK FALSE` stands in both configurations because the instance really
stops: its segment is gone, its jobs are deleted and its time is used up.

*Bounds of the console.* `Console.cfg` halves the code's durations and rounds
them up (in the code: setup 5 s, retry 3, stall 10, episode 30, stable and
cooldown 5, probe every 60 for 8); the liveness run shortens them further. Both
keep the order of `DurationsAssumption`, and only the order matters to what can
overtake what; the theorems hold for all durations in it. `VIEW ShownPart` leaves
the components that stand still out of the fingerprint of a state. Five pieces of media and room for three
let the pending queue fill, drain and overflow. Two requests are a move and the
stop or move that meets it; the theorems hold for any number. Two cameras with
archives of a short gap, a long gap and a later start meet every answer of the
resolver, and the barrier needs two. `MaxCalls` = 4 counts requests of the
resolver under way, those to come and the cameras shown: two requests of one
camera are under way together with one camera shown or two, so that the late answer,
error or timeout of the older one meets the newer. An act of
the operator on a page of n cameras counts 1 + n towards `MaxActs`: 6 allows three
acts on a page of one camera or two on a page of both, and 3, in the liveness run,
one act. Three pipes are one in use, one replaced
and one whose end is still to be noticed. Two Viewers, two command rows and five
presses allow every pair of clicks with a poll between them. `MaxOperations`,
`MaxGestures`, `MaxCrossings`, `MaxPicks`, `MaxActs`, `MaxShows`, `MaxOutages`
and `MaxClicks` bound what the operator and the environment do, never what the
code does. Their number is used up at some point, which is why
`CHECK_DEADLOCK FALSE` stands in the configurations: an operator may always do
nothing more.

*Switches of the console.* Each excludes a behaviour that the code has and a
passing property does not survive; section 5 says what it looks like.
`ConnectsOverlap` (two loads of the live page at once), `PromptService` (the
Service notices the end of a pipe before it grants the next lease; assumed for
liveness only), `PushesOverlap` (two pushes of one artifact), `OnePointer` (a
second finger on the time line), `CalmReloads` (the page is replaced while the
window is at rest), `SteadyDrags` (no wheel during a drag). Three properties exclude
one in themselves: `CleanMeansSaved` is silent from an edit, a load or a second
request made while a request is in flight until the page is read again
(`crossed`), `HighlightIsHere` excepts `leftover`, and `ReportsHold` says nothing
of what an operation leaves whose copy or run failed.

*Known limits of the instances.* With bound 1, poll overlap and a completed later
command, a poll copy that is still in flight could execute again. In the program
256 later commands would have to complete during one poll answer; `control_drains`
therefore runs without the poll. With clock skew and poll, a poll copy of a
command the server has expired may be executed after a later one; order is
checked without skew.

*Fairness of the command path.* Weak fairness on every goroutine that only waits for the CPU or a
timer: the engine, the control loop, reception, the expiry of TTLs and the SCM
restarting the Service; reports are weakly fair as a whole because each has a
10 s timeout. Strong fairness on the connection of SSE and its delivery
transaction (a session that opens starts with one) and on the answer to a
report made over and over for one command. Nothing is assumed to stop a healthy
loop, to end an SSE session or to make an operator act.
`LoopRestartsDeliverResults` therefore states its premise, that the loop is down
again and again.

*Fairness of the console.* Timers that are set run (`Timers`, `Tick`,
`MoveTimesOut`, `ProbeDeadline`, `GivesUp`, `LeaseExpires`), a source buffer ends
its update, a call of the resolver is settled by its own timeout, an interval
that is set is driven, a video that is loaded and playing advances or ends. A route
that works delivers and a probe ends. A PTZ request goes on or is answered,
because every wait in it has a timeout; `GateOpens` is strongly fair because Go's
mutex starves nobody. `CursorMoves` is strongly fair: among the intervals that
run, not all can miss the moments in which a video is ahead. In the Viewer each
await ends, the Service starts and is found, and a heartbeat is refused once its
lease is gone. No connection is assumed to succeed by itself: `PrimaryComesBack`
assumes a route that works from some time on, `SeekGetsThrough` an operator who
stays with the choice.

## 4. Proofs

The theorems hold for every value of the constants that the ASSUMEs of the
modules admit; a theorem that needs more says so in its ASSUME. Every invariant
below was first checked by TLC.

### Engine

`ViewerCommandEngineProofs` proves, for every `MaxCommands`, journal bound, queue
capacity and number of boots, with and without failing storage:

- `EngineTypeCorrect`: `EngineSpec => []EngineTypeOK`;
- `ExecutesAtMostOnce`: `EngineSpec => []AtMostOnce`;
- `EffectsAreJournaled`: `EngineSpec => []EffectIsJournaled`;
- `OutcomesAreTruthful`: `EngineSpec => []OutcomeIsTruthful`;
- `OutcomesAreKept`: `EngineSpec => SettledIsFinal`.

The safety properties are not inductive. `IInv` adds `PlaceInv`, what the
holder of the mutex knows at each place: after the first save the record on disk
is the one in memory; from the second save to the effect the command is
unexecuted unless its record was once dropped. Two facts carry the argument.
`KeepsEvidence`: every step but `ExecuteBegin` starts no effect and removes no
evidence (a running or settled record) except by pruning. `NoEvidence`: a record
that is not evidence had no effect. So `SaveRunning`, which finds an acknowledged
record, knows that nothing has happened yet, and `ExecuteBegin` raises the count
from 0 to 1.

The outcomes need a second layer, `OutcomeInv`. `JournalSound` says of each
record on disk that it is `Sound`: a success has an effect or a later boot behind
it, a refusal or an expiry has none. `SettlingInv` says the same of the record
that is still in memory between the end of the effect and the save.
`KeepsOutcomes` is the step lemma that both properties follow from.

### The path end to end

`ViewerControlProofs` proves about queue, transports, reports and engine
together, for any number of commands, frames, late reports and boots, with and
without poll, failing storage and clocks that disagree:

- `ControlTypeCorrect` (`TypeOK`), `ControlExecutesAtMostOnce` (`AtMostOnce`),
  `ServerMovesForward` (`ServerNeverBackward`), `RevocationIsKept`
  (`RevocationHolds`);
- `ControlRunsTheEngine`: `Spec => EngineSpec`, so that every theorem about the
  engine in its arbitrary environment holds in this one;
- `ServerTellsWhatHappened`: every result on the server is what happened at the
  Viewer, for each command whose record was not dropped from the journal.

- `CommandsTakeEffectInOrder` (`EffectsInOrder`), assuming that there is no poll
  fallback, or that clocks agree, storage works and the journal drops no record.

Assuming `MaxCommands <= MaxRetained`, so that no record is ever dropped:

- `EachRunsOnceIfAtAll`, `EveryServerResultIsTruthful`: the properties of the runs;
- `ControlKeepsRemoteCommandPromise`: `Spec => KeepsRemoteCommandPromise`, the
  refinement of `RemoteCommand`.

The assumption is needed: a copy in a late poll answer whose record was dropped
meanwhile is executed again (see "Known limits of the instances"). It is not
vacuous: 256 commands are allowed.

`ControlInv` has two halves. `ActsOn` is about the Viewer: queue, journal, engine
and history hold nothing but commands the server handed out, at most one of each
id, with the type the row has. `FlightInv` is about the way back: what is under
way as a report is `Backed`, that is, it agrees with the journal now. A report
that is late stays backed because the journal's outcomes are final. For the
refinement each step touches one command (`OnePartMoves`), by its row (`OneRow`)
or by its record (`OneEntry`), and `RemoteStep` shows that the phase of that
command moves as `RemoteCommand` allows while the others stand still.

The order of effects has two reasons, one for each half of its hypothesis.
`TurnInv` is common: whatever is on its way, held, recorded or executed was called,
that is, every older command had been handed out or closed when it was. Without
the poll fallback `LineInv` says that what is being done, the Service's queue and
the frames of the stream are one line in the order of ids, whatever breaks or restarts. With it, a
poll answer may overtake frames and old copies come again behind newer ones;
then `BarredInv` says that a row that has a result is recorded in the journal or
has expired for the Viewer too, so that an old copy is answered from the record
or refused. While a command has neither, the server still holds the newer ones
back. TLC finds `EffectsInOrder` violated with the poll fallback as soon as any one of
the three conditions is dropped, hence each is needed.

### Retention

`RecordingRetentionProofs` proves, for every `MaxSegments`, `MaxJobs`, `MaxTime`
and `MaxCrashes`, with and without failing storage:

- `RetentionTypeCorrect`: `Spec => []TypeOK`;
- `FilesAreWhereRowsSay`: `Spec => []FileWhereRowSays`;
- `FootageIsNotLost`: `Spec => []NoFootageLost`, and `MarksAreTrue`:
  `Spec => []BackedUpIsArchived`, both assuming `ProtectUnbacked = TRUE` and
  `SameSecond = FALSE` (the other values break them: `retention_same_second`,
  and the setting itself);
- `OutcomesAreFinal`: `Spec => OutcomeIsFinal`.

`NoFootageLost` holds because whoever removes a file without being the operator
acts on a row marked backed_up, and the marks are true. So the mark carries the
argument, and the mark is made long after the upload, by a query over the rows
and not over what rclone transferred. `Due(cutoff, s)` says that this query would
return `s`, now or once a staged delete has given it back. The invariant `RunInv` says, for each place of a run: while rclone
copies without an error, what is due is in the archive or still on the
listing; once it has succeeded, what is due is in the archive. `DueStep` is the
lemma the invariant rests on: no step makes a segment due
that was not, because every update of a row sets `updated_at` to the present
second. Only a segment closed in the cutoff's own second could become due, and
`SameSecond = FALSE` excludes that; a delete that gives up in that second is why
`Due` has its second disjunct. The
other conjuncts of `IInv` say that the segment of a staged delete and everything
on the cleaner's and the runs' lists is archived when it must be (`DeleteInv`,
`ArchivedInv`), and where the file of a row can be (`FileInv`).

`FileWhereRowSays` has an invariant of its own, `WhereInv`, which needs neither
setting: each file is where the row, or the step at which the holder of the mutex
stands, says (`InPlace`), or gone by the hand of the cleanup, or the segment is
stranded. A file under the staged name outside of a delete is always one of these.

### Live tile and recorded playback

`PlaybackProofs` proves of a live tile, for all durations in the order of
`DurationsAssumption`, both preferred transports, with and without a fallback
stream:

- `TileInvariant`: `TileSpec => []TileInv`;
- `TileHoldsOneConnection` (`OneConnection`) and `TileSilenceIsBounded`
  (`SilenceIsBounded`).

`QuietInv` relates the silence to the timer that watches it: the seconds since the
last progress and those left on the timer never exceed what the timer began
with, and a retry that is no cooldown was set early enough to end within the
stall time. `AgeInv` (an attempt is at least as old as its silence) is why a retry
starts with enough time left.

Of recorded playback, for any cameras, recordings, calls under way and acts of
the operator:

- `PlaybackInvariant`: `RecSpec => []RecInv`; `PlaybackTypeCorrect`:
  `RecSpec => []RecTypeOK`;
- `RecordingsStayAsAsked`: `RecSpec => []RecordingsAsAsked`.

An answer counts when its number is that of its camera. So `RecInv` is about
numbers: no two calls share one (`CallsApart`), no video and no other camera
holds the number of a call (`NumbersApart`), a call that counts is the newest
of a camera on the page (`StillAwaited`, `OffPage`), and a camera that shows a
file has it (`HasFile`). The model reuses numbers nobody holds; `EnoughNumbers`
is the counting argument that there is always one.

### One connection

`LivePictureProofs` proves, for every `MaxChunks` and `PendingRoom`:

- `ConnectionInvariant`: `LinkSpec => []LinkInv`; `ConnectionType` (`LinkTypeOK`);
- `ConnectionKeepsOrder`: `LinkSpec => []MediaInOrder`;
- `ClosedConnectionIsSilent`: `LinkSpec => ClosedIsSilent`.

`LetGo` is the strengthening: what is not open holds no socket, no media and
no source buffer. Every handler of the code tests one of these, so whichever
callback comes late finds its guard false. For the order, `OneMore` and its
neighbours say what appending to the queue, and moving its head to the decoder,
do to the concatenation of both; the overflow closes the connection, about which
`MediaInOrder` says nothing.

### PTZ

`LivePictureProofs` proves, for every finite non-empty set `Requests`:

- `PtzInvariant`: `PtzSpec => []PtzInv`;
- `OneMoveInFlight`: `PtzSpec => []OneMoveAtATime`;
- `TheLastChoiceWins`: `PtzSpec => []LastChoiceWins`;
- `MovesOnlyWhileHeld`: `PtzSpec => NoMoveAfterRelease`.

The argument is the chain of a hold. `OneChain`: at most one request whose answer
will lead to a move, and none while the renewal timer is set. `Held`: without an
active hold there is no chain at all, and an active hold has a pressed button.
A step that sends a move either starts the chain with the press or takes the
place of its one link, hence a move leaves only while a button is held
(`SendsOnlyHeld`). `Chosen`: a request that will switch to playback exists only
while playback is what the operator wants. `Gated` is the controller's mutex:
who is calling the device is inside, and alone. The cardinality in
`OneMoveChain` follows from uniqueness by the facts about finite sets.

### Viewer process, bridge and target tool

`ViewerPcProofs` proves of the bridge, for any number of messages:

- `ViewerReportsWhatWasDone`: `BridgeSpec => [](BridgeTypeOK /\ ResultIsEarned)`,
  however pages are replaced;
- `ViewerKnowsItsFullscreen`, and with the former `TheBridgeAgrees`
  (`BridgeAgrees`), assuming `CalmReloads = TRUE`.

Agreement at rest is not inductive, because rest is reached from states with
messages under way. `KnownInv` says what those carry: the last event posted has
the mode of the window (`LastEventIsTrue`), so has what the page holds if no event
is behind it (`HeldIsTrue`), so has the answer to its newest request
(`CurrentAnswerIsTrue`), and nothing under way is from a later load of the page
than the present one (`NothingFromTheFuture`).

Of the target tool, for any finite set of operations:

- `OperationsEndClean`: `TargetSpec => []TargetInv`, overlapping pushes included;
- `ReportsHoldForAll`: `TargetSpec => ReportsHold`, assuming
  `PushesOverlap = FALSE`.

`Sound` says for each place of an operation's chain of remote calls what lies on
the PC; `PushesApart` says how two pushes of one name stand to each other, and is
the part that fails when they overlap. `ReportsHold` speaks of a completed
operation (nothing left on the PC), of one that fails after its run succeeded (no
task, no upload), and of a pushed artifact (it stays). A run directory is no part
of the promise: `cleanup` takes any run whose task is gone, also while the
operation that made it still fetches from it, which then fails.

Of the Viewer's process, for any pipes, calls in flight, outages and clicks,
assuming `ConnectsOverlap = FALSE`:

- `ViewerInvariant`: `AppSpec => []AppInv`, the types included;
- `TheViewerIsNeverAbandoned`: `AppSpec => []NeverAbandoned`.

`NeverAbandoned` counts every call in flight as hope, and a heartbeat or a status
that comes back to a replaced connection is none. So `Pursued` asks for more:
the timer, a connection whose end the process will learn of (`Watched`), or a call
that ends in one of these (`Pursues`). It rests on `AllFit`, what waits on a pipe
waits on the connection in use, on `OneConnects`, and on `SetupIsShown`, since a
connection without a lease is kept only for the setup page. `AllFit` is what fails
when two calls connect at once.

### Pages of the console

`ConsolePageProofs` proves:

- Live tiles, for any grid and scales: `FocusFollowsSelection`
  (`TilesTypeOK`, `FocusIsSelected`), and assuming `SteadyDrags = TRUE`
  `PicturesStayAsChosen` and `TilesStayAsChosen` (`TilesAsChosen`). A selection
  that disappears takes its focus with it (`FocusNeedsSelection`); a drag starts
  from the scale last chosen (`DragIsCurrent`) and `ClampHolds` keeps it in the
  frame.
- The Viewer pages, for any fleet, commands and clicks: `ConfirmationsAreCurrent`
  (`PanelInv`) and `NothingUnconfirmedLeaves` (`OnlyWhatWasConfirmed`). `FormBacked`:
  what is armed or half confirmed was asked for of the Viewer selected now.
- The recordings page, for any recordings, requests and gestures:
  `SeeksAreServedOnce` (`SeeksOnce`, `HighlightIsHere`) with one finger or two, and
  assuming `OnePointer = TRUE` `PageShowsWhatWasAsked` (`ShowsWhatWasAsked`).
  A request is owed one seek until an effect has handled it (`RequestsOwe`), a
  press until it became a pan (`GestureOwes`).
- The arrangement, for any cameras, saved layouts and operations:
  `LayoutsInvariant` (`LayoutSpec => []LayoutInv`) and `WhatIsShownCleanIsSaved`
  (`LayoutTypeOK`, `CleanMeansSaved`). Between two requests the page's list is
  the table and an unmarked arrangement is in it (`InStep`); while the operator waits,
  the request in flight is the only one and carries what is shown (`Waits`), so its
  continuation, which takes the screen for what was saved, is right. `OthersRemain`
  is about the list without the layout deleted.

### The console as a whole

`ConsoleProofs` composes the eleven parts. `ConsoleRunsItsParts`: `ConsoleSpec`
implies the specification of every part, because the parts share no variable and
a step is one part's; so each theorem above about a part is one about the
console. `ConsoleTypeCorrect` (`ConsoleTypeOK`) follows, assuming
`ConnectsOverlap = FALSE` as `ViewerInvariant` does.

### Only model-checked

- Liveness (`AcceptedSettles`, `LoopRestartsDeliverResults`, `QueueDrains` and the
  five properties of `console_progress`), which with `ENABLED` is out of the
  prover's reach.
- The findings of section 5, which are counterexamples.

## 5. Where documentation and code differ

1. *Unreported results are re-reported after reconnect* (`docs/07-implementation-status.md`):
   only a new control loop re-reports (`control_reconnect`).
2. *Expired commands never execute* (design of 2026-07-16): the TTL is read once
   before acceptance; a row can be expired while its command goes on to execute
   (`control_expired`).
3. *Journal failure: no side effect* (design of 2026-08-10): the category is also
   reported for a redelivered command that has executed (`control_journal_failure`).
4. *Unbacked segments are protected; no local delete before the mark; upload, mark,
   delete in this order* (production cutover strategy of 2026-08-09, gate G6): the
   cutoff and `updated_at` are whole seconds and are compared with `<=`, so a
   segment closed later in the cutoff's second, after rclone read the directory,
   is marked without an upload and then deleted (`retention_same_second`).
5. *A temporary `lease_busy` never quits the active Viewer* (design of 2026-08-25):
   two saves of the setup page in flight together do (`viewer_save_twice`).

Also seen, and part of the models. Of retention: a kill during a staged delete, or
a rename back that fails, leaves the file under its staged name for ever; a cleanup
that meets a staged file marks the row "already missing", and if the delete then gives up, the file comes back without a
row that lists it; `RecoverStaleRunningJobs` has no caller, so a job that was
running at a kill blocks every later backup until an operator ends it. Of the
Viewer commands: the Service's own `command_expired` report is
refused for ever when the server expired the row first, because the codes differ;
rows in acknowledged or running never expire on the server; `restart_service`
counts as succeeded after any later boot, whoever caused it; a control loop that
starts during an execution waits for the engine's mutex before its first
heartbeat, although the design of 2026-08-10 wants the two independent. Of the
console, with the switch that excludes it where there is one:

- an aborted PTZ move that waits behind the stop can still reach the camera after
  it; the camera's own timeout ends it (`CameraComesToRest`);
- two loads of the live page at once, from a save and the reconnect timer, take
  the lease from each other, and one whose lease is granted after its connection
  was lost can leave the setup page with neither connection nor timer
  (`ConnectsOverlap`);
- a save marks as saved whatever is on the screen when its answer arrives, and a
  delete resolves the layout from what the page held when it was clicked: what was
  edited or loaded in between is shown as saved (`crossed`);
- a push that fails after a second push of the same name removes the second's
  artifact (`PushesOverlap`);
- a cleanup takes the run directory of a plan whose evidence is being fetched;
- the copies of plan, configure, system and setup stand before the `try` whose
  `finally` removes them: a copy that breaks leaves its upload on the PC, in an
  operation that reports failure;
- a request for a recording of the camera and day already shown leaves
  `preserveRequestedSelection` set, and the next choice keeps the old highlight
  (excepted by `leftover`);
- a second pointer on the time line can end or replace the first one's gesture
  (`OnePointer`), and Escape is ignored while the time line loads;
- a recording requested while its tab is hidden begins to play behind it;
- the wheel turned during a drag of an enlarged picture is undone by the next
  move (`SteadyDrags`);
- loading a layout without the focused camera leaves every tile dimmed until the
  focus is taken back, and a picture moved while its tile filled the grid keeps
  its offset in pixels when the tile shrinks, so that part of it is blank;
- a page replaced while the window changes keeps what its predecessor stored
  about the full screen until the next event (`CalmReloads`).

## 6. Not modelled

In the command path: deletion of a Viewer with its rows, several published
releases, more than one Viewer (rows never interact), payload contents beyond
the type, backoff arithmetic, heartbeats and the reverse-channel probe, power
loss between rename and directory sync. In retention: sizes (the
cleanup may start and stop at any point of its list), the arithmetic of the
scheduler, other kinds of jobs, and a directory reading that is not atomic under
a rename. In the console: rendering and wording, the geometry of layouts beyond
which camera has which place, codecs and the trimming distance of the source
buffer, diagnostics and telemetry, the pages that only show server data, and
which identity, hash or format check of the target tool fails (that one fails is
a choice). The other components are listed with their status in
`PROJECT.json`.

## 7. Plan

The Viewer command path, retention, and the console with the Viewer application
are done. What would come next, in this order:

1. `StreamPolicies`: camera policies applied to go2rtc with the recorder's
   handoff (save, activate, restart, boot, kill). The pass suspends recorders,
   writes the configuration, restarts go2rtc, resumes recorders, marks the rows
   and commits the last-good copy; invariants: once every pass is answered and none
   failed half way, configuration, last-good copy, rows and recorders agree. It meets
   the unlock in `startSpec` and passes that overlap `Reconcile`.
2. `RecorderManager`: segments from open to ready, failed or quarantined, and
   recovery; `RecordingRetention` then takes its segments from it.
3. Retention, second part: every run ends and frees its key under fairness;
   the stale job and the file without a row as runs of their own.
4. `ViewerLease` with the IPC dispatch, and `ViewerUpdateValidation`; composed
   with `ViewerApp`, whose view of the Service they would replace.
5. `ViewerInstall` and the bootstrap: refinement of an atomic switch of version.
6. `FfmpegSlots`, `CronNext` (against a reference definition).
