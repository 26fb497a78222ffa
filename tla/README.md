# iHub: specifications and proofs

This directory holds TLA+ specifications of the stateful parts of iHub, the TLC
configurations that check them on small instances, and theorems about them that
the TLA+ proof system checks for every value of the constants. iHub is a Tauri
desktop launcher: a Rust host in `src/src-tauri/src`, a React window in
`src/src`, and plugins that run in their own documents and call the host
through a bridge.

- [1. The system](#1-the-system)
- [2. What is modelled](#2-what-is-modelled)
- [3. Runs, bounds and fairness](#3-runs-bounds-and-fairness)
- [4. Disagreements between code and comments](#4-disagreements-between-code-and-comments)
- [5. Proofs](#5-proofs)
- [6. What is left out](#6-what-is-left-out)
- [7. Plan](#7-plan)

## 1. The system

Paths are below `src/src-tauri/src` unless they say otherwise.

| Component | State | Operations | What is hard | What makes it correct |
|---|---|---|---|---|
| Path and text index, `indexer.rs` | scope (`configured_roots`), entries, status, generation and content revision, startup journal binding; on disk `index-roots.json` and `index-v3.json` | `set_roots`, rebuild, scan threads, content workers, batches of changed paths, incremental save, resume at start | several locks, threads that outlive the request they were started for, two durable files, a restart anywhere | nothing outside the authorised scope is visible; a superseded thread changes nothing; a snapshot is what it says it is; status and text settle |
| Change watcher, `indexer.rs` | scope it watches, event queue, overflow flag, pending batch, pending save | `run_change_watcher`: control messages, debounce, reconcile, save, rescan | asynchronous to scope changes and scans, bounded queue, retries | a difference between index and disk is never forgotten; the index catches up |
| NTFS journal and MFT, `ntfs_usn.rs` | stored paths by file reference, journal cutoffs | replay, enumerate | records of hard links and directories, the volume changes meanwhile | a replay that is not declined is exact; a reading is of one moment |
| Plugin frontend leases, `plugin_asset_server.rs`, `app.rs` | lease map, operation lock, transition counter, native command table | issue, touch, release, revoke, Bridge calls, source operations | one document per plugin, expiry, calls under way, updates outside the lock | no document, registration or command outlives what it belongs to; limits |
| Detached windows, `detached_plugin_window.rs` | label -> plugin and lease | open, bind, unbind, close | check and use of the registry on both sides of a wait | a detached plugin keeps its document |
| Plugin store, `plugins.rs` | plugin directories, lifecycle record, local links, `install_lock` | install, update, uninstall, link, enable, disable | crash between renames, errors after the change, undo that fails | each operation happens at once or not at all |
| Calls to plugins, `app.rs` | tables of searches, selections, tools; issued results | query, select, invoke, answer, cancel, clear | late answers, replaced documents, time limits | no place in a table and no answer is lost |
| AI requests, `app.rs`, `ai_providers.rs` | tables of requests and functions, abort handles | start, abort, clear, run a function | abort against start, answer and clearing | an aborted request is over; tables drain |
| FFmpeg jobs, `app.rs`, `utools_ffmpeg.rs` | table of jobs, control word, native lease | start, quit, kill, publish, clear | kill against a good end; clearing against insertion | a killed job publishes nothing |
| Auxiliary browser windows, `utools_browser_window.rs` | parent/child registry, child leases, script table | open, bootstrap, reload, close, cascade, execute | parent goes while child starts | no lease without its window; places come back |
| Plugin storage, `utools_db.rs`, `plugin_crypto_storage.rs` | documents with revisions, attachments, ciphertext and keys | put, remove, attach, encrypt, forget | two surfaces, two stores, partial failure | no lost edit; what is saved loads; ciphertext has its key |
| Settings and preference files, `plugin_settings.rs`, `launcher_hotkey.rs`, … | file, temporary, backups | atomic replace, recovery | crash between renames, backups that stay | the next start finds the last save |
| Clipboard history, `clipboard_history.rs` | entries, consent, picture files, what the poll saw last | poll, capture, pin, delete, clear, copy back | capture against pause and clear; entry and picture are two writes | pictures match entries; nothing hidden; pins hold |
| Super panel, `super_panel.rs` | gates, listener slot, one-use token | enable, disable, gesture, consume | detector thread against the command that stops it | off is off |
| LAN share, `lan_share.rs` | share, expiry, connections | start, stop, expire, download | threads outlive their share; shared cursor | transfers are whole; an ended share is quiet |
| Cloud profiles, `cloud_credentials.rs` | profiles and passwords | save, delete | two stores | no orphan password, no profile without one |
| Hosts file, `hosts_manager.rs` | lines between two markers | view, apply, restore, elevated helper | other programs edit; helper outlives its caller | others' lines stay; what was asked is applied |
| Host log, `host_log.rs` | active and rotated files | write, rotate, clear, read | failed or interrupted rotation | order of time; only the oldest goes |
| Shortcuts, `app.rs`, `launcher_shortcuts.rs`, `plugin_shortcuts.rs` | launcher binding, plugin bindings | change, reset, refresh | undo of a registration fails | the launcher stays reachable |
| System icons, `native_icons.rs` | queue, worker, cache, closed flag | request, wait, answer, time out | callers give up on a worker that goes on; the file may change | an icon is of the version asked for; the service opens again |
| Batch rename, `builtin_tools.rs` | previews, moves under way | preview, apply, roll back | failing calls, a crash, other programs | no file is lost; the answer is true |
| Cloud sessions, UBrowser, OCR, diagnostics, UI `src/src`, SDK, scripts | sessions, caches, view state, tooling | | | section 6 |

How they interact: the UI and the plugins call Tauri commands (`app.rs`), each of
which runs on its own task or on the main thread; the commands call the
components and share them through `Arc`. The watcher thread and the content
workers call the index; the index tells the watcher its scope through a channel.
Plugin commands take the operation lock of `plugin_asset_server.rs`: the read
side for Bridge calls, the write side to issue or revoke a document and to
change a source. `plugins.rs` has an `install_lock` of its own, taken inside it,
or alone while Git works. When a document goes, `clear_plugin_runtime_state`
clears the tables of calls, AI requests, jobs and windows one after the other;
the modules of these parts each have that clearing as an action, at any moment
the lock allows.

`PROJECT.json` lists every component with its status, and under `hazards` the
places where this code can go wrong in a way a unit test would hardly reach, with
the properties that watch each.

## 2. What is modelled

| Module | Contents |
|---|---|
| `SearchIndex` | the index: scope changes, scans, workers, batches, saves, resume, restart |
| `ChangeWatcher` | EXTENDS `SearchIndex` with the watcher thread, its queue and the notification backend |
| `PluginLeases` | leases, detached windows, the operation lock, native commands, sources and updates from Git |
| `PluginStore`, `PluginRegistry` | the renames of the plugin store, and the registry of atomic operations they implement |
| `SettingsFile` | the files that are replaced as a whole, with backups and recovery; six stores of the host |
| `DocumentStore`, `SecretStores` | documents with attachments; encrypted storage and cloud profiles with the credential store |
| `BrowserWindows` | the children of a plugin's surface, their leases and scripts |
| `PluginCalls`, `AiRequests`, `FfmpegJobs` | what the host asks of a plugin, and what a plugin starts in the host |
| `LanShare`, `HostsFile`, `HostLog`, `Hotkeys` | the share, the hosts file and its helper, the log, the global shortcuts |
| `NtfsVolume` | environment: links, contents and change journal of a volume |
| `JournalReplay`, `MftWindow` | EXTEND `NtfsVolume`: the replay at startup, and the first reading of a drive |
| `SuperPanel`, `BatchRename` | the right-hold panel with its listener threads; previews and applications of a list of new names |
| `NativeIcons`, `ClipboardHistory` | the icon worker with its queue, cache and time limits; the clipboard history with its polling thread |
| `MCSearchIndex`, `MCChangeWatcher`, `MCPluginLeases`, `MCHostParts` | values of the constants for TLC, a warm start, a symmetry, the parts side by side |
| `Selection` | the elements of a sequence that are in a set (`Vec::retain`), used by `NativeIcons` and `ClipboardHistory` |
| `InTurn` | a loop over a sequence, instantiated with its body, and what is proved of every such loop; used by `JournalReplay` and `MftWindow` |
| `Index_proofs` | theorems about the index, and about the index with its watcher |
| `PluginLeases_proofs` | theorems about the leases |
| `Moves_proofs` | theorems about the store and its registry, and about `BatchRename` |
| `Journal_proofs` | theorems about `JournalReplay` and `MftWindow` |
| `Requests_proofs` | theorems about `PluginCalls`, `AiRequests`, `FfmpegJobs`, `LanShare` |
| `Files_proofs` | theorems about `SettingsFile`, `DocumentStore`, `SecretStores`, `HostLog`, `HostsFile` |
| `Surfaces_proofs` | theorems about `BrowserWindows`, `SuperPanel`, `Hotkeys`, `NativeIcons`, `ClipboardHistory` |

Definitions whose comment starts with "Mutant:" are slips a maintainer might make
in the definition that follows. They are used by nothing; `PROJECT.json` names
for each checked property one that breaks it.

### SearchIndex

A file is the stamp of its last change: what the code compares as size and
modification time. `index` is the path records, `body` the text the projection
holds for them, `apps` the application records as one Boolean. `disk` changes at
any moment (`Write`, `Delete`).

`roots_lock` is held over several steps, and other threads read and write
`generation`, `revision`, the entries and the status without it. So the holder is
a variable, `guard`, whose `step` says what it does next: `commit`, `clear`,
`discard` for `set_roots`; `bump`, `start` for `rebuild_locked`; `batch_*` for
`reconcile_watched_paths`; `scan_persist`, `scan_publish` for the end of a scan;
`replay_*` for `try_resume_startup_snapshot`. `entries` and `status` are held for
single steps. `saver` is the incremental write, which holds `snapshot_lock` only.

Without a selection of the user, `active_roots` calls `default_roots`, which looks at
every call which of the default folders are there (`indexer.rs:371-378`, 5967-6008).
So `configured` is one value until a scope is committed, and each place of the code
that calls `active_roots` takes a member of `ActiveScopes`: the selection itself, or,
where that is `DefaultScope`, any of its folders (`StandIn`: one that holds a file is
there, the others may or may not be). The two checks before a publication, at 1896 and
1914, are the disjuncts of `ScanLock`/`ScanRefused` and `ScanPersist`/`ScanRefusedAgain`;
a refused thread returns and leaves the phase as it is.

- `scan[g]` is the thread of generation `g`: `begin` (applications collected),
  `first` (the first-run publication), `walk` (`ScanRead` per file, or `ScanMft`
  for an NTFS drive root), `publish` under the lock, `schedule` after it.
- `workers` are the content workers. One that may no longer publish (its
  generation or revision has passed) can only return, so it leaves the set when
  the counters move. `WorkerRead` models the version check, the scope check and
  the byte budget `MAX_CONTENT_INDEX_BYTES`, counted in files.
- `UseJournal` turns the roots into NTFS drive roots. A journal position is a
  value of `clock`; `QuietSince(R, c)` is what `ntfs_usn.rs` answers, and
  `ScanMft`, `ResumeUnchanged` and `ReplayBegin` are its three uses.
- `Restart` models a crash anywhere: volatile state is rebuilt from the two files.
  Each file is replaced by a rename, so a write happens whole or not at all; every
  write may fail; that of the roots may also fail after it has replaced the
  file, when the directory cannot be synced, and the command then ends there.

### ChangeWatcher

`wpc` is where the loop of `run_change_watcher` stands: `control`, `watch`,
`work`, `batch`, `rebuild`, `save`. The notification backend is the crate
`notify`, modelled from how it is used: a change under a watched root is
`noticed`, then reported in any order into a channel of `EventBuffer` places;
what does not fit sets `overflow`; it may also lose what it saw and say so
(`Rescan`). A registration can fail for any root. Deadlines are not modelled:
whatever is pending may be due. Each thread of the index takes the steps of
`SearchIndex`; the system replaces only the free requests of that module by
those the watcher, the setup and the user make.

### PluginLeases

`operation_lock` is a read-write lock. Operations that take the write side and
finish before they release it are one action whose guard is `Writable` (no
Bridge call is inside). A Bridge call is three steps: the caller is checked
(`CallBegin`), the read side is taken and the lease checked again (`CallEnter`),
and the effect follows (`CallRegister`, `CallNative`). What happens outside:

- `Lapse` and `Touch`: a document misses its heartbeats, or sends one too late.
  The code finds an expired lease only when it looks; `Lapse` marks it `stale`.
- `CommandEnds`: a native command outlives the call that started it.
- `UpdateBegin` .. `UpdateFinish`: an update from Git announces itself under the
  write lock, works under `install_lock` alone, and ends under the write lock.
- `Bind`, `OpenWindow`, `CloseWindow`, `GiveBack`: the registry of detached
  windows has a mutex of its own, so a request that was answered is bound later.

`lease` keeps removed leases too: `gone` when they were taken away, `expired`
when they had lapsed before. `owner` is the document whose commands and search
providers a plugin has in the host; `ClearRuntime` is `clear_plugin_runtime_state`.

`unrevoked` is a history variable. Some operations can report an error after they
have changed the source, and revoke nothing then: `update_plugin_from_git` when
the new snapshot's information cannot be read (`plugins.rs:1343`), an uninstall
whose staged directory cannot be deleted, a disable whose plugin cannot be read
back. `LateErrors` allows them, and `unrevoked` holds their plugins until the next
revocation or grant.

### PluginStore and PluginRegistry

`dir[p]` is the directory of a plugin (none, whole, or missing some files, its
source lock or its manifest), `file` the lifecycle record and the record of
links. `op` is the operation that holds `install_lock`, with the step it is at
(`aside`, `swap`, `write`, `promote`, `remove`, `putback`) and what it holds
aside. Each step may fail, up to `MaxFaults` times in one operation, and `Crash`
ends the process between any two; nothing that lies aside is looked at after it.
`PluginRegistry` is what callers are promised: `Add`, `Change`, `Remove`,
`Switch`, `Attach` at once or not at all, and `Break` for a crash. The refinement
mapping (`Registry` in `PluginStore`) shows the state from before the operation
until the operation ends. With two failing calls in one operation the promise
does not hold, since undoing can fail too.

### Files and stores

- `SettingsFile`: a save is `SetAside`, `Promote`, `CleanUp`; a load reads the file, or
  recovers the newest backup that can be read where the file is missing. Any load may
  fail, of a file in place too (`ReadsFile`, `LoadFails`): then the cached stores and the
  hotkey go on with the default, the others answer an error. `degraded` remembers that
  a load has passed over what is there. Six files of the host follow this
  pattern and differ in three respects (`cached`, `scans`, `blind`), which are the fields of
  the constants `PluginSettings` … `LauncherHotkey`. Content is the number of the
  save, so content and order of time are the same thing.
- `DocumentStore`: a call is one action, as one lock covers it; its disjuncts are
  its outcomes: saved, not saved, the process ended before or after the file was
  replaced. `seen` is what a surface has read some time ago; `written` is history.
- `SecretStores`: `cipher`/`keyring` and `profiles`/`passwords`, with the step
  between the two writes of a call in `secretOp`.
- `HostLog`: slots of numbered entries; a rotation moves slot by slot (`moving`),
  a failed or interrupted one stops and the next begins anew.
- `HostsFile`: lines are records (a mapping, a comment, a marker, a marker with
  blanks), since the two parsers of the code differ exactly in the blanks. The
  helper's steps are `Check`, `DropBackup`, `Replace`; `Edit` is another program
  at any moment; `StopWaiting` is the host's time limit.

### Requests and tables

`PluginCalls` (searches, selections, tools), `AiRequests` and `FfmpegJobs` have
the same outline: the document's lease (`callDoc`, `aiDoc`, `jobDoc`), which
opens, closes, is lost to missed heartbeats or disposed of; a table under its own
lock; a task or caller per request with its step; and the part of
`clear_plugin_runtime_state` that sweeps the tables, one step per table, while
the tasks run on. Where a call runs under the operation lock the clearing
excludes it (`callClear = "no"`, `aiClear = "no"`); where it does not, as the
insertion of an FFmpeg job, they interleave. `BrowserWindows` adds windows that
close some time after they are told to, and bootstraps that hold a lease the
registry does not name yet.

### LanShare, Hotkeys, SuperPanel

`LanShare` has one shared file with one cursor; the connections of a share that
was stopped go on while the next begins. `Hotkeys` has the system's table of
keys (`native`), which other programs use as well, the launcher's change with its
undo steps, and the reconciliation of plugin shortcuts over a plan that may be
old by the time it is carried out. `SuperPanel` has the command on the main
thread (`panelCommand`), listener threads with a hook and a detector each, and
the gates and the token of `issue_context`; a detector's callback needs the main
thread to show the window, while the main thread may be waiting for the detector
to end (up to its time limit).

### NtfsVolume, JournalReplay and MftWindow

`NtfsVolume` is environment: links with a name and a parent, a content stamp per
file, and the journal with its reasons, which accumulate until a file is closed.
`JournalReplay` keeps the stored projection (`binding`), applies records delta by
delta (`ApplyDelta` and its cases), marks paths dirty, and declines at what it
cannot represent; `Reconcile` then reads the marked paths anew, while the volume
may change once more, and `Publish` checks that the journal has not moved. A
consequence of the code the model makes visible: every create or rename that is
followed by a close makes the exact replay decline, because the close repeats the
reason; it fails closed. A file held open for writing leaves no record when it is
written again, so `ResumeIsExact` excepts files that are still open.
`MftWindow` enumerates a table call by call while the volume changes (`opened` to
the second query) and applies the records of that window. A rename writes two
records: the replay does not need them adjacent (`MoveInTwo`), the window takes
them for adjacent as NTFS writes them (`MoveWhole`). `FSCTL_ENUM_USN_DATA` is
taken to return every name of a hard-linked file, as the code's own test does.

The path of a directory is written without recursion: the directories at or above
it, by their depth (`AtOrAbove`, `DirPath`). The loops over records, and the levels
of `MftPathResolver`, are instances of `InTurn`. Three facts about NTFS are taken
for granted: a directory keeps its name while a file below it is open, as a file
is that is being renamed (`CanMove`); of one file one name is changed at a
time (`RenameLogsOld`); the name of a rename under way is neither deleted nor closed.
Without the first, two renames under way of which one moves the other's old path
would leave a pending path no record names. `Relocated` follows the code in
what a rename rewrites: the path of everything at or below the old name, the
parent and the name only of the link that has exactly the old spelling.

### ClipboardHistory

The items in memory and in the file are one variable: a change is saved under
the lock before it counts, and rolled back when the save fails. Pictures are files
of their own (`pngs`). The polling thread samples, passes the consent, records
text or encodes, writes the picture, reads the consent again and inserts;
commands interleave at each step. The value of the clipboard is chosen at each
sample. Copied files take the path of text and have no value of their own.

### NativeIcons and BatchRename

`NativeIcons`: a caller (`asker`) holds its file open, allocates a number, sends
and waits; the time limit is two steps, as the code reads `last_completed_id` and
then stores `stalled`. The worker stamps the request, opens the service and
answers, one step each. A file has a version, which its times and size are taken
to tell; nobody replaces it while a handle of `prepare_local_open` is open, which
is what Windows does with these share modes. `held` is the version from the time
the handle was opened, and what an answer is compared with.

`BatchRename`: names lead to files, so a hard link is a second name. `batch.moves`
is what is still to be done, `LinkMove` and `UnlinkMove` of each move are steps of their
own, each may fail, and the process may end between any two. A move that fails leads to
the rollback; a temporary name that cannot be had (`NoTemporary`) ends the list at once
with nothing taken back (`builtin_tools.rs:848`). Other programs create
and remove files under the names of the folder. A new file that another program
puts under a name a move has linked in that moment is removed by the move, which
goes by names; `touched` holds these files, and those others have removed. One
list is applied at a time. The code does not enforce that: a plugin and the user
may apply lists at once, and a wider instance with two of them loses a file that
a move of one list puts where a move of the other has linked, once another program
has removed what was there.

## 3. Runs, bounds and fairness

| Run | Instance | Shows |
|---|---|---|
| `IndexScope` | 2 default folders that come and go, one with a file, and a third root, all of them NTFS; the user may choose the empty folder or the third root; 2 scans per process, 1 change, 2 starts | `OnlyAuthorized`, `SnapshotInScope` |
| `WatcherTracks` | complete snapshot, 2 files under one root, 2 scans, queue of 1, batches of 1 | `NoLostChange` |
| `WatcherResumes` | the same with NTFS roots, 1 scan, 3 starts, text budget of 1 file | `NoLostChange` through resume and replay; `MismatchIsFlagged`, `BoundSnapshotExact` of the index under its watcher |
| `WatcherSettles` | scope grows from one root to two, 2 scans | `ImplementsIndex`, `Converges`, `ScanCompletes`, `ContentIsBuilt` |
| `LeaseCases` | two cases from one initial choice: 1 plugin, 2 leases, 2 overlapping updates, late errors, a detached window; and 2 plugins, 2 requests, 1 place in the map, 1 native command | `LeaseServesSource`, `NativeOnSource`, `OwnerNotRevoked`, `RefusalIsFree` |
| `HostParts` | eighteen parts, see below | one or two properties of each |
| `FirstRunWipes`, `StaleTextStays`, `ScopeKeptLosesChange`, `DefaultScanStalls`, `DetachedReplaced`, `IconsStayClosed` | smallest instance that shows it | violations, section 4 |

`HostParts` explores eighteen parts that share no state: `part` is chosen at the
start, that part takes its steps, the others stay as they began. So each is
explored completely at its own size and none multiplies another; the replay and
the window are two parts over one volume.

| Part | Bounds | Properties |
|---|---|---|
| `PluginStore` | 2 plugins, 2 versions, 1 failing call per operation, crash anywhere | `ImplementsRegistry`: the refinement |
| `SettingsFile` | all six stores, 4 saves | `SavedIsFound`: the next start finds the last acknowledged save, or the one under way, unless a load has passed over it |
| `DocumentStore` | 1 document, 2 surfaces, 3 revisions | `NoLostEdit`, `DatabaseLoads` |
| `SecretStores` | 2 plugins, 2 profiles, 3 keys | `CipherHasItsKey`, `ProfilesAreWhole` |
| `LanShare` | 3 downloads, 2 at once, 2 shares, 2 chunks | `NoSplice`, `EndedShareIsQuiet` |
| `HostLog` | 4 files of 2 entries, 9 entries | `LogKeepsNewest` |
| `HostsFile` | 1 domain, 1 helper; others add lines up to a length of 2; first with a block, without one, and with a blank marker | `OthersLinesStay` |
| `BrowserWindows` | 1 child, 2 bootstraps, 1 script, 2 parents, 2 grants | `NoOrphanLease` |
| `AiRequests` | 1 request of 2 rounds, 2 documents | `AbortIsFinal`, `TablesDrain` |
| `FfmpegJobs` | 2 jobs, 2 documents | `KilledPublishesNothing`, `ClearedJobsAreSilent` |
| `PluginCalls` | 2 callers, 2 documents, 1 place per table | `NobodyForgotten` |
| `Hotkeys` | 3 keys, 2 bindings, 1 fault | `LauncherReachable`, `RegistryIsNative` |
| `JournalReplay` | a folder with a file that has a second name in the root, 3 file references, 3 names of which two differ in case, 3 records, 2 stamps | `ResumeIsExact` |
| `MftWindow` | the same volume | `WindowIsOneMoment` |
| `SuperPanel` | 3 listeners, 2 gestures, 2 faults | `OffIsOff` |
| `ClipboardHistory` | 1 text, 1 picture, room for one item of each and one in all, 2 pictures, 1 fault | `PicturesMatchItems`, `NothingHidden` |
| `NativeIcons` | 1 file of 2 versions, 2 callers, 2 requests, a queue and a cache of 1 | `IconIsCurrent` |
| `BatchRename` | names 1 to 3 (`LastName`), 2 files and a third from outside, 1 list of up to 2 files, 2 failing calls | `NoFileLost`, `AnswerIsTrue` |

Deadlock is not checked: an index nobody asks anything of stops, as does a host
whose leases, saves or requests are used up; both are right.

**Bounds.** `MaxClock` (changes to the disk), `MaxGeneration` (scans per process),
`MaxRevision` (a batch starts only below it; other steps may still pass it),
`MaxBoots` (starts), `MaxBodies`, `EventBuffer`, `BatchLimit` (limits of the code,
made small so that they are reached), `MaxVersion` (replacements of a source),
and the sets `Leases`, `Calls`, `Requests`, `Updates` (how many there ever are or
are at once). `Changing` restricts which plugins are changed. Every race modelled
is between a thread and the one that supersedes it, so two scans, two workers,
two updates or two requests at a time meet every pair; with the queue and batch
limit at one, both limits are passed by two files. `WatcherResumes`
allows one scan per process. That leaves out one interleaving of
the resume, described in section 4.

In the parts of `HostParts` a race is between one request and one sweep, stop,
answer or crash, so two documents, parents or shares, of which the second
supersedes the first, meet each pair; one request is enough where requests only
share the table (`AiRequests`), two where they also share a lock (`FfmpegJobs`)
or a limit (`PluginCalls`). Four saves let a backup of the first be met by the
recovery after the third. Four log files are what the code keeps. `MaxFaults`,
`MaxKeyFaults`, `MaxPanelFaults` and `MaxClipFaults` bound the calls that fail;
`WorthWatching` and `WindowStillOpen` bound what other programs do to a volume
to the time in which a replay or a reading can still succeed; the remaining
constants count things that are ever created. In `MCHostParts`, `FewShortcuts`,
`FewCalls` and `FewScripts` keep three parts small: two bindings of one key and one
of a key of the launcher, one caller of each kind of call and a second one that
searches, scripts while the windows have had one lease.

The lease run uses the symmetry of leases and of updates. It checks invariants
and a property of single steps only, for which this is sound; no liveness is
checked with symmetry.

**First states.** `IndexScope` begins with a first start, whose process runs on while
the file changes, or with a later one that finds a snapshot of a file deleted since
and may be followed by another (`TwoInits`); so changes, resume and restart are all
there without being multiplied with each other. The watcher runs about lost changes start from a complete snapshot
(`WarmInit`): on a first run the publication of `FirstRunWipes` would hide
everything else.

**Fairness.** `Fairness` and `SystemFairness` say that the operating system runs
a started thread: the holder of a lock goes on, each scan goes on, content
workers go on, the watcher's loop goes on, setup completes, and the backend
reports what it noticed. It is weak fairness, since each of these is enabled
until it is taken. Nothing obliges a user, the disk or the process to do anything,
so no liveness rests on somebody asking for a scan. A write may fail for ever:
nothing in the liveness properties needs it to succeed. `ContentIsBuilt` and
`Converges` are stated under `[]Room`: once a bound is used up the model cannot
start the scan or the batch the program would. The parts of `HostParts` state no
fairness and no liveness; `TablesDrain` and `NobodyForgotten`
say instead that every entry has somebody whose next steps remove it.

## 4. Disagreements between code and comments

Each is a run that TLC must find violated; `PROJECT.json` quotes the comment.

- `FirstRunWipes`: a scan thread looks once whether the entries are empty and
  later replaces them by the applications alone (`indexer.rs:1813`), with no
  check of the generation. A newer scan that has published in between loses
  its file entries until the next scan.
- `StaleTextStays`: the content schedule of a scan comes after it has released
  `roots_lock` (`indexer.rs:1982`). Late, it moves the revision and so stops the worker
  that a batch has started to replace text of an older version (1633), while its own
  belongs to an older generation and returns at once. Searches find the old text
  until the next batch or scan. What does hold is `MismatchIsFlagged`: the status
  never says meanwhile that the text is complete.
- `ScopeKeptLosesChange`: the watcher takes up a new scope after `set_roots` has
  told it, and drops its pending batch then (`indexer.rs:2235`). A change of a
  root that stays in the scope, read too early by the scan, is forgotten.
- `DefaultScanStalls`: a default folder that is created or removed while the default
  scope is scanned makes the check before the publication fail with the generation
  unchanged (`indexer.rs:1896`, 1914). The thread returns, and the phase stays at
  "scanning", which refuses the batches, saves and rescans of the watcher, until
  somebody asks for a rebuild. For a selection of the user the same property holds,
  in `WatcherSettles`.
- `DetachedReplaced`: a launcher request asks whether a plugin is detached before
  it waits for the operation lock (`app.rs:2675`) and not again. It then replaces
  the document of a window that was detached while it waited.
- `IconsStayClosed`: a caller whose time is up reads the number of the last answer
  and then closes the icon service (`native_icons.rs:198-199`). If the worker stamps
  the request, opens the service and answers in between, nothing is left that would
  open it again, and there are no system icons until the program is restarted.

More traces and observations of the models that have no run:

- the same late schedule after the one of a newer scan stops that scan's worker: no
  text is built, and `content_status` stays at "indexing" until the next batch or
  scan. `ContentIsBuilt` of `WatcherSettles` is about behaviours of one scan (`Room`),
  where this cannot happen;
- the watcher compares the roots it was told with the default folders that are there
  now (`indexer.rs:1465`, 1507). Once they differ, its batches and rescans are dropped
  as those of another scope, and nobody tells it the new one, so under the default scope
  `NoLostChange` fails too (TLC shows it in an instance with one file and two default
  folders);
- a worker that looked up its records before a batch was published
  (`indexer.rs:1539`, `1620`) attaches text of their older version; the batch's own
  schedule replaces it, unless `StaleTextStays` happens;
- a watcher-started scan that is still running when the startup resume publishes
  (`indexer.rs:1327`) later overwrites with older reads what batches have
  reconciled since;
- two requests of one detached window whose bindings happen in the other order
  than their grants (`detached_plugin_window.rs:171`): the registry then names
  the replaced lease, heartbeats of the present one are refused, and closing the
  window does not release it. It is left to expire;
- the state a new document finds is not clean when the old one is cleared after
  the new lease is active (`app.rs:2712` against `9831`): a call entered between
  two sweeps reaches it;
- the comment at `plugins.rs:1232-1234` speaks of an atomic swap; a crash between
  the renames at 1328 and 1332 leaves no snapshot, and the backup is not looked
  for. `PluginRegistry!Break` states this loss. For the length of
  `write_lifecycle_store` (2803) a reader without the lock finds no record, which
  reads like an empty one;
- a marker with blanks is a marker to the parser (`hosts_manager.rs:376`, `444`)
  and none to `managed_block_range` (349), so what the user sees as managed may lie outside the
  block that is replaced; an edit between the helper's check (787) and `ReplaceFileW` (837) is lost, and
  `OthersLinesStay` speaks of the file the helper has checked;
- a function of an AI request entered after its request was aborted keeps its
  place until the plugin is cleared again (`app.rs:7132`); `TablesDrain` names it
  (`overtaken`);
- clearing the launcher hotkey removes the file only (`launcher_hotkey.rs:98`). A
  backup an earlier save could not remove (325) is moved into its place by the next
  load (370), and the hotkey is back; `SavedIsFound` leaves that store out;
- a settings file that is there and cannot be read or parsed makes the cached stores
  and the hotkey begin with the default (`plugin_settings.rs:64-70`,
  `launcher_shortcuts.rs:106-112`), and the next save replaces it. The same is lost
  where the newest backup cannot be read and an older one or none is taken (353-369),
  and where `Path::exists` answers no because the file cannot be looked at.
  `SavedIsFound` excuses these by `degraded`;
- a batch rename for which no temporary name can be had leaves the files it has moved
  so far under `.ihub-rename-*.tmp` (`builtin_tools.rs:848`). Its error names the path
  and mentions neither them nor a rollback; the third part of `AnswerIsTrue` says what
  is on the disk then;
- a plugin key whose removal failed is dropped from the registry and not tried
  again (`app.rs:12328`);
- the sessions of `cloud_drive.rs`, read but not modelled: forgetting a profile
  (320) does not exclude a connection to it that is being made (267-305);
- disabling the Super Panel while its detector is showing the window: the callback
  waits for the main thread, which waits for the detector, so the command reports
  an error after two seconds (`super_panel.rs:667`). The comment at 257-260 says that
  disable cannot deadlock against the callback, and with the time limit it does
  not; the listener stays in its slot for the next command.

## 5. Proofs

The theorems hold for any values of the constants that satisfy the ASSUMEs of
the modules: for the index and the leases any roots, files, scopes, plugins,
leases, calls and bounds where the first scope is not empty, `RootOf` is total,
limits are positive naturals, leases, plugins and updates are finite sets, `None`
is neither a lease nor a plugin; for the other modules any sets of stores,
plugins, profiles, connections or jobs and any natural bounds. TLC evaluates the
assumptions in every run that extends the module.

| Theorem | Says |
|---|---|
| `TypeCorrect` | `Spec => []TypeOK` of the index |
| `ScopeIsBoundary`, `SnapshotsAreScoped` | `Spec => []OnlyAuthorized`, `[]SnapshotInScope` |
| `BoundSnapshotsAreExact` | `Spec => []BoundSnapshotExact`: a restart from a snapshot with a journal position misses no change |
| `StaleTextIsFlagged` | `Spec => []MismatchIsFlagged` |
| `SystemImplementsIndex` | `SystemSpec => Spec`: the watcher composed with the index implements the index |
| `ScopeIsBoundaryWithWatcher` | `SystemSpec => []OnlyAuthorized` |
| `WatcherTyped` | `SystemSpec => []WatchTypeOK`: types of the watcher, queue and batch within their limits |
| `ChangesAreTracked` | `SystemSpec /\ []Undisturbed => []NoLostChange` |
| `LeaseTyping` | `Spec => []LeaseTypeOK`, with both limits |
| `RefusalsAreFree` | `Spec => RefusalIsFree`, a property of steps |
| `NoOrphanedRegistration` | `Spec => []OwnerNotRevoked` |
| `TransitionsAreCounted` | `Spec => []TransitionsCounted` |
| `CommandsRunInstalledSource` | `Spec => []NativeOnSource` |
| `DocumentsServeSource` | `Spec => []LeaseServesSource` |
| `StoreTyping` | `StoreSpec => []StoreTypeOK` |
| `StoreImplementsRegistry` | `StoreSpec => Registry!RegistrySpec`, if at most one call fails in an operation |
| `SettingsTyped`, `SavesAreFound` | `SettingsSpec => []SettingsTypeOK`, `[]SavedIsFound` |
| `EditsAreKept`, `SavedDatabaseLoads` | `DocSpec => []NoLostEdit`, `[]DatabaseLoads` |
| `CipherIsReadable`, `ProfilesKeepPasswords` | `SecretSpec => []CipherHasItsKey`, `[]ProfilesAreWhole` |
| `LogIsInOrder` | `LogSpec => []LogKeepsNewest` |
| `OtherLinesAreKept` | `HostsSpec => OthersLinesStay`, a property of steps |
| `TransfersAreWhole`, `EndedSharesAreQuiet` | `ShareSpec => []NoSplice`, `[]EndedShareIsQuiet` |
| `KillsAreObeyed`, `ClearedAreSilent` | `JobSpec => []KilledPublishesNothing`, `[]ClearedJobsAreSilent` |
| `AbortsAreFinal`, `AiTablesDrain` | `AiSpec => []AbortIsFinal`, `[]TablesDrain` |
| `CallersAreServed` | `CallsSpec => []NobodyForgotten` |
| `NoLeaseIsOrphaned` | `BrowserSpec => []NoOrphanLease` |
| `PanelOffIsOff` | `PanelSpec => []OffIsOff` |
| `LauncherStaysReachable`, `RegistryFollowsSystem` | `KeysSpec => []LauncherReachable`, `[]RegistryIsNative` |
| `IconsAreCurrent` | `IconSpec => []IconIsCurrent` |
| `PicturesMatch`, `NothingIsHidden` | `ClipSpec => []PicturesMatchItems`, `[]NothingHidden` |
| `NoFileIsLost`, `AnswersAreTrue` | `RenameSpec => []NoFileLost`, `[]AnswerIsTrue` |
| `ResumeExact` | `ReplaySpec => []ResumeIsExact` |
| `JournalInvariant` | `ReplaySpec => [](VolumeInv /\ ReadInv)`, the invariant `ResumeExact` rests on |
| `WindowOfOneMoment` | `WindowSpec => []WindowIsOneMoment` |

**Index.** `TypeInv` is `TypeOK` with two facts it needs to be inductive: a
generation is bumped only when there is room (`RoomToBump`) and a published scan
has a generation (`GuardsScan`). `OnlyAuthorized` is not inductive: what will be
visible is already on its way. `SafeInv` adds where: entries outside the scope
exist only while `set_roots` discards (`EntriesScoped`), text has a record
(`TextHasRecord`), a batch, a replay, a scan and a save carry only paths of the
scope they were made for (`BatchScoped`, `ReplayScoped`, `ScansScoped`,
`SaverScoped`), the publishing scan is the newest and its scope lies in the
configured one (`PublisherScoped`), what `set_roots` discards by lies in it too
(`DiscardScoped`), and the snapshot's paths belong to its roots (`SnapshotInScope`).
`configured` cannot change under a lock holder, but the folders that stand for the
default scope can, so a replay, a save and the snapshot have the weaker bond of
`NearScope`: roots and paths may differ as long as both are default folders. The second
check of the publication fails in exactly this case (`ScanRefusedAgain`). A snapshot of
such roots is harmless to `OnlyAuthorized` because the loader looks at each path
(`Restorable`), which the mutant of `IndexScope` does not.

**Snapshots and the journal.** `BoundSnapshotExact` compares a file on the disk with
the memory that wrote it, so everything on the way from the one to the other has to
be exact: the snapshot, the list of a scan outside what it has still to read, a
replay outside the paths it has still to reconcile (`SnapshotExact`, `ScansExact`,
`ReplayExact`). Exact means equal to the disk for each file *at rest since* the
position (`ExactBut`). A change to the disk is dated after every position taken so
far (`DiskDated`), so it cannot make one wrong. While the position the process
started with waits to be used, every version of a file that some thread holds is
the one on the disk or none (`StartupExact`); a step that only moves such versions
about (`Known`) keeps it.

**Stale text.** The invariant is about who will replace what is out of date. A worker
that may still publish has the current counters (`WorkersCurrent`), what it has read
is of the recorded version unless a schedule is due (`OutdatedIsReplaced`), and so
is text that is already visible while a worker is about to report success
(`UnflaggedIsReplaced`). A schedule that is due stays due until it is made or a newer
generation begins (`Due`); `ScansToCome` says that the scan of such a generation has
not begun. `MismatchHeals`, which asks for a worker and not for a status, is false:
`StaleTextStays`.

**Watcher.** Refinement: each step of the system is a step of `SearchIndex` or
leaves its variables alone, since a scan or batch for the scope the watcher
watches is refused unless that is the active one (`WatchedScopeIsActive`). What is proved of the
index then holds with its watcher. `WatchInv` is the types of the queue and the
loop with `BatchFits`: a batch is a full one, or no more paths than its limit, since a
path joins it only where there is room and else turns it into a full one.

**No change is lost.** `LossInv`: what an entry, a batch, a replay or the newest scan
holds of a watched file is what the disk holds, or the watcher knows otherwise:
the difference is noticed, queued, hidden behind the overflow flag, batched, or
still to be read (`Fresh`, `Tracked`). `EntriesTracked` says it of the entries, outside a
scan and a replay and but for the paths the batch under way is about to replace;
`ReadTracked`, `ReplayTracked` and `ScanTracked` say it of what was read. Each step
then only has to keep what is known (`KeepsTrack`), and a change is noticed in the step that
makes it. Until startup has decided, entries are those of the snapshot for files at
rest since (`Restored`). The theorem has a hypothesis, because without it the property is
false: `Undisturbed` excludes the commit of another scope (which loses a change in
`ScopeKeptLosesChange`), default folders of which one may be gone or back
(the watcher's batches are refused then), a first-run scan that another has overtaken
(`FirstRunWipes`), and a scan of the watcher before startup has decided whether
to resume. The last is described in section 4 (a watcher-started scan during the resume); the program's debounce,
which is not modelled, makes it all but impossible. The runs `WatcherTracks` and `WatcherResumes` check the property in instances without
these steps, with queue and batch limits that are reached.

**Leases.** `NextFrames` says which actions change which variable; each part of the
type invariant, and each argument below, then looks only at those.

- Limits: a grant adds one lease to those it does not replace, and was refused at
  the limit. From this follows `FullFacts`: within the limit, a full map holds
  nothing the request would replace, so a refusal leaves the map as it is,
  although the code removes the old lease before it looks at the limit.
- `OwnerInv`: a call keeps the plugin of its lease (`CallsLeased`), and a call
  inside the lock has a lease that was not taken away (`EnteredHold`). The key
  lemma is `TakenAway`: a present document goes only when no call is inside, and
  the registrations of its plugin go in the same step.
- `CommandInv`: no plugin with a running command has an update under way
  (`QuietUpdates`). A command starts only at a count of zero, which by
  `TransitionsCounted` means no update; an update begins only when nothing runs.
- `LeaseServesSource` is inductive with the types: an operation that changes the
  source revokes the plugin's documents in the same step, or one of the two
  excuses begins, and each excuse ends only with a revocation or a new grant.

**Plugin store.** `StoreInv` says for each kind of operation where the directory
and the two records of its plugin are at each step (`Installs`, `Updates`,
`Uninstalls`, `Writes`, `Records`). The refinement then follows step by step: an
operation that begins or goes on is not seen (`NotSeen`), one that ends is the
registry's operation or a stutter, and a crash is `Break`. `MaxFaults <= 1` is
used where an uninstall that undoes itself must still have the record it
began with.

**Settings files.** `SettingsInv`: every backup is older than the file, a save is
newer than both (`BackupsAreOlder`, `SaveIsNewest`, `StepsInPlace`), and what a
start would load is what is answered, or the save that was cut short (`Found`).
With `NewestExists`, the newest backup is the one of this save whenever the file
is missing; so the many backups that may have stayed behind do no harm.

**Secrets.** The order of the two writes (`CryptoInOrder`, `CloudInOrder`): a key is
new only while there is no ciphertext and goes only when the ciphertext has gone;
a profile that is being saved has its password first, and one that is being
dropped lost it first.

**LAN share.** `OneReader`: reading means holding the lock of the file, and one
connection holds it. Hence the cursor is always one past what the reader has sent
or holds (`InOrder`). `LastPiece` counts what is sent after the end; `Counted` says
that the counter of a share is the number of its connections.

**AI requests.** A request that is not in the table was taken by its task, by an abort
or by the clearing, and of the last two only one has it (`AiListed`). Whoever has it
will tell the task to end once the handle of the task is known (`AiTold`, `Handed`) and
answers its pending function (`AiAsked`). An action of one request is judged by that
request (`AiGood`); the clearing takes all that are listed in one step and tells them
one by one.

**Calls to plugins.** `CallerGood`: the entry of a caller is in the table while the
caller is between sending and removing it, and a caller without an answer has
its entry. What the invariant adds to the property is that a tool's entry has gone
when its answer is there, since its caller does not remove it.

**Documents.** `DocInv`: a revision stands for one content. A surface whose revision is
the current one has therefore read what is there (although the cache, the file
and the surface are three places), and what it writes has the edits of what it replaces.
Revisions are never given out twice, since `issued` bounds those of the disk and of
all surfaces. The cache is the disk's content or is not loaded, wherever a write failed.

**Log.** `FilesInOrder` and `LinesInOrder`: entries are in the order of time within a
file and across files. A rotation that has come down to a slot has emptied the one
above, which is what makes a move keep the order wherever the last one stopped.
`NewestKept` says what the numbers in between are: readable, or `spoilt`.

**Hosts file.** What a helper is to write keeps the lines before and after the block of
the file the helper was made for, then of the one it has checked (`AppliesTo`). The
lemmas about lines say where the block of a concatenation is: mappings contain no
marker (`Unmark`), so the only markers are those the apply puts around them.

**Browser windows.** `Held`: a served lease is in the registry, in the hands of a
bootstrap that will bind or give it up, or among those being released. A bootstrap
has two leases in its hands where it replaces one. A window that is not built has no
bootstrap (`Unbuilt`), so closing one of these leaves no lease behind.

**Super panel.** Between the switch and the revocation a gesture may still wait; a
listener is started only when the slot is empty and no other is alive.

**Shortcuts.** `LauncherInv`: while a change is under way the status stays, and the key
of the change is the launcher's from its registration until it is undone (`Taken`).
`PreferenceInv` holds as long as fewer than two steps have failed (`Calm`), because a
failed undo is the second fault; `Faulted` records the first. `ShortcutsInv` says what
the plan of a reconciliation, which may be old, still may rely on.

**Icons.** A caller holds its file open from before it takes a number (`AskersHold`), the
queue holds it for the number (`QueueHolds`), and the worker until it has the icon
(`WorkerHolds`), so the version the caller has seen is the one the worker reads, and a
number is of one request (`OwnNumbers`). An entry of the cache has the icon of the
version in its key (`GoodEntries`), so an answer that is old in time is still current.
After the file is released the worker keeps only the icon, which `WorkerHolds`
compares with what the caller held.

**Clipboard.** `PicturesAccounted`: a picture without an entry is in somebody's hands:
the poll's, before its entry is saved, or of whoever is removing it. A new picture
is a new file, so it is nobody else's. `RecordedIsThere` and `CopyIsThere`: what
was recorded, or is copied back, is in the list or was removed from it; a step that
changes the list may move a clip from the one to the other and loses none
(`There`). The poll's last sight is set from these two only, or without consent.

**Batch rename.** The temporary names of a list are names of no file and different
from each other. `MovesInOrder` says which moves are left: of the first phase, of the
second, or those that take back the ones made, last first. `FileIsThere` then says
for each item where its file is; `LinkedIsSafe`, that between linking and unlinking
both names lead to it. A list that ended for want of a temporary name keeps the moves it
had left, which say how far it came. `touched` excepts files other programs have
removed or put in the way.

**Journal replay.** `ResumeIsExact` speaks of a binding whose journal has not moved,
and a step of the volume makes it say nothing; what a later replay makes of that
step has to be known all along. `ReadInv` therefore looks ahead: while the journal
can be read, a replay from the stored position to the present end gives up or has
the stable paths of the present tree, renames pending only where the volume is between
the two records of one (`Tracking`), and the index is current for each file whose
path is not marked (`Current`); together `ReplayGood`. `VolumeInv` says that the
volume is a tree. One lemma for each operation of the volume (`CreateKeeps`, `DeleteKeeps`,
`LogsNewKeeps`, ...) shows that its records, applied to such a projection, lead to
one of the new tree, and `OneMoreReplayed` appends them to the loop. The hard one is
the rename of a directory (`OnNewName`): that the paths with the old path as a prefix,
whatever their spelling, are those at or below the directory (`WithinLink`), and that
taking the new prefix gives their new paths (`MovedPaths`, `SubtreeMoves`). At the end
of a replay whose cutoff is still the end of the journal nothing is pending and what
it reached is the tree; what was marked and read again is current (`ReconciledIsCurrent`),
so what is published is exact. A modification of a file that is held open writes no
record, which is why `Current` and the property except files with the reason "data".
TLC checked the invariant on two trees and five records (1,865,073 states)
before it was proved.

**First reading.** The table is of no one moment, so the invariant says what the
records since the first query leave of each link: there whatever was gathered
(`Made`), there if it was gathered (`Kept`), or gone. `InStep` says that this is the volume,
of the references enumerated so far, unless a record is one that gives the
reading up (`Ambiguous`). Each operation of the volume changes the tree as its records
say (`Recorded`), and `TablesApplied` says that the loop computes just `Made` and
`Kept`. Then the closed table is the tree (`ClosedIsTree`), and resolving it level by
level comes to every path, since no directory is deeper than there are links
(`DepthIsBounded`, `EntriesOfTree`).

**Trees.** Both rest on the same lemmas about trees: induction from the root down
(`TreeInduction`), no directory above itself (`NoCircle`), a directory one deeper than
its parent (`DepthFacts`), its path its parent's and its name (`PathEquations`), two links with
different paths whatever their case (`LinkKeys`), and what a link more, a link less or a
directory elsewhere does to the paths of the others (`LinkMore`, `LinkLess`, `DirectoryMoves`).

**Sequences.** Induction theorems of the library take an operator, which the provers
cannot instantiate. A set does as well: `Counting` says that a set of numbers with 0 and
with the successor of each has all of them, and follows from well-foundedness;
`SelectedFrom` is proved with it about the recursive function of `Selection`.
`InTurn` does the same once for every loop: with the body as a constant operator
of the module, `AtFirst`, `OneMore` and `OnlyTheFirst` are theorems of each instance.

**FFmpeg jobs.** `Good(j)`: a kill is in the control word before the last look at it
(`JudgeRun`), nothing is published before that look, and a job that was cleared is
out of the table for good.

**Assumptions.** The ASSUMEs of these modules say that limits are naturals, that what
stands for nothing (`NoDoc`, `NoClip`, `NoKey`) is not one of the things, that
the first hosts files are sequences of lines, and of a volume that file references are
finitely many positive numbers, that `Fold` gives a form for each name, and that it
begins with a tree (`VolumeAssumption`, `TreesAssumption`).

**What the provers found in the models.** Where two conditions of a CASE overlap, TLA+
leaves the choice open, while TLC takes the first: in `BatchRename` and
`ApplyToTable` an order was meant that was not stated, and they are nested IFs now, in
the order of the code; the cases of `ApplyDelta` exclude each other since records with
two of these reasons are refused before. `Decline` said with ENABLED what it
says now with the results (`Results`, `Reconciles`). The volume could rename a directory
above a file in the middle of its own rename.

**Only model-checked.** Liveness under fairness (`ScanCompletes`, `Converges`,
`ContentIsBuilt`) is out of the prover's reach. All other properties of the passing runs
are theorems, `NoLostChange` under the hypothesis above and `ImplementsRegistry` for at
most one failing call in an operation. The type invariants
and `TransitionsCounted` are proved and no run checks them any
more.

## 6. What is left out

- Index: the threads that refresh applications (a refresh may replace the
  application records of a scan that published meanwhile, `indexer.rs:2802`) and
  the checkpoint of the journal; the limits on entries and their order; the
  legacy v2 cache; query and ranking; a thread that cannot be spawned (then
  `scanning` would stay, `indexer.rs:1794`); a file of the MFT whose metadata
  cannot be read for a moment. The scheduling of a content worker, which bumps the
  revision, sets the status and spawns, is one step. Of the default folders, one that
  holds a file is taken to be there, one at least is, and the home directory that
  stands in for all of them is left out; `IHUB_INDEX_ROOTS` is a default scope like any
  other. A selection of the user that is exactly the default folders is treated as
  these, so it may do more in the model than in the code. Under the default scope
  `SnapshotInScope` allows roots and paths of different default folders. The watcher-started scan of
  section 4 during a resume needs a second scan, which the journal runs do not
  allow.
- Watcher: deadlines, a watcher that cannot be created and is made again, a
  thread that ends because a channel is closed.
- Journal and MFT: the parsing of records, several volumes, the checkpoint file,
  the limits on records and paths. `SearchIndex` uses the journal as a position
  and a set of dirty files; `JournalReplay` is what stands behind that.
- Leases: the HTTP side of the loopback server, `lifecycle.dispose`, the time the
  building of a window takes. A source operation that waits for `install_lock`
  while it holds the write lock delays every Bridge call until Git is done; the
  holder of `install_lock` never waits for the operation lock, so this is no
  deadlock.
- Plugin store: fetching, staging and checking before anything is changed;
  asset bundles.
- Requests: path grants and launcher contexts, looked up under the operation lock;
  the provider of AI requests and the external programs are environment.
- Browser windows: several parents at once, window options, navigation.
- Documents and secrets: queries, value checks, sizes. Two processes of the host.
- Hosts file: the rotation of request files, the formats of addresses.
- Clipboard: the encoding of pictures and its limits, digests and revalidation of
  copied files, the import of the older file.
- Icons: the shell's search for an icon and its drawing, requests by type alone,
  which touch no file, and the macOS worker, whose handles keep nobody from writing.
- Batch rename: rules and names of files, the grants of plugins, two lists at once.
- Super Panel: the timing and tolerance of the gesture, what is captured.
- No module: the session table and transfers of `cloud_drive.rs`, UBrowser
  (`utools_ubrowser.rs`) and the other bridges to external programs,
  screenshots, colours, OCR, the other system tools, Wi-Fi profiles, the project template,
  the UI `src/src`, the SDK and the scripts. Of these the cloud sessions and the
  late search results of the UI have state worth a module; the others are wrappers
  over system calls, parsers, generated or static text.

The models cover the parts of the code that keep state across calls. Much of the
largest files is not of that kind: in `app.rs` and `plugins.rs` validation, parsing,
serialisation and command plumbing, and in every Rust file its unit tests, which
are often half of it.

## 7. Plan

The modules of section 2 and the theorems of section 5 exist. What comes next:

1. `ChangesAreTracked` without the last part of `Undisturbed`: the debounce of the
   watcher as a guard, or a run that shows the loss.
2. `CloudSessions`: connections against forgetting a profile, downloads and uploads
   through a temporary file.
3. `BrowserWindows` composed with `PluginLeases`, so that the lease of a child is
   the lease of that module.
4. The checkpoint and application refresh threads as further threads of
   `SearchIndex`.
5. The UI's sequence of search requests and late results.
