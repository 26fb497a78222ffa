---------------------------- MODULE SearchIndex ----------------------------
(***************************************************************************)
(* The local path index of src-tauri/src/indexer.rs: its root scope, its    *)
(* scan threads, its content workers, its durable snapshot and its restart. *)
(*                                                                         *)
(* What a thread does while it holds roots_lock is a sequence of steps of   *)
(* the variable `guard`; every other thread interleaves with each of them,  *)
(* because generation, revision, the entries and the status are also read   *)
(* and written without that lock.                                          *)
(*                                                                         *)
(* A file is abstracted to the stamp of its last change (its size and       *)
(* modification time); the application entries to one Boolean.  Any caller  *)
(* may reconcile any batch here; ChangeWatcher adds the thread that really  *)
(* decides which batches are reconciled.                                    *)
(***************************************************************************)
EXTENDS Naturals, FiniteSets

CONSTANTS Roots,          \* directories the user can authorise
          Files,          \* regular text files on the disk
          RootOf,         \* the one root each file lies under
          FirstRoots,     \* the scope configured at the first start
          DefaultScope,   \* the default folders; {}: none in this instance
          ScopeChoices,   \* the scopes a user may ask for
          MaxBodies,      \* MAX_CONTENT_INDEX_BYTES, counted in files
          UseJournal,     \* are the roots NTFS drive roots with external state?
          MaxClock,       \* bound: changes to the disk
          MaxGeneration,  \* bound: scans of one process
          MaxRevision,    \* bound: a batch starts only below this revision
          MaxBoots        \* bound: starts of the process

ASSUME FilesAssumption ==
    /\ RootOf \in [Files -> Roots]
    /\ FirstRoots \in SUBSET Roots \ {{}} /\ DefaultScope \subseteq Roots
    /\ ScopeChoices \subseteq SUBSET Roots \ {{}}
    /\ UseJournal \in BOOLEAN
ASSUME BoundsAssumption ==
    /\ MaxBodies \in Nat /\ MaxClock \in Nat \ {0} /\ MaxGeneration \in Nat
    /\ MaxRevision \in Nat /\ MaxBoots \in Nat

VARIABLES
    clock, touched, present,     \* the disk: last change of each file
    rootsFile, snapshot,         \* durable: index-roots.json, index-v3.json
    boots,                       \* starts of the process so far
    configured,                  \* configured_roots; {} when unavailable
    index, apps, body,           \* entries: path records, applications, text
    phase, contentStatus,        \* status.phase, status.content_status
    generation, revision,        \* generation, content_revision
    startup,                     \* startup_usn_binding
    guard,                       \* the holder of roots_lock, and its next step
    saver,                       \* an incremental write under snapshot_lock
    scan,                        \* the scan thread of each generation
    workers                      \* the content workers

disk     == <<clock, touched, present>>
durable  == <<rootsFile, snapshot, boots>>
records  == <<index, apps>>
counters == <<generation, revision>>
vars == <<disk, durable, configured, records, body, phase, contentStatus,
          counters, startup, guard, saver, scan, workers>>

Stamps      == 0..MaxClock
Generations == 1..MaxGeneration
Absent      == 0
Nothing     == [f \in Files |-> Absent]
FilesIn(R)  == {f \in Files : RootOf[f] \in R}

\* active_roots: a selection of the user is what it is, while default_roots
\* looks again at every call which of the default folders stand: those that
\* hold a file, and any of the others.
StandIn(R, S) == S # {} /\ \A f \in FilesIn(R) : present[f] => RootOf[f] \in S
ScopesOf(R)   == {S \in SUBSET R : S = R \/ (R = DefaultScope /\ StandIn(R, S))}
ActiveScopes  == ScopesOf(configured)

\* No journal position: a snapshot without a USN binding.
Unbound == MaxClock + 1
Cutoffs == Stamps \cup {Unbound}

\* What the disk holds for a file: nothing, or the version last written.
OnDisk(f) == IF present[f] THEN touched[f] ELSE Absent

\* No change to the scope R has been journalled after the position c.
QuietSince(R, c) == \A f \in FilesIn(R) : touched[f] <= c

Snapshot(R, idx, a, c) == [roots |-> R, index |-> idx, apps |-> a, cutoff |-> c]
NoSnapshot == Snapshot({}, Nothing, FALSE, Unbound)

\* The USN binding of a snapshot: journal position, scope and stable paths.
Paths(v) == {f \in Files : v[f] # Absent}
NoBinding == [cutoff |-> Unbound, roots |-> {}, paths |-> {}]
Binding(s) == IF s.cutoff = Unbound THEN NoBinding
              ELSE [cutoff |-> s.cutoff, roots |-> s.roots, paths |-> Paths(s.index)]

IsEmpty == index = Nothing /\ ~apps

-----------------------------------------------------------------------------
(* roots_lock *)

Free == [step |-> "free", scope |-> {}, gen |-> 0, rev |-> 0,
         paths |-> {}, todo |-> {}, found |-> Nothing, cutoff |-> Unbound]

Steps == {"free",
          "commit", "clear", "discard",         \* set_roots
          "bump", "start",                      \* rebuild_locked
          "batch_clear", "batch_read", "batch_schedule",
          "scan_persist", "scan_publish",
          "replay_read", "replay_publish"}

At(s)    == guard.step = s
LockFree == At("free")
Goto(s)  == guard' = [guard EXCEPT !.step = s]
Release  == guard' = Free

\* set_roots, up to the write of index-roots.json, which may fail, or fail after
\* the file is replaced, when its directory cannot be synced.
SetRoots(R) ==
    /\ LockFree
    /\ generation < MaxGeneration
    /\ startup' = NoBinding
    /\ \/ /\ rootsFile' = R
          /\ guard' \in {guard, [Free EXCEPT !.step = "commit", !.scope = R]}
       \/ UNCHANGED <<rootsFile, guard>>
    /\ UNCHANGED <<disk, snapshot, boots, configured, records, body, phase,
                   contentStatus, counters, saver, scan, workers>>

\* A content worker of generation g and revision r may still publish.  One that
\* may not can only look at the counters and return, so it is left out as soon
\* as the counters move.
Current(w, g, r) == w.gen = g /\ w.rev = r
StillCurrent(ws) == {w \in ws : Current(w, generation', revision')}

\* The new scope takes effect, and invalidate_content_index bumps its revision.
CommitRoots ==
    /\ At("commit")
    /\ configured' = guard.scope
    /\ revision' = revision + 1
    /\ \E S \in ScopesOf(guard.scope) :
          guard' = [guard EXCEPT !.step = "clear", !.scope = S, !.rev = revision + 1]
    /\ UNCHANGED generation /\ workers' = StillCurrent(workers)
    /\ UNCHANGED <<disk, durable, records, body, phase, contentStatus,
                   startup, saver, scan>>

\* invalidate_content_index drops the text under the entries lock; its status
\* is refused when another thread has bumped the revision since.
DropText ==
    /\ body' = Nothing
    /\ contentStatus' = IF revision = guard.rev THEN "stale" ELSE contentStatus

ClearContent ==
    /\ \/ At("clear") /\ Goto("discard")
       \/ At("batch_clear") /\ Goto("batch_read")
    /\ DropText
    /\ UNCHANGED <<disk, durable, configured, records, phase, counters,
                   startup, saver, scan, workers>>

\* discard_entries_outside_scope: files outside the scope leave the index.
DiscardOutside ==
    /\ At("discard")
    /\ index' = [f \in Files |-> IF RootOf[f] \in guard.scope THEN index[f] ELSE Absent]
    /\ body' = [f \in Files |-> IF RootOf[f] \in guard.scope THEN body[f] ELSE Absent]
    /\ Goto("bump")
    /\ UNCHANGED <<disk, durable, configured, apps, phase, contentStatus,
                   counters, startup, saver, scan, workers>>

-----------------------------------------------------------------------------
(* rebuild_locked and its callers *)

\* rebuild_default_roots, with no startup binding, or one that is declined.
Rebuild ==
    /\ LockFree
    /\ generation < MaxGeneration
    /\ configured # {}
    /\ startup' = NoBinding
    /\ \E S \in ActiveScopes : guard' = [Free EXCEPT !.step = "bump", !.scope = S]
    /\ UNCHANGED <<disk, durable, configured, records, body, phase,
                   contentStatus, counters, saver, scan, workers>>

\* rebuild_from_watched_scope, for a watcher that still watches the scope S.
RebuildWatched(S) ==
    /\ LockFree
    /\ generation < MaxGeneration
    /\ S # {} /\ S \in ActiveScopes
    /\ phase # "scanning"
    /\ guard' = [Free EXCEPT !.step = "bump", !.scope = S]
    /\ UNCHANGED <<disk, durable, configured, records, body, phase,
                   contentStatus, counters, startup, saver, scan, workers>>

BumpGeneration ==
    /\ At("bump")
    /\ generation' = generation + 1
    /\ revision' = revision + 1
    /\ guard' = [guard EXCEPT !.step = "start", !.rev = revision + 1]
    /\ workers' = StillCurrent(workers)
    /\ UNCHANGED <<disk, durable, configured, records, body, phase,
                   contentStatus, startup, saver, scan>>

NoScan == [pc |-> "none", scope |-> {}, todo |-> {}, found |-> Nothing,
           cutoff |-> Unbound]

StartScan ==
    /\ At("start")
    /\ DropText
    /\ phase' = "scanning"
    /\ scan' = [scan EXCEPT ![generation] =
                  [NoScan EXCEPT !.pc = "begin", !.scope = guard.scope,
                                 !.todo = FilesIn(guard.scope)]]
    /\ Release
    /\ UNCHANGED <<disk, durable, configured, records, counters, startup,
                   saver, workers>>

-----------------------------------------------------------------------------
(* The scan thread of generation g *)

ScanAt(g, pc) == scan[g].pc = pc
ScanEnds(g) == scan' = [scan EXCEPT ![g] = [NoScan EXCEPT !.pc = "done"]]
ScanGoto(g, pc) == scan' = [scan EXCEPT ![g].pc = pc]
Newest(g) == generation = g

\* The applications are collected; an empty index is looked for once.
ScanBegin(g) ==
    /\ ScanAt(g, "begin")
    /\ Newest(g)
    /\ ScanGoto(g, IF IsEmpty THEN "first" ELSE "walk")
    /\ UNCHANGED <<disk, durable, configured, records, body, phase,
                   contentStatus, counters, startup, guard, saver, workers>>

\* First run: the applications alone are published, whatever is there by now.
ScanFirstRun(g) ==
    /\ ScanAt(g, "first")
    /\ index' = Nothing /\ apps' = TRUE /\ body' = Nothing
    /\ ScanGoto(g, "walk")
    /\ UNCHANGED <<disk, durable, configured, phase, contentStatus, counters,
                   startup, guard, saver, workers>>

ScanRead(g, f) ==
    /\ ScanAt(g, "walk")
    /\ Newest(g)
    /\ f \in scan[g].todo
    /\ scan' = [scan EXCEPT ![g].todo = @ \ {f}, ![g].found[f] = OnDisk(f)]
    /\ UNCHANGED <<disk, durable, configured, records, body, phase,
                   contentStatus, counters, startup, guard, saver, workers>>

\* The MFT of a drive root, replayed up to one journal position, lists the files;
\* ScanRead then reads the metadata of those it listed.
ScanMft(g) ==
    /\ UseJournal
    /\ ScanAt(g, "walk")
    /\ Newest(g)
    /\ scan[g].cutoff = Unbound /\ scan[g].todo = FilesIn(scan[g].scope)
    /\ scan' = [scan EXCEPT ![g].todo = {f \in @ : OnDisk(f) # Absent}, ![g].cutoff = clock]
    /\ UNCHANGED <<disk, durable, configured, records, body, phase,
                   contentStatus, counters, startup, guard, saver, workers>>

ScanAbandon(g) ==
    /\ ScanAt(g, "begin") \/ ScanAt(g, "walk")
    /\ ~Newest(g)
    /\ ScanEnds(g)
    /\ UNCHANGED <<disk, durable, configured, records, body, phase,
                   contentStatus, counters, startup, guard, saver, workers>>

\* A root transition is serialised with the final publication: a scan of the
\* scope S publishes only when it is the newest and its scope is still S.
MayPublish(g, S) == Newest(g) /\ scan[g].scope = S

ScanLock(g) ==
    /\ LockFree
    /\ ScanAt(g, "walk") /\ scan[g].todo = {}
    /\ \E S \in ActiveScopes : MayPublish(g, S)
    /\ guard' = [Free EXCEPT !.step = "scan_persist", !.gen = g]
    /\ ScanGoto(g, "publish")
    /\ UNCHANGED <<disk, durable, configured, records, body, phase,
                   contentStatus, counters, startup, saver, workers>>

\* The check fails: the thread returns, and nothing sets its phase back.
ScanRefused(g) ==
    /\ LockFree
    /\ ScanAt(g, "walk") /\ scan[g].todo = {}
    /\ \E S \in ActiveScopes : ~MayPublish(g, S)
    /\ ScanEnds(g)
    /\ UNCHANGED <<disk, durable, configured, records, body, phase,
                   contentStatus, counters, startup, guard, saver, workers>>

\* The same check, repeated under snapshot_lock, fails.
ScanRefusedAgain(g) ==
    /\ At("scan_persist") /\ guard.gen = g
    /\ ~saver.busy
    /\ \E S \in ActiveScopes : ~MayPublish(g, S)
    /\ ScanEnds(g)
    /\ Release
    /\ UNCHANGED <<disk, durable, configured, records, body, phase,
                   contentStatus, counters, startup, saver, workers>>

\* Mutant: the position queried for the last check is stored as the cutoff.
VerifiedCutoffLate(R, c) == IF c = Unbound THEN c ELSE clock

\* The binding a full scan stores: still quiet since the MFT cutoff, or none.
VerifiedCutoff(R, c) == IF QuietSince(R, c) THEN c ELSE Unbound

ScanPersist ==
    /\ At("scan_persist")
    /\ ~saver.busy
    /\ \E S \in ActiveScopes : MayPublish(guard.gen, S)
    /\ LET s == scan[guard.gen] IN
         \/ snapshot' = Snapshot(s.scope, s.found, TRUE, VerifiedCutoff(s.scope, s.cutoff))
         \/ UNCHANGED snapshot
    /\ Goto("scan_publish")
    /\ UNCHANGED <<disk, rootsFile, boots, configured, records, body, phase,
                   contentStatus, counters, startup, saver, scan, workers>>

\* Mutant: the entries are replaced, the status is forgotten.
ScanPublishQuietly ==
    /\ At("scan_publish")
    /\ index' = scan[guard.gen].found /\ apps' = TRUE /\ body' = Nothing
    /\ ScanGoto(guard.gen, "schedule")
    /\ Release
    /\ UNCHANGED <<disk, durable, configured, phase, contentStatus, counters,
                   startup, saver, workers>>

ScanPublish ==
    /\ At("scan_publish")
    /\ index' = scan[guard.gen].found /\ apps' = TRUE /\ body' = Nothing
    /\ phase' = "ready"
    /\ ScanGoto(guard.gen, "schedule")
    /\ Release
    /\ UNCHANGED <<disk, durable, configured, contentStatus, counters, startup,
                   saver, workers>>

-----------------------------------------------------------------------------
(* Content workers *)

\* Mutant: the worker is given the revision before the increment.
NewWorkerLate(g, S) == [gen |-> g, rev |-> revision, scope |-> S,
                        pc |-> "start", todo |-> {}, docs |-> Nothing]

NewWorker(g, S) == [gen |-> g, rev |-> revision + 1, scope |-> S,
                    pc |-> "start", todo |-> {}, docs |-> Nothing]

\* schedule_content_index_rebuild
ScheduleContent(g) ==
    /\ revision' = revision + 1
    /\ contentStatus' = IF Newest(g) THEN "indexing" ELSE contentStatus
    /\ UNCHANGED generation
    /\ \E S \in ActiveScopes : workers' = StillCurrent(workers \cup {NewWorker(g, S)})

\* The end of a scan thread, after it has dropped roots_lock.
ScanSchedule(g) ==
    /\ ScanAt(g, "schedule")
    /\ ScheduleContent(g)
    /\ ScanEnds(g)
    /\ UNCHANGED <<disk, durable, configured, records, body, phase,
                   startup, guard, saver>>

Becomes(w, v) == workers' = (workers \ {w}) \cup {v}

\* The candidates are the files of the index, with the version it records.
WorkerStart(w) ==
    /\ w.pc = "start"
    /\ Becomes(w, [w EXCEPT !.pc = "read", !.docs = index,
                            !.todo = {f \in Files : index[f] # Absent}])
    /\ UNCHANGED <<disk, durable, configured, records, body, phase,
                   contentStatus, counters, startup, guard, saver, scan>>

\* Mutant: whatever version the disk holds is read.
ReadableAnyVersion(w, f) == OnDisk(f) # Absent /\ RootOf[f] \in w.scope

\* Only the version the index recorded is read, and only inside the scope.
Readable(w, f) == OnDisk(f) = w.docs[f] /\ RootOf[f] \in w.scope

BodiesRead(w) == {f \in Files \ w.todo : w.docs[f] # Absent}

\* The text of a file is read, skipped, or over the budget: then reading ends.
WorkerRead(w, f) ==
    /\ w.pc = "read"
    /\ Current(w, generation, revision)
    /\ f \in w.todo
    /\ \/ /\ ~Readable(w, f)
          /\ Becomes(w, [w EXCEPT !.todo = @ \ {f}, !.docs[f] = Absent])
       \/ /\ Readable(w, f)
          /\ Cardinality(BodiesRead(w)) < MaxBodies
          /\ Becomes(w, [w EXCEPT !.todo = @ \ {f}, !.docs[f] = OnDisk(f)])
       \/ /\ Readable(w, f)
          /\ Cardinality(BodiesRead(w)) >= MaxBodies
          /\ Becomes(w, [w EXCEPT !.todo = {},
                !.docs = [x \in Files |-> IF x \in w.todo THEN Absent ELSE w.docs[x]]])
    /\ UNCHANGED <<disk, durable, configured, records, body, phase,
                   contentStatus, counters, startup, guard, saver, scan>>

\* replace_content_by_id, after the check under the entries lock.
WorkerPublish(w) ==
    /\ w.pc = "read" /\ w.todo = {}
    /\ Current(w, generation, revision)
    /\ body' = [f \in Files |-> IF index[f] # Absent THEN w.docs[f] ELSE Absent]
    /\ Becomes(w, [w EXCEPT !.pc = "status"])
    /\ UNCHANGED <<disk, durable, configured, records, phase, contentStatus,
                   counters, startup, guard, saver, scan>>

WorkerStatus(w) ==
    /\ w.pc = "status"
    /\ Current(w, generation, revision)
    /\ contentStatus' = "ready"
    /\ workers' = workers \ {w}
    /\ UNCHANGED <<disk, durable, configured, records, body, phase, counters,
                   startup, guard, saver, scan>>

-----------------------------------------------------------------------------
(* reconcile_watched_paths and the incremental snapshot *)

\* A batch P of changed paths, from a watcher that watches the scope S.
BatchBegin(S, P) ==
    /\ LockFree
    /\ S \in ActiveScopes
    /\ phase # "scanning"
    /\ P # {} /\ P \subseteq FilesIn(S)
    /\ revision < MaxRevision
    /\ revision' = revision + 1
    /\ guard' = [Free EXCEPT !.step = "batch_clear", !.rev = revision + 1,
                             !.gen = generation, !.paths = P, !.todo = P]
    /\ UNCHANGED generation /\ workers' = StillCurrent(workers)
    /\ UNCHANGED <<disk, durable, configured, records, body, phase,
                   contentStatus, startup, saver, scan>>

\* One path of the batch, or of a replay, is looked up on the disk.
PathRead(f) ==
    /\ At("batch_read") \/ At("replay_read")
    /\ f \in guard.todo
    /\ guard' = [guard EXCEPT !.todo = @ \ {f}, !.found[f] = OnDisk(f)]
    /\ UNCHANGED <<disk, durable, configured, records, body, phase,
                   contentStatus, counters, startup, saver, scan, workers>>

\* RequiresFullRebuild: a path cannot be read; the caller asks for a scan.
BatchUnreadable ==
    /\ At("batch_read") /\ guard.todo # {}
    /\ Release
    /\ UNCHANGED <<disk, durable, configured, records, body, phase,
                   contentStatus, counters, startup, saver, scan, workers>>

\* The batch replaces its paths in whatever the entries are by now.
BatchPublish ==
    /\ At("batch_read") /\ guard.todo = {}
    /\ index' = [f \in Files |-> IF f \in guard.paths THEN guard.found[f] ELSE index[f]]
    /\ body' = [f \in Files |-> IF f \in guard.paths THEN Absent ELSE body[f]]
    /\ Goto("batch_schedule")
    /\ UNCHANGED <<disk, durable, configured, apps, phase, contentStatus,
                   counters, startup, saver, scan, workers>>

BatchSchedule ==
    /\ At("batch_schedule")
    /\ phase' = "ready"
    /\ ScheduleContent(guard.gen)
    /\ Release
    /\ UNCHANGED <<disk, durable, configured, records, body,
                   startup, saver, scan>>

NoWrite == [busy |-> FALSE, roots |-> {}, index |-> Nothing, apps |-> FALSE]

\* persist_pending_incremental_snapshot captures under both locks ...
CaptureIncremental ==
    /\ LockFree
    /\ ~saver.busy
    /\ phase # "scanning"
    /\ \E S \in ActiveScopes :
          saver' = [busy |-> TRUE, roots |-> S, index |-> index, apps |-> apps]
    /\ UNCHANGED <<disk, durable, configured, records, body, phase,
                   contentStatus, counters, startup, guard, scan, workers>>

\* Mutant: the scope is read again for the write, after the capture.
WriteIncrementalLate ==
    /\ saver.busy
    /\ saver' = NoWrite
    /\ \/ snapshot' = Snapshot(configured, saver.index, saver.apps, Unbound)
       \/ UNCHANGED snapshot
    /\ UNCHANGED <<disk, rootsFile, boots, configured, records, body, phase,
                   contentStatus, counters, startup, guard, scan, workers>>

\* ... and writes, or fails to, under snapshot_lock alone, without a binding.
WriteIncremental ==
    /\ saver.busy
    /\ saver' = NoWrite
    /\ \/ snapshot' = Snapshot(saver.roots, saver.index, saver.apps, Unbound)
       \/ UNCHANGED snapshot
    /\ UNCHANGED <<disk, rootsFile, boots, configured, records, body, phase,
                   contentStatus, counters, startup, guard, scan, workers>>

-----------------------------------------------------------------------------
(* try_resume_startup_snapshot: a restart without a scan *)

\* P1d: nothing has been journalled since the cutoff of the snapshot.
ResumeUnchanged ==
    /\ LockFree
    /\ startup.cutoff # Unbound /\ startup.roots \in ActiveScopes
    /\ QuietSince(startup.roots, startup.cutoff)
    /\ startup' = NoBinding
    /\ ScheduleContent(generation)
    /\ UNCHANGED <<disk, durable, configured, records, body, phase,
                   guard, saver, scan>>

Dirty(R, c) == {f \in FilesIn(R) : touched[f] > c}

\* P1e: the paths journalled since then are read again, up to a new cutoff.
ReplayBegin ==
    /\ LockFree
    /\ generation < MaxGeneration
    /\ startup.cutoff # Unbound /\ startup.roots \in ActiveScopes
    /\ ~QuietSince(startup.roots, startup.cutoff)
    /\ startup.paths = Paths(index)
    /\ startup' = NoBinding
    /\ guard' = [Free EXCEPT !.step = "replay_read", !.scope = startup.roots,
                             !.todo = Dirty(startup.roots, startup.cutoff),
                             !.paths = startup.paths,
                             !.found = index, !.cutoff = clock]
    /\ UNCHANGED <<disk, durable, configured, records, body, phase,
                   contentStatus, counters, saver, scan, workers>>

\* The last checks: the entries are still those of the old binding, and nothing
\* moved while the dirty paths were read.
ReplayVerified == guard.paths = Paths(index) /\ QuietSince(guard.scope, guard.cutoff)

ReplayPersist ==
    /\ At("replay_read") /\ guard.todo = {}
    /\ ~saver.busy
    /\ ReplayVerified
    /\ snapshot' = Snapshot(guard.scope, guard.found, apps, guard.cutoff)
    /\ Goto("replay_publish")
    /\ UNCHANGED <<disk, rootsFile, boots, configured, records, body, phase,
                   contentStatus, counters, startup, saver, scan, workers>>

\* Any error of the replay, or of its write, falls back to a full scan.
ReplayDeclined ==
    /\ At("replay_read")
    /\ guard' = [Free EXCEPT !.step = "bump", !.scope = guard.scope]
    /\ UNCHANGED <<disk, durable, configured, records, body, phase,
                   contentStatus, counters, startup, saver, scan, workers>>

ReplayPublish ==
    /\ At("replay_publish")
    /\ index' = guard.found /\ body' = Nothing
    /\ phase' = "ready"
    /\ ScheduleContent(generation)
    /\ Release
    /\ UNCHANGED <<disk, durable, configured, apps, startup, saver,
                   scan>>

-----------------------------------------------------------------------------
(* The disk, and the process *)

Write(f) ==
    /\ clock < MaxClock
    /\ clock' = clock + 1
    /\ touched' = [touched EXCEPT ![f] = clock + 1]
    /\ present' = [present EXCEPT ![f] = TRUE]
    /\ UNCHANGED <<durable, configured, records, body, phase, contentStatus,
                   counters, startup, guard, saver, scan, workers>>

Delete(f) ==
    /\ clock < MaxClock
    /\ present[f]
    /\ clock' = clock + 1
    /\ touched' = [touched EXCEPT ![f] = clock + 1]
    /\ present' = [present EXCEPT ![f] = FALSE]
    /\ UNCHANGED <<durable, configured, records, body, phase, contentStatus,
                   counters, startup, guard, saver, scan, workers>>

\* Mutant: the scope is compared, the paths are not looked at.
RestorableAnyPath(s, R) == R # {} /\ s.roots = R

\* A snapshot is reused only for exactly the scope it was built for, and only
\* when every path in it lies within that scope.
Restorable(s, R) == R # {} /\ s.roots = R /\ Paths(s.index) \subseteq FilesIn(s.roots)

\* with_storage_paths after a crash at any point: a roots file that cannot be
\* used makes the scope unavailable; everything volatile starts afresh.
Restart ==
    /\ boots < MaxBoots
    /\ boots' = boots + 1
    /\ configured' \in {rootsFile, {}}
    /\ \E S \in ScopesOf(configured') :
         IF Restorable(snapshot, S)
           THEN /\ index' = snapshot.index /\ apps' = snapshot.apps
                /\ phase' = "ready"
                /\ startup' \in {Binding(snapshot), NoBinding}
           ELSE /\ index' = Nothing /\ apps' = FALSE
                /\ phase' = IF configured' = {} THEN "error" ELSE "idle"
                /\ startup' = NoBinding
    /\ body' = Nothing /\ contentStatus' = "idle"
    /\ generation' = 0 /\ revision' = 0
    /\ guard' = Free /\ saver' = NoWrite
    /\ scan' = [g \in Generations |-> NoScan] /\ workers' = {}
    /\ UNCHANGED <<disk, rootsFile, snapshot>>

Init ==
    /\ clock = 1 /\ touched = [f \in Files |-> 1] /\ present = [f \in Files |-> TRUE]
    /\ rootsFile = FirstRoots /\ snapshot = NoSnapshot /\ boots = 1
    /\ configured = FirstRoots
    /\ index = Nothing /\ apps = FALSE /\ body = Nothing
    /\ phase = "idle" /\ contentStatus = "idle"
    /\ generation = 0 /\ revision = 0 /\ startup = NoBinding
    /\ guard = Free /\ saver = NoWrite
    /\ scan = [g \in Generations |-> NoScan] /\ workers = {}

\* What a thread does once it has started, and what it must not be denied.
ScanStep(g) ==
    \/ ScanBegin(g) \/ ScanFirstRun(g) \/ ScanMft(g) \/ ScanAbandon(g)
    \/ ScanLock(g) \/ ScanRefused(g) \/ ScanRefusedAgain(g) \/ ScanSchedule(g)
    \/ \E f \in Files : ScanRead(g, f)
WorkerStep(w) ==
    \/ WorkerStart(w) \/ WorkerPublish(w) \/ WorkerStatus(w)
    \/ \E f \in Files : WorkerRead(w, f)
GuardStep ==
    \/ CommitRoots \/ ClearContent \/ DiscardOutside \/ BumpGeneration \/ StartScan
    \/ BatchUnreadable \/ BatchPublish \/ BatchSchedule
    \/ ScanPersist \/ ScanPublish
    \/ ReplayPersist \/ ReplayDeclined \/ ReplayPublish
    \/ \E f \in Files : PathRead(f)
ThreadStep == GuardStep \/ WriteIncremental
              \/ (\E g \in Generations : ScanStep(g)) \/ (\E w \in workers : WorkerStep(w))

\* What users, tray, watcher and disk may ask for, or not.
Request ==
    \/ \E R \in ScopeChoices : SetRoots(R)
    \/ Rebuild
    \/ \E S \in ActiveScopes : RebuildWatched(S) \/ \E P \in SUBSET Files : BatchBegin(S, P)
    \/ CaptureIncremental
    \/ ResumeUnchanged \/ ReplayBegin
Environment == Restart \/ \E f \in Files : Write(f) \/ Delete(f)

Next == ThreadStep \/ Request \/ Environment
Spec == Init /\ [][Next]_vars

\* Every thread that runs is scheduled; nobody need ask for anything.
Fairness ==
    /\ WF_vars(GuardStep) /\ WF_vars(WriteIncremental)
    /\ \A g \in Generations : WF_vars(ScanStep(g))
    /\ WF_vars(\E w \in workers : WorkerStep(w))
FairSpec == Spec /\ Fairness

-----------------------------------------------------------------------------
(* Properties *)

Versions == [Files -> Stamps]
BindingType == [cutoff : Cutoffs, roots : SUBSET Roots, paths : SUBSET Files]
SnapshotType == [roots : SUBSET Roots, index : Versions, apps : BOOLEAN, cutoff : Cutoffs]
GuardType == [step : Steps, scope : SUBSET Roots, gen : Nat, rev : Nat,
              paths : SUBSET Files, todo : SUBSET Files, found : Versions, cutoff : Cutoffs]
SaverType == [busy : BOOLEAN, roots : SUBSET Roots, index : Versions, apps : BOOLEAN]
ScanType == [pc : {"none", "begin", "first", "walk", "publish", "schedule", "done"},
             scope : SUBSET Roots, todo : SUBSET Files, found : Versions, cutoff : Cutoffs]
WorkerType == [gen : Nat, rev : Nat, scope : SUBSET Roots, pc : {"start", "read", "status"},
               todo : SUBSET Files, docs : Versions]

TypeOK ==
    /\ clock \in Stamps /\ touched \in Versions /\ present \in [Files -> BOOLEAN]
    /\ rootsFile \in SUBSET Roots /\ snapshot \in SnapshotType /\ boots \in Nat
    /\ configured \in SUBSET Roots
    /\ index \in Versions /\ apps \in BOOLEAN /\ body \in Versions
    /\ phase \in {"idle", "error", "scanning", "ready"}
    /\ contentStatus \in {"idle", "stale", "indexing", "ready"}
    /\ generation \in 0..MaxGeneration /\ revision \in Nat /\ startup \in BindingType
    /\ guard \in GuardType /\ saver \in SaverType
    /\ scan \in [Generations -> ScanType] /\ workers \in SUBSET WorkerType

\* Between the commit of a new scope and the end of its discard, set_roots
\* holds the lock with files of the old scope still in the entries.
Discarding == guard.step \in {"clear", "discard"}

\* A removed root is a privacy boundary: whatever scans, batches, workers and
\* restarts interleave, no path and no text outside the configured scope (for
\* the default one: outside the default folders) stays visible.
OnlyAuthorized ==
    ~Discarding => \A f \in Files :
        index[f] # Absent \/ body[f] # Absent => RootOf[f] \in configured

\* index-v3.json never pairs a selected scope with paths of another one.  Under
\* the default scope an incremental save may pair fewer folders, those that
\* stand at that moment, with paths of more of them (which the loader declines).
SnapshotInScope ==
    \A f \in Files : snapshot.index[f] # Absent =>
        \/ RootOf[f] \in snapshot.roots
        \/ snapshot.roots \cup {RootOf[f]} \subseteq DefaultScope

\* A snapshot with a USN binding is exact: a file whose last change is not
\* after the journal position of the binding is stored as the disk has it.
BoundSnapshotExact ==
    snapshot.cutoff # Unbound => \A f \in FilesIn(snapshot.roots) :
        touched[f] <= snapshot.cutoff => snapshot.index[f] = OnDisk(f)

\* Some text that searches see is not of the version its entry records.
TextMismatch == \E f \in Files : body[f] \notin {Absent, index[f]}

\* A batch or the newest scan has published its entries and will start a worker.
WillSchedule ==
    \/ At("batch_schedule")
    \/ \E g \in Generations : Newest(g) /\ ScanAt(g, "schedule")

\* Text of another version than the entry records, which a worker may attach
\* between a publication and its schedule, is never called ready: the status
\* says "indexing", or will with the schedule, or a rebuild is to drop the text.
MismatchIsFlagged ==
    TextMismatch => contentStatus = "indexing" \/ WillSchedule \/ At("start")

\* What the comment at indexer.rs:1633-1635 promises of a batch: such text has
\* a worker that replaces it, or will have one.
MismatchHeals ==
    TextMismatch =>
        \/ WillSchedule \/ guard.step \in {"batch_clear", "clear", "start"}
        \/ \E w \in workers : Current(w, generation, revision) /\ w.pc # "status"

\* Once complete, the entries of a file leave the index only by the thread
\* that holds roots_lock (or the process with it), never by an older scan.
OldSnapshotKept ==
    [][boots' = boots /\ LockFree => \A f \in Files : index'[f] = index[f] \/ index[f] = Absent]_vars

\* A scan that has begun sets the phase back in the end, whatever supersedes it: a
\* rescan after a change of the root boundary brings the index up to date
\* (docs/SEARCH_ENGINE.md:53).  It holds while a selection of the user is searched,
\* and fails where default folders come and go.
ScanCompletes == [](phase = "scanning" => <>(phase # "scanning"))
=============================================================================
