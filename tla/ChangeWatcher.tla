--------------------------- MODULE ChangeWatcher ---------------------------
(***************************************************************************)
(* The thread ihub-file-index-watcher of src-tauri/src/indexer.rs, composed *)
(* with the index: SearchIndex lets anybody reconcile any batch; here the   *)
(* batches are those this thread makes of file-system notifications.        *)
(*                                                                         *)
(* The notification backend is the crate `notify`: a change under a watched *)
(* root is noticed some time later, in any order, and reaches a bounded     *)
(* channel; what does not fit sets a flag.  Deadlines (debounce, retries)   *)
(* are not modelled: what is pending may be due at any moment.              *)
(***************************************************************************)
EXTENDS SearchIndex, Sequences

CONSTANTS EventBuffer,   \* WATCH_EVENT_BUFFER
          BatchLimit     \* MAX_INCREMENTAL_WATCH_PATHS

ASSUME WatcherAssumption == EventBuffer \in Nat \ {0} /\ BatchLimit \in Nat

VARIABLES
    setup,        \* the host's setup: "new", "watching" or "done"
    noticed,      \* changes the backend has seen and not yet reported
    channel,      \* event_receiver
    overflow,     \* event_overflow
    control,      \* control_receiver: the scopes of SetRoots
    wpc,          \* where the loop of run_change_watcher is
    watchScope,   \* its configured_roots
    watched,      \* its watched_roots: those whose registration succeeded
    batch,        \* pending_rebuild
    saveDue       \* pending_snapshot

events    == <<noticed, channel, overflow>>
loop      == <<wpc, watchScope, watched, batch, saveDue>>
watchVars == <<setup, events, control, loop>>
allVars   == <<vars, watchVars>>

\* A path-less or failed notification: something may have changed anywhere.
Rescan == "rescan"

NoBatch == [on |-> FALSE, full |-> FALSE, paths |-> {}]
FullBatch == [on |-> TRUE, full |-> TRUE, paths |-> {}]

-----------------------------------------------------------------------------
(* The disk as the backend sees it *)

Notice(f) == noticed' = IF RootOf[f] \in watched THEN noticed \cup {f} ELSE noticed

DiskChange(f) ==
    /\ Write(f) \/ Delete(f)
    /\ Notice(f)
    /\ UNCHANGED <<setup, channel, overflow, control, loop>>

\* The callback: try_send, or the overflow flag when the channel is full.
Deliver(e) ==
    IF Len(channel) < EventBuffer
      THEN channel' = Append(channel, e) /\ UNCHANGED overflow
      ELSE overflow' = TRUE /\ UNCHANGED channel

Callback(f) ==
    /\ f \in noticed
    /\ noticed' = noticed \ {f}
    /\ Deliver(f)
    /\ UNCHANGED <<vars, setup, control, loop>>

\* The backend loses what it has noticed, and says so.
BackendLoss ==
    /\ noticed # {}
    /\ noticed' = {}
    /\ Deliver(Rescan)
    /\ UNCHANGED <<vars, setup, control, loop>>

-----------------------------------------------------------------------------
(* Setup: start_change_watcher, then rebuild_default_roots *)

StartWatcher ==
    /\ setup = "new"
    /\ setup' = "watching"
    /\ watchScope' \in ActiveScopes
    /\ watched' \in SUBSET watchScope'
    /\ wpc' = "control"
    /\ UNCHANGED <<vars, events, control, batch, saveDue>>

\* The resume is tried once, and only when every root is watched.
FirstRebuild ==
    /\ setup = "watching"
    /\ setup' = "done"
    /\ \/ ResumeUnchanged /\ watched = watchScope
       \/ ReplayBegin /\ watched = watchScope
       \/ Rebuild
       \/ configured = {} /\ UNCHANGED vars
    /\ UNCHANGED <<events, control, loop>>

\* Commands of the user, once the window is there.
UserRequest ==
    /\ setup = "done"
    /\ Rebuild \/ \E R \in ScopeChoices : SetRoots(R)
    /\ UNCHANGED watchVars

\* set_roots tells the watcher after the discard and before the scan.
DiscardAndTell ==
    /\ DiscardOutside
    /\ control' = Append(control, guard.scope)
    /\ UNCHANGED <<setup, events, loop>>

\* The steps of scans, workers and set_roots that the watcher has no part in.
Background ==
    /\ \/ CommitRoots \/ BumpGeneration \/ StartScan \/ ScanPersist \/ ScanPublish
       \/ ReplayPersist \/ ReplayDeclined \/ ReplayPublish
       \/ At("clear") /\ ClearContent
       \/ At("replay_read") /\ \E f \in Files : PathRead(f)
       \/ \E g \in Generations : ScanStep(g)
       \/ \E w \in workers : WorkerStep(w)
    /\ UNCHANGED watchVars

-----------------------------------------------------------------------------
(* run_change_watcher *)

WatcherAt(pc) == wpc = pc

\* A new scope: the old subscriptions go, with what they had not reported ...
Unwatch ==
    /\ WatcherAt("control") /\ control # <<>>
    /\ watchScope' = Head(control) /\ control' = Tail(control)
    /\ watched' = {}
    /\ noticed' \in {noticed, {}}
    /\ wpc' = "watch"
    /\ UNCHANGED <<vars, setup, channel, overflow, batch, saveDue>>

\* ... the new ones are made, and the pending batches are dropped.
Watch ==
    /\ WatcherAt("watch")
    /\ watched' \in SUBSET watchScope
    /\ batch' = NoBatch /\ saveDue' = FALSE
    /\ wpc' = "control"
    /\ UNCHANGED <<vars, setup, events, control, watchScope>>

\* Mutant: the overflow flag is cleared even when nothing acts on it yet.
DrainedDeaf ==
    /\ WatcherAt("control") /\ control = <<>>
    /\ overflow' = FALSE
    /\ wpc' = "work"
    /\ UNCHANGED <<vars, setup, noticed, channel, control, watchScope, watched,
                   batch, saveDue>>

\* No control message is left; an overflow asks for a full scan.
Drained ==
    /\ WatcherAt("control") /\ control = <<>>
    /\ overflow' = FALSE
    /\ IF overflow /\ watched # {}
         THEN batch' = FullBatch /\ saveDue' = FALSE
         ELSE UNCHANGED <<batch, saveDue>>
    /\ wpc' = "work"
    /\ UNCHANGED <<vars, setup, noticed, channel, control, watchScope, watched>>

\* The scope the index answers with differs, or may differ, from the one watched.
ScopeDiffers == \E S \in ActiveScopes : S # watchScope
ScopeMatches == watchScope \in ActiveScopes

\* Mutant: a full scan that is deferred while another one runs is forgotten.
WatchedRebuildOnce(pc) ==
    /\ WatcherAt(pc) /\ batch.full
    /\ batch' = NoBatch /\ saveDue' = FALSE
    /\ \/ RebuildWatched(watchScope)
       \/ LockFree /\ (ScopeDiffers \/ phase = "scanning") /\ UNCHANGED vars
    /\ wpc' = "control"
    /\ UNCHANGED <<setup, events, control, watchScope, watched>>

\* The outcomes of rebuild_from_watched_scope for a pending full scan.
WatchedRebuild(pc) ==
    /\ WatcherAt(pc) /\ batch.full
    /\ saveDue' = FALSE
    /\ \/ RebuildWatched(watchScope) /\ batch' = NoBatch
       \/ LockFree /\ ScopeDiffers /\ batch' = NoBatch /\ UNCHANGED vars
       \/ /\ LockFree /\ ScopeMatches /\ phase = "scanning"
          /\ UNCHANGED <<batch, vars>>
    /\ wpc' = "control"
    /\ UNCHANGED <<setup, events, control, watchScope, watched>>

FullDue == WatchedRebuild("work")

\* Mutant: a batch that is deferred while a scan runs is not put back.
PathsDueOnce ==
    /\ WatcherAt("work") /\ batch.on /\ ~batch.full
    /\ batch' = NoBatch
    /\ \/ BatchBegin(watchScope, batch.paths) /\ wpc' = "batch"
       \/ /\ LockFree /\ (ScopeDiffers \/ phase = "scanning")
          /\ wpc' = "control" /\ UNCHANGED vars
    /\ UNCHANGED <<setup, events, control, watchScope, watched, saveDue>>

\* reconcile_watched_paths starts, is discarded, or is deferred.
PathsDue ==
    /\ WatcherAt("work") /\ batch.on /\ ~batch.full
    /\ \/ /\ BatchBegin(watchScope, batch.paths)
          /\ batch' = NoBatch /\ wpc' = "batch"
       \/ /\ LockFree /\ ScopeDiffers
          /\ batch' = NoBatch /\ wpc' = "control" /\ UNCHANGED vars
       \/ /\ LockFree /\ ScopeMatches /\ phase = "scanning"
          /\ wpc' = "control" /\ UNCHANGED <<batch, vars>>
    /\ UNCHANGED <<setup, events, control, watchScope, watched, saveDue>>

Reconciling ==
    /\ WatcherAt("batch")
    /\ \/ At("batch_clear") /\ ClearContent
       \/ At("batch_read") /\ \E f \in Files : PathRead(f)
       \/ BatchPublish
    /\ UNCHANGED watchVars

\* RequiresFullRebuild: the scan is asked for in the same turn of the loop.
Unreadable ==
    /\ WatcherAt("batch") /\ BatchUnreadable
    /\ batch' = FullBatch /\ saveDue' = FALSE
    /\ wpc' = "rebuild"
    /\ UNCHANGED <<setup, events, control, watchScope, watched>>

RebuildInstead == WatchedRebuild("rebuild")

\* Applied: the snapshot on the disk has to follow.
Applied ==
    /\ WatcherAt("batch") /\ BatchSchedule
    /\ saveDue' = TRUE
    /\ wpc' = "control"
    /\ UNCHANGED <<setup, events, control, watchScope, watched, batch>>

\* Mutant: the entries are captured without roots_lock.
SaveBeginUnlocked ==
    /\ WatcherAt("work") /\ saveDue
    /\ saveDue' = FALSE
    /\ ~saver.busy
    /\ \E S \in ActiveScopes :
          saver' = [busy |-> TRUE, roots |-> S, index |-> index, apps |-> apps]
    /\ UNCHANGED <<disk, durable, configured, records, body, phase,
                   contentStatus, counters, startup, guard, scan, workers>>
    /\ wpc' = "save"
    /\ UNCHANGED <<setup, events, control, watchScope, watched, batch>>

\* SupersededByFullScan: a scan runs, or the scope read under snapshot_lock is
\* not the one read before.
Superseded == phase = "scanning" \/ \E S, T \in ActiveScopes : S # T

SaveBegin ==
    /\ WatcherAt("work") /\ saveDue
    /\ saveDue' = FALSE
    /\ \/ CaptureIncremental /\ wpc' = "save"
       \/ LockFree /\ Superseded /\ wpc' = "control" /\ UNCHANGED vars
    /\ UNCHANGED <<setup, events, control, watchScope, watched, batch>>

\* A failed write is retried, one that replaced the file and then failed too.
SaveEnd ==
    /\ WatcherAt("save") /\ WriteIncremental
    /\ saveDue' \in {TRUE, snapshot' # Snapshot(saver.roots, saver.index, saver.apps, Unbound)}
    /\ wpc' = "control"
    /\ UNCHANGED <<setup, events, control, watchScope, watched, batch>>

\* record_watched_event and PendingWatchRebuild::record_paths
Recorded(f) ==
    IF batch.full THEN batch
    ELSE IF Cardinality(batch.paths \cup {f}) > BatchLimit THEN FullBatch
    ELSE [batch EXCEPT !.on = TRUE, !.paths = @ \cup {f}]

Receive ==
    /\ WatcherAt("work") /\ channel # <<>>
    /\ channel' = Tail(channel)
    /\ LET e == Head(channel) IN
         batch' = IF e = Rescan THEN (IF watched = {} THEN batch ELSE FullBatch)
                  ELSE IF RootOf[e] \in watched THEN Recorded(e) ELSE batch
    /\ saveDue' = (saveDue /\ ~batch'.full)
    /\ wpc' = "control"
    /\ UNCHANGED <<vars, setup, noticed, overflow, control, watchScope, watched>>

\* The poll interval ends and something waits at the head of the loop.
Poll ==
    /\ WatcherAt("work")
    /\ control # <<>> \/ overflow
    /\ wpc' = "control"
    /\ UNCHANGED <<vars, setup, events, control, watchScope, watched, batch, saveDue>>

WatcherStep ==
    \/ Unwatch \/ Watch \/ Drained \/ FullDue \/ PathsDue \/ Reconciling \/ Unreadable
    \/ RebuildInstead \/ Applied \/ SaveBegin \/ SaveEnd \/ Receive \/ Poll

RestartAll ==
    /\ Restart
    /\ setup' = "new" /\ noticed' = {} /\ channel' = <<>> /\ overflow' = FALSE
    /\ control' = <<>> /\ wpc' = "off" /\ watchScope' = {} /\ watched' = {}
    /\ batch' = NoBatch /\ saveDue' = FALSE

WatchInit ==
    /\ setup = "new" /\ noticed = {} /\ channel = <<>> /\ overflow = FALSE
    /\ control = <<>> /\ wpc = "off" /\ watchScope = {} /\ watched = {}
    /\ batch = NoBatch /\ saveDue = FALSE

SystemInit == Init /\ WatchInit

SystemNext ==
    \/ StartWatcher \/ FirstRebuild \/ UserRequest \/ DiscardAndTell
    \/ Background \/ WatcherStep \/ BackendLoss \/ RestartAll
    \/ \E f \in Files : DiskChange(f) \/ Callback(f)

SystemSpec == SystemInit /\ [][SystemNext]_allVars

\* Every thread runs, the setup completes, and the backend reports in the end.
SystemFairness ==
    /\ WF_allVars(StartWatcher \/ FirstRebuild \/ DiscardAndTell \/ Background)
    /\ WF_allVars(WatcherStep)
    /\ WF_allVars(\E f \in Files : Callback(f))
FairSystemSpec == SystemSpec /\ SystemFairness

-----------------------------------------------------------------------------
(* Properties *)

WatchTypeOK ==
    /\ TypeOK
    /\ setup \in {"new", "watching", "done"}
    /\ noticed \subseteq Files /\ channel \in Seq(Files \cup {Rescan})
    /\ Len(channel) <= EventBuffer /\ overflow \in BOOLEAN
    /\ control \in Seq(SUBSET Roots)
    /\ wpc \in {"off", "control", "watch", "work", "batch", "rebuild", "save"}
    /\ watchScope \subseteq Roots /\ watched \subseteq watchScope
    /\ batch \in [on : BOOLEAN, full : BOOLEAN, paths : SUBSET Files]
    /\ batch.full => batch.paths = {}
    /\ batch.on <=> batch.full \/ batch.paths # {}
    /\ Cardinality(batch.paths) <= BatchLimit /\ saveDue \in BOOLEAN

\* A change the watcher still knows of, or knows it may have missed.
Tracked(f) ==
    \/ f \in noticed \/ overflow \/ batch.full \/ f \in batch.paths
    \/ \E i \in DOMAIN channel : channel[i] \in {f, Rescan}

\* Whenever no scan runs, a file of a watched root whose record differs from
\* the disk is one the watcher still knows of: no change is lost between the
\* registration, the scan, the event queue and the batches.
NoLostChange ==
    setup = "done" /\ phase = "ready" /\ LockFree =>
        \A f \in FilesIn(configured \cap watched) : index[f] = OnDisk(f) \/ Tracked(f)

\* The watcher's part of the index is what SearchIndex allows anybody to do.
ImplementsIndex == Spec

\* Room for one more scan and one more batch: the bounds have not been reached.
Room == generation < MaxGeneration /\ revision < MaxRevision

\* When the disk stays quiet, the index shows what the disk holds.
Converges ==
    []Room => <>[](\A f \in FilesIn(configured \cap watched) : index[f] = OnDisk(f))

\* Whatever batches arrive, the text is built in the end.
ContentIsBuilt == []Room => <>[](contentStatus \in {"ready", "idle"})
=============================================================================
