----------------------------- MODULE Index_proofs -----------------------------
(* What holds of SearchIndex for every scope, file set and bound; and that     *)
(* ChangeWatcher implements it, so that what is proved of the index holds with *)
(* its watcher.                                                                *)
EXTENDS ChangeWatcher, FiniteSetTheorems, TLAPS

\* TypeOK needs one fact more: a generation is bumped only below its bound.
RoomToBump ==
    guard.step \in {"commit", "clear", "discard", "bump", "replay_read"} =>
        generation < MaxGeneration
\* and a scan started, or published, belongs to a generation.
GuardsScan ==
    /\ At("start") => generation \in Generations
    /\ guard.step \in {"scan_persist", "scan_publish"} => guard.gen \in Generations

TypeInv == TypeOK /\ RoomToBump /\ GuardsScan

-----------------------------------------------------------------------------
(* Types of the values the actions build *)

\* The stamps of the disk and the mark of an unbound snapshot are cutoffs.
LEMMA StampFacts == Absent \in Stamps /\ Stamps \subseteq Cutoffs /\ Unbound \in Cutoffs
  BY BoundsAssumption DEF Absent, Stamps, Cutoffs

\* The roots that answer for a scope lie in it; a selection answers as it is.
LEMMA ScopeFacts ==
  \A R : /\ R \in ScopesOf(R)
         /\ \A S \in ScopesOf(R) : S \subseteq R
         /\ R # DefaultScope => ScopesOf(R) = {R}
  BY DEF ScopesOf

\* The active roots are roots.
LEMMA ActiveFacts ==
  TypeOK => \A S \in ActiveScopes : S \subseteq configured /\ S \in SUBSET Roots
  BY ScopeFacts DEF TypeOK, ActiveScopes

\* An empty index is a function from files to stamps.
LEMMA NothingType == Nothing \in Versions
  BY StampFacts DEF Nothing, Versions

\* An unlocked guard is a guard.
LEMMA FreeType == Free \in GuardType /\ Free.step = "free"
  BY NothingType, StampFacts DEF Free, GuardType, Steps

\* An idle saver is a saver.
LEMMA NoWriteType == NoWrite \in SaverType
  BY NothingType DEF NoWrite, SaverType

\* A scan that has not started is a scan.
LEMMA NoScanType == NoScan \in ScanType
  BY NothingType, StampFacts DEF NoScan, ScanType

\* The snapshot of the first start is a snapshot.
LEMMA NoSnapshotType == NoSnapshot \in SnapshotType
  BY NothingType, StampFacts DEF NoSnapshot, Snapshot, SnapshotType

\* A missing USN binding is a binding.
LEMMA NoBindingType == NoBinding \in BindingType
  BY StampFacts DEF NoBinding, BindingType

\* A restored snapshot yields a USN binding or none.
LEMMA BindingsType == \A s \in SnapshotType : Binding(s) \in BindingType
  BY NoBindingType DEF Binding, BindingType, SnapshotType, Paths

\* A file read from the disk yields a stamp.
LEMMA OnDiskType == TypeOK => \A f \in Files : OnDisk(f) \in Stamps
  BY StampFacts DEF TypeOK, OnDisk, Versions

\* What the counters can be after one more step.
LEMMA CounterFacts ==
  TypeInv => /\ revision + 1 \in Nat /\ boots + 1 \in Nat
             /\ clock < MaxClock => clock + 1 \in Stamps
             /\ At("bump") => generation + 1 \in Generations
  BY BoundsAssumption
  DEF TypeInv, TypeOK, RoomToBump, At, Stamps, Generations

\* A scan generation is a counter within the bound.
LEMMA GenerationFacts ==
  /\ Generations \subseteq Nat /\ Generations \subseteq 0..MaxGeneration
  /\ 0 \in 0..MaxGeneration /\ 0..MaxGeneration \subseteq Nat
  BY BoundsAssumption DEF Generations

\* The types hold at the first start.
LEMMA TypeInit == Init => TypeInv
<1> SUFFICES ASSUME Init PROVE TypeInv
  OBVIOUS
<1>1. TypeOK
  <2>1. clock \in Stamps /\ touched \in Versions /\ present \in [Files -> BOOLEAN]
    BY BoundsAssumption DEF Init, Versions, Stamps
  <2>2. rootsFile \in SUBSET Roots /\ configured \in SUBSET Roots
    BY FilesAssumption DEF Init
  <2>3. startup \in BindingType /\ generation \in 0..MaxGeneration /\ revision \in Nat /\ boots \in Nat
    BY BoundsAssumption, NoBindingType DEF Init
  <2>4. scan \in [Generations -> ScanType]
    BY NoScanType DEF Init
  <2> QED
    BY <2>1, <2>2, <2>3, <2>4, NothingType, FreeType, NoWriteType, NoSnapshotType
    DEF Init, TypeOK
<1>2. RoomToBump /\ GuardsScan
  BY FreeType DEF Init, RoomToBump, GuardsScan, At
<1> QED
  BY <1>1, <1>2 DEF TypeInv

-----------------------------------------------------------------------------
(* Every step keeps the types *)

\* Reading one file keeps the records of the scan threads well typed.
LEMMA ScanReadType ==
  ASSUME NEW S \in [Generations -> ScanType], NEW g \in Generations,
         NEW f \in Files, NEW v \in Stamps
  PROVE  [S EXCEPT ![g].todo = @ \ {f}, ![g].found[f] = v] \in [Generations -> ScanType]
  BY ZenonT(60) DEF ScanType, Versions

\* Reading one file keeps the record of a content worker well typed.
LEMMA WorkerReadType ==
  ASSUME NEW W \in WorkerType, NEW f \in Files, NEW v \in Stamps
  PROVE  [W EXCEPT !.todo = @ \ {f}, !.docs[f] = v] \in WorkerType
  BY DEF WorkerType, Versions

\* Every step of every thread keeps the types.
LEMMA TypeNext == TypeInv /\ [Next]_vars => TypeInv'
<1> SUFFICES ASSUME TypeInv, [Next]_vars PROVE TypeInv'
  OBVIOUS
<1> USE DEF TypeInv, TypeOK, RoomToBump, GuardsScan, At
<1>r. revision + 1 \in Nat
  BY CounterFacts
<1>b. boots + 1 \in Nat
  BY CounterFacts
<1>g. At("bump") => generation + 1 \in Generations
  BY CounterFacts
<1>f. \A f \in Files : OnDisk(f) \in Stamps
  BY OnDiskType
<1>v. \A R \in SUBSET Roots : \A c \in Cutoffs : VerifiedCutoff(R, c) \in Cutoffs
  BY StampFacts DEF VerifiedCutoff
<1>d. Dirty(startup.roots, startup.cutoff) \in SUBSET Files
  BY DEF Dirty, FilesIn
<1>a. \A S \in ActiveScopes : S \in SUBSET Roots
  BY ActiveFacts
<1>w. \A g : g \in Nat => \A S \in ActiveScopes : NewWorker(g, S) \in WorkerType
  BY <1>a, <1>r, NothingType DEF NewWorker, WorkerType
<1>h. \A g : g \in Nat /\ ScheduleContent(g) =>
         /\ revision' \in Nat /\ contentStatus' \in {"idle", "stale", "indexing", "ready"}
         /\ generation' = generation /\ workers' \in SUBSET WorkerType
  BY <1>r, <1>w DEF ScheduleContent, StillCurrent
<1>1. ASSUME NEW R \in ScopeChoices, SetRoots(R) PROVE TypeInv'
  <2>1. R \in SUBSET Roots /\ generation < MaxGeneration
    BY <1>1, FilesAssumption DEF SetRoots
  <2>2. guard' \in GuardType /\ guard'.step \in {"free", "commit"}
    BY <1>1, <2>1, FreeType DEF SetRoots, LockFree, GuardType, Steps
  <2>3. rootsFile' \in SUBSET Roots
    BY <1>1, <2>1 DEF SetRoots
  <2> QED
    BY <1>1, <2>1, <2>2, <2>3, NoBindingType DEF SetRoots, counters, records, disk
<1>2. CASE CommitRoots
  <2>1. PICK S \in SUBSET Roots :
           guard' = [guard EXCEPT !.step = "clear", !.scope = S, !.rev = revision + 1]
    BY <1>2, ScopeFacts DEF CommitRoots, GuardType
  <2>2. guard' \in GuardType /\ guard'.step = "clear"
    BY <2>1, <1>r DEF GuardType, Steps
  <2> QED
    BY <1>2, <2>2, <1>r
    DEF CommitRoots, records, durable, disk, StillCurrent, Current, GuardType
<1>3. CASE ClearContent
  BY <1>3, NothingType
  DEF ClearContent, counters, records, durable, disk, DropText, Goto, GuardType, Steps
<1>4. CASE DiscardOutside
  BY <1>4, StampFacts
  DEF DiscardOutside, counters, durable, disk, Goto, GuardType, Steps, Versions
<1>5. CASE Rebuild
  <2>1. PICK S \in SUBSET Roots : guard' = [Free EXCEPT !.step = "bump", !.scope = S]
    BY <1>5, <1>a DEF Rebuild
  <2>2. guard' \in GuardType /\ guard'.step = "bump"
    BY <2>1, FreeType DEF GuardType, Steps
  <2> QED
    BY <1>5, <2>2, NoBindingType DEF Rebuild, counters, records, durable, disk
<1>6. ASSUME NEW S \in ActiveScopes, RebuildWatched(S) PROVE TypeInv'
  <2>1. guard' \in GuardType /\ guard'.step = "bump"
    BY <1>6, <1>a, FreeType DEF RebuildWatched, GuardType, Steps
  <2> QED
    BY <1>6, <2>1 DEF RebuildWatched, counters, records, durable, disk
<1>7. CASE BumpGeneration
  BY <1>7, <1>r, <1>g, GenerationFacts
  DEF BumpGeneration, records, durable, disk, StillCurrent, Current, GuardType, Steps, WorkerType
<1>8. CASE StartScan
  BY <1>8, FreeType, NoScanType, NothingType
  DEF StartScan, counters, records, durable, disk, Release, FilesIn, DropText, GuardType, ScanType
<1>9. ASSUME NEW g \in Generations, ScanBegin(g) PROVE TypeInv'
  BY <1>9
  DEF ScanBegin, counters, records, durable, disk, ScanGoto, Newest, ScanAt, ScanType
<1>10. ASSUME NEW g \in Generations, ScanFirstRun(g) PROVE TypeInv'
  BY <1>10, NothingType
  DEF ScanFirstRun, counters, durable, disk, ScanGoto, ScanAt, ScanType
<1>11. ASSUME NEW g \in Generations, NEW f \in Files, ScanRead(g, f) PROVE TypeInv'
  <2>1. OnDisk(f) \in Stamps /\ scan \in [Generations -> ScanType]
    BY <1>f
  <2>2. scan' \in [Generations -> ScanType]
    BY <1>11, <2>1, ScanReadType DEF ScanRead
  <2> QED
    BY <1>11, <2>2 DEF ScanRead, counters, records, durable, disk
<1>12. ASSUME NEW g \in Generations, ScanMft(g) PROVE TypeInv'
  <2> DEFINE S == [scan EXCEPT ![g].todo = {f \in @ : OnDisk(f) # Absent}, ![g].cutoff = clock]
  <2>1. clock \in Cutoffs /\ scan \in [Generations -> ScanType]
    BY StampFacts
  <2>2. S \in [Generations -> ScanType]
    <3> HIDE DEF TypeInv
    <3> QED BY <2>1, ZenonT(60) DEF ScanType
  <2> QED
    BY <1>12, <2>2 DEF ScanMft, counters, records, durable, disk
<1>13. ASSUME NEW g \in Generations, ScanAbandon(g) PROVE TypeInv'
  BY <1>13, NoScanType
  DEF ScanAbandon, counters, records, durable, disk, ScanEnds, Newest, ScanAt, ScanType
<1>14. ASSUME NEW g \in Generations, ScanLock(g) PROVE TypeInv'
  BY <1>14, FreeType, GenerationFacts, ZenonT(60)
  DEF ScanLock, counters, records, durable, disk, ScanGoto, ScanAt, LockFree, ScanType, GuardType, Steps
<1>38. ASSUME NEW g \in Generations, ScanRefused(g) \/ ScanRefusedAgain(g) PROVE TypeInv'
  BY <1>38, NoScanType, FreeType
  DEF ScanRefused, ScanRefusedAgain, counters, records, durable, disk, ScanEnds, Release, ScanType
<1>15. CASE ScanPersist
  <2> DEFINE s == scan[guard.gen]
  <2>1. s \in ScanType
    BY <1>15 DEF ScanPersist
  <2>2. Snapshot(s.scope, s.found, TRUE, VerifiedCutoff(s.scope, s.cutoff)) \in SnapshotType
    BY <2>1, <1>v DEF ScanType, Snapshot, SnapshotType
  <2>3. snapshot' \in SnapshotType
    BY <1>15, <2>2 DEF ScanPersist
  <2> QED
    BY <1>15, <2>3 DEF ScanPersist, Goto, records, counters, disk, GuardType, Steps
<1>16. CASE ScanPublish
  BY <1>16, FreeType, NothingType
  DEF ScanPublish, counters, durable, disk, Release, ScanGoto, ScanType, GuardType
<1>17. ASSUME NEW g \in Generations, ScanSchedule(g) PROVE TypeInv'
  BY <1>17, NoScanType, <1>h, GenerationFacts
  DEF ScanSchedule, records, durable, disk, ScanEnds, ScanType
<1>18. ASSUME NEW w \in workers, WorkerStart(w) PROVE TypeInv'
  <2> DEFINE v == [w EXCEPT !.pc = "read", !.docs = index,
                            !.todo = {f \in Files : index[f] # Absent}]
  <2>1. v \in WorkerType
    BY DEF WorkerType
  <2> QED
    BY <1>18, <2>1 DEF WorkerStart, Becomes, counters, records, durable, disk
<1>19. ASSUME NEW w \in workers, NEW f \in Files, WorkerRead(w, f) PROVE TypeInv'
  <2>1. w \in WorkerType /\ OnDisk(f) \in Stamps
    BY <1>f
  <2>2. PICK v \in WorkerType : Becomes(w, v)
    <3>1. CASE Becomes(w, [w EXCEPT !.todo = @ \ {f}, !.docs[f] = Absent])
      BY <2>1, <3>1, StampFacts, WorkerReadType
    <3>2. CASE Becomes(w, [w EXCEPT !.todo = @ \ {f}, !.docs[f] = OnDisk(f)])
      BY <2>1, <3>2, WorkerReadType
    <3>3. CASE Becomes(w, [w EXCEPT !.todo = {},
                 !.docs = [x \in Files |-> IF x \in w.todo THEN Absent ELSE w.docs[x]]])
      BY <2>1, <3>3, StampFacts DEF WorkerType, Versions
    <3> QED
      BY <1>19, <3>1, <3>2, <3>3 DEF WorkerRead
  <2> QED
    BY <1>19, <2>2, ZenonT(60) DEF WorkerRead, Becomes, counters, records, durable, disk
<1>20. ASSUME NEW w \in workers, WorkerPublish(w) PROVE TypeInv'
  BY <1>20, StampFacts
  DEF WorkerPublish, counters, records, durable, disk, Becomes, Current, WorkerType, Versions
<1>21. ASSUME NEW w \in workers, WorkerStatus(w) PROVE TypeInv'
  BY <1>21
  DEF WorkerStatus, counters, records, durable, disk, Current
<1>22. ASSUME NEW S \in ActiveScopes, NEW P \in SUBSET Files, BatchBegin(S, P) PROVE TypeInv'
  BY <1>22, FreeType, <1>r, GenerationFacts
  DEF BatchBegin, records, durable, disk, StillCurrent, Current, FilesIn, LockFree, GuardType, Steps
<1>23. ASSUME NEW f \in Files, PathRead(f) PROVE TypeInv'
  BY <1>23, <1>f
  DEF PathRead, counters, records, durable, disk, GuardType, Versions
<1>24. CASE BatchUnreadable
  BY <1>24, FreeType
  DEF BatchUnreadable, counters, records, durable, disk, Release
<1>25. CASE BatchPublish
  BY <1>25, StampFacts
  DEF BatchPublish, counters, durable, disk, Goto, GuardType, Steps, Versions
<1>26. CASE BatchSchedule
  BY <1>26, FreeType, <1>h DEF BatchSchedule, records, durable, disk, Release, GuardType
<1>27. CASE CaptureIncremental
  BY <1>27, <1>a
  DEF CaptureIncremental, counters, records, durable, disk, LockFree, SaverType
<1>28. CASE WriteIncremental
  BY <1>28, NoWriteType, StampFacts
  DEF WriteIncremental, counters, records, disk, Snapshot, SaverType, SnapshotType
<1>29. CASE ResumeUnchanged
  BY <1>29, NoBindingType, <1>h, GenerationFacts
  DEF ResumeUnchanged, records, durable, disk, LockFree
<1>30. CASE ReplayBegin
  <2>1. guard' \in GuardType /\ guard'.step = "replay_read"
    BY <1>30, FreeType, <1>d DEF ReplayBegin, GuardType, Steps, BindingType, Cutoffs
  <2> QED
    BY <1>30, <2>1, NoBindingType DEF ReplayBegin, counters, records, durable, disk, LockFree
<1>31. CASE ReplayPersist
  BY <1>31
  DEF ReplayPersist, counters, records, disk, Goto, Snapshot, GuardType, Steps, SnapshotType
<1>32. CASE ReplayDeclined
  BY <1>32, FreeType
  DEF ReplayDeclined, counters, records, durable, disk, GuardType, Steps
<1>33. CASE ReplayPublish
  BY <1>33, FreeType, NothingType, <1>h, GenerationFacts
  DEF ReplayPublish, durable, disk, Release, GuardType
<1>34. ASSUME NEW f \in Files, Write(f) PROVE TypeInv'
  BY <1>34, CounterFacts
  DEF Write, counters, records, durable, Versions
<1>35. ASSUME NEW f \in Files, Delete(f) PROVE TypeInv'
  BY <1>35, CounterFacts
  DEF Delete, counters, records, durable, Versions
<1>36. CASE Restart
  BY <1>36, FreeType, NoWriteType, NoScanType, NothingType, NoBindingType, BindingsType, GenerationFacts, <1>b
  DEF Restart, disk, SnapshotType
<1>37. CASE UNCHANGED vars
  BY <1>37 DEF vars, disk, durable, records, counters
<1> QED
  BY <1>1, <1>2, <1>3, <1>4, <1>5, <1>6, <1>7, <1>8, <1>9, <1>10, <1>11,
     <1>12, <1>13, <1>14, <1>15, <1>16, <1>17, <1>18, <1>19, <1>20, <1>21,
     <1>22, <1>23, <1>24, <1>25, <1>26, <1>27, <1>28, <1>29, <1>30, <1>31,
     <1>32, <1>33, <1>34, <1>35, <1>36, <1>37, <1>38
  DEF Next, ThreadStep, GuardStep, ScanStep, WorkerStep, Request, Environment

\* The types hold in every behaviour, whatever the bounds.
THEOREM TypeCorrect == Spec => []TypeOK
<1>1. TypeInv => TypeOK
  BY DEF TypeInv
<1> QED
  BY TypeInit, TypeNext, <1>1, PTL DEF Spec

-----------------------------------------------------------------------------
(* Only authorised paths and texts are visible *)

InScope(v, R) == \A f \in Files : v[f] # Absent => RootOf[f] \in R

\* What a snapshot of the roots R may hold: see SnapshotInScope.
NearScope(v, R) ==
    \A f \in Files : v[f] # Absent => RootOf[f] \in R \/ R \cup {RootOf[f]} \subseteq DefaultScope

DiscardScoped == Discarding => guard.scope \subseteq configured
EntriesScoped == ~Discarding => InScope(index, configured)
TextHasRecord == \A f \in Files : body[f] # Absent => index[f] # Absent
BatchScoped == guard.step \in {"batch_clear", "batch_read", "batch_schedule"} =>
                   guard.paths \subseteq FilesIn(configured)
ReplayScoped == guard.step \in {"replay_read", "replay_publish"} =>
                   /\ guard.scope \subseteq configured /\ guard.todo \subseteq FilesIn(guard.scope)
                   /\ InScope(guard.found, configured) /\ NearScope(guard.found, guard.scope)
PublisherScoped == guard.step \in {"scan_persist", "scan_publish"} =>
                   /\ guard.gen \in Generations /\ Newest(guard.gen)
                   /\ ScanAt(guard.gen, "publish")
                   /\ scan[guard.gen].scope \subseteq configured
ScansScoped == \A g \in Generations : /\ InScope(scan[g].found, scan[g].scope)
                                      /\ scan[g].todo \subseteq FilesIn(scan[g].scope)
SaverScoped == NearScope(saver.index, saver.roots)

SafeInv == /\ TypeInv /\ DiscardScoped /\ EntriesScoped /\ TextHasRecord /\ BatchScoped
           /\ ReplayScoped /\ PublisherScoped /\ ScansScoped /\ SaverScoped /\ SnapshotInScope

\* An index of the whole scope, paired with the roots that answer for it.
LEMMA NearFacts ==
  \A v, R : InScope(v, R) => NearScope(v, R) /\ \A S \in ScopesOf(R) : NearScope(v, S)
  BY ScopeFacts DEF InScope, NearScope

\* An empty index lies in any scope.
LEMMA NothingInScope == \A R : InScope(Nothing, R)
  BY DEF InScope, Nothing

\* The inductive invariant holds at the first start.
LEMMA SafeInit == Init => SafeInv
<1> SUFFICES ASSUME Init PROVE SafeInv
  OBVIOUS
<1>1. TypeInv
  BY TypeInit
<1> QED
  BY <1>1, NothingInScope
  DEF Init, SafeInv, DiscardScoped, Discarding, EntriesScoped, TextHasRecord, BatchScoped,
      ReplayScoped, PublisherScoped, ScansScoped, SaverScoped, SnapshotInScope, InScope, NearScope,
      Free, NoWrite, NoScan, NoSnapshot, Snapshot, Nothing, At

\* Every step of every thread keeps the inductive invariant.
LEMMA SafeNext == SafeInv /\ [Next]_vars => SafeInv'
<1> SUFFICES ASSUME SafeInv, [Next]_vars PROVE SafeInv'
  OBVIOUS
<1>t. TypeInv /\ TypeInv'
  BY TypeNext DEF SafeInv
<1>a. \A S \in ActiveScopes : S \subseteq configured
  BY <1>t, ActiveFacts DEF TypeInv
<1> USE DEF SafeInv, DiscardScoped, EntriesScoped, Discarding, TextHasRecord, BatchScoped, ReplayScoped,
            PublisherScoped, ScansScoped, SaverScoped, SnapshotInScope, InScope, NearScope,
            At, FilesIn, Newest, ScanAt
<1>1. ASSUME NEW R \in ScopeChoices, SetRoots(R) PROVE SafeInv'
  BY <1>1, <1>t, ZenonT(60)
  DEF SetRoots, counters, records, disk, LockFree, GuardType, TypeInv, TypeOK, Free
<1>2. CASE CommitRoots
  <2>1. guard'.step = "clear" /\ guard'.scope \subseteq configured'
    BY <1>2, <1>t, ScopeFacts DEF CommitRoots, GuardType, TypeInv, TypeOK
  <2> QED
    BY <1>2, <1>t, <2>1 DEF CommitRoots, records, durable
<1>3. CASE ClearContent
  BY <1>3, <1>t
  DEF ClearContent, counters, records, durable, disk, DropText, Goto, GuardType, TypeInv,
      TypeOK, Nothing
<1>4. CASE DiscardOutside
  <2>1. /\ guard'.step = "bump" /\ guard.scope \subseteq configured
        /\ UNCHANGED <<durable, configured, saver, scan>>
    BY <1>4, <1>t DEF DiscardOutside, Goto, GuardType, TypeInv, TypeOK
  <2>2. \A f \in Files : index'[f] # Absent => RootOf[f] \in configured
    BY <1>4, <2>1 DEF DiscardOutside
  <2>3. TextHasRecord'
    BY <1>4 DEF DiscardOutside
  <2> QED
    BY <1>t, <2>1, <2>2, <2>3 DEF durable
<1>5. CASE Rebuild
  BY <1>5, <1>t
  DEF Rebuild, counters, records, durable, disk, LockFree, GuardType, TypeInv, TypeOK,
      Free
<1>6. ASSUME NEW S \in ActiveScopes, RebuildWatched(S) PROVE SafeInv'
  BY <1>6, <1>t
  DEF RebuildWatched, counters, records, durable, disk, LockFree, GuardType, TypeInv,
      TypeOK, Free
<1>7. CASE BumpGeneration
  BY <1>7, <1>t
  DEF BumpGeneration, records, durable, disk, StillCurrent, Current, GuardType,
      WorkerType, TypeInv, TypeOK
<1>8. CASE StartScan
  BY <1>8, <1>t
  DEF StartScan, counters, records, durable, disk, Release, DropText, GuardType, ScanType,
      TypeInv, TypeOK, Free, Nothing, NoScan
<1>9. ASSUME NEW g \in Generations, ScanBegin(g) PROVE SafeInv'
  BY <1>9, <1>t
  DEF ScanBegin, counters, records, durable, disk, ScanGoto, ScanType, TypeInv, TypeOK
<1>10. ASSUME NEW g \in Generations, ScanFirstRun(g) PROVE SafeInv'
  BY <1>10, <1>t
  DEF ScanFirstRun, counters, durable, disk, ScanGoto, ScanType, TypeInv, TypeOK, Nothing
<1>11. ASSUME NEW g \in Generations, NEW f \in Files, ScanRead(g, f) PROVE SafeInv'
  <2>1. \A h \in Generations : /\ scan'[h].scope = scan[h].scope /\ scan'[h].pc = scan[h].pc
                               /\ scan'[h].todo \subseteq scan[h].todo
                               /\ \A x \in Files : \/ scan'[h].found[x] = scan[h].found[x]
                                                   \/ x \in scan[h].todo
    BY <1>11, <1>t DEF ScanRead, ScanType, TypeInv, TypeOK
  <2>2. UNCHANGED <<disk, durable, configured, records, body, phase, contentStatus, counters,
                    startup, guard, saver, workers>>
    BY <1>11 DEF ScanRead
  <2>3. ScansScoped'
    BY <2>1, <2>2
  <2> QED
    BY <1>t, <2>1, <2>2, <2>3 DEF counters, records, durable, disk
<1>12. ASSUME NEW g \in Generations, ScanMft(g) PROVE SafeInv'
  <2>1. \A h \in Generations : /\ scan'[h].scope = scan[h].scope /\ scan'[h].found = scan[h].found
                               /\ scan'[h].pc = scan[h].pc /\ scan'[h].todo \subseteq scan[h].todo
    BY <1>12, <1>t DEF ScanMft, ScanType, TypeInv, TypeOK
  <2> QED
    BY <1>12, <1>t, <2>1 DEF ScanMft, counters, records, durable, disk
<1>13. ASSUME NEW g \in Generations, ScanAbandon(g) PROVE SafeInv'
  BY <1>13, <1>t
  DEF ScanAbandon, counters, records, durable, disk, ScanEnds, ScanType, TypeInv, TypeOK,
      Nothing, NoScan
<1>14. ASSUME NEW g \in Generations, ScanLock(g) PROVE SafeInv'
  <2>1. scan[g].scope \subseteq configured
    BY <1>14, <1>a DEF ScanLock, MayPublish
  <2>2. guard' = [Free EXCEPT !.step = "scan_persist", !.gen = g] /\ guard.step = "free" /\ generation = g
    BY <1>14 DEF ScanLock, LockFree, MayPublish
  <2>3. guard'.step = "scan_persist" /\ guard'.gen = g
    BY <2>2 DEF Free
  <2>4. \A h \in Generations : /\ scan'[h].scope = scan[h].scope /\ scan'[h].todo = scan[h].todo
                               /\ scan'[h].found = scan[h].found
                               /\ h = g => scan'[h].pc = "publish"
    BY <1>14, <1>t DEF ScanLock, ScanGoto, ScanType, TypeInv, TypeOK
  <2>5. UNCHANGED <<configured, index, body, generation, saver, snapshot>>
    BY <1>14 DEF ScanLock, records, durable, counters
  <2> QED
    BY <1>t, <2>1, <2>2, <2>3, <2>4, <2>5
<1>38. ASSUME NEW g \in Generations, ScanRefused(g) PROVE SafeInv'
  BY <1>38, <1>t
  DEF ScanRefused, counters, records, durable, disk, ScanEnds, LockFree, ScanType, TypeInv, TypeOK,
      Nothing, NoScan
<1>39. ASSUME NEW g \in Generations, ScanRefusedAgain(g) PROVE SafeInv'
  BY <1>39, <1>t
  DEF ScanRefusedAgain, counters, records, durable, disk, ScanEnds, Release, ScanType, TypeInv, TypeOK,
      Nothing, NoScan, Free
<1>15. CASE ScanPersist
  BY <1>15, <1>t
  DEF ScanPersist, counters, records, disk, Goto, Snapshot, ScanType, GuardType,
      SnapshotType, TypeInv, TypeOK
<1>16. CASE ScanPublish
  BY <1>16, <1>t
  DEF ScanPublish, counters, durable, disk, Release, ScanGoto, ScanType, GuardType,
      TypeInv, TypeOK, Free, Nothing
<1>17. ASSUME NEW g \in Generations, ScanSchedule(g) PROVE SafeInv'
  BY <1>17, <1>t
  DEF ScanSchedule, records, durable, disk, ScanEnds, ScheduleContent, NewWorker,
      StillCurrent, Current, ScanType, WorkerType, TypeInv, TypeOK, Nothing, NoScan
<1>18. ASSUME NEW w \in workers, WorkerStart(w) PROVE SafeInv'
  BY <1>18, <1>t
  DEF WorkerStart, counters, records, durable, disk, Becomes, WorkerType, TypeInv, TypeOK
<1>19. ASSUME NEW w \in workers, NEW f \in Files, WorkerRead(w, f) PROVE SafeInv'
  BY <1>19, <1>t
  DEF WorkerRead, counters, records, durable, disk, Becomes, Current, WorkerType, TypeInv,
      TypeOK
<1>20. ASSUME NEW w \in workers, WorkerPublish(w) PROVE SafeInv'
  BY <1>20, <1>t
  DEF WorkerPublish, counters, records, durable, disk, Becomes, Current, WorkerType,
      TypeInv, TypeOK
<1>21. ASSUME NEW w \in workers, WorkerStatus(w) PROVE SafeInv'
  BY <1>21, <1>t
  DEF WorkerStatus, counters, records, durable, disk, Current, TypeInv, TypeOK
<1>22. ASSUME NEW S \in ActiveScopes, NEW P \in SUBSET Files, BatchBegin(S, P) PROVE SafeInv'
  BY <1>22, <1>t, <1>a
  DEF BatchBegin, records, durable, disk, StillCurrent, Current, LockFree, GuardType,
      TypeInv, TypeOK, Free
<1>23. ASSUME NEW f \in Files, PathRead(f) PROVE SafeInv'
  BY <1>23, <1>t
  DEF PathRead, counters, records, durable, disk, GuardType, TypeInv, TypeOK
<1>24. CASE BatchUnreadable
  BY <1>24, <1>t
  DEF BatchUnreadable, counters, records, durable, disk, Release, TypeInv, TypeOK, Free
<1>25. CASE BatchPublish
  BY <1>25, <1>t
  DEF BatchPublish, counters, durable, disk, Goto, GuardType, TypeInv, TypeOK
<1>26. CASE BatchSchedule
  BY <1>26, <1>t
  DEF BatchSchedule, records, durable, disk, Release, ScheduleContent, NewWorker,
      StillCurrent, Current, GuardType, WorkerType, TypeInv, TypeOK, Free, Nothing
<1>27. CASE CaptureIncremental
  <2>1. NearScope(saver'.index, saver'.roots) /\ ~Discarding
    BY <1>27, NearFacts DEF CaptureIncremental, LockFree, ActiveScopes
  <2> QED
    BY <1>27, <1>t, <2>1 DEF CaptureIncremental, records, durable, counters
<1>28. CASE WriteIncremental
  BY <1>28, <1>t
  DEF WriteIncremental, counters, records, disk, Snapshot, SaverType, SnapshotType,
      TypeInv, TypeOK, Nothing, NoWrite
<1>29. CASE ResumeUnchanged
  BY <1>29, <1>t
  DEF ResumeUnchanged, records, durable, disk, ScheduleContent, NewWorker, StillCurrent,
      Current, LockFree, WorkerType, TypeInv, TypeOK, Nothing
<1>30. CASE ReplayBegin
  <2>1. /\ guard'.step = "replay_read" /\ guard'.scope = startup.roots
        /\ guard'.todo = Dirty(startup.roots, startup.cutoff) /\ guard'.found = index
    BY <1>30, FreeType DEF ReplayBegin, GuardType
  <2>2. guard'.todo \subseteq FilesIn(guard'.scope)
    BY <2>1 DEF Dirty
  <2>3. guard.step = "free" /\ configured' = configured /\ startup.roots \in ActiveScopes
    BY <1>30 DEF ReplayBegin, LockFree
  <2>4. NearScope(index, startup.roots) /\ startup.roots \subseteq configured
    BY <2>3, <1>a, NearFacts DEF ActiveScopes
  <2> QED
    BY <1>30, <1>t, <2>1, <2>2, <2>3, <2>4 DEF ReplayBegin, records, durable
<1>31. CASE ReplayPersist
  BY <1>31, <1>t
  DEF ReplayPersist, counters, records, disk, Goto, Snapshot, GuardType, SnapshotType,
      TypeInv, TypeOK
<1>32. CASE ReplayDeclined
  BY <1>32, <1>t
  DEF ReplayDeclined, counters, records, durable, disk, GuardType, TypeInv, TypeOK, Free
<1>33. CASE ReplayPublish
  BY <1>33, <1>t
  DEF ReplayPublish, durable, disk, Release, ScheduleContent, NewWorker, StillCurrent,
      Current, GuardType, WorkerType, TypeInv, TypeOK, Free, Nothing
<1>34. ASSUME NEW f \in Files, Write(f) PROVE SafeInv'
  BY <1>34, <1>t
  DEF Write, counters, records, durable, TypeInv, TypeOK
<1>35. ASSUME NEW f \in Files, Delete(f) PROVE SafeInv'
  BY <1>35, <1>t
  DEF Delete, counters, records, durable, TypeInv, TypeOK
<1>36. CASE Restart
  <2>1. Nothing \in Versions /\ \A f \in Files : Nothing[f] = Absent
    BY NothingType DEF Nothing
  <2>2. /\ guard'.step = "free" /\ \A f \in Files : saver'.index[f] = Absent
    BY <1>36, <2>1 DEF Restart, Free, NoWrite
  <2>3. \A g \in Generations : /\ scan'[g].todo = {}
                               /\ \A f \in Files : scan'[g].found[f] = Absent
    BY <1>36, <2>1 DEF Restart, NoScan
  <2>4. snapshot' = snapshot /\ \A f \in Files : body'[f] = Absent
    BY <1>36, <2>1 DEF Restart
  <2>5. EntriesScoped'
    <3>1. PICK S \in ScopesOf(configured') : \/ Restorable(snapshot, S) /\ index' = snapshot.index
                                             \/ index' = Nothing
      BY <1>36 DEF Restart
    <3>2. S \subseteq configured'
      BY ScopeFacts
    <3> QED
      BY <2>1, <3>1, <3>2 DEF Restorable, Paths
  <2> QED
    BY <1>t, <2>2, <2>3, <2>4, <2>5
<1>37. CASE UNCHANGED vars
  BY <1>37, <1>t DEF vars, disk, durable, records, counters
<1> QED
  BY <1>1, <1>2, <1>3, <1>4, <1>5, <1>6, <1>7, <1>8, <1>9, <1>10, <1>11,
     <1>12, <1>13, <1>14, <1>15, <1>16, <1>17, <1>18, <1>19, <1>20, <1>21,
     <1>22, <1>23, <1>24, <1>25, <1>26, <1>27, <1>28, <1>29, <1>30, <1>31,
     <1>32, <1>33, <1>34, <1>35, <1>36, <1>37, <1>38, <1>39
  DEF Next, ThreadStep, GuardStep, ScanStep, WorkerStep, Request, Environment

\* A removed root is a privacy boundary in every interleaving: the file entries
\* and texts that searches see lie in the configured scope.
THEOREM ScopeIsBoundary == Spec => []OnlyAuthorized
<1>1. SafeInv => OnlyAuthorized
  BY DEF SafeInv, EntriesScoped, TextHasRecord, OnlyAuthorized, InScope
<1> QED
  BY SafeInit, SafeNext, <1>1, PTL DEF Spec

\* Every snapshot on the disk, whichever of the three writers wrote it and
\* whenever the process stopped, holds paths of the scope stored with it.
THEOREM SnapshotsAreScoped == Spec => []SnapshotInScope
<1>1. SafeInv => SnapshotInScope
  BY DEF SafeInv
<1> QED
  BY SafeInit, SafeNext, <1>1, PTL DEF Spec

-----------------------------------------------------------------------------
(* A snapshot with a journal position is exact *)

\* Outside `todo`, v is what the disk holds of each file of R at rest since c.
ExactBut(v, R, todo, c) ==
    \A f \in FilesIn(R) \ todo : touched[f] <= c => v[f] = OnDisk(f)

DiskDated == \A f \in Files : touched[f] <= clock
SnapshotExact ==
    snapshot.cutoff # Unbound =>
        snapshot.cutoff <= clock /\ ExactBut(snapshot.index, snapshot.roots, {}, snapshot.cutoff)
ScanExact(s) ==
    /\ \A f \in s.todo : s.found[f] = Absent
    /\ s.pc = "publish" => s.todo = {}
    /\ s.cutoff # Unbound => s.cutoff <= clock /\ ExactBut(s.found, s.scope, s.todo, s.cutoff)
ScansExact == \A g \in Generations : ScanExact(scan[g])
ReplayExact ==
    At("replay_read") => /\ guard.cutoff <= clock
                         /\ ExactBut(guard.found, guard.scope, guard.todo, guard.cutoff)

\* While a startup binding waits, what the threads hold of a file at rest since
\* its position is what the disk holds, or nothing.
AsOnDisk(v) == \A f \in Files : touched[f] <= startup.cutoff => v[f] \in {Absent, OnDisk(f)}
StartupExact ==
    startup.cutoff # Unbound =>
        /\ startup.cutoff <= clock
        /\ ~At("commit")
        /\ AsOnDisk(index) /\ AsOnDisk(guard.found) /\ \A g \in Generations : AsOnDisk(scan[g].found)
        /\ \A f \in FilesIn(startup.roots) : touched[f] <= startup.cutoff =>
              (f \in startup.paths <=> OnDisk(f) # Absent)
ExactInv == DiskDated /\ SnapshotExact /\ ScansExact /\ ReplayExact /\ StartupExact

\* A value of the version of f that some thread, or the disk, holds already.
Known(f, x) == \/ x \in {Absent, OnDisk(f), index[f], guard.found[f]}
               \/ \E g \in Generations : x = scan[g].found[f]

\* The parts of the invariant that a step outside the disk leaves alone.
LEMMA ExactKept ==
  ASSUME ExactInv, UNCHANGED disk
  PROVE  /\ DiskDated'
         /\ snapshot' = snapshot => SnapshotExact'
         /\ scan' = scan => ScansExact'
         /\ guard'.step # "replay_read" => ReplayExact'
         /\ guard' = guard => ReplayExact'
<1>1. \A f \in Files : OnDisk(f)' = OnDisk(f)
  BY DEF disk, OnDisk
<1>2. DiskDated'
  BY DEF ExactInv, DiskDated, disk
<1>3. snapshot' = snapshot => SnapshotExact'
  BY <1>1 DEF ExactInv, SnapshotExact, ExactBut, FilesIn, disk
<1>4. scan' = scan => ScansExact'
  BY <1>1 DEF ExactInv, ScansExact, ScanExact, ExactBut, FilesIn, disk
<1>5. guard'.step # "replay_read" => ReplayExact'
  BY DEF ReplayExact, At
<1>6. guard' = guard => ReplayExact'
  BY <1>1 DEF ExactInv, ReplayExact, ExactBut, FilesIn, At, disk
<1> QED
  BY <1>2, <1>3, <1>4, <1>5, <1>6

\* A scan thread that neither reads nor marks keeps its reading exact.
LEMMA ScanKept ==
  ASSUME ExactInv, UNCHANGED disk, NEW g \in Generations,
         \A h \in Generations \ {g} : scan'[h] = scan[h],
         ScanExact(scan'[g])
  PROVE  ScansExact'
<1>1. \A f \in Files : OnDisk(f)' = OnDisk(f)
  BY DEF disk, OnDisk
<1>2. \A h \in Generations : ScanExact(scan'[h])
  BY DEF ExactInv, ScansExact
<1> QED
  BY <1>1, <1>2 DEF ScansExact, ScanExact, ExactBut, FilesIn, disk

\* A step that moves known versions about keeps the binding of the start.
LEMMA StartupKept ==
  ASSUME ExactInv, UNCHANGED disk, startup' = startup, guard'.step # "commit",
         \A f \in Files : /\ Known(f, index'[f]) /\ Known(f, guard'.found[f])
                          /\ \A g \in Generations : Known(f, scan'[g].found[f])
  PROVE  StartupExact'
<1>1. \A f \in Files : OnDisk(f)' = OnDisk(f)
  BY DEF disk, OnDisk
<1>2. SUFFICES ASSUME startup.cutoff # Unbound PROVE StartupExact'
  BY DEF StartupExact
<1>3. \A f \in Files : \A x : touched[f] <= startup.cutoff /\ Known(f, x) => x \in {Absent, OnDisk(f)}
  BY <1>2 DEF ExactInv, StartupExact, AsOnDisk, Known
<1>4. AsOnDisk(index)' /\ AsOnDisk(guard.found)' /\ \A g \in Generations : AsOnDisk(scan[g].found)'
  BY <1>1, <1>3 DEF AsOnDisk, disk
<1> QED
  BY <1>1, <1>2, <1>4 DEF ExactInv, StartupExact, FilesIn, disk, At

\* Without a binding there is nothing to keep.
LEMMA StartupDropped ==
  startup' = NoBinding => StartupExact'
  BY DEF StartupExact, NoBinding

\* A change to the disk is dated after every position taken so far.
LEMMA DiskMoves ==
  ASSUME TypeOK, ExactInv, NEW f \in Files, Write(f) \/ Delete(f)
  PROVE  ExactInv'
<1>1. /\ clock' = clock + 1 /\ touched' = [touched EXCEPT ![f] = clock + 1]
      /\ \A h \in Files \ {f} : present'[h] = present[h]
      /\ UNCHANGED <<snapshot, index, startup, guard, scan>>
  BY DEF Write, Delete, TypeOK, durable, records
<1>2. clock \in Nat /\ Unbound \in Nat /\ touched \in [Files -> Nat]
  BY BoundsAssumption DEF TypeOK, Stamps, Unbound, Versions
<1>3. /\ snapshot.cutoff \in Nat /\ startup.cutoff \in Nat /\ guard.cutoff \in Nat
      /\ \A g \in Generations : scan[g].cutoff \in Nat
  BY <1>2 DEF TypeOK, SnapshotType, BindingType, GuardType, ScanType, Cutoffs, Stamps
<1>4. \A h \in Files : \A c \in Nat : c <= clock /\ touched'[h] <= c =>
         touched[h] <= c /\ OnDisk(h)' = OnDisk(h)
  <2> SUFFICES ASSUME NEW h \in Files, NEW c \in Nat, c <= clock, touched'[h] <= c
               PROVE  touched[h] <= c /\ OnDisk(h)' = OnDisk(h)
    OBVIOUS
  <2>1. h # f
    BY <1>1, <1>2
  <2>2. touched'[h] = touched[h] /\ present'[h] = present[h]
    BY <1>1, <1>2, <2>1
  <2> QED
    BY <2>2 DEF OnDisk
<1>5. DiskDated'
  BY <1>1, <1>2 DEF ExactInv, DiskDated
<1>6. \A c \in Nat : c <= clock => c <= clock'
  BY <1>1, <1>2
<1>7. SnapshotExact'
  BY <1>1, <1>3, <1>4, <1>6 DEF ExactInv, SnapshotExact, ExactBut, FilesIn
<1>8. ScansExact'
  BY <1>1, <1>3, <1>4, <1>6 DEF ExactInv, ScansExact, ScanExact, ExactBut, FilesIn
<1>9. ReplayExact'
  BY <1>1, <1>3, <1>4, <1>6 DEF ExactInv, ReplayExact, ExactBut, FilesIn, At
<1>10. StartupExact'
  BY <1>1, <1>3, <1>4, <1>6 DEF ExactInv, StartupExact, AsOnDisk, FilesIn, At
<1> QED
  BY <1>5, <1>7, <1>8, <1>9, <1>10 DEF ExactInv

\* An empty index, and the list of a scan thread that has not begun, hold nothing.
LEMMA NothingIsAbsent == \A f \in Files : Nothing[f] = Absent /\ Free.found[f] = Absent
  BY DEF Nothing, Free

\* Every step keeps what is known of the recorded journal positions.
LEMMA ExactNext == SafeInv /\ ExactInv /\ [Next]_vars => ExactInv'
<1> SUFFICES ASSUME SafeInv, ExactInv, [Next]_vars PROVE ExactInv'
  OBVIOUS
<1>t. TypeOK /\ TypeOK'
  BY TypeNext DEF SafeInv, TypeInv
<1>n. \A f \in Files : Known(f, Nothing[f]) /\ Known(f, Free.found[f])
  BY NothingIsAbsent DEF Known
<1>k. \A f \in Files : /\ Known(f, index[f]) /\ Known(f, guard.found[f])
                       /\ \A g \in Generations : Known(f, scan[g].found[f])
  BY DEF Known
<1>f. /\ Free.step = "free" /\ Free.found = Nothing
      /\ \A s \in Steps : \A R : [Free EXCEPT !.step = s, !.scope = R].step = s
      /\ \A s \in Steps : \A R : [Free EXCEPT !.step = s, !.scope = R].found = Nothing
  BY DEF Free
\* Steps that only move known versions, and the guard past no replay.
<1>q. ASSUME UNCHANGED <<disk, snapshot, scan>>,
             startup' \in {startup, NoBinding},
             guard'.step \notin {"replay_read", "commit"} \/ guard' = guard,
             guard'.found \in {guard.found, Nothing},
             \A f \in Files : Known(f, index'[f])
      PROVE  ExactInv'
  <2>1. startup' = startup => guard'.step # "commit" \/ startup.cutoff = Unbound
    BY <1>q DEF ExactInv, StartupExact, At
  <2>2. StartupExact'
    <3>1. CASE startup' = startup /\ guard'.step # "commit"
      BY <1>q, <1>n, <1>k, <3>1, StartupKept
    <3>2. CASE startup' = startup /\ startup.cutoff = Unbound
      BY <3>2 DEF StartupExact
    <3>3. CASE startup' = NoBinding
      BY <3>3, StartupDropped
    <3> QED
      BY <1>q, <2>1, <3>1, <3>2, <3>3
  <2> QED
    BY <1>q, <2>2, ExactKept DEF ExactInv
\* Steps of the scan thread g that read nothing.
<1>s. ASSUME NEW g \in Generations, UNCHANGED <<disk, snapshot, startup>>,
             \A h \in Generations \ {g} : scan'[h] = scan[h],
             ScanExact(scan'[g]),
             guard'.step \notin {"replay_read", "commit"} \/ guard' = guard,
             \A f \in Files : Known(f, scan'[g].found[f]),
             guard'.found \in {guard.found, Nothing},
             \A f \in Files : Known(f, index'[f])
      PROVE  ExactInv'
  <2>1. \A f \in Files : \A h \in Generations : Known(f, scan'[h].found[f])
    BY <1>s, <1>k
  <2>2. StartupExact'
    <3>1. CASE guard'.step # "commit"
      BY <1>s, <1>n, <1>k, <2>1, <3>1, StartupKept
    <3>2. CASE guard' = guard /\ guard.step = "commit"
      BY <1>s, <3>2 DEF ExactInv, StartupExact, At
    <3> QED
      BY <1>s, <3>1, <3>2
  <2> QED
    BY <1>s, <2>2, ExactKept, ScanKept DEF ExactInv
<1> USE DEF At
<1>1. ASSUME NEW R \in ScopeChoices, SetRoots(R) PROVE ExactInv'
  <2>1. UNCHANGED <<disk, snapshot, scan, configured, index>> /\ startup' = NoBinding
    BY <1>1 DEF SetRoots, records
  <2>2. guard' \in {guard, [Free EXCEPT !.step = "commit", !.scope = R]}
    BY <1>1 DEF SetRoots
  <2>3. guard'.step # "replay_read" \/ guard' = guard
    <3>1. ASSUME guard' = [Free EXCEPT !.step = "commit", !.scope = R]
          PROVE  guard'.step = "commit"
      BY <3>1 DEF Free
    <3> QED
      BY <2>2, <3>1
  <2> QED
    BY <2>1, <2>3, ExactKept, StartupDropped DEF ExactInv
<1>2. CASE CommitRoots
  <2>1. /\ UNCHANGED <<disk, snapshot, scan, startup, index>> /\ guard'.step = "clear"
        /\ guard.step = "commit"
    BY <1>2, <1>t DEF CommitRoots, records, durable, GuardType
  <2>2. startup.cutoff = Unbound
    BY <2>1 DEF ExactInv, StartupExact
  <2>3. StartupExact'
    BY <2>1, <2>2 DEF StartupExact
  <2> QED
    BY <2>1, <2>3, ExactKept DEF ExactInv
<1>3. CASE ClearContent
  <2>1. PICK s \in {"discard", "batch_read"} : guard' = [guard EXCEPT !.step = s]
    BY <1>3 DEF ClearContent, Goto
  <2>2. guard'.step \in {"discard", "batch_read"} /\ guard'.found = guard.found
    BY <2>1, <1>t DEF TypeOK, GuardType
  <2> QED
    BY <1>3, <2>2, <1>q, <1>k DEF ClearContent, records, durable
<1>4. CASE DiscardOutside
  <2>1. \A f \in Files : Known(f, index'[f])
    BY <1>4 DEF DiscardOutside, Known
  <2> QED
    BY <1>4, <1>q, <2>1, <1>t DEF DiscardOutside, Goto, durable, GuardType
<1>5. CASE Rebuild
  BY <1>5, <1>q, <1>k, <1>f DEF Rebuild, records, durable, Steps
<1>6. ASSUME NEW S \in ActiveScopes, RebuildWatched(S) PROVE ExactInv'
  BY <1>6, <1>q, <1>k, <1>f DEF RebuildWatched, records, durable, Steps
<1>7. CASE BumpGeneration
  BY <1>7, <1>q, <1>k, <1>t DEF BumpGeneration, records, durable, GuardType
<1>8. CASE StartScan
  <2>1. generation \in Generations
    BY <1>8 DEF StartScan, SafeInv, TypeInv, GuardsScan
  <2> DEFINE s == [NoScan EXCEPT !.pc = "begin", !.scope = guard.scope, !.todo = FilesIn(guard.scope)]
  <2>2. /\ s.found = Nothing /\ s.cutoff = Unbound /\ s.pc = "begin" /\ s.todo \subseteq Files
    BY DEF NoScan, FilesIn
  <2> HIDE DEF s
  <2>3. ScanExact(s) /\ \A f \in Files : Known(f, s.found[f])
    BY <2>2, <1>n, NothingIsAbsent DEF ScanExact
  <2>4. scan'[generation] = s /\ \A h \in Generations \ {generation} : scan'[h] = scan[h]
    BY <1>8, <2>1, <1>t DEF StartScan, TypeOK, s
  <2> QED
    BY <1>8, <2>1, <2>3, <2>4, <1>s, <1>k, <1>f DEF StartScan, Release, records, durable
<1>9. ASSUME NEW g \in Generations, \/ ScanBegin(g) \/ ScanFirstRun(g) \/ ScanAbandon(g)
                                    \/ ScanLock(g) \/ ScanRefused(g) \/ ScanRefusedAgain(g)
                                    \/ ScanSchedule(g)
      PROVE  ExactInv'
  <2> USE DEF ScanBegin, ScanFirstRun, ScanAbandon, ScanLock, ScanRefused, ScanRefusedAgain, ScanSchedule
  <2>1. /\ UNCHANGED <<disk, snapshot, startup>>
        /\ index' \in {index, Nothing}
    BY <1>9 DEF records, durable
  <2>0. guard' \in {guard, Free, [Free EXCEPT !.step = "scan_persist", !.gen = g]}
    BY <1>9 DEF Release
  <2>6. guard' = guard \/ (guard'.step \in {"free", "scan_persist"} /\ guard'.found = Nothing)
    <3>1. ASSUME guard' = [Free EXCEPT !.step = "scan_persist", !.gen = g]
          PROVE  guard'.step = "scan_persist" /\ guard'.found = Nothing
      BY <3>1 DEF Free
    <3> QED
      BY <2>0, <3>1, <1>f
  <2>2. \A h \in Generations \ {g} : scan'[h] = scan[h]
    BY <1>9, <1>t DEF ScanGoto, ScanEnds, TypeOK
  <2>3. \/ scan'[g] = [NoScan EXCEPT !.pc = "done"]
        \/ scan'[g] = [scan[g] EXCEPT !.pc = "publish"] /\ scan[g].todo = {}
        \/ \E p \in {"first", "walk"} : scan'[g] = [scan[g] EXCEPT !.pc = p]
    BY <1>9, <1>t DEF ScanGoto, ScanEnds, TypeOK
  <2>4. /\ ScanExact(scan'[g]) /\ \A f \in Files : Known(f, scan'[g].found[f])
    <3>0. ScanExact(scan[g]) /\ scan[g] \in ScanType
      BY <1>t DEF ExactInv, ScansExact, TypeOK
    <3>1. CASE scan'[g] = [NoScan EXCEPT !.pc = "done"]
      BY <3>1, <1>n DEF NoScan, ScanExact
    <3>2. CASE scan'[g] = [scan[g] EXCEPT !.pc = "publish"] /\ scan[g].todo = {}
      BY <3>0, <3>2, <1>k DEF ScanExact, ScanType
    <3>3. ASSUME NEW p \in {"first", "walk"}, scan'[g] = [scan[g] EXCEPT !.pc = p]
          PROVE  ScanExact(scan'[g]) /\ \A f \in Files : Known(f, scan'[g].found[f])
      BY <3>0, <3>3, <1>k DEF ScanExact, ScanType
    <3> QED
      BY <2>3, <3>1, <3>2, <3>3
  <2>5. \A f \in Files : Known(f, index'[f])
    BY <2>1, <1>n, <1>k
  <2> QED
    BY <2>1, <2>6, <2>2, <2>4, <2>5, <1>s
<1>11. ASSUME NEW g \in Generations, NEW f \in Files, ScanRead(g, f) PROVE ExactInv'
  <2> DEFINE s == scan[g]
  <2>1. s \in ScanType /\ ScanExact(s) /\ s.pc = "walk" /\ f \in s.todo
    BY <1>11, <1>t DEF ScanRead, ScanAt, TypeOK, ExactInv, ScansExact
  <2>2. scan'[g] = [s EXCEPT !.todo = @ \ {f}, !.found[f] = OnDisk(f)]
    BY <1>11, <1>t DEF ScanRead, TypeOK
  <2> HIDE DEF s
  <2>3. /\ scan'[g].todo = s.todo \ {f} /\ scan'[g].pc = "walk" /\ scan'[g].cutoff = s.cutoff
        /\ scan'[g].scope = s.scope /\ scan'[g].found[f] = OnDisk(f)
        /\ \A h \in Files \ {f} : scan'[g].found[h] = s.found[h]
    BY <2>1, <2>2 DEF ScanType, Versions
  <2>4. ScanExact(scan'[g])
    BY <2>1, <2>3 DEF ScanExact, ExactBut, FilesIn, ScanType
  <2>5. \A h \in Files : Known(h, scan'[g].found[h])
    BY <2>3 DEF Known, s
  <2>6. \A h \in Generations \ {g} : scan'[h] = scan[h]
    BY <1>11, <1>t DEF ScanRead, TypeOK
  <2> QED
    BY <1>11, <1>s, <1>k, <2>4, <2>5, <2>6 DEF ScanRead, records, durable
<1>12. ASSUME NEW g \in Generations, ScanMft(g) PROVE ExactInv'
  <2> DEFINE s == scan[g]
  <2>1. s \in ScanType /\ ScanExact(s) /\ s.pc = "walk" /\ s.todo = FilesIn(s.scope)
    BY <1>12, <1>t DEF ScanMft, ScanAt, TypeOK, ExactInv, ScansExact
  <2>2. scan'[g] = [s EXCEPT !.todo = {f \in @ : OnDisk(f) # Absent}, !.cutoff = clock]
    BY <1>12, <1>t DEF ScanMft, TypeOK
  <2> HIDE DEF s
  <2>3. /\ scan'[g].todo = {f \in s.todo : OnDisk(f) # Absent} /\ scan'[g].pc = "walk"
        /\ scan'[g].cutoff = clock /\ scan'[g].scope = s.scope /\ scan'[g].found = s.found
    BY <2>1, <2>2 DEF ScanType
  <2>4. ScanExact(scan'[g])
    BY <2>1, <2>3, <1>t, BoundsAssumption
    DEF ScanExact, ExactBut, FilesIn, ScanType, TypeOK, Stamps
  <2>5. \A h \in Files : Known(h, scan'[g].found[h])
    BY <2>3, <1>k DEF s
  <2>6. \A h \in Generations \ {g} : scan'[h] = scan[h]
    BY <1>12, <1>t DEF ScanMft, TypeOK
  <2> QED
    BY <1>12, <1>s, <1>k, <2>4, <2>5, <2>6 DEF ScanMft, records, durable
<1>15. CASE ScanPersist
  <2> DEFINE s == scan[guard.gen]
  <2>1. ScanExact(s) /\ s.todo = {}
    BY <1>15 DEF ScanPersist, SafeInv, PublisherScoped, ScanAt, ExactInv, ScansExact, ScanExact
  <2>2. /\ UNCHANGED <<disk, index, configured, startup, scan>>
        /\ guard'.step = "scan_publish" /\ guard'.found = guard.found
    BY <1>15, <1>t DEF ScanPersist, Goto, records, TypeOK, GuardType
  <2>3. \A f \in Files : OnDisk(f)' = OnDisk(f)
    BY <2>2 DEF disk, OnDisk
  <2>4. SnapshotExact'
    <3>1. CASE snapshot' = snapshot
      BY <2>2, <3>1, ExactKept
    <3>2. CASE /\ snapshot'.index = s.found /\ snapshot'.roots = s.scope
               /\ snapshot'.cutoff \in {s.cutoff, Unbound}
      BY <2>1, <2>2, <2>3, <3>2 DEF SnapshotExact, ScanExact, ExactBut, FilesIn, disk
    <3> QED
      BY <1>15, <3>1, <3>2 DEF ScanPersist, Snapshot, VerifiedCutoff
  <2> QED
    BY <2>2, <2>4, <1>k, ExactKept, StartupKept DEF ExactInv
<1>16. CASE ScanPublish
  <2>0. guard.gen \in Generations /\ guard.step = "scan_publish"
    BY <1>16 DEF ScanPublish, SafeInv, PublisherScoped
  <2>1. /\ UNCHANGED <<disk, snapshot, configured, startup>> /\ index' = scan[guard.gen].found
        /\ guard'.step = "free" /\ guard'.found = Nothing
    BY <1>16, <1>f DEF ScanPublish, Release, durable
  <2>2. \A h \in Generations \ {guard.gen} : scan'[h] = scan[h]
    BY <1>16, <1>t DEF ScanPublish, ScanGoto, TypeOK
  <2>3. scan'[guard.gen] = [scan[guard.gen] EXCEPT !.pc = "schedule"]
    BY <1>16, <2>0, <1>t DEF ScanPublish, ScanGoto, TypeOK
  <2>4. ScanExact(scan'[guard.gen]) /\ \A f \in Files : Known(f, scan'[guard.gen].found[f])
    BY <2>0, <2>3, <1>t, <1>k DEF ScanExact, ScanType, TypeOK, ExactInv, ScansExact
  <2>5. \A f \in Files : Known(f, index'[f])
    BY <2>0, <2>1, <1>k
  <2> QED
    BY <2>0, <2>1, <2>2, <2>4, <2>5, <1>s
<1>18. ASSUME NEW w \in workers, WorkerStep(w) PROVE ExactInv'
  <2>1. UNCHANGED <<disk, snapshot, scan, configured, startup, guard, index>>
    BY <1>18 DEF WorkerStep, WorkerStart, WorkerRead, WorkerPublish, WorkerStatus, records, durable
  <2> QED
    BY <2>1, <1>q, <1>k
<1>22. ASSUME NEW S \in ActiveScopes, NEW P \in SUBSET Files, BatchBegin(S, P) PROVE ExactInv'
  <2>1. guard'.step = "batch_clear" /\ guard'.found = Nothing
    BY <1>22 DEF BatchBegin, Free
  <2> QED
    BY <1>22, <2>1, <1>q, <1>k DEF BatchBegin, records, durable
<1>23. ASSUME NEW f \in Files, PathRead(f) PROVE ExactInv'
  <2>1. /\ UNCHANGED <<disk, snapshot, scan, configured, startup, index>>
        /\ guard'.step = guard.step /\ guard.step \in {"batch_read", "replay_read"}
        /\ guard'.todo = guard.todo \ {f} /\ guard'.found = [guard.found EXCEPT ![f] = OnDisk(f)]
        /\ guard'.cutoff = guard.cutoff /\ guard'.scope = guard.scope
    BY <1>23, <1>t DEF PathRead, records, durable, TypeOK, GuardType
  <2>2. \A h \in Files : OnDisk(h)' = OnDisk(h)
    BY <2>1 DEF disk, OnDisk
  <2>3. /\ guard'.found[f] = OnDisk(f)
        /\ \A h \in Files \ {f} : guard'.found[h] = guard.found[h]
    BY <2>1, <1>t DEF TypeOK, GuardType, Versions
  <2>4. ReplayExact'
    BY <2>1, <2>2, <2>3 DEF ExactInv, ReplayExact, ExactBut, FilesIn, disk
  <2>5. \A h \in Files : Known(h, guard'.found[h])
    BY <2>3, <1>k DEF Known
  <2>6. StartupExact'
    BY <2>1, <2>5, <1>k, StartupKept
  <2> QED
    BY <2>1, <2>4, <2>6, ExactKept DEF ExactInv
<1>24. CASE BatchUnreadable
  BY <1>24, <1>q, <1>k, <1>f DEF BatchUnreadable, Release, records, durable
<1>25. CASE BatchPublish
  <2>1. \A f \in Files : Known(f, index'[f])
    BY <1>25, <1>k DEF BatchPublish
  <2> QED
    BY <1>25, <2>1, <1>q, <1>t DEF BatchPublish, Goto, durable, TypeOK, GuardType
<1>26. CASE BatchSchedule
  BY <1>26, <1>q, <1>k, <1>f DEF BatchSchedule, Release, records, durable
<1>27. CASE CaptureIncremental
  BY <1>27, <1>q, <1>k DEF CaptureIncremental, records, durable
<1>28. CASE WriteIncremental
  <2>1. /\ UNCHANGED <<disk, scan, configured, startup, guard, index>>
        /\ snapshot' = snapshot \/ snapshot'.cutoff = Unbound
    BY <1>28 DEF WriteIncremental, Snapshot, records
  <2>2. SnapshotExact'
    BY <2>1, ExactKept DEF SnapshotExact
  <2>3. StartupExact'
    <3>1. CASE guard.step # "commit"
      BY <2>1, <3>1, <1>k, StartupKept
    <3>2. CASE guard.step = "commit"
      BY <2>1, <3>2 DEF ExactInv, StartupExact
    <3> QED
      BY <3>1, <3>2
  <2> QED
    BY <2>1, <2>2, <2>3, ExactKept DEF ExactInv
<1>29. CASE ResumeUnchanged
  BY <1>29, <1>q, <1>k DEF ResumeUnchanged, records, durable
<1>30. CASE ReplayBegin
  <2>1. /\ UNCHANGED <<disk, snapshot, scan, configured, index>> /\ startup' = NoBinding
        /\ startup.paths = Paths(index) /\ startup.cutoff # Unbound
        /\ guard'.todo = Dirty(startup.roots, startup.cutoff) /\ guard'.cutoff = clock
        /\ guard'.scope = startup.roots /\ guard'.found = index
    BY <1>30, FreeType DEF ReplayBegin, GuardType, records, durable
  <2>2. \A h \in Files : OnDisk(h)' = OnDisk(h)
    BY <2>1 DEF disk, OnDisk
  <2>3. clock \in Nat /\ startup.cutoff \in Nat /\ \A f \in Files : touched[f] \in Nat
    BY <1>t, BoundsAssumption DEF TypeOK, BindingType, Cutoffs, Stamps, Unbound, Versions
  <2>4. \A f \in FilesIn(startup.roots) \ Dirty(startup.roots, startup.cutoff) : index[f] = OnDisk(f)
    <3> SUFFICES ASSUME NEW f \in FilesIn(startup.roots), f \notin Dirty(startup.roots, startup.cutoff)
                 PROVE  index[f] = OnDisk(f)
      OBVIOUS
    <3>1. f \in Files /\ touched[f] <= startup.cutoff
      BY <2>3 DEF Dirty, FilesIn
    <3>2. index[f] \in {Absent, OnDisk(f)} /\ (f \in startup.paths <=> OnDisk(f) # Absent)
      BY <2>1, <3>1 DEF ExactInv, StartupExact, AsOnDisk
    <3> QED
      BY <2>1, <3>1, <3>2 DEF Paths
  <2>5. ReplayExact'
    BY <2>1, <2>2, <2>3, <2>4 DEF ReplayExact, ExactBut, FilesIn, disk
  <2> QED
    BY <2>1, <2>5, ExactKept, StartupDropped DEF ExactInv
<1>31. CASE ReplayPersist
  <2>1. /\ UNCHANGED <<disk, scan, configured, startup, index>>
        /\ guard.step = "replay_read" /\ guard.todo = {}
        /\ guard'.step = "replay_publish" /\ guard'.found = guard.found
        /\ snapshot'.index = guard.found /\ snapshot'.roots = guard.scope
        /\ snapshot'.cutoff = guard.cutoff
    BY <1>31, <1>t DEF ReplayPersist, Goto, Snapshot, records, TypeOK, GuardType
  <2>2. \A h \in Files : OnDisk(h)' = OnDisk(h)
    BY <2>1 DEF disk, OnDisk
  <2>3. SnapshotExact'
    BY <2>1, <2>2 DEF ExactInv, ReplayExact, SnapshotExact, ExactBut, FilesIn, disk
  <2> QED
    BY <2>1, <2>3, <1>k, ExactKept, StartupKept DEF ExactInv
<1>32. CASE ReplayDeclined
  BY <1>32, <1>q, <1>k, <1>f DEF ReplayDeclined, records, durable, Steps
<1>33. CASE ReplayPublish
  BY <1>33, <1>q, <1>k, <1>f DEF ReplayPublish, Release, durable
<1>34. ASSUME NEW f \in Files, Write(f) \/ Delete(f) PROVE ExactInv'
  BY <1>34, <1>t, DiskMoves
<1>36. CASE Restart
  <2>1. /\ UNCHANGED <<disk, snapshot>> /\ guard' = Free /\ scan' = [g \in Generations |-> NoScan]
    BY <1>36 DEF Restart
  <2>2. \A h \in Files : OnDisk(h)' = OnDisk(h)
    BY <2>1 DEF disk, OnDisk
  <2>3. ScansExact'
    BY <2>1 DEF ScansExact, ScanExact, NoScan
  <2>4. StartupExact'
    <3>1. SUFFICES ASSUME startup' = Binding(snapshot), startup'.cutoff # Unbound,
                          Paths(snapshot.index) \subseteq FilesIn(snapshot.roots),
                          index' = snapshot.index
                   PROVE  StartupExact'
      BY <1>36, StartupDropped DEF Restart, Restorable, StartupExact
    <3>2. /\ startup'.cutoff = snapshot.cutoff /\ startup'.paths = Paths(snapshot.index)
          /\ startup'.roots = snapshot.roots /\ snapshot.cutoff # Unbound
      BY <3>1 DEF Binding, NoBinding
    <3>3. /\ snapshot.cutoff <= clock
          /\ \A f \in FilesIn(snapshot.roots) : touched[f] <= snapshot.cutoff => snapshot.index[f] = OnDisk(f)
      BY <3>2 DEF ExactInv, SnapshotExact, ExactBut
    <3>4. \A f \in Files : f \notin FilesIn(snapshot.roots) => snapshot.index[f] = Absent
      BY <3>1 DEF Paths
    <3>5. AsOnDisk(index)'
      BY <2>1, <2>2, <3>1, <3>2, <3>3, <3>4 DEF AsOnDisk, disk
    <3>6. AsOnDisk(guard.found)' /\ \A g \in Generations : AsOnDisk(scan[g].found)'
      BY <2>1, NothingIsAbsent DEF AsOnDisk, NoScan
    <3>7. \A f \in FilesIn(startup'.roots) : touched'[f] <= startup'.cutoff =>
             (f \in startup'.paths <=> OnDisk(f)' # Absent)
      BY <2>1, <2>2, <3>2, <3>3 DEF Paths, FilesIn, disk
    <3>8. startup'.cutoff <= clock' /\ guard'.step # "commit"
      BY <2>1, <3>2, <3>3, <1>f DEF disk
    <3> QED
      BY <3>5, <3>6, <3>7, <3>8 DEF StartupExact, FilesIn
  <2> QED
    BY <2>1, <2>3, <2>4, <1>f, ExactKept DEF ExactInv
<1>37. CASE UNCHANGED vars
  BY <1>37, <1>q, <1>k DEF vars, durable, records
<1> QED
  BY <1>1, <1>2, <1>3, <1>4, <1>5, <1>6, <1>7, <1>8, <1>9, <1>11, <1>12, <1>15, <1>16,
     <1>18, <1>22, <1>23, <1>24, <1>25, <1>26, <1>27, <1>28, <1>29, <1>30, <1>31, <1>32,
     <1>33, <1>34, <1>36, <1>37
  DEF Next, ThreadStep, GuardStep, ScanStep, Request, Environment

\* At the first start there is no position yet, and no entry.
LEMMA ExactInit == Init => ExactInv
  BY NothingIsAbsent, BoundsAssumption
  DEF Init, ExactInv, DiskDated, SnapshotExact, ScansExact, ScanExact, ReplayExact, StartupExact,
      NoSnapshot, Snapshot, NoScan, NoBinding, Free, At

\* A snapshot with a journal position holds exactly what the disk holds of
\* every file at rest since: a restart that replays the journal from it, or
\* finds nothing to replay, misses no change.
THEOREM BoundSnapshotsAreExact == Spec => []BoundSnapshotExact
<1>1. SafeInv /\ ExactInv => BoundSnapshotExact
  BY DEF ExactInv, SnapshotExact, ExactBut, BoundSnapshotExact
<1> QED
  BY <1>1, ExactInit, SafeInit, SafeNext, ExactNext, PTL DEF Spec

-----------------------------------------------------------------------------
(* Text of another version is never called ready *)

BatchSteps == {"batch_clear", "batch_read", "batch_schedule"}

\* A worker that may still publish has the current counters: the others are gone.
WorkersCurrent == \A w \in workers : Current(w, generation, revision)
BatchIsNewest == guard.step \in BatchSteps => guard.gen = generation

\* What a worker has read is text of the version the entries record, unless a
\* publication came in between; then its schedule, which stops the worker, is due.
Outdated(w) == \E f \in Files : index[f] # Absent /\ w.docs[f] \notin {Absent, index[f]}
OutdatedIsReplaced == \A w \in workers : w.pc = "read" /\ Outdated(w) => WillSchedule
UnflaggedIsReplaced == \A w \in workers : w.pc = "status" /\ TextMismatch => WillSchedule

\* The scan of a generation that is to come has not begun.
ToCome(g) == g > generation \/ (g = generation /\ At("start"))
ScansToCome == \A g \in Generations : ToCome(g) => scan[g].pc = "none"

TextInv == /\ WorkersCurrent /\ BatchIsNewest /\ OutdatedIsReplaced /\ UnflaggedIsReplaced
           /\ ScansToCome /\ MismatchIsFlagged

\* A schedule that is due stays due until a worker is started or a newer
\* generation begins.
Due == \/ guard.step = "batch_schedule"
       \/ generation \in Generations /\ scan[generation].pc = "schedule"
\* What the invariant calls due is what the property does.
LEMMA DueIsWillSchedule == TypeOK => (WillSchedule <=> Due)
  BY DEF WillSchedule, Due, Newest, ScanAt, At

\* Steps that leave the text, the records, the counters and the workers alone.
LEMMA TextKept ==
  ASSUME TextInv, UNCHANGED <<index, body, contentStatus, generation, revision, workers>>,
         WillSchedule => WillSchedule',
         At("start") => At("start")' \/ body' = Nothing,
         guard'.step \in BatchSteps => guard'.gen = generation,
         ScansToCome'
  PROVE  TextInv'
<1>1. TextMismatch' = TextMismatch /\ \A w : Outdated(w)' = Outdated(w)
  BY DEF TextMismatch, Outdated
<1> QED
  BY <1>1 DEF TextInv, WorkersCurrent, BatchIsNewest, OutdatedIsReplaced, UnflaggedIsReplaced,
     MismatchIsFlagged, TextMismatch, Current, Nothing, At

\* Steps that stop every worker there was, perhaps for one that starts afresh.
LEMMA TextRestarted ==
  ASSUME \A w \in workers' : Current(w, generation', revision') /\ w.pc = "start",
         guard'.step \in BatchSteps => guard'.gen = generation',
         MismatchIsFlagged', ScansToCome'
  PROVE  TextInv'
  BY DEF TextInv, WorkersCurrent, BatchIsNewest, OutdatedIsReplaced, UnflaggedIsReplaced,
     Current

\* Once the revision has moved, no worker of before is current.
LEMMA OldWorkersStop ==
  ASSUME TypeOK, TextInv, revision' = revision + 1
  PROVE  \A w \in workers : ~Current(w, generation', revision')
  BY DEF TypeOK, TextInv, WorkersCurrent, Current

\* Starting a worker: the earlier ones stop, and the newest generation says so.
LEMMA ScheduleRestarts ==
  ASSUME TypeOK, TextInv, NEW g, ScheduleContent(g)
  PROVE  /\ \A w \in workers' : Current(w, generation', revision') /\ w.pc = "start"
         /\ generation' = generation
         /\ contentStatus' \in {contentStatus, "indexing"}
         /\ g = generation => contentStatus' = "indexing"
<1>1. \A w \in workers : ~Current(w, generation', revision')
  BY OldWorkersStop DEF ScheduleContent
<1>2. \A S : NewWorker(g, S).pc = "start"
  BY DEF NewWorker
<1> QED
  BY <1>1, <1>2 DEF ScheduleContent, StillCurrent, Newest

\* Every step leaves the scans to come alone.
LEMMA ToComeNext == SafeInv /\ ScansToCome /\ [Next]_vars => ScansToCome'
<1> SUFFICES ASSUME SafeInv, ScansToCome, [Next]_vars PROVE ScansToCome'
  OBVIOUS
<1>t. TypeOK /\ TypeOK' /\ generation \in Nat /\ Generations \subseteq Nat
  BY GenerationFacts, TypeNext DEF SafeInv, TypeInv, TypeOK
<1>f. Free.step = "free"
  BY DEF Free
<1> USE DEF ScansToCome, ToCome, At
<1>q. ASSUME UNCHANGED <<scan, generation>>, guard'.step # "start" \/ guard' = guard
      PROVE  ScansToCome'
  BY <1>q
<1>s. ASSUME NEW g \in Generations, generation' = generation,
             \A h \in Generations \ {g} : scan'[h] = scan[h],
             scan[g].pc # "none", guard'.step # "start" \/ guard' = guard
      PROVE  ScansToCome'
  BY <1>s
<1>1. ASSUME NEW R \in ScopeChoices, SetRoots(R) PROVE ScansToCome'
  <2>1. guard' \in {guard, [Free EXCEPT !.step = "commit", !.scope = R]}
    BY <1>1 DEF SetRoots
  <2>2. guard' = [Free EXCEPT !.step = "commit", !.scope = R] => guard'.step = "commit"
    BY DEF Free
  <2> QED
    BY <1>1, <1>q, <2>1, <2>2 DEF SetRoots, counters
<1>2. CASE CommitRoots \/ ClearContent \/ DiscardOutside \/ BatchPublish \/ ScanPersist
           \/ ReplayPersist \/ (\E f \in Files : PathRead(f))
  <2>1. guard'.step # "start" \/ guard'.step = guard.step
    BY <1>2, <1>t DEF CommitRoots, ClearContent, DiscardOutside, BatchPublish, ScanPersist,
       ReplayPersist, PathRead, Goto, GuardType, Steps, TypeOK
  <2>2. UNCHANGED <<scan, generation>>
    BY <1>2 DEF CommitRoots, ClearContent, DiscardOutside, BatchPublish, ScanPersist,
       ReplayPersist, PathRead, counters
  <2> QED
    BY <2>1, <2>2
<1>3. CASE \/ Rebuild \/ ReplayDeclined \/ ReplayBegin
           \/ \E S \in ActiveScopes : RebuildWatched(S) \/ \E P \in SUBSET Files : BatchBegin(S, P)
  <2>1. guard'.step # "start"
    BY <1>3 DEF Rebuild, RebuildWatched, ReplayDeclined, ReplayBegin, BatchBegin, Free
  <2>2. UNCHANGED <<scan, generation>>
    BY <1>3 DEF Rebuild, RebuildWatched, ReplayDeclined, ReplayBegin, BatchBegin, counters
  <2> QED
    BY <2>1, <2>2, <1>q
<1>4. CASE BumpGeneration
  <2>1. generation' = generation + 1 /\ scan' = scan
    BY <1>4 DEF BumpGeneration
  <2>2. \A g \in Generations : (g > generation' \/ g = generation') => g > generation
    BY <2>1, <1>t
  <2> QED
    BY <2>1, <2>2
<1>5. CASE StartScan
  <2>1. /\ generation' = generation /\ guard'.step = "free" /\ generation \in Generations
        /\ \A h \in Generations \ {generation} : scan'[h] = scan[h]
    BY <1>5, <1>f, <1>t DEF StartScan, Release, counters, SafeInv, TypeInv, GuardsScan, TypeOK
  <2>2. \A g \in Generations : g > generation => g # generation
    BY <1>t
  <2> QED
    BY <2>1, <2>2
<1>6. ASSUME NEW g \in Generations, ScanStep(g) PROVE ScansToCome'
  <2> USE DEF ScanStep, ScanBegin, ScanFirstRun, ScanMft, ScanAbandon, ScanLock, ScanRefused,
              ScanRefusedAgain, ScanSchedule, ScanRead
  <2>1. \A h \in Generations \ {g} : scan'[h] = scan[h]
    BY <1>6, <1>t DEF ScanGoto, ScanEnds, TypeOK
  <2>2. scan[g].pc # "none" /\ generation' = generation
    BY <1>6 DEF ScanAt, ScheduleContent, counters, SafeInv, PublisherScoped
  <2>3. guard' \in {guard, Free, [Free EXCEPT !.step = "scan_persist", !.gen = g]}
    BY <1>6 DEF Release
  <2>4. guard' = [Free EXCEPT !.step = "scan_persist", !.gen = g] => guard'.step # "start"
    BY DEF Free
  <2> QED
    BY <2>1, <2>2, <2>3, <2>4, <1>f, <1>s
<1>7. CASE ScanPublish
  <2>1. /\ guard.gen \in Generations /\ generation' = generation /\ guard'.step = "free"
        /\ \A h \in Generations \ {guard.gen} : scan'[h] = scan[h]
    BY <1>7, <1>f, <1>t DEF ScanPublish, ScanGoto, Release, counters, SafeInv, TypeInv, GuardsScan, TypeOK
  <2>2. scan[guard.gen].pc # "none"
    BY <1>7 DEF ScanPublish, SafeInv, PublisherScoped, ScanAt
  <2> QED
    BY <2>1, <2>2, <1>s
<1>8. CASE BatchUnreadable \/ BatchSchedule \/ ReplayPublish
  <2>1. guard'.step = "free" /\ UNCHANGED <<scan, generation>>
    BY <1>8, <1>f DEF BatchUnreadable, BatchSchedule, ReplayPublish, Release, ScheduleContent, counters
  <2> QED
    BY <2>1, <1>q
<1>9. CASE CaptureIncremental \/ WriteIncremental \/ ResumeUnchanged \/ (\E w \in workers : WorkerStep(w))
           \/ (\E f \in Files : Write(f) \/ Delete(f)) \/ UNCHANGED vars
  <2>1. UNCHANGED <<guard, scan, generation>>
    BY <1>9 DEF CaptureIncremental, WriteIncremental, ResumeUnchanged, ScheduleContent, WorkerStep,
       WorkerStart, WorkerRead, WorkerPublish, WorkerStatus, Write, Delete, counters, vars
  <2> QED
    BY <2>1, <1>q
<1>10. CASE Restart
  <2>1. \A g \in Generations : scan'[g].pc = "none"
    BY <1>10 DEF Restart, NoScan
  <2> QED
    BY <2>1
<1> QED
  BY <1>1, <1>2, <1>3, <1>4, <1>5, <1>6, <1>7, <1>8, <1>9, <1>10
  DEF Next, ThreadStep, GuardStep, Request, Environment

\* Every step of every thread keeps the text flagged.
LEMMA TextNext == SafeInv /\ TextInv /\ [Next]_vars => TextInv'
<1> SUFFICES ASSUME SafeInv, TextInv, [Next]_vars PROVE TextInv'
  OBVIOUS
<1>t. TypeOK /\ TypeOK'
  BY TypeNext DEF SafeInv, TypeInv
<1>d. (WillSchedule <=> Due) /\ (WillSchedule' <=> Due')
  <2>1. WillSchedule <=> Due
    BY <1>t, DueIsWillSchedule
  <2>2. WillSchedule' <=> Due'
    BY <1>t DEF WillSchedule, Due, Newest, ScanAt, At
  <2> QED
    BY <2>1, <2>2
<1>f. Free.step = "free"
  BY DEF Free
<1>n. body' = Nothing => ~TextMismatch'
  BY DEF TextMismatch, Nothing
<1>b. guard.step \in BatchSteps => guard.gen = generation
  BY DEF TextInv, BatchIsNewest
<1>i. MismatchIsFlagged
  BY DEF TextInv
<1>c. ScansToCome /\ ScansToCome'
  BY ToComeNext DEF TextInv
<1> USE DEF At, BatchSteps
\* Steps of the guard before and after which nothing is due.
<1>q. ASSUME UNCHANGED <<index, body, contentStatus, generation, revision, workers, scan>>,
             guard.step \notin {"batch_schedule", "start"},
             guard'.step \in BatchSteps => guard'.gen = generation
      PROVE  TextInv'
  BY <1>q, <1>d, <1>c, TextKept DEF Due
<1>1. ASSUME NEW R \in ScopeChoices, SetRoots(R) PROVE TextInv'
  <2>1. guard' \in {guard, [Free EXCEPT !.step = "commit", !.scope = R]}
    BY <1>1 DEF SetRoots
  <2>2. guard'.step \notin BatchSteps
    <3>1. ASSUME guard' = [Free EXCEPT !.step = "commit", !.scope = R] PROVE guard'.step = "commit"
      BY <3>1 DEF Free
    <3> QED
      BY <1>1, <1>f, <2>1, <3>1 DEF SetRoots, LockFree
  <2> QED
    BY <1>1, <1>f, <2>2, <1>q DEF SetRoots, LockFree, records, counters
<1>2. CASE CommitRoots
  <2>1. /\ guard'.step = "clear" /\ generation' = generation /\ workers' = {}
        /\ UNCHANGED <<index, body, contentStatus, scan>> /\ guard.step = "commit"
    BY <1>2, <1>t, OldWorkersStop DEF CommitRoots, StillCurrent, records, TypeOK, GuardType
  <2>2. MismatchIsFlagged'
    BY <2>1, <1>i, <1>d DEF MismatchIsFlagged, TextMismatch, Due
  <2> QED
    BY <2>1, <2>2, <1>c, TextRestarted
<1>3. CASE ClearContent
  <2>1. PICK s \in {"discard", "batch_read"} : guard' = [guard EXCEPT !.step = s]
    BY <1>3 DEF ClearContent, Goto
  <2>2. guard'.step \in BatchSteps => guard'.gen = generation
    BY <1>3, <2>1, <1>b, <1>t DEF ClearContent, TypeOK, GuardType, Goto
  <2> QED
    BY <1>3, <2>2, <1>n, <1>d, <1>c
    DEF ClearContent, DropText, records, counters, TextInv, WorkersCurrent, BatchIsNewest,
        OutdatedIsReplaced, UnflaggedIsReplaced, MismatchIsFlagged, Current, Due,
        Outdated
<1>4. CASE DiscardOutside
  <2>1. /\ guard'.step = "bump" /\ guard.step = "discard"
        /\ UNCHANGED <<contentStatus, generation, revision, workers, scan>>
    BY <1>4, <1>t DEF DiscardOutside, Goto, counters, TypeOK, GuardType
  <2>2. WillSchedule' <=> WillSchedule
    BY <2>1, <1>d DEF Due
  <2>3. \A f \in Files : \/ index'[f] = index[f] /\ body'[f] = body[f]
                         \/ index'[f] = Absent /\ body'[f] = Absent
    BY <1>4 DEF DiscardOutside
  <2>4. (TextMismatch' => TextMismatch) /\ \A w : Outdated(w)' => Outdated(w)
    BY <2>3 DEF TextMismatch, Outdated
  <2> QED
    BY <2>1, <2>2, <2>4, <1>c
    DEF TextInv, WorkersCurrent, BatchIsNewest, OutdatedIsReplaced, UnflaggedIsReplaced,
        MismatchIsFlagged, Current
<1>5. CASE Rebuild
  <2>1. guard'.step = "bump"
    BY <1>5 DEF Rebuild, Free
  <2> QED
    BY <1>5, <2>1, <1>f, <1>q DEF Rebuild, LockFree, records, counters
<1>6. ASSUME NEW S \in ActiveScopes, RebuildWatched(S) PROVE TextInv'
  <2>1. guard'.step = "bump"
    BY <1>6 DEF RebuildWatched, Free
  <2> QED
    BY <1>6, <2>1, <1>f, <1>q DEF RebuildWatched, LockFree, records, counters
<1>7. CASE BumpGeneration
  <2>1. guard'.step = "start" /\ workers' = {}
    BY <1>7, <1>t, OldWorkersStop DEF BumpGeneration, StillCurrent, TypeOK, GuardType
  <2>2. MismatchIsFlagged'
    BY <2>1 DEF MismatchIsFlagged
  <2> QED
    BY <2>1, <2>2, <1>c, TextRestarted
<1>8. CASE StartScan
  <2>1. /\ body' = Nothing /\ guard'.step = "free"
        /\ UNCHANGED <<index, generation, revision, workers>>
        /\ guard.step = "start" /\ generation \in Generations
    BY <1>8, <1>f DEF StartScan, DropText, Release, records, counters, SafeInv, TypeInv, GuardsScan
  <2>2. ~WillSchedule
    BY <2>1, <1>d, <1>c DEF Due, ScansToCome, ToCome
  <2> QED
    BY <2>1, <2>2, <1>n, <1>c
    DEF TextInv, WorkersCurrent, BatchIsNewest, OutdatedIsReplaced, UnflaggedIsReplaced,
        MismatchIsFlagged, Current, Outdated
<1>9. ASSUME NEW g \in Generations,
             \/ ScanBegin(g) \/ ScanMft(g) \/ ScanAbandon(g) \/ ScanLock(g)
             \/ ScanRefused(g) \/ ScanRefusedAgain(g) \/ \E f \in Files : ScanRead(g, f)
      PROVE  TextInv'
  <2> USE DEF ScanBegin, ScanMft, ScanAbandon, ScanLock, ScanRefused, ScanRefusedAgain, ScanRead
  <2>1. /\ UNCHANGED <<index, body, contentStatus, generation, revision, workers>>
        /\ scan[g].pc # "schedule"
    BY <1>9 DEF ScanAt, records, counters, SafeInv, PublisherScoped
  <2>2. \A h \in Generations \ {g} : scan'[h] = scan[h]
    BY <1>9, <1>t DEF ScanGoto, ScanEnds, TypeOK
  <2>3. \/ guard' = guard
        \/ guard.step \in {"free", "scan_persist"} /\ guard'.step \in {"free", "scan_persist"}
    <3>1. \/ guard' = guard
          \/ /\ guard.step \in {"free", "scan_persist"}
             /\ guard' \in {Free, [Free EXCEPT !.step = "scan_persist", !.gen = g]}
      BY <1>9 DEF LockFree, Release
    <3>2. guard' = [Free EXCEPT !.step = "scan_persist", !.gen = g] => guard'.step = "scan_persist"
      BY DEF Free
    <3> QED
      BY <3>1, <3>2, <1>f
  <2>4. WillSchedule => WillSchedule'
    BY <2>1, <2>2, <2>3, <1>d DEF Due
  <2>5. guard'.step \in BatchSteps => guard'.gen = generation
    BY <2>3, <1>b
  <2> QED
    BY <2>1, <2>3, <2>4, <2>5, <1>c, TextKept
<1>10. ASSUME NEW g \in Generations, ScanFirstRun(g) PROVE TextInv'
  <2>1. /\ index' = Nothing /\ body' = Nothing
        /\ UNCHANGED <<guard, generation, revision, workers>>
    BY <1>10 DEF ScanFirstRun, counters
  <2>2. ~TextMismatch' /\ \A w : ~Outdated(w)'
    BY <2>1, <1>n DEF Outdated, Nothing
  <2> QED
    BY <2>1, <2>2, <1>b, <1>c
    DEF TextInv, WorkersCurrent, BatchIsNewest, OutdatedIsReplaced, UnflaggedIsReplaced,
        MismatchIsFlagged, Current
<1>11. CASE ScanPersist
  <2>1. guard'.step = "scan_publish"
    BY <1>11, <1>t DEF ScanPersist, Goto, TypeOK, GuardType
  <2> QED
    BY <1>11, <2>1, <1>q DEF ScanPersist, records, counters
<1>12. CASE ScanPublish
  <2>1. /\ body' = Nothing /\ guard'.step = "free" /\ UNCHANGED <<generation, revision, workers>>
        /\ guard.gen \in Generations /\ guard.gen = generation
    BY <1>12, <1>f DEF ScanPublish, Release, counters, SafeInv, PublisherScoped, Newest
  <2>2. scan'[generation].pc = "schedule"
    BY <1>12, <2>1, <1>t DEF ScanPublish, ScanGoto, TypeOK, ScanType
  <2>3. WillSchedule'
    BY <2>1, <2>2, <1>d DEF Due
  <2> QED
    BY <2>1, <2>3, <1>c
    DEF TextInv, WorkersCurrent, BatchIsNewest, OutdatedIsReplaced, UnflaggedIsReplaced,
        MismatchIsFlagged, Current
<1>13. ASSUME NEW g \in Generations, ScanSchedule(g) PROVE TextInv'
  <2>1. ScheduleContent(g) /\ UNCHANGED <<index, body, guard>>
    BY <1>13 DEF ScanSchedule, records
  <2>2. \A h \in Generations \ {g} : scan'[h] = scan[h]
    BY <1>13, <1>t DEF ScanSchedule, ScanEnds, TypeOK
  <2>3. MismatchIsFlagged'
    <3>1. CASE g = generation
      BY <2>1, <3>1, <1>t, ScheduleRestarts DEF MismatchIsFlagged
    <3>2. CASE g # generation
      <4>1. generation' = generation /\ contentStatus' \in {contentStatus, "indexing"}
        BY <2>1, <1>t, ScheduleRestarts
      <4>2. WillSchedule' <=> WillSchedule
        BY <2>1, <2>2, <3>2, <4>1, <1>d DEF Due
      <4> QED
        BY <2>1, <4>1, <4>2, <1>i DEF MismatchIsFlagged, TextMismatch
    <3> QED
      BY <3>1, <3>2
  <2> QED
    BY <2>1, <2>3, <1>b, <1>c, <1>t, ScheduleRestarts, TextRestarted
\* Steps of the worker w, which becomes v.
<1>w. ASSUME NEW w \in workers, NEW v, Becomes(w, v), v.gen = w.gen, v.rev = w.rev,
             UNCHANGED <<index, generation, revision, guard, scan>>,
             v.pc = "read" /\ Outdated(v) => WillSchedule,
             contentStatus' = contentStatus,
             body' # body => v.pc = "status" /\ (TextMismatch' => WillSchedule),
             body' = body => v.pc # "status"
      PROVE  TextInv'
  <2>1. (WillSchedule' <=> WillSchedule) /\ \A x : Outdated(x)' <=> Outdated(x)
    BY <1>w, <1>d DEF Due, Outdated
  <2>2. body' = body => (TextMismatch' <=> TextMismatch)
    BY <1>w DEF TextMismatch
  <2>3. \A x \in workers' : x \in workers \/ x = v
    BY <1>w DEF Becomes
  <2> QED
    BY <1>w, <2>1, <2>2, <2>3, <1>c
    DEF TextInv, WorkersCurrent, BatchIsNewest, OutdatedIsReplaced, UnflaggedIsReplaced,
        MismatchIsFlagged, Current
<1>14. ASSUME NEW w \in workers, WorkerStart(w) PROVE TextInv'
  <2> DEFINE v == [w EXCEPT !.pc = "read", !.docs = index, !.todo = {f \in Files : index[f] # Absent}]
  <2>1. v.gen = w.gen /\ v.rev = w.rev /\ v.docs = index /\ v.pc = "read"
    BY <1>t DEF TypeOK, WorkerType
  <2>2. ~Outdated(v)
    BY <2>1 DEF Outdated
  <2>3. Becomes(w, v)
    BY <1>14 DEF WorkerStart
  <2> HIDE DEF v
  <2> QED
    BY <1>14, <2>1, <2>2, <2>3, <1>w DEF WorkerStart, records, counters
<1>15. ASSUME NEW w \in workers, NEW f \in Files, WorkerRead(w, f) PROVE TextInv'
  <2>0. w \in WorkerType /\ w.pc = "read"
    BY <1>15, <1>t DEF WorkerRead, TypeOK
  <2>1. PICK v : /\ Becomes(w, v) /\ v.gen = w.gen /\ v.rev = w.rev /\ v.pc = "read"
                 /\ \A x \in Files : v.docs[x] \in {Absent, w.docs[x]}
    <3>1. CASE Becomes(w, [w EXCEPT !.todo = @ \ {f}, !.docs[f] = Absent])
      <4> DEFINE v == [w EXCEPT !.todo = @ \ {f}, !.docs[f] = Absent]
      <4>1. /\ v.gen = w.gen /\ v.rev = w.rev /\ v.pc = "read"
            /\ \A x \in Files : v.docs[x] \in {Absent, w.docs[x]}
        BY <2>0 DEF WorkerType, Versions
      <4> QED
        BY <3>1, <4>1
    <3>2. CASE Becomes(w, [w EXCEPT !.todo = @ \ {f}, !.docs[f] = OnDisk(f)]) /\ Readable(w, f)
      <4> DEFINE v == [w EXCEPT !.todo = @ \ {f}, !.docs[f] = OnDisk(f)]
      <4>1. /\ v.gen = w.gen /\ v.rev = w.rev /\ v.pc = "read"
            /\ \A x \in Files : v.docs[x] \in {Absent, w.docs[x]}
        BY <2>0, <3>2 DEF WorkerType, Versions, Readable
      <4> QED
        BY <3>2, <4>1
    <3>3. CASE Becomes(w, [w EXCEPT !.todo = {},
                 !.docs = [x \in Files |-> IF x \in w.todo THEN Absent ELSE w.docs[x]]])
      <4> DEFINE v == [w EXCEPT !.todo = {},
                         !.docs = [x \in Files |-> IF x \in w.todo THEN Absent ELSE w.docs[x]]]
      <4>1. /\ v.gen = w.gen /\ v.rev = w.rev /\ v.pc = "read"
            /\ \A x \in Files : v.docs[x] \in {Absent, w.docs[x]}
        BY <2>0 DEF WorkerType, Versions
      <4> QED
        BY <3>3, <4>1
    <3> QED
      BY <1>15, <3>1, <3>2, <3>3 DEF WorkerRead
  <2>2. Outdated(v) => Outdated(w)
    BY <2>1 DEF Outdated
  <2>3. Outdated(v) => WillSchedule
    BY <2>0, <2>2 DEF TextInv, OutdatedIsReplaced
  <2> QED
    BY <1>15, <2>1, <2>3, <1>w DEF WorkerRead, records, counters
<1>16. ASSUME NEW w \in workers, WorkerPublish(w) PROVE TextInv'
  <2> DEFINE v == [w EXCEPT !.pc = "status"]
  <2>1. v.gen = w.gen /\ v.rev = w.rev /\ v.pc = "status"
    BY <1>t DEF TypeOK, WorkerType
  <2>2. TextMismatch' => Outdated(w)
    BY <1>16 DEF WorkerPublish, TextMismatch, Outdated, records
  <2>3. TextMismatch' => WillSchedule
    BY <1>16, <2>2 DEF WorkerPublish, TextInv, OutdatedIsReplaced
  <2>4. Becomes(w, v) /\ UNCHANGED <<index, generation, revision, guard, scan, contentStatus>>
    BY <1>16 DEF WorkerPublish, records, counters
  <2> HIDE DEF v
  <2>5. (WillSchedule' <=> WillSchedule) /\ \A x : Outdated(x)' <=> Outdated(x)
    BY <2>4, <1>d DEF Due, Outdated
  <2>6. \A x \in workers' : x \in workers \/ x = v
    BY <2>4 DEF Becomes
  <2> QED
    BY <2>1, <2>3, <2>4, <2>5, <2>6, <1>c
    DEF TextInv, WorkersCurrent, BatchIsNewest, OutdatedIsReplaced, UnflaggedIsReplaced,
        MismatchIsFlagged, Current
<1>17. ASSUME NEW w \in workers, WorkerStatus(w) PROVE TextInv'
  <2>1. /\ workers' \subseteq workers /\ w.pc = "status"
        /\ UNCHANGED <<index, body, generation, revision, guard, scan>>
    BY <1>17 DEF WorkerStatus, records, counters
  <2>2. /\ WillSchedule' <=> WillSchedule
        /\ \A x : Outdated(x)' <=> Outdated(x)
        /\ TextMismatch' <=> TextMismatch
    BY <2>1, <1>d DEF Due, Outdated, TextMismatch
  <2> QED
    BY <2>1, <2>2, <1>c
    DEF TextInv, WorkersCurrent, BatchIsNewest, OutdatedIsReplaced, UnflaggedIsReplaced,
        MismatchIsFlagged, Current
<1>18. ASSUME NEW S \in ActiveScopes, NEW P \in SUBSET Files, BatchBegin(S, P) PROVE TextInv'
  <2>1. /\ guard'.step = "batch_clear" /\ guard'.gen = generation
        /\ generation' = generation /\ workers' = {} /\ guard.step = "free"
        /\ UNCHANGED <<index, body, contentStatus, scan>>
    BY <1>18, <1>t, OldWorkersStop DEF BatchBegin, LockFree, StillCurrent, records, Free
  <2>2. MismatchIsFlagged'
    BY <2>1, <1>i, <1>d DEF MismatchIsFlagged, TextMismatch, Due
  <2> QED
    BY <2>1, <2>2, <1>c, TextRestarted
<1>19. ASSUME NEW f \in Files, PathRead(f) PROVE TextInv'
  <2>1. /\ guard'.step = guard.step /\ guard'.gen = guard.gen
        /\ guard.step \in {"batch_read", "replay_read"}
    BY <1>19, <1>t DEF PathRead, TypeOK, GuardType
  <2> QED
    BY <1>19, <2>1, <1>b, <1>q DEF PathRead, records, counters
<1>20. CASE BatchUnreadable
  BY <1>20, <1>f, <1>q DEF BatchUnreadable, Release, records, counters
<1>21. CASE BatchPublish
  <2>1. /\ guard'.step = "batch_schedule" /\ guard'.gen = guard.gen /\ guard.step = "batch_read"
        /\ UNCHANGED <<contentStatus, generation, revision, workers>>
    BY <1>21, <1>t DEF BatchPublish, Goto, counters, TypeOK, GuardType
  <2>2. WillSchedule'
    BY <2>1, <1>d DEF Due
  <2> QED
    BY <2>1, <2>2, <1>b, <1>c
    DEF TextInv, WorkersCurrent, BatchIsNewest, OutdatedIsReplaced, UnflaggedIsReplaced,
        MismatchIsFlagged, Current
<1>22. CASE BatchSchedule
  <2>1. ScheduleContent(guard.gen) /\ guard.gen = generation /\ guard'.step = "free"
    BY <1>22, <1>b, <1>f DEF BatchSchedule, Release
  <2>2. MismatchIsFlagged'
    BY <2>1, <1>t, ScheduleRestarts DEF MismatchIsFlagged
  <2> QED
    BY <2>1, <2>2, <1>c, <1>t, ScheduleRestarts, TextRestarted
<1>23. CASE CaptureIncremental \/ WriteIncremental \/ UNCHANGED vars
            \/ \E f \in Files : Write(f) \/ Delete(f)
  <2>1. UNCHANGED <<index, body, contentStatus, generation, revision, workers, guard, scan>>
    BY <1>23 DEF CaptureIncremental, WriteIncremental, Write, Delete, vars, records, counters
  <2>2. WillSchedule' <=> WillSchedule
    BY <2>1, <1>d DEF Due
  <2> QED
    BY <2>1, <2>2, <1>b, <1>c, TextKept
<1>24. CASE ResumeUnchanged
  <2>1. ScheduleContent(generation) /\ guard' = guard
    BY <1>24 DEF ResumeUnchanged
  <2>2. MismatchIsFlagged'
    BY <2>1, <1>t, ScheduleRestarts DEF MismatchIsFlagged
  <2> QED
    BY <2>1, <2>2, <1>b, <1>c, <1>t, ScheduleRestarts, TextRestarted
<1>25. CASE ReplayBegin
  <2>1. guard'.step = "replay_read"
    BY <1>25 DEF ReplayBegin, Free
  <2> QED
    BY <1>25, <2>1, <1>f, <1>q DEF ReplayBegin, LockFree, records, counters
<1>26. CASE ReplayPersist
  <2>1. guard'.step = "replay_publish"
    BY <1>26, <1>t DEF ReplayPersist, Goto, TypeOK, GuardType
  <2> QED
    BY <1>26, <2>1, <1>q DEF ReplayPersist, records, counters
<1>27. CASE ReplayDeclined
  <2>1. guard'.step = "bump"
    BY <1>27 DEF ReplayDeclined, Free
  <2> QED
    BY <1>27, <2>1, <1>q DEF ReplayDeclined, records, counters
<1>28. CASE ReplayPublish
  <2>1. ScheduleContent(generation) /\ guard'.step = "free"
    BY <1>28, <1>f DEF ReplayPublish, Release
  <2>2. MismatchIsFlagged'
    BY <2>1, <1>t, ScheduleRestarts DEF MismatchIsFlagged
  <2> QED
    BY <2>1, <2>2, <1>c, <1>t, ScheduleRestarts, TextRestarted
<1>29. CASE Restart
  <2>1. body' = Nothing /\ workers' = {} /\ guard'.step = "free"
    BY <1>29, <1>f DEF Restart
  <2> QED
    BY <2>1, <1>n, <1>c, TextRestarted DEF MismatchIsFlagged
<1> QED
  BY <1>1, <1>2, <1>3, <1>4, <1>5, <1>6, <1>7, <1>8, <1>9, <1>10, <1>11, <1>12, <1>13, <1>14,
     <1>15, <1>16, <1>17, <1>18, <1>19, <1>20, <1>21, <1>22, <1>23, <1>24, <1>25, <1>26, <1>27,
     <1>28, <1>29
  DEF Next, ThreadStep, GuardStep, ScanStep, WorkerStep, Request, Environment

\* A content worker may attach text of another version than the entries record
\* (it looked before a batch, and publishes after): as long as such text can be
\* found, the status says that the text is being built, or a publication is
\* about to say so.
THEOREM StaleTextIsFlagged == Spec => []MismatchIsFlagged
<1>1. Init => TextInv
  BY DEF Init, TextInv, WorkersCurrent, BatchIsNewest, OutdatedIsReplaced, UnflaggedIsReplaced,
     ScansToCome, MismatchIsFlagged, TextMismatch, Nothing, NoScan, Free, BatchSteps
<1>2. TextInv => MismatchIsFlagged
  BY DEF TextInv
<1> QED
  BY <1>1, <1>2, SafeInit, SafeNext, TextNext, PTL DEF Spec

-------------------------------------------------------------------------------
(* The index with its watcher *)

\* A scan or a batch the watcher starts is one of the scope it still watches,
\* and that is one the index answers with.
LEMMA WatchedScopeIsActive ==
    \A S : /\ RebuildWatched(S) => S \in ActiveScopes
           /\ \A P : BatchBegin(S, P) => S \in ActiveScopes /\ P \in SUBSET Files
  BY DEF RebuildWatched, BatchBegin, FilesIn

\* One step of the system is one step of the index, or leaves it alone.
LEMMA StepImplements == [SystemNext]_allVars => [Next]_vars
<1> SUFFICES ASSUME [SystemNext]_allVars PROVE [Next]_vars
  OBVIOUS
<1>1. CASE StartWatcher
  BY <1>1 DEF StartWatcher
<1>2. CASE FirstRebuild
  BY <1>2 DEF FirstRebuild, Next, Request
<1>3. CASE UserRequest
  BY <1>3 DEF UserRequest, Next, Request
<1>4. CASE DiscardAndTell
  BY <1>4 DEF DiscardAndTell, Next, ThreadStep, GuardStep
<1>5. CASE Background
  BY <1>5 DEF Background, Next, ThreadStep, GuardStep
<1>6. CASE WatcherStep
  <2>1. CASE Unwatch \/ Watch \/ Drained \/ Receive \/ Poll
    BY <2>1 DEF Unwatch, Watch, Drained, Receive, Poll
  <2>2. CASE FullDue \/ RebuildInstead
    BY <2>2, WatchedScopeIsActive
    DEF FullDue, RebuildInstead, WatchedRebuild, Next, Request
  <2>3. CASE PathsDue
    BY <2>3, WatchedScopeIsActive DEF PathsDue, Next, Request
  <2>4. CASE Reconciling
    BY <2>4 DEF Reconciling, Next, ThreadStep, GuardStep
  <2>5. CASE Unreadable \/ Applied
    BY <2>5 DEF Unreadable, Applied, Next, ThreadStep, GuardStep
  <2>6. CASE SaveBegin \/ SaveEnd
    BY <2>6 DEF SaveBegin, SaveEnd, Next, ThreadStep, Request
  <2> QED
    BY <1>6, <2>1, <2>2, <2>3, <2>4, <2>5, <2>6 DEF WatcherStep
<1>7. CASE BackendLoss
  BY <1>7 DEF BackendLoss
<1>8. CASE RestartAll
  BY <1>8 DEF RestartAll, Next, Environment
<1>9. ASSUME NEW f \in Files, DiskChange(f) \/ Callback(f) PROVE [Next]_vars
  BY <1>9 DEF DiskChange, Callback, Next, Environment
<1>10. CASE UNCHANGED allVars
  BY <1>10 DEF allVars
<1> QED
  BY <1>1, <1>2, <1>3, <1>4, <1>5, <1>6, <1>7, <1>8, <1>9, <1>10 DEF SystemNext

\* Every behaviour of the system, seen through the variables of the index, is
\* one of SearchIndex: the watcher never does what a caller of the index may not.
THEOREM SystemImplementsIndex == SystemSpec => ImplementsIndex
<1>1. SystemInit => Init
  BY DEF SystemInit
<1> QED
  BY <1>1, StepImplements, PTL DEF SystemSpec, ImplementsIndex, Spec

\* With its watcher, too, the index shows only what lies in the configured scope.
THEOREM ScopeIsBoundaryWithWatcher == SystemSpec => []OnlyAuthorized
  BY SystemImplementsIndex, ScopeIsBoundary, PTL DEF ImplementsIndex

-----------------------------------------------------------------------------
(* The types of the watcher.  The limit of a batch counts a set that must be *)
(* finite for its cardinality to mean anything.                              *)

Events == Files \cup {Rescan}
Batches == [on : BOOLEAN, full : BOOLEAN, paths : SUBSET Files]

BatchFits(b) ==
    /\ b \in Batches
    /\ b.full => b.paths = {}
    /\ b.on <=> b.full \/ b.paths # {}
    /\ IsFiniteSet(b.paths) /\ Cardinality(b.paths) <= BatchLimit

QueueTypes ==
    /\ noticed \subseteq Files /\ channel \in Seq(Events)
    /\ Len(channel) <= EventBuffer /\ overflow \in BOOLEAN

LoopTypes ==
    /\ setup \in {"new", "watching", "done"}
    /\ control \in Seq(SUBSET Roots)
    /\ wpc \in {"off", "control", "watch", "work", "batch", "rebuild", "save"}
    /\ watchScope \subseteq Roots /\ watched \subseteq watchScope
    /\ saveDue \in BOOLEAN

WatchInv == QueueTypes /\ LoopTypes /\ BatchFits(batch)

\* The batch without changes and the one that asks for everything are batches.
LEMMA EmptyBatchesFit == BatchFits(NoBatch) /\ BatchFits(FullBatch)
  BY FS_EmptySet, WatcherAssumption DEF BatchFits, Batches, NoBatch, FullBatch

\* A path joins a batch only when there is room for it.
LEMMA RecordedFits ==
    ASSUME BatchFits(batch), NEW f \in Files
    PROVE  BatchFits(Recorded(f))
<1> DEFINE joined == batch.paths \cup {f}
           more == [batch EXCEPT !.on = TRUE, !.paths = joined]
<1>1. IsFiniteSet(joined) /\ Cardinality(joined) \in Nat
  BY FS_AddElement, FS_CardinalityType DEF BatchFits
<1>2. CASE batch.full
  BY <1>2 DEF Recorded
<1>3. CASE ~batch.full /\ Cardinality(joined) > BatchLimit
  BY <1>3, EmptyBatchesFit DEF Recorded
<1>4. CASE ~batch.full /\ ~(Cardinality(joined) > BatchLimit)
  <2>1. Recorded(f) = more
    BY <1>4 DEF Recorded
  <2>2. /\ more \in Batches /\ more.on /\ ~more.full
        /\ more.paths = joined /\ joined # {}
    BY <1>4 DEF BatchFits, Batches
  <2>3. Cardinality(joined) <= BatchLimit
    BY <1>1, <1>4, WatcherAssumption
  <2> HIDE DEF more, joined
  <2> QED
    BY <1>1, <2>1, <2>2, <2>3 DEF BatchFits
<1> QED
  BY <1>2, <1>3, <1>4

\* An event that is delivered finds room, or sets the overflow flag.
LEMMA DeliverFits ==
    ASSUME QueueTypes, NEW e \in Events, Deliver(e)
    PROVE  channel' \in Seq(Events) /\ Len(channel') <= EventBuffer /\ overflow' \in BOOLEAN
<1>1. channel \in Seq(Events) /\ Len(channel) \in Nat /\ EventBuffer \in Nat
  BY WatcherAssumption DEF QueueTypes
<1>2. CASE Len(channel) < EventBuffer
  <2>1. channel' = Append(channel, e) /\ overflow' = overflow
    BY <1>2 DEF Deliver
  <2>2. Append(channel, e) \in Seq(Events) /\ Len(Append(channel, e)) = Len(channel) + 1
    BY <1>1
  <2> QED
    BY <1>1, <1>2, <2>1, <2>2 DEF QueueTypes
<1>3. CASE ~(Len(channel) < EventBuffer)
  BY <1>1, <1>3 DEF QueueTypes, Deliver
<1> QED
  BY <1>2, <1>3

\* The empty queues are queues.
LEMMA EmptyQueues ==
    /\ <<>> \in Seq(Events) /\ <<>> \in Seq(SUBSET Roots)
    /\ Len(<<>>) = 0 /\ 0 <= EventBuffer
  BY WatcherAssumption

\* The watcher starts in the invariant...
LEMMA WatchInvInit == SystemInit => WatchInv
  BY EmptyBatchesFit, EmptyQueues
  DEF SystemInit, WatchInit, WatchInv, QueueTypes, LoopTypes

\* ...and every step of the composition keeps it.
LEMMA WatchInvNext == WatchInv /\ TypeOK /\ [SystemNext]_allVars => WatchInv'
<1> SUFFICES ASSUME WatchInv, TypeOK, [SystemNext]_allVars PROVE WatchInv'
  OBVIOUS
<1> USE DEF WatchInv
<1>0. guard.scope \in SUBSET Roots /\ \A S \in ActiveScopes : S \subseteq Roots
  BY ActiveFacts DEF TypeOK, GuardType
<1>1. CASE StartWatcher
  BY <1>0, <1>1 DEF StartWatcher, events, QueueTypes, LoopTypes
<1>2. CASE FirstRebuild
  BY <1>2 DEF FirstRebuild, events, loop, QueueTypes, LoopTypes
<1>3. CASE UserRequest
  BY <1>3 DEF UserRequest, watchVars, events, loop, QueueTypes, LoopTypes
<1>4. CASE DiscardAndTell
  BY <1>0, <1>4 DEF DiscardAndTell, events, loop, QueueTypes, LoopTypes
<1>5. CASE Background
  BY <1>5 DEF Background, watchVars, events, loop, QueueTypes, LoopTypes
<1>6. CASE WatcherStep
  <2>1. CASE Unwatch
    BY <2>1 DEF Unwatch, QueueTypes, LoopTypes
  <2>2. CASE Watch
    BY <2>2, EmptyBatchesFit DEF Watch, events, QueueTypes, LoopTypes
  <2>3. CASE Drained
    BY <2>3, EmptyBatchesFit DEF Drained, QueueTypes, LoopTypes
  <2>4. CASE FullDue \/ RebuildInstead
    BY <2>4, EmptyBatchesFit
    DEF FullDue, RebuildInstead, WatchedRebuild, events, QueueTypes, LoopTypes
  <2>5. CASE PathsDue
    BY <2>5, EmptyBatchesFit DEF PathsDue, events, QueueTypes, LoopTypes
  <2>6. CASE Reconciling
    BY <2>6 DEF Reconciling, watchVars, events, loop, QueueTypes, LoopTypes
  <2>7. CASE Unreadable
    BY <2>7, EmptyBatchesFit DEF Unreadable, events, QueueTypes, LoopTypes
  <2>8. CASE Applied \/ SaveBegin
    BY <2>8 DEF Applied, SaveBegin, events, QueueTypes, LoopTypes
  <2>9. CASE SaveEnd
    BY <2>9 DEF SaveEnd, events, QueueTypes, LoopTypes
  <2>10. CASE Receive
    <3>1. Head(channel) \in Events /\ channel' \in Seq(Events) /\ Len(channel') <= EventBuffer
      BY <2>10, WatcherAssumption DEF Receive, QueueTypes
    <3>2. BatchFits(batch')
      BY <2>10, <3>1, EmptyBatchesFit, RecordedFits DEF Receive, Events
    <3> QED
      BY <2>10, <3>1, <3>2 DEF Receive, QueueTypes, LoopTypes
  <2>11. CASE Poll
    BY <2>11 DEF Poll, events, QueueTypes, LoopTypes
  <2> QED
    BY <1>6, <2>1, <2>2, <2>3, <2>4, <2>5, <2>6, <2>7, <2>8, <2>9, <2>10, <2>11 DEF WatcherStep
<1>7. CASE BackendLoss
  BY <1>7, DeliverFits DEF BackendLoss, Events, loop, QueueTypes, LoopTypes
<1>8. CASE RestartAll
  BY <1>8, EmptyBatchesFit, EmptyQueues DEF RestartAll, QueueTypes, LoopTypes
<1>9. ASSUME NEW f \in Files, DiskChange(f) PROVE WatchInv'
  BY <1>9 DEF DiskChange, Notice, loop, QueueTypes, LoopTypes
<1>10. ASSUME NEW f \in Files, Callback(f) PROVE WatchInv'
  BY <1>10, DeliverFits DEF Callback, Events, loop, QueueTypes, LoopTypes
<1>11. CASE UNCHANGED allVars
  BY <1>11 DEF allVars, watchVars, events, loop, QueueTypes, LoopTypes
<1> QED
  BY <1>1, <1>2, <1>3, <1>4, <1>5, <1>6, <1>7, <1>8, <1>9, <1>10, <1>11 DEF SystemNext

\* The watcher's variables keep their types, its queue and its batches their
\* limits, and a batch that asks for a full scan names no paths.
THEOREM WatcherTyped == SystemSpec => []WatchTypeOK
<1>1. SystemSpec => []TypeOK
  BY SystemImplementsIndex, TypeCorrect, PTL DEF ImplementsIndex
<1>2. WatchInv /\ TypeOK => WatchTypeOK
  BY DEF WatchInv, QueueTypes, LoopTypes, BatchFits, Batches, Events, WatchTypeOK
<1> QED
  BY <1>1, <1>2, WatchInvInit, WatchInvNext, PTL DEF SystemSpec

-----------------------------------------------------------------------------
(* No change is lost *)

\* What the known ways to lose a change need: a change of the scope
\* (ScopeKeptLosesChange), a default folder that may be gone, or back again
\* (the watcher's batches are refused then), a first-run scan that another one has overtaken
\* (FirstRunWipes), or a scan of the watcher before the startup's own decision.
Undisturbed ==
    /\ ~At("commit")
    /\ ActiveScopes = {configured}
    /\ \A g \in Generations : ScanAt(g, "first") => Newest(g)
    /\ setup # "done" => generation = 0

ReplaySteps == {"replay_read", "replay_publish"}

\* The files that the watcher has to keep up with.
Mine(f) == RootOf[f] \in configured \cap watched

\* x is what the disk holds of f, or the watcher knows that it may not be.
Fresh(x, f) == x = OnDisk(f) \/ Tracked(f)

Scanning == generation \in Generations /\ scan[generation].pc \in {"begin", "first", "walk", "publish"}

ScopeStays ==
    /\ guard.step \notin {"commit", "clear", "discard"}
    /\ control = <<>> /\ wpc # "watch"
    /\ setup = "new" => wpc = "off" /\ watched = {}
    /\ setup # "new" => wpc # "off" /\ watchScope = configured
    /\ guard.step \in {"bump", "start"} \cup ReplaySteps => guard.scope = configured
    /\ guard.step \in BatchSteps => wpc = "batch"
PhaseFollows ==
    /\ Scanning => phase = "scanning" /\ scan[generation].scope = configured
    /\ guard.step \in BatchSteps => phase # "scanning"
    /\ guard.step \in ReplaySteps => generation = 0 /\ setup = "done"
    /\ At("batch_clear") => guard.todo = guard.paths
    /\ At("replay_publish") => guard.todo = {}

\* Until the startup has decided, the entries are those of the snapshot for
\* every file at rest since, whatever batches come before the decision.
Restored ==
    startup.cutoff # Unbound =>
        /\ setup # "done" => \A f \in FilesIn(configured) :
              touched[f] <= startup.cutoff => index[f] = OnDisk(f)
        /\ guard.step \in BatchSteps => \A f \in guard.paths \ guard.todo :
              touched[f] <= startup.cutoff => guard.found[f] = OnDisk(f)

\* Outside a scan and a replay every entry is fresh, but for those that the
\* batch under way is about to replace.
EntriesTracked ==
    setup = "done" /\ phase # "scanning" /\ guard.step \notin {"bump", "start"} \cup ReplaySteps =>
        \A f \in Files : Mine(f) =>
            Fresh(index[f], f) \/ (guard.step \in {"batch_clear", "batch_read"} /\ f \in guard.paths)

\* What a batch, a replay or the newest scan has read is fresh.
ReadTracked ==
    At("batch_read") => \A f \in guard.paths \ guard.todo : Mine(f) => Fresh(guard.found[f], f)
ReplayTracked ==
    guard.step \in ReplaySteps =>
        \A f \in Files \ guard.todo : Mine(f) => Fresh(guard.found[f], f)
ScanTracked ==
    Scanning =>
        \A f \in Files \ scan[generation].todo : Mine(f) => Fresh(scan[generation].found[f], f)

LossInv == /\ ScopeStays /\ PhaseFollows /\ Restored /\ EntriesTracked /\ ReadTracked
           /\ ReplayTracked /\ ScanTracked

\* What the watcher has to keep up with, and what is fresh, stays so.
KeepsTrack ==
    \A f \in Files : Mine(f)' => /\ Mine(f)
                                 /\ \A x : Fresh(x, f) => Fresh(x, f)'

\* A step that touches neither the disk nor the watcher's knowledge loses nothing.
LEMMA TrackKept ==
    ASSUME UNCHANGED <<disk, configured, watched>>,
           \A f \in Files : Mine(f) /\ Tracked(f) => Tracked(f)'
    PROVE  KeepsTrack
<1>1. \A f \in Files : OnDisk(f)' = OnDisk(f) /\ (Mine(f)' <=> Mine(f))
  BY DEF disk, OnDisk, Mine
<1> QED
  BY <1>1 DEF KeepsTrack, Fresh

\* Steps of the index alone.
LEMMA OthersKeepTrack ==
    ASSUME UNCHANGED <<disk, configured, watchVars>>
    PROVE  KeepsTrack
<1>1. \A f \in Files : Tracked(f) => Tracked(f)'
  BY DEF Tracked, watchVars, events, loop
<1> QED
  BY <1>1, TrackKept DEF watchVars, loop

\* What is put into the queue, or does not fit, is known.
LEMMA DeliverTracks ==
    ASSUME QueueTypes, NEW e \in Events, Deliver(e)
    PROVE  /\ overflow' \/ \E i \in DOMAIN channel' : channel'[i] = e
           /\ overflow => overflow'
           /\ \A i \in DOMAIN channel : i \in DOMAIN channel' /\ channel'[i] = channel[i]
<1>1. channel \in Seq(Events) /\ Len(channel) \in Nat
  BY DEF QueueTypes
<1>2. CASE Len(channel) < EventBuffer
  <2>1. channel' = Append(channel, e) /\ overflow' = overflow
    BY <1>2 DEF Deliver
  <2>2. /\ DOMAIN channel' = 1..(Len(channel) + 1) /\ channel'[Len(channel) + 1] = e
        /\ \A i \in 1..Len(channel) : channel'[i] = channel[i]
    BY <1>1, <2>1
  <2>3. DOMAIN channel = 1..Len(channel)
    BY <1>1
  <2>4. Len(channel) + 1 \in DOMAIN channel' /\ DOMAIN channel \subseteq DOMAIN channel'
    BY <1>1, <2>2, <2>3
  <2> QED
    BY <2>1, <2>2, <2>3, <2>4
<1>3. CASE ~(Len(channel) < EventBuffer)
  BY <1>3 DEF Deliver
<1> QED
  BY <1>2, <1>3

\* The backend's reports lose nothing.
LEMMA ReportsKeepTrack ==
    ASSUME QueueTypes, BackendLoss \/ \E f \in Files : Callback(f)
    PROVE  KeepsTrack
<1>1. UNCHANGED <<disk, configured, watched, batch>>
  BY DEF BackendLoss, Callback, vars, loop
<1>2. CASE BackendLoss
  <2>1. noticed' = {} /\ Deliver(Rescan) /\ Rescan \in Events
    BY <1>2 DEF BackendLoss, Events
  <2>2. \A f \in Files : Tracked(f)'
    BY <2>1, DeliverTracks DEF Tracked
  <2> QED
    BY <1>1, <2>2, TrackKept
<1>3. ASSUME NEW f \in Files, Callback(f) PROVE KeepsTrack
  <2>1. noticed' = noticed \ {f} /\ Deliver(f) /\ f \in Events
    BY <1>3 DEF Callback, Events
  <2>2. \A h \in Files : Tracked(h) => Tracked(h)'
    BY <1>1, <2>1, DeliverTracks DEF Tracked
  <2> QED
    BY <1>1, <2>2, TrackKept
<1> QED
  BY <1>2, <1>3

\* The loop moves what it knows from the queue into a batch, or asks for a scan.
LEMMA LoopKeepsTrack ==
    ASSUME QueueTypes, BatchFits(batch), TypeOK, Drained \/ Receive \/ Poll
    PROVE  KeepsTrack
<1>1. UNCHANGED <<disk, configured, watched, noticed>>
  BY DEF Drained, Receive, Poll, vars, events
<1>2. CASE Drained
  <2>1. UNCHANGED channel /\ (overflow /\ watched # {} => batch' = FullBatch)
        /\ (~overflow => batch' = batch)
    BY <1>2 DEF Drained
  <2>2. \A f \in Files : Mine(f) /\ Tracked(f) => Tracked(f)'
    BY <1>1, <2>1 DEF Tracked, Mine, FullBatch
  <2> QED
    BY <1>1, <2>2, TrackKept
<1>3. CASE Receive
  <2> DEFINE e == Head(channel)
  <2>0. channel \in Seq(Events) /\ channel # <<>> /\ channel' = Tail(channel) /\ overflow' = overflow
    BY <1>3 DEF Receive, QueueTypes
  <2>1. \A i \in DOMAIN channel : channel[i] = e \/ \E j \in DOMAIN channel' : channel'[j] = channel[i]
    <3> SUFFICES ASSUME NEW i \in DOMAIN channel, i # 1
                 PROVE  \E j \in DOMAIN channel' : channel'[j] = channel[i]
      BY <2>0
    <3>1. i \in 2..Len(channel)
      BY <2>0
    <3>2. i - 1 \in DOMAIN channel' /\ channel'[i - 1] = channel[i]
      BY <2>0, <3>1
    <3> QED
      BY <3>2
  <2>2. batch' = IF e = Rescan THEN (IF watched = {} THEN batch ELSE FullBatch)
                 ELSE IF RootOf[e] \in watched THEN Recorded(e) ELSE batch
    BY <1>3 DEF Receive
  <2>3. \A f : batch.full \/ f \in batch.paths => batch'.full \/ f \in batch'.paths
    BY <2>2 DEF BatchFits, Batches, Recorded, FullBatch
  <2>4. \A f \in Files : Mine(f) /\ e \in {f, Rescan} => batch'.full \/ f \in batch'.paths
    BY <2>2 DEF Mine, Recorded, FullBatch, BatchFits, Batches
  <2> HIDE DEF e
  <2>5. \A f \in Files : Mine(f) /\ Tracked(f) => Tracked(f)'
    BY <1>1, <2>0, <2>1, <2>3, <2>4 DEF Tracked
  <2> QED
    BY <1>1, <2>5, TrackKept
<1>4. CASE Poll
  <2>1. \A f \in Files : Tracked(f) => Tracked(f)'
    BY <1>4 DEF Poll, Tracked, events
  <2> QED
    BY <1>1, <2>1, TrackKept
<1> QED
  BY <1>2, <1>3, <1>4

\* A change of a watched file is noticed.
LEMMA DiskChangeKeepsTrack ==
    ASSUME TypeOK, NEW f \in Files, DiskChange(f)
    PROVE  KeepsTrack
<1>1. UNCHANGED <<configured, watched, batch, overflow, channel>>
  BY DEF DiskChange, Write, Delete, loop
<1>2. \A h \in Files \ {f} : OnDisk(h)' = OnDisk(h)
  BY DEF DiskChange, Write, Delete, TypeOK, OnDisk, Versions
<1>3. noticed \subseteq noticed' /\ (Mine(f) => f \in noticed')
  BY DEF DiskChange, Notice, Mine
<1>4. \A h \in Files : Tracked(h) => Tracked(h)'
  BY <1>1, <1>3 DEF Tracked
<1>5. \A h \in Files : Mine(h)' <=> Mine(h)
  BY <1>1 DEF Mine
<1>6. Mine(f) => Tracked(f)'
  BY <1>3 DEF Tracked
<1> QED
  BY <1>2, <1>4, <1>5, <1>6 DEF KeepsTrack, Fresh

\* Steps that leave entries, locks and scans alone keep the invariant.
LEMMA LossKept ==
    ASSUME TypeOK, LossInv, KeepsTrack, ScopeStays', Restored', setup' = setup,
           UNCHANGED <<index, phase, generation, guard, scan>>, configured' = configured
    PROVE  LossInv'
<1>1. PhaseFollows'
  BY DEF LossInv, PhaseFollows, Scanning, At
<1>2. EntriesTracked'
  BY DEF LossInv, EntriesTracked, KeepsTrack, Fresh
<1>3. ReadTracked' /\ ReplayTracked'
  BY DEF LossInv, ReadTracked, ReplayTracked, KeepsTrack, Fresh, At, GuardType, TypeOK
<1>4. ScanTracked'
  BY DEF LossInv, ScanTracked, KeepsTrack, Fresh, Scanning
<1> QED
  BY <1>1, <1>2, <1>3, <1>4 DEF LossInv

\* A change of the disk comes after the journal position of the startup.
LEMMA RestoredOverChange ==
    ASSUME TypeOK, ExactInv, LossInv, NEW f \in Files, Write(f) \/ Delete(f), setup' = setup
    PROVE  Restored'
<1>1. /\ clock' = clock + 1 /\ touched' = [touched EXCEPT ![f] = clock + 1]
      /\ UNCHANGED <<configured, index, startup, guard>>
  BY DEF Write, Delete, durable, records
<1>2. \A h \in Files \ {f} : OnDisk(h)' = OnDisk(h) /\ touched'[h] = touched[h]
  BY DEF Write, Delete, TypeOK, OnDisk, Versions
<1>3. SUFFICES ASSUME startup.cutoff # Unbound PROVE Restored'
  BY <1>1 DEF Restored
<1>4. clock \in Nat /\ startup.cutoff \in Nat /\ startup.cutoff <= clock
  BY <1>3, BoundsAssumption
  DEF TypeOK, Stamps, Unbound, BindingType, Cutoffs, ExactInv, StartupExact
<1>5. ~(touched'[f] <= startup.cutoff)
  BY <1>1, <1>4 DEF TypeOK, Versions
<1>6. guard.step \in BatchSteps => guard.paths \subseteq Files
  BY DEF TypeOK, GuardType
<1> QED
  BY <1>1, <1>2, <1>5, <1>6 DEF LossInv, Restored, FilesIn

\* Every step of the system keeps the invariant, unless it is disturbed.
LEMMA LossNext ==
    ASSUME SafeInv, ExactInv, ScansToCome, WatchInv, LossInv, Undisturbed, Undisturbed',
           [SystemNext]_allVars
    PROVE  LossInv'
<1>t. TypeOK /\ QueueTypes /\ BatchFits(batch)
  BY DEF SafeInv, TypeInv, WatchInv
<1>u. TypeOK'
  BY StepImplements, SafeNext DEF SafeInv, TypeInv
<1>g. generation \in Nat /\ Generations \subseteq Nat \ {0} /\ 0 \notin Generations
  BY <1>t, GenerationFacts DEF TypeOK, Generations
<1>s. ScopeStays /\ PhaseFollows /\ Restored /\ EntriesTracked /\ ReadTracked /\ ReplayTracked
      /\ ScanTracked
  BY DEF LossInv
<1>f. /\ Free.step = "free"
      /\ \A R : LET bump == [Free EXCEPT !.step = "bump", !.scope = R]
               IN  bump.step = "bump" /\ bump.scope = R
  BY DEF Free
<1>d. setup # "done" => ~Scanning
  BY <1>g DEF Undisturbed, Scanning
<1>a. ActiveScopes = {configured}
  BY DEF Undisturbed
<1> USE DEF At, BatchSteps, ReplaySteps
\* Steps that change neither the entries, nor the lock, nor the scans.
<1>q. ASSUME UNCHANGED <<disk, configured, startup, index, phase, generation, guard, scan, setup>>,
             KeepsTrack, ScopeStays'
      PROVE  LossInv'
  <2>1. \A h \in Files : OnDisk(h)' = OnDisk(h)
    BY <1>q DEF disk, OnDisk
  <2>2. Restored'
    BY <1>q, <1>s, <1>t, <2>1 DEF Restored, FilesIn, disk, TypeOK, GuardType
  <2> QED
    BY <1>q, <1>t, <2>2, LossKept
\* A scan is asked for.
<1>r. ASSUME guard' = [Free EXCEPT !.step = "bump", !.scope = configured], wpc' # "off",
             UNCHANGED <<disk, configured, index, phase, generation, scan, watchScope, watched, control>>,
             setup # "new", setup' \in {setup, "done"}, startup' \in {startup, NoBinding},
             wpc' # "watch", setup' = setup \/ startup' = NoBinding, ~Scanning \/ KeepsTrack
      PROVE  LossInv'
  <2>1. guard'.step = "bump" /\ guard'.scope = configured
    BY <1>r, <1>f
  <2>2. ScopeStays'
    BY <1>r, <1>s, <2>1 DEF ScopeStays
  <2>3. PhaseFollows'
    BY <1>r, <1>s, <2>1 DEF PhaseFollows, Scanning
  <2>4. \A h \in Files : OnDisk(h)' = OnDisk(h)
    BY <1>r DEF disk, OnDisk
  <2>5. Restored'
    BY <1>r, <1>s, <2>1, <2>4 DEF Restored, FilesIn, disk, NoBinding
  <2>6. EntriesTracked' /\ ReadTracked' /\ ReplayTracked'
    BY <2>1 DEF EntriesTracked, ReadTracked, ReplayTracked
  <2>7. ScanTracked'
    BY <1>r, <1>s DEF ScanTracked, KeepsTrack, Fresh, Scanning
  <2> QED
    BY <2>2, <2>3, <2>5, <2>6, <2>7 DEF LossInv
<1>1. CASE StartWatcher
  <2>1. /\ UNCHANGED <<disk, configured, startup, index, phase, generation, guard, scan, control>>
        /\ setup = "new" /\ setup' = "watching" /\ watchScope' = configured /\ wpc' = "control"
    BY <1>1, <1>a DEF StartWatcher, vars, records, counters
  <2>2. guard.step \notin BatchSteps \cup ReplaySteps
    BY <1>s, <2>1 DEF ScopeStays, PhaseFollows
  <2>3. ~Scanning'
    BY <1>d, <2>1 DEF Scanning
  <2>4. \A h \in Files : OnDisk(h)' = OnDisk(h)
    BY <2>1 DEF disk, OnDisk
  <2>5. Restored'
    BY <1>s, <2>1, <2>2, <2>4 DEF Restored, FilesIn, disk
  <2> QED
    BY <1>s, <2>1, <2>2, <2>3, <2>5
    DEF LossInv, ScopeStays, PhaseFollows, EntriesTracked, ReadTracked, ReplayTracked, ScanTracked
<1>2. CASE FirstRebuild
  <2>0. /\ setup = "watching" /\ setup' = "done" /\ UNCHANGED <<events, control, loop>>
        /\ wpc # "off" /\ watchScope = configured
    BY <1>2, <1>s DEF FirstRebuild, ScopeStays
  <2>1. CASE ResumeUnchanged
    <3>1. /\ UNCHANGED <<disk, configured, index, phase, generation, guard, scan>>
          /\ startup' = NoBinding /\ startup.cutoff # Unbound /\ guard.step = "free"
          /\ QuietSince(configured, startup.cutoff)
      BY <1>a, <2>1 DEF ResumeUnchanged, ScheduleContent, records, LockFree
    <3>2. \A h \in Files : OnDisk(h)' = OnDisk(h)
      BY <3>1 DEF disk, OnDisk
    <3>3. \A h \in Files : Mine(h)' => index[h] = OnDisk(h)
      BY <1>s, <2>0, <3>1 DEF Restored, QuietSince, FilesIn, Mine
    <3>4. EntriesTracked'
      BY <3>1, <3>2, <3>3 DEF EntriesTracked, Fresh
    <3>5. Restored' /\ ReadTracked' /\ ReplayTracked'
      BY <3>1 DEF Restored, NoBinding, ReadTracked, ReplayTracked
    <3>6. ~Scanning'
      BY <1>d, <2>0, <3>1 DEF Scanning
    <3> QED
      BY <1>s, <2>0, <3>1, <3>4, <3>5, <3>6
      DEF LossInv, ScopeStays, PhaseFollows, ScanTracked, loop
  <2>2. CASE ReplayBegin
    <3>1. /\ UNCHANGED <<disk, configured, index, phase, generation, scan>>
          /\ startup' = NoBinding /\ startup.cutoff # Unbound /\ guard.step = "free"
          /\ startup.paths = Paths(index)
          /\ guard'.step = "replay_read" /\ guard'.scope = configured
          /\ guard'.todo = Dirty(configured, startup.cutoff) /\ guard'.found = index
      BY <1>a, <2>2, FreeType DEF ReplayBegin, records, counters, LockFree, GuardType
    <3>2. \A h \in Files : OnDisk(h)' = OnDisk(h)
      BY <3>1 DEF disk, OnDisk
    <3>3. clock \in Nat /\ startup.cutoff \in Nat /\ \A f \in Files : touched[f] \in Nat
      BY <1>t, BoundsAssumption DEF TypeOK, BindingType, Cutoffs, Stamps, Unbound, Versions
    <3>4. \A h \in Files \ Dirty(configured, startup.cutoff) : Mine(h)' => index[h] = OnDisk(h)
      BY <1>s, <2>0, <3>1, <3>3 DEF Restored, Dirty, FilesIn, Mine
    <3>5. ReplayTracked'
      BY <3>1, <3>2, <3>4 DEF ReplayTracked, Fresh
    <3>6. ~Scanning' /\ generation' = 0
      BY <1>d, <2>0, <3>1 DEF Scanning, Undisturbed
    <3>7. Restored' /\ ReadTracked' /\ EntriesTracked' /\ ScanTracked'
      BY <3>1, <3>6 DEF Restored, NoBinding, ReadTracked, EntriesTracked, ScanTracked
    <3> QED
      BY <1>s, <2>0, <3>1, <3>5, <3>6, <3>7 DEF LossInv, ScopeStays, PhaseFollows, loop
  <2>3. CASE Rebuild
    <3>1. /\ UNCHANGED <<disk, configured, index, phase, generation, scan>>
          /\ startup' = NoBinding
          /\ guard' = [Free EXCEPT !.step = "bump", !.scope = configured]
      BY <1>a, <2>3 DEF Rebuild, records, counters
    <3> QED
      BY <1>d, <1>r, <1>s, <2>0, <3>1 DEF loop, ScopeStays
  <2>4. CASE configured = {} /\ UNCHANGED vars
    <3>1. /\ UNCHANGED <<disk, configured, startup, index, phase, generation, guard, scan>>
          /\ \A h \in Files : ~Mine(h)'
      BY <2>4 DEF vars, records, counters, Mine
    <3>2. \A h \in Files : OnDisk(h)' = OnDisk(h)
      BY <3>1 DEF disk, OnDisk
    <3>3. Restored'
      BY <1>s, <1>t, <2>0, <3>1, <3>2 DEF Restored, disk, TypeOK, GuardType
    <3>4. EntriesTracked' /\ ReadTracked' /\ ReplayTracked' /\ ScanTracked'
      BY <1>t, <1>u, <3>1 DEF EntriesTracked, ReadTracked, ReplayTracked, ScanTracked, TypeOK, GuardType
    <3>5. PhaseFollows'
      BY <1>s, <2>0, <3>1 DEF PhaseFollows, Scanning
    <3> QED
      BY <1>s, <2>0, <3>1, <3>3, <3>4, <3>5 DEF LossInv, ScopeStays, loop
  <2> QED
    BY <1>2, <2>1, <2>2, <2>3, <2>4 DEF FirstRebuild
<1>3. CASE UserRequest
  <2>0. setup = "done" /\ UNCHANGED watchVars /\ wpc # "off"
    BY <1>3, <1>s DEF UserRequest, ScopeStays
  <2>1. CASE Rebuild
    <3>1. /\ UNCHANGED <<disk, configured, index, phase, generation, scan>>
          /\ startup' = NoBinding
          /\ guard' = [Free EXCEPT !.step = "bump", !.scope = configured]
      BY <1>a, <2>1 DEF Rebuild, records, counters
    <3> QED
      BY <1>r, <1>s, <2>0, <3>1, OthersKeepTrack DEF watchVars, events, loop, ScopeStays
  <2>2. ASSUME NEW R \in ScopeChoices, SetRoots(R) PROVE LossInv'
    <3>1. /\ UNCHANGED <<disk, configured, index, phase, generation, scan>> /\ startup' = NoBinding
          /\ guard' = guard \/ guard' = [Free EXCEPT !.step = "commit", !.scope = R]
      BY <2>2 DEF SetRoots, records, counters
    <3>2. [Free EXCEPT !.step = "commit", !.scope = R].step = "commit"
      BY DEF Free
    <3>3. guard' = guard
      BY <3>1, <3>2 DEF Undisturbed
    <3>4. Restored' /\ KeepsTrack
      BY <2>0, <3>1, OthersKeepTrack DEF Restored, NoBinding
    <3>5. ScopeStays'
      BY <1>s, <2>0, <3>1, <3>3 DEF ScopeStays, watchVars, loop
    <3> QED
      BY <1>t, <2>0, <3>1, <3>3, <3>4, <3>5, LossKept DEF watchVars
  <2> QED
    BY <1>3, <2>1, <2>2 DEF UserRequest
<1>4. CASE DiscardAndTell
  BY <1>4, <1>s DEF DiscardAndTell, DiscardOutside, ScopeStays
<1>5. CASE Background
  <2>0. UNCHANGED <<watchVars, setup, control, wpc, watchScope, watched>>
    BY <1>5 DEF Background, watchVars, loop
  <2>k. UNCHANGED <<disk, configured>> => KeepsTrack
    BY <2>0, OthersKeepTrack
  <2>1. CASE CommitRoots \/ (At("clear") /\ ClearContent)
    BY <2>1, <1>s DEF CommitRoots, ScopeStays
  <2>2. CASE BumpGeneration
    <3>1. /\ UNCHANGED <<disk, configured, startup, index, phase, scan>>
          /\ generation' = generation + 1 /\ guard.step = "bump"
          /\ guard'.step = "start" /\ guard'.scope = guard.scope
      BY <2>2, <1>t DEF BumpGeneration, records, TypeOK, GuardType
    <3>2. ~Scanning'
      BY <1>g, <3>1 DEF Scanning, ScansToCome, ToCome
    <3>3. setup = "done"
      BY <1>g, <2>0, <3>1 DEF Undisturbed
    <3> QED
      BY <1>s, <2>0, <3>1, <3>2, <3>3
      DEF LossInv, ScopeStays, PhaseFollows, Restored, EntriesTracked, ReadTracked, ReplayTracked,
          ScanTracked
  <2>3. CASE StartScan
    <3>1. /\ UNCHANGED <<disk, configured, startup, index, generation>> /\ phase' = "scanning"
          /\ guard.step = "start" /\ guard'.step = "free" /\ guard.scope = configured
          /\ generation \in Generations
      BY <2>3, <1>f, <1>s DEF StartScan, Release, records, counters, ScopeStays, SafeInv, TypeInv,
         GuardsScan
    <3>2. /\ scan'[generation].scope = configured /\ scan'[generation].todo = FilesIn(configured)
      BY <2>3, <3>1, <1>t DEF StartScan, NoScan, TypeOK
    <3>3. setup = "done"
      BY <1>g, <3>1 DEF Undisturbed
    <3>4. ScanTracked'
      BY <3>1, <3>2 DEF ScanTracked, Scanning, FilesIn, Mine
    <3>5. PhaseFollows'
      BY <3>1, <3>2 DEF PhaseFollows, Scanning
    <3> QED
      BY <1>s, <2>0, <3>1, <3>3, <3>4, <3>5
      DEF LossInv, ScopeStays, Restored, EntriesTracked, ReadTracked, ReplayTracked
  <2>4. CASE ScanPersist
    <3>1. /\ UNCHANGED <<disk, configured, startup, index, phase, generation, scan>>
          /\ guard.step = "scan_persist" /\ guard'.step = "scan_publish"
      BY <2>4, <1>t DEF ScanPersist, Goto, records, counters, TypeOK, GuardType
    <3>2. \A h \in Files : OnDisk(h)' = OnDisk(h)
      BY <3>1 DEF disk, OnDisk
    <3>3. Restored'
      BY <1>s, <2>0, <3>1, <3>2 DEF Restored, FilesIn, disk
    <3>4. EntriesTracked' /\ ScanTracked'
      BY <1>s, <2>0, <2>k, <3>1 DEF EntriesTracked, ScanTracked, KeepsTrack, Fresh, Scanning
    <3> QED
      BY <1>s, <2>0, <3>1, <3>3, <3>4
      DEF LossInv, ScopeStays, PhaseFollows, Scanning, ReadTracked, ReplayTracked
  <2>5. CASE ScanPublish
    <3>0. /\ guard.step = "scan_publish" /\ guard.gen = generation /\ generation \in Generations
          /\ scan[generation].pc = "publish"
      BY <2>5 DEF ScanPublish, SafeInv, PublisherScoped, Newest, ScanAt
    <3>1. /\ UNCHANGED <<disk, configured, startup, generation>> /\ index' = scan[generation].found
          /\ guard'.step = "free" /\ scan'[generation].pc = "schedule"
      BY <2>5, <3>0, <1>f, <1>t DEF ScanPublish, Release, ScanGoto, counters, TypeOK, ScanType
    <3>2. scan[generation].todo = {}
      BY <3>0 DEF ExactInv, ScansExact, ScanExact
    <3>3. setup = "done" /\ ~Scanning'
      BY <1>g, <3>0, <3>1 DEF Undisturbed, Scanning
    <3>4. \A f \in Files : Mine(f) => Fresh(scan[generation].found[f], f)
      BY <1>s, <3>0, <3>2 DEF ScanTracked, Scanning
    <3>5. EntriesTracked'
      BY <2>k, <3>1, <3>4 DEF EntriesTracked, KeepsTrack, Fresh
    <3> QED
      BY <1>s, <2>0, <3>1, <3>3, <3>5
      DEF LossInv, ScopeStays, PhaseFollows, Restored, ReadTracked, ReplayTracked, ScanTracked
  <2>6. CASE ReplayPersist
    <3>1. /\ UNCHANGED <<disk, configured, startup, index, phase, generation, scan>>
          /\ guard.step = "replay_read" /\ guard'.step = "replay_publish"
          /\ guard.todo = {} /\ guard'.todo = {} /\ guard'.found = guard.found
          /\ guard'.scope = guard.scope
      BY <2>6, <1>t DEF ReplayPersist, Goto, records, counters, TypeOK, GuardType
    <3>2. ReplayTracked'
      BY <1>s, <2>k, <3>1 DEF ReplayTracked, KeepsTrack, Fresh
    <3>3. setup = "done" /\ generation = 0 /\ ~Scanning'
      BY <1>g, <1>s, <3>1 DEF PhaseFollows, Scanning
    <3> QED
      BY <1>s, <2>0, <3>1, <3>2, <3>3
      DEF LossInv, ScopeStays, PhaseFollows, Restored, EntriesTracked, ReadTracked, ScanTracked
  <2>7. CASE ReplayDeclined
    <3>1. /\ UNCHANGED <<disk, configured, startup, index, phase, generation, scan>>
          /\ guard' = [Free EXCEPT !.step = "bump", !.scope = configured]
          /\ guard.step = "replay_read"
      BY <1>s, <2>7 DEF ScopeStays, ReplayDeclined, records, counters
    <3>2. setup = "done" /\ wpc # "off" /\ wpc # "watch"
      BY <1>s, <3>1 DEF PhaseFollows, ScopeStays
    <3> QED
      BY <1>r, <2>0, <2>k, <3>1, <3>2
  <2>8. CASE ReplayPublish
    <3>1. /\ UNCHANGED <<disk, configured, startup, generation, scan>> /\ index' = guard.found
          /\ guard.step = "replay_publish" /\ guard'.step = "free"
      BY <2>8, <1>f DEF ReplayPublish, Release, ScheduleContent
    <3>2. /\ setup = "done" /\ generation = 0 /\ ~Scanning' /\ guard.todo = {}
      BY <1>g, <1>s, <3>1 DEF PhaseFollows, Scanning
    <3>3. \A f \in Files : Mine(f) => Fresh(guard.found[f], f)
      BY <1>s, <3>1, <3>2 DEF ReplayTracked
    <3>4. EntriesTracked'
      BY <2>k, <3>1, <3>3 DEF EntriesTracked, KeepsTrack, Fresh
    <3> QED
      BY <1>s, <2>0, <3>1, <3>2, <3>4
      DEF LossInv, ScopeStays, PhaseFollows, Restored, ReadTracked, ReplayTracked, ScanTracked
  <2>9. ASSUME NEW f \in Files, At("replay_read"), PathRead(f) PROVE LossInv'
    <3>1. /\ UNCHANGED <<disk, configured, startup, index, phase, generation, scan>>
          /\ guard.step = "replay_read" /\ guard'.step = "replay_read"
          /\ guard'.todo = guard.todo \ {f} /\ guard'.found = [guard.found EXCEPT ![f] = OnDisk(f)]
          /\ guard'.scope = guard.scope
      BY <2>9, <1>t DEF PathRead, records, counters, TypeOK, GuardType
    <3>2. \A h \in Files : guard'.found[h] = IF h = f THEN OnDisk(f) ELSE guard.found[h]
      BY <3>1, <1>t DEF TypeOK, GuardType, Versions
    <3>3. \A h \in Files \ guard'.todo : Mine(h) => Fresh(guard'.found[h], h)
      BY <1>s, <3>1, <3>2 DEF ReplayTracked, Fresh
    <3>4. ReplayTracked'
      BY <2>k, <3>1, <3>3 DEF ReplayTracked, KeepsTrack, Fresh
    <3>5. setup = "done" /\ generation = 0 /\ ~Scanning'
      BY <1>g, <1>s, <3>1 DEF PhaseFollows, Scanning
    <3> QED
      BY <1>s, <2>0, <3>1, <3>4, <3>5
      DEF LossInv, ScopeStays, PhaseFollows, Restored, EntriesTracked, ReadTracked, ScanTracked
  <2>10. ASSUME NEW g \in Generations, ScanFirstRun(g) PROVE LossInv'
    <3>1. /\ UNCHANGED <<disk, configured, startup, phase, generation, guard>>
          /\ scan[g].pc = "first" /\ scan' = [scan EXCEPT ![g].pc = "walk"]
      BY <2>10 DEF ScanFirstRun, ScanAt, ScanGoto, counters
    <3>2. generation = g /\ setup = "done" /\ Scanning /\ phase = "scanning"
      BY <1>g, <1>s, <3>1 DEF Undisturbed, ScanAt, Newest, Scanning, PhaseFollows
    <3>3. /\ scan'[g].pc = "walk" /\ scan'[g].todo = scan[g].todo /\ scan'[g].found = scan[g].found
          /\ scan'[g].scope = scan[g].scope
      BY <3>1, <1>t DEF TypeOK, ScanType
    <3>4. ScanTracked'
      BY <1>s, <2>k, <3>1, <3>2, <3>3 DEF ScanTracked, KeepsTrack, Fresh
    <3>5. PhaseFollows' /\ ScopeStays'
      BY <1>s, <2>0, <3>1, <3>2, <3>3 DEF PhaseFollows, ScopeStays, Scanning
    <3>6. guard.step \notin BatchSteps \cup ReplaySteps
      BY <1>g, <1>s, <3>2 DEF PhaseFollows
    <3> QED
      BY <2>0, <3>1, <3>2, <3>4, <3>5, <3>6
      DEF LossInv, Restored, EntriesTracked, ReadTracked, ReplayTracked
  \* The other steps of a scan leave the entries alone.
  <2>11. ASSUME NEW g \in Generations, ScanStep(g), ~ScanFirstRun(g) PROVE LossInv'
    <3>1. /\ UNCHANGED <<disk, configured, startup, index, phase, generation>>
          /\ \A h \in Generations \ {g} : scan'[h] = scan[h]
      BY <2>11, <1>t DEF ScanStep, ScanBegin, ScanMft, ScanAbandon, ScanLock, ScanRefused,
         ScanRefusedAgain, ScanSchedule, ScanRead, ScanGoto, ScanEnds, ScheduleContent, records,
         counters, TypeOK
    <3>2. \/ guard' = guard
          \/ guard.step \in {"free", "scan_persist"} /\ guard'.step \in {"free", "scan_persist"}
      <4>1. \/ guard' = guard
            \/ /\ guard.step \in {"free", "scan_persist"}
               /\ guard' \in {Free, [Free EXCEPT !.step = "scan_persist", !.gen = g]}
        BY <2>11 DEF ScanStep, ScanBegin, ScanMft, ScanAbandon, ScanLock, ScanRefused,
           ScanRefusedAgain, ScanSchedule, ScanRead, LockFree, Release
      <4>2. guard' = [Free EXCEPT !.step = "scan_persist", !.gen = g] => guard'.step = "scan_persist"
        BY DEF Free
      <4> QED
        BY <1>f, <4>1, <4>2
    \* Of the newest scan, what is read is fresh, and its scope stays.
    <3>3. ASSUME g = generation, scan'[g].pc \in {"begin", "first", "walk", "publish"}
          PROVE  /\ Scanning /\ scan'[g].scope = scan[g].scope
                 /\ \A f \in Files \ scan'[g].todo : Mine(f) => Fresh(scan'[g].found[f], f)
      <4>1. Scanning => \A f \in Files \ scan[g].todo : Mine(f) => Fresh(scan[g].found[f], f)
        BY <1>s, <3>3 DEF ScanTracked
      <4>2. scan[g] \in ScanType /\ ScanExact(scan[g])
        BY <1>t DEF TypeOK, ExactInv, ScansExact
      <4>3. CASE ScanBegin(g) \/ ScanLock(g)
        <5>1. PICK p \in {"first", "walk", "publish"} : scan' = [scan EXCEPT ![g].pc = p]
          BY <4>3 DEF ScanBegin, ScanLock, ScanGoto
        <5>2. scan[g].pc \in {"begin", "walk"}
          BY <4>3 DEF ScanBegin, ScanLock, ScanAt
        <5>3. /\ scan'[g].todo = scan[g].todo /\ scan'[g].found = scan[g].found
              /\ scan'[g].scope = scan[g].scope
          BY <5>1, <4>2, <1>t DEF TypeOK, ScanType
        <5> QED
          BY <3>3, <4>1, <5>2, <5>3 DEF Scanning
      <4>4. ASSUME NEW f \in Files, ScanRead(g, f)
            PROVE  /\ Scanning /\ scan'[g].scope = scan[g].scope
                   /\ \A h \in Files \ scan'[g].todo : Mine(h) => Fresh(scan'[g].found[h], h)
        <5>1. scan'[g] = [scan[g] EXCEPT !.todo = @ \ {f}, !.found[f] = OnDisk(f)] /\ scan[g].pc = "walk"
          BY <4>4, <1>t DEF ScanRead, ScanAt, TypeOK
        <5>2. /\ scan'[g].todo = scan[g].todo \ {f} /\ scan'[g].scope = scan[g].scope
              /\ \A h \in Files : scan'[g].found[h] = IF h = f THEN OnDisk(f) ELSE scan[g].found[h]
          BY <5>1, <4>2 DEF ScanType, Versions
        <5> QED
          BY <3>3, <4>1, <5>1, <5>2 DEF Scanning, Fresh
      <4>5. CASE ScanMft(g)
        <5>1. /\ scan'[g] = [scan[g] EXCEPT !.todo = {f \in @ : OnDisk(f) # Absent}, !.cutoff = clock]
              /\ scan[g].pc = "walk"
          BY <4>5, <1>t DEF ScanMft, ScanAt, TypeOK
        <5>2. /\ scan'[g].todo = {f \in scan[g].todo : OnDisk(f) # Absent}
              /\ scan'[g].scope = scan[g].scope /\ scan'[g].found = scan[g].found
          BY <5>1, <4>2 DEF ScanType
        <5>3. \A f \in scan[g].todo : scan[g].found[f] = Absent
          BY <4>2 DEF ScanExact
        <5> QED
          BY <3>3, <4>1, <5>1, <5>2, <5>3 DEF Scanning, Fresh
      <4>6. CASE ScanAbandon(g)
        BY <3>3, <4>6 DEF ScanAbandon, Newest
      <4>7. CASE ScanSchedule(g) \/ ScanRefused(g) \/ ScanRefusedAgain(g)
        BY <3>3, <4>7, <1>t DEF ScanSchedule, ScanRefused, ScanRefusedAgain, ScanEnds, NoScan, TypeOK
      <4> QED
        BY <2>11, <4>3, <4>4, <4>5, <4>6, <4>7 DEF ScanStep
    <3>4. \A h \in Files : OnDisk(h)' = OnDisk(h)
      BY <3>1 DEF disk, OnDisk
    <3>5. ScopeStays'
      BY <1>s, <2>0, <3>1, <3>2 DEF ScopeStays
    <3>6. Scanning' => Scanning /\ scan'[generation].scope = scan[generation].scope
      BY <3>1, <3>3 DEF Scanning
    <3>7. PhaseFollows'
      BY <1>s, <2>0, <3>1, <3>2, <3>6 DEF PhaseFollows
    <3>8. Restored'
      BY <1>s, <1>t, <2>0, <3>1, <3>2, <3>4 DEF Restored, FilesIn, disk, TypeOK, GuardType
    <3>9. EntriesTracked' /\ ReadTracked' /\ ReplayTracked'
      BY <1>s, <1>t, <2>0, <2>k, <3>1, <3>2
      DEF EntriesTracked, ReadTracked, ReplayTracked, KeepsTrack, Fresh, TypeOK, GuardType
    <3>10. ScanTracked'
      BY <1>s, <2>k, <3>1, <3>3 DEF ScanTracked, KeepsTrack, Fresh, Scanning
    <3> QED
      BY <3>5, <3>7, <3>8, <3>9, <3>10 DEF LossInv
  <2>12. ASSUME NEW w \in workers, WorkerStep(w) PROVE LossInv'
    <3>1. UNCHANGED <<disk, configured, startup, index, phase, generation, guard, scan>>
      BY <2>12 DEF WorkerStep, WorkerStart, WorkerRead, WorkerPublish, WorkerStatus, records, counters
    <3>2. ScopeStays'
      BY <1>s, <2>0, <3>1 DEF ScopeStays
    <3> QED
      BY <1>q, <2>0, <2>k, <3>1, <3>2
  <2> QED
    BY <1>5, <2>1, <2>2, <2>3, <2>4, <2>5, <2>6, <2>7, <2>8, <2>9, <2>10, <2>11, <2>12
    DEF Background, ScanStep
<1>6. CASE WatcherStep
  <2>0. setup' = setup /\ control = <<>> /\ wpc # "off" /\ setup # "new" /\ watchScope = configured
    BY <1>6, <1>s DEF ScopeStays, WatcherStep, Unwatch, Watch, Drained, FullDue, RebuildInstead,
       WatchedRebuild, PathsDue, Reconciling, Unreadable, Applied, SaveBegin, SaveEnd, Receive, Poll,
       WatcherAt, watchVars
  <2>1. CASE Unwatch \/ Watch
    BY <2>0, <2>1, <1>s DEF Unwatch, Watch, WatcherAt, ScopeStays
  <2>2. CASE Drained \/ Receive \/ Poll
    <3>1. /\ UNCHANGED <<disk, configured, startup, index, phase, generation, guard, scan>>
          /\ UNCHANGED <<control, watchScope, watched>> /\ wpc' \in {"control", "work"}
          /\ wpc # "batch"
      BY <2>2 DEF Drained, Receive, Poll, WatcherAt, vars, records, counters
    <3>2. ScopeStays'
      BY <1>s, <2>0, <3>1 DEF ScopeStays
    <3> QED
      BY <1>q, <1>t, <2>0, <2>2, <3>1, <3>2, LoopKeepsTrack
  \* A full scan is asked for, or put off while one runs.
  <2>3. CASE FullDue \/ RebuildInstead
    <3>0. PICK pc \in {"work", "rebuild"} : WatchedRebuild(pc)
      BY <2>3 DEF FullDue, RebuildInstead
    <3>1. wpc' = "control" /\ UNCHANGED <<watchScope, watched, control>> /\ wpc # "batch"
      BY <3>0 DEF WatchedRebuild, WatcherAt
    <3>2. CASE RebuildWatched(watchScope)
      <4>1. /\ UNCHANGED <<disk, configured, index, phase, generation, scan, startup>>
            /\ guard' = [Free EXCEPT !.step = "bump", !.scope = configured]
            /\ phase # "scanning"
        BY <2>0, <3>2 DEF RebuildWatched, records, counters
      <4>2. ~Scanning
        BY <1>s, <4>1 DEF PhaseFollows
      <4>3. setup' = setup \/ startup' = NoBinding
        BY <2>0
      <4> QED
        BY <1>r, <2>0, <3>1, <4>1, <4>2
    <3>3. CASE ~RebuildWatched(watchScope)
      <4>1. UNCHANGED <<vars, batch, events>>
        BY <1>a, <2>0, <3>0, <3>3 DEF WatchedRebuild, ScopeDiffers
      <4>2. UNCHANGED <<disk, configured, startup, index, phase, generation, guard, scan>>
        BY <4>1 DEF vars, records, counters
      <4>3. KeepsTrack
        BY <3>1, <4>1, <4>2, TrackKept DEF Tracked, events
      <4>4. ScopeStays'
        BY <1>s, <2>0, <3>1, <4>2 DEF ScopeStays
      <4> QED
        BY <1>q, <2>0, <4>2, <4>3, <4>4
    <3> QED
      BY <3>2, <3>3
  \* A batch begins: its paths leave what the watcher knows for the lock.
  <2>4. CASE PathsDue
    <3>0. /\ UNCHANGED <<events, control, watchScope, watched>> /\ batch.full = FALSE
          /\ wpc = "work"
      BY <2>4, <1>t DEF PathsDue, WatcherAt, BatchFits, Batches
    <3>1. CASE BatchBegin(watchScope, batch.paths) /\ batch' = NoBatch /\ wpc' = "batch"
      <4>1. /\ UNCHANGED <<disk, configured, startup, index, phase, generation, scan>>
            /\ phase # "scanning" /\ batch.paths \subseteq FilesIn(configured)
            /\ guard' = [Free EXCEPT !.step = "batch_clear", !.rev = revision + 1,
                             !.gen = generation, !.paths = batch.paths, !.todo = batch.paths]
            /\ guard.step = "free"
        BY <2>0, <3>1 DEF BatchBegin, records, counters, LockFree
      <4>2. guard'.step = "batch_clear" /\ guard'.paths = batch.paths /\ guard'.todo = batch.paths
        BY <4>1 DEF Free
      <4>3. \A h \in Files : OnDisk(h)' = OnDisk(h) /\ (Mine(h)' <=> Mine(h))
        BY <3>0, <4>1 DEF disk, OnDisk, Mine
      <4>4. \A h \in Files \ batch.paths : Tracked(h) => Tracked(h)'
        BY <3>0 DEF Tracked, events
      <4>5. EntriesTracked'
        BY <1>s, <2>0, <4>1, <4>2, <4>3, <4>4 DEF EntriesTracked, Fresh
      <4>6. ~Scanning'
        BY <1>s, <4>1 DEF PhaseFollows, Scanning
      <4>7. Restored'
        BY <1>s, <2>0, <4>1, <4>2, <4>3 DEF Restored, FilesIn, disk
      <4>8. ScopeStays' /\ PhaseFollows'
        BY <1>s, <2>0, <3>0, <3>1, <4>1, <4>2, <4>6 DEF ScopeStays, PhaseFollows
      <4> QED
        BY <4>2, <4>5, <4>6, <4>7, <4>8 DEF LossInv, ReadTracked, ReplayTracked, ScanTracked
    <3>2. CASE ~(BatchBegin(watchScope, batch.paths) /\ batch' = NoBatch /\ wpc' = "batch")
      <4>1. UNCHANGED <<vars, batch>> /\ wpc' = "control"
        BY <1>a, <2>0, <2>4, <3>2 DEF PathsDue, ScopeDiffers
      <4>2. UNCHANGED <<disk, configured, startup, index, phase, generation, guard, scan>>
        BY <4>1 DEF vars, records, counters
      <4>3. KeepsTrack
        BY <3>0, <4>1, <4>2, TrackKept DEF Tracked, events
      <4>4. ScopeStays'
        BY <1>s, <2>0, <3>0, <4>1, <4>2 DEF ScopeStays
      <4> QED
        BY <1>q, <2>0, <4>2, <4>3, <4>4
    <3> QED
      BY <3>1, <3>2
  <2>5. CASE Reconciling
    <3>0. UNCHANGED <<watchVars, control, wpc, watchScope, watched>> /\ wpc = "batch"
      BY <2>5 DEF Reconciling, watchVars, loop, WatcherAt
    <3>k. UNCHANGED <<disk, configured>> => KeepsTrack
      BY <3>0, OthersKeepTrack
    <3>1. CASE At("batch_clear") /\ ClearContent
      <4>1. /\ UNCHANGED <<disk, configured, startup, index, phase, generation, scan>>
            /\ guard.step = "batch_clear" /\ guard' = [guard EXCEPT !.step = "batch_read"]
        BY <3>1 DEF ClearContent, Goto, records, counters
      <4>2. /\ guard'.step = "batch_read" /\ guard'.paths = guard.paths /\ guard'.todo = guard.paths
            /\ guard'.found = guard.found
        BY <1>s, <1>t, <4>1 DEF PhaseFollows, TypeOK, GuardType
      <4>3. ~Scanning'
        BY <1>s, <4>1 DEF PhaseFollows, Scanning
      <4>4. EntriesTracked' /\ ReadTracked'
        BY <1>s, <2>0, <3>k, <4>1, <4>2 DEF EntriesTracked, ReadTracked, KeepsTrack
      <4>5. Restored'
        BY <1>s, <2>0, <4>1, <4>2 DEF Restored, FilesIn, OnDisk, disk
      <4> QED
        BY <1>s, <2>0, <3>0, <4>1, <4>2, <4>3, <4>4, <4>5
        DEF LossInv, ScopeStays, PhaseFollows, ReplayTracked, ScanTracked
    <3>2. ASSUME NEW f \in Files, At("batch_read"), PathRead(f) PROVE LossInv'
      <4>1. /\ UNCHANGED <<disk, configured, startup, index, phase, generation, scan>>
            /\ guard.step = "batch_read"
            /\ guard' = [guard EXCEPT !.todo = @ \ {f}, !.found[f] = OnDisk(f)]
        BY <3>2 DEF PathRead, records, counters
      <4>2. /\ guard'.step = "batch_read" /\ guard'.paths = guard.paths
            /\ guard'.todo = guard.todo \ {f} /\ guard.paths \subseteq Files
            /\ \A h \in Files : guard'.found[h] = IF h = f THEN OnDisk(f) ELSE guard.found[h]
        BY <1>t, <4>1 DEF TypeOK, GuardType, Versions
      <4>3. ~Scanning'
        BY <1>s, <4>1 DEF PhaseFollows, Scanning
      <4>4. \A h \in guard.paths \ guard'.todo : Mine(h) => Fresh(guard'.found[h], h)
        BY <1>s, <4>1, <4>2 DEF ReadTracked, Fresh
      <4>5. EntriesTracked' /\ ReadTracked'
        BY <1>s, <2>0, <3>k, <4>1, <4>2, <4>4 DEF EntriesTracked, ReadTracked, KeepsTrack
      <4>6. \A h \in Files : OnDisk(h)' = OnDisk(h)
        BY <4>1 DEF disk, OnDisk
      <4>7. Restored'
        BY <1>s, <2>0, <4>1, <4>2, <4>6 DEF Restored, FilesIn, disk
      <4> QED
        BY <1>s, <2>0, <3>0, <4>1, <4>2, <4>3, <4>5, <4>7
        DEF LossInv, ScopeStays, PhaseFollows, ReplayTracked, ScanTracked
    <3>3. CASE BatchPublish
      <4>1. /\ UNCHANGED <<disk, configured, startup, phase, generation, scan>>
            /\ guard.step = "batch_read" /\ guard.todo = {}
            /\ guard' = [guard EXCEPT !.step = "batch_schedule"]
            /\ \A h \in Files : index'[h] = IF h \in guard.paths THEN guard.found[h] ELSE index[h]
        BY <3>3 DEF BatchPublish, Goto, records, counters
      <4>2. /\ guard'.step = "batch_schedule" /\ guard'.paths = guard.paths
            /\ guard'.todo = {} /\ guard'.found = guard.found /\ guard.paths \subseteq Files
        BY <1>t, <4>1 DEF TypeOK, GuardType
      <4>3. ~Scanning'
        BY <1>s, <4>1 DEF PhaseFollows, Scanning
      <4>4. EntriesTracked'
        BY <1>s, <2>0, <3>k, <4>1, <4>2 DEF EntriesTracked, ReadTracked, KeepsTrack, Fresh
      <4>5. \A h \in Files : OnDisk(h)' = OnDisk(h)
        BY <4>1 DEF disk, OnDisk
      <4>6. startup.cutoff # Unbound => \A h \in guard.paths :
                touched[h] <= startup.cutoff => guard.found[h] = OnDisk(h)
        BY <1>s, <4>1 DEF Restored
      <4>7. Restored'
        BY <1>s, <2>0, <4>1, <4>2, <4>5, <4>6 DEF Restored, FilesIn, disk
      <4> QED
        BY <1>s, <2>0, <3>0, <4>1, <4>2, <4>3, <4>4, <4>7
        DEF LossInv, ScopeStays, PhaseFollows, ReadTracked, ReplayTracked, ScanTracked
    <3> QED
      BY <2>5, <3>1, <3>2, <3>3 DEF Reconciling
  \* A path cannot be read: everything may be stale, and a scan is asked for.
  <2>6. CASE Unreadable
    <3>1. /\ UNCHANGED <<disk, configured, startup, index, phase, generation, scan>>
          /\ UNCHANGED <<control, watchScope, watched>> /\ wpc' = "rebuild"
          /\ guard.step = "batch_read" /\ guard'.step = "free" /\ batch'.full
      BY <2>6, <1>f DEF Unreadable, BatchUnreadable, Release, FullBatch, records, counters
    <3>2. \A h \in Files : Tracked(h)'
      BY <3>1 DEF Tracked
    <3>3. ~Scanning'
      BY <1>s, <3>1 DEF PhaseFollows, Scanning
    <3>4. EntriesTracked'
      BY <3>2 DEF EntriesTracked, Fresh
    <3>5. Restored'
      BY <1>s, <2>0, <3>1 DEF Restored, FilesIn, OnDisk, disk
    <3> QED
      BY <1>s, <2>0, <3>1, <3>3, <3>4, <3>5
      DEF LossInv, ScopeStays, PhaseFollows, ReadTracked, ReplayTracked, ScanTracked
  <2>7. CASE Applied
    <3>1. /\ UNCHANGED <<disk, configured, startup, index, generation, scan>>
          /\ UNCHANGED <<events, batch, control, watchScope, watched>> /\ wpc' = "control"
          /\ guard.step = "batch_schedule" /\ guard'.step = "free"
      BY <2>7, <1>f DEF Applied, BatchSchedule, ScheduleContent, Release, records, counters
    <3>2. KeepsTrack
      BY <3>1, TrackKept DEF Tracked, events
    <3>3. ~Scanning' /\ phase # "scanning"
      BY <1>s, <3>1 DEF PhaseFollows, Scanning
    <3>4. EntriesTracked'
      BY <1>s, <2>0, <3>1, <3>2, <3>3 DEF EntriesTracked, KeepsTrack, Fresh
    <3>5. Restored'
      BY <1>s, <2>0, <3>1 DEF Restored, FilesIn, OnDisk, disk
    <3> QED
      BY <1>s, <2>0, <3>1, <3>3, <3>4, <3>5
      DEF LossInv, ScopeStays, PhaseFollows, ReadTracked, ReplayTracked, ScanTracked
  <2>8. CASE SaveBegin \/ SaveEnd
    <3>1. /\ UNCHANGED <<disk, configured, startup, index, phase, generation, guard, scan>>
          /\ UNCHANGED <<events, batch, control, watchScope, watched>>
          /\ wpc \in {"work", "save"} /\ wpc' \in {"save", "control"}
      BY <2>8 DEF SaveBegin, SaveEnd, CaptureIncremental, WriteIncremental, WatcherAt, vars, records,
         counters
    <3>2. KeepsTrack
      BY <3>1, TrackKept DEF Tracked, events
    <3>3. ScopeStays'
      BY <1>s, <2>0, <3>1 DEF ScopeStays
    <3> QED
      BY <1>q, <2>0, <3>1, <3>2, <3>3
  <2> QED
    BY <1>6, <2>1, <2>2, <2>3, <2>4, <2>5, <2>6, <2>7, <2>8 DEF WatcherStep
<1>7. CASE BackendLoss \/ \E f \in Files : Callback(f)
  <2>1. /\ UNCHANGED <<disk, configured, startup, index, phase, generation, guard, scan, setup>>
        /\ UNCHANGED <<control, wpc, watchScope, watched>>
    BY <1>7 DEF BackendLoss, Callback, vars, records, counters, loop
  <2>2. ScopeStays'
    BY <1>s, <2>1 DEF ScopeStays
  <2> QED
    BY <1>q, <1>t, <1>7, <2>1, <2>2, ReportsKeepTrack
\* A restart has the entries of its snapshot, and no scan.
<1>8. CASE RestartAll
  <2>1. /\ guard'.step = "free" /\ generation' = 0 /\ setup' = "new" /\ control' = <<>>
        /\ wpc' = "off" /\ watched' = {} /\ UNCHANGED <<disk, snapshot>>
    BY <1>8, <1>f DEF RestartAll, Restart
  <2>2. ~Scanning'
    BY <1>g, <2>1 DEF Scanning, Generations
  <2>3. Restored'
    <3>1. SUFFICES ASSUME startup'.cutoff # Unbound
                   PROVE  \A f \in FilesIn(configured') :
                            touched'[f] <= startup'.cutoff => index'[f] = OnDisk(f)'
      BY <2>1 DEF Restored, FilesIn
    <3>0. \A S \in ScopesOf(configured') : S = configured'
      <4>1. \A S \in ScopesOf(configured') : S \in ActiveScopes'
        BY <2>1 DEF ActiveScopes, ScopesOf, StandIn, FilesIn, disk
      <4> QED
        BY <4>1 DEF Undisturbed
    <3>2. /\ configured' = snapshot.roots /\ index' = snapshot.index
          /\ startup' = Binding(snapshot)
      BY <1>8, <3>0, <3>1 DEF RestartAll, Restart, Restorable, NoBinding
    <3>3. startup'.cutoff = snapshot.cutoff /\ snapshot.cutoff # Unbound
      BY <3>1, <3>2 DEF Binding, NoBinding
    <3>4. \A f \in Files : OnDisk(f)' = OnDisk(f)
      BY <2>1 DEF disk, OnDisk
    <3> QED
      BY <2>1, <3>2, <3>3, <3>4 DEF ExactInv, SnapshotExact, ExactBut, FilesIn, disk
  <2> QED
    BY <2>1, <2>2, <2>3
    DEF LossInv, ScopeStays, PhaseFollows, EntriesTracked, ReadTracked, ReplayTracked, ScanTracked
<1>9. ASSUME NEW f \in Files, DiskChange(f) PROVE LossInv'
  <2>1. /\ UNCHANGED <<configured, startup, index, phase, generation, guard, scan, setup>>
        /\ UNCHANGED <<control, wpc, watchScope, watched>> /\ (Write(f) \/ Delete(f))
    BY <1>9 DEF DiskChange, Write, Delete, durable, records, counters, loop
  <2>2. ScopeStays'
    BY <1>s, <2>1 DEF ScopeStays
  <2>3. Restored'
    BY <1>t, <2>1, RestoredOverChange
  <2>4. KeepsTrack
    BY <1>9, <1>t, DiskChangeKeepsTrack
  <2>5. /\ setup' = setup /\ configured' = configured
        /\ UNCHANGED <<index, phase, generation, guard, scan>>
    BY <2>1
  <2> QED
    BY <1>t, <2>2, <2>3, <2>4, <2>5, LossKept
<1>10. CASE UNCHANGED allVars
  <2>1. /\ UNCHANGED <<disk, configured, startup, index, phase, generation, guard, scan>>
        /\ UNCHANGED <<watchVars, setup, control, wpc, watchScope, watched>>
    BY <1>10 DEF allVars, vars, records, counters, watchVars, loop
  <2>2. ScopeStays'
    BY <1>s, <2>1 DEF ScopeStays
  <2> QED
    BY <1>q, <2>1, <2>2, OthersKeepTrack
<1> QED
  BY <1>1, <1>2, <1>3, <1>4, <1>5, <1>6, <1>7, <1>8, <1>9, <1>10 DEF SystemNext

\* No change is lost, however scans, batches, the queue and restarts interleave,
\* in a behaviour without the four disturbances of Undisturbed.
THEOREM ChangesAreTracked == SystemSpec /\ []Undisturbed => []NoLostChange
<1>1. SystemInit => LossInv
  <2> SUFFICES ASSUME SystemInit PROVE LossInv
    OBVIOUS
  <2>1. /\ guard.step = "free" /\ generation = 0 /\ startup.cutoff = Unbound
        /\ setup = "new" /\ control = <<>> /\ wpc = "off" /\ watched = {}
    BY DEF SystemInit, Init, WatchInit, Free, NoBinding
  <2>2. ~Scanning
    BY <2>1, GenerationFacts DEF Scanning, Generations
  <2> QED
    BY <2>1, <2>2
    DEF LossInv, ScopeStays, PhaseFollows, Restored, EntriesTracked, ReadTracked, ReplayTracked,
        ScanTracked, At, BatchSteps, ReplaySteps
<1>2. Init => SafeInv /\ ExactInv /\ ScansToCome
  BY SafeInit, ExactInit DEF Init, ScansToCome, NoScan
<1>3. SafeInv /\ [SystemNext]_allVars => SafeInv' /\ TypeOK
  BY StepImplements, SafeNext DEF SafeInv, TypeInv
<1>4. SafeInv /\ ExactInv /\ [SystemNext]_allVars => ExactInv'
  BY StepImplements, ExactNext
<1>5. SafeInv /\ ScansToCome /\ [SystemNext]_allVars => ScansToCome'
  BY StepImplements, ToComeNext
<1>6. LossInv => NoLostChange
  BY DEF LossInv, EntriesTracked, NoLostChange, LockFree, At, Mine, Fresh, FilesIn, ReplaySteps
<1>7. SystemInit => Init
  BY DEF SystemInit
<1> QED
  BY <1>1, <1>2, <1>3, <1>4, <1>5, <1>6, <1>7, WatchInvInit, WatchInvNext, LossNext, PTL
  DEF SystemSpec
===============================================================================
