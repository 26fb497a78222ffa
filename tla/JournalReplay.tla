----------------------------- MODULE JournalReplay -----------------------------
(***************************************************************************)
(* The exact replay of a volume's change journal at startup: ntfs_usn.rs,  *)
(* replay_binding_to_quiet_cutoff and StableReplayPathState, and the       *)
(* reconciliation and publication in indexer.rs that use its result.       *)
(*                                                                         *)
(* A snapshot was saved with the stable path of each of its entries and    *)
(* the journal position they stood at.  The replay applies the records     *)
(* since then to the paths, marks the paths they may have changed, and     *)
(* gives up at the first record it cannot apply without guessing; the      *)
(* index then reads the marked paths anew.                                 *)
(***************************************************************************)
EXTENDS NtfsVolume

VARIABLES binding,    \* [id, next, paths]: the saved stable paths and their position
          index,      \* the visible entries: [path, name, dir, stamp]
          replay,     \* "idle", "begun", "replayed", "read" or "declined"
          cutoff,     \* the position queried at the start
          result,     \* the projection reached: see Projection
          fresh       \* the entries after the marked paths were read

reader == <<binding, index, replay, cutoff, result, fresh>>
replayVars == <<volume, reader>>

--------------------------------------------------------------------------------
(* Stable paths: a link and the path it was indexed under. *)

Stable(l, path) ==
    [ref |-> l.ref, parent |-> l.parent, name |-> l.name, dir |-> l.dir, path |-> path]

RootPath == Stable(LinkTo(Root, Root, "", TRUE), <<>>)

StablePaths(ls) == {RootPath} \cup {Stable(l, PathOf(ls, l)) : l \in ls}

PathKey(path) == [i \in DOMAIN path |-> Fold[path[i]]]

\* Is a path at or below another, whatever their spelling?
Within(path, top) ==
    Len(top) <= Len(path) /\ \A i \in DOMAIN top : Fold[path[i]] = Fold[top[i]]

Aliases(paths, r) == {p \in paths : p.ref = r}

\* The one directory a reference names, if it names one: at most one element.
ParentDirectory(paths, r) ==
    IF Cardinality(Aliases(paths, r)) = 1 THEN {p \in Aliases(paths, r) : p.dir} ELSE {}

\* Going from parent to parent one comes to the root.
ReachesRoot(paths, r) ==
    \A D \in SUBSET ({r} \cup {p.parent : p \in paths}) :
        r \in D /\ (\A d \in D : \A p \in ParentDirectory(paths, d) : p.parent \in D)
            => Root \in D

\* validate_replay_volume: each path is its parent's path and its own name.
ValidVolume(paths) ==
    /\ {p \in paths : p.ref = Root} = {RootPath}
    /\ \A p, q \in paths : p # q =>
          /\ PathKey(p.path) # PathKey(q.path)
          /\ p.ref = q.ref => ~p.dir /\ ~q.dir
    /\ \A p \in paths \ {RootPath} :
          /\ p.parent # p.ref
          /\ \E d \in ParentDirectory(paths, p.parent) :
                PathKey(p.path) = PathKey(Append(d.path, p.name))
          /\ ReachesRoot(paths, p.parent)

--------------------------------------------------------------------------------
(* One record applied to a projection.  Each operator returns the set of     *)
(* projections that may follow: one, or none where the code returns an error.*)

Projection(paths) == [paths |-> paths, pending |-> {}, dead |-> {}, dirty |-> {}]

Topology(rec) == rec.why \cap {"create", "delete", "old", "new"}

Exact(paths, rec) ==
    {p \in Aliases(paths, rec.ref) :
        p.parent = rec.parent /\ Fold[p.name] = Fold[rec.name]}

\* The alias a record names, when it is of the kind the record says.
Named(paths, rec) == {p \in Exact(paths, rec) : p.dir = rec.dir}

Subtree(paths, p) ==
    IF p.dir THEN {q \in paths : Within(q.path, p.path)} ELSE {p}

Mark(s, ps) == [s EXCEPT !.dirty = @ \cup {p.path : p \in ps}]

\* Mutant: only the name the record gives is marked.
ApplyMetadataOnce(s, rec) == {Mark(s, {p}) : p \in Named(s.paths, rec)}

\* Every alias of a file whose content or attributes changed is marked.
ApplyMetadata(s, rec) ==
    {Mark(s, Aliases(s.paths, rec.ref)) : p \in Named(s.paths, rec)}

ApplyCreate(s, rec) ==
    LET added(d) == Stable(LinkTo(rec.ref, rec.parent, rec.name, rec.dir), Append(d.path, rec.name))
        free(d)  == \A p \in s.paths : PathKey(p.path) # PathKey(added(d).path)
    IN {Mark([s EXCEPT !.paths = @ \cup {added(d)}], {added(d)}) :
           d \in {e \in ParentDirectory(s.paths, rec.parent) :
                    /\ Aliases(s.paths \cup s.dead, rec.ref) = {}
                    /\ free(e)}}

\* A second record of one deletion finds what the first one left in "dead".
ApplyDelete(s, rec) ==
    IF Aliases(s.paths, rec.ref) # {}
    THEN {LET gone == Subtree(s.paths, p)
          IN Mark([s EXCEPT !.paths = @ \ gone, !.dead = @ \cup gone], gone) :
             p \in Named(s.paths, rec)}
    ELSE {Mark([s EXCEPT !.dead = @ \ {p}], {p}) : p \in Named(s.dead, rec)}

ApplyRenameOld(s, rec) ==
    {Mark([s EXCEPT !.pending = @ \cup {p}], Subtree(s.paths, p)) : p \in Named(s.paths, rec)}

Rebased(q, old, new) == new \o SubSeq(q.path, Len(old.path) + 1, Len(q.path))

\* The old names whose rename a record may complete, with the new parent.
Completed(s, rec) ==
    {c \in s.pending \X ParentDirectory(s.paths, rec.parent) :
        LET whole == Subtree(s.paths, c[1])
            path  == Append(c[2].path, rec.name)
        IN /\ c[1].ref = rec.ref /\ c[1].dir = rec.dir
           /\ c[1].dir => ~Within(c[2].path, c[1].path)
           /\ whole # {} /\ whole \subseteq s.paths
           /\ \A q \in s.paths \ whole : \A w \in whole :
                 PathKey(q.path) # PathKey(Rebased(w, c[1], path))}

\* The link that was renamed is rewritten; all paths at or below it are.
Relocated(q, old, rec, path) ==
    Stable(IF q.ref = old.ref /\ q.parent = old.parent /\ q.name = old.name
           THEN LinkTo(rec.ref, rec.parent, rec.name, q.dir) ELSE q,
           Rebased(q, old, path))

ApplyRenameNew(s, rec) ==
    {LET whole == Subtree(s.paths, c[1])
         moved == {Relocated(q, c[1], rec, Append(c[2].path, rec.name)) : q \in whole}
     IN Mark([s EXCEPT !.paths = (@ \ whole) \cup moved, !.pending = @ \ {c[1]}], moved) :
        c \in Completed(s, rec)}

\* Records the projection cannot represent, and a rename that is not completed
\* before the file's next record.
Representable(s, rec) ==
    /\ "link" \notin rec.why
    /\ Cardinality(Topology(rec)) <= 1
    /\ (\E p \in s.pending : p.ref = rec.ref) => Topology(rec) = {"new"}

ApplyDelta(s, rec) ==
    IF ~Representable(s, rec) THEN {}
    ELSE CASE Topology(rec) = {}   -> ApplyMetadata(s, rec)
           [] "create" \in rec.why -> ApplyCreate(s, rec)
           [] "delete" \in rec.why -> ApplyDelete(s, rec)
           [] "old" \in rec.why    -> ApplyRenameOld(s, rec)
           [] "new" \in rec.why    -> ApplyRenameNew(s, rec)

\* replay_stable_deltas: all the records from one position to another.
ApplyToAll(ss, rec) == UNION {ApplyDelta(s, rec) : s \in ss}

Deltas == INSTANCE InTurn WITH Step <- ApplyToAll

Replayed(paths, from, to) ==
    Deltas!After({Projection(paths)}, SubSeq(journal, from + 1, to), to - from)

--------------------------------------------------------------------------------
(* The reader. *)

\* The entries must match the binding one to one (snapshot_entries_match_replay_binding).
Matches(entries, paths) ==
    {<<e.path, e.name, e.dir>> : e \in entries} = {<<p.path, p.name, p.dir>> : p \in paths}

\* validate_persisted_replay_window
WindowIsReadable(b, to) ==
    /\ b.id = journalId /\ lowest <= b.next /\ b.next <= to

\* validate_quiet_replay_cutoff, and verify_zero_change_baseline
Unchanged(id, at) == id = journalId /\ lowest <= at /\ Len(journal) = at

Entry(p) ==
    [path |-> p.path, name |-> p.name, dir |-> p.dir,
     stamp |-> IF p.dir THEN 0 ELSE stamp[p.ref]]

Indexed(ls) == {Entry(p) : p \in StablePaths(ls)}

NoResult == Projection({})

ReplayInit ==
    /\ VolumeInit
    /\ binding = [id |-> 1, next |-> 0, paths |-> StablePaths(links)]
    /\ index = Indexed(links)
    /\ replay = "idle" /\ cutoff = 0 /\ result = NoResult /\ fresh = {}

BeginReplay ==
    /\ replay = "idle"
    /\ Matches(index, binding.paths) /\ ValidVolume(binding.paths)
    /\ WindowIsReadable(binding, Len(journal))
    /\ binding.next # Len(journal)
    /\ replay' = "begun" /\ cutoff' = Len(journal)
    /\ UNCHANGED <<binding, index, result, fresh>>

\* A result needs every rename completed, a valid volume and a journal that can
\* be read and did not move meanwhile.
Results ==
    {s \in IF binding.id = journalId /\ lowest <= binding.next
           THEN Replayed(binding.paths, binding.next, cutoff) ELSE {} :
        s.pending = {} /\ Unchanged(binding.id, cutoff) /\ ValidVolume(s.paths)}

Replay ==
    /\ replay = "begun"
    /\ result' \in Results
    /\ replay' = "replayed"
    /\ UNCHANGED <<binding, index, cutoff, fresh>>

\* What stands at a path now, whatever its spelling, if it is of the same kind.
OnDisk(p) ==
    {o \in StablePaths(links) : PathKey(o.path) = PathKey(p.path) /\ o.dir = p.dir}

\* reconcile_replayed_snapshot_entries: the marked entries are dropped, those
\* whose path is still there are read again.
Again == {p \in result.paths : p.path \in result.dirty}

Reread(p) ==
    {[path |-> p.path, name |-> p.name, dir |-> p.dir, stamp |-> Entry(o).stamp] :
        o \in OnDisk(p)}

Reconciled ==
    {e \in index : e.path \notin result.dirty} \cup UNION {Reread(p) : p \in Again}

Reconciles == (\A p \in Again : Reread(p) # {}) /\ Matches(Reconciled, result.paths)

Reconcile ==
    /\ replay = "replayed"
    /\ Reconciles
    /\ replay' = "read" /\ fresh' = Reconciled
    /\ UNCHANGED <<binding, index, cutoff, result>>

Publish ==
    /\ replay = "read"
    /\ Unchanged(binding.id, cutoff)
    /\ binding' = [id |-> binding.id, next |-> cutoff, paths |-> result.paths]
    /\ index' = fresh
    /\ replay' = "idle" /\ result' = NoResult /\ fresh' = {}
    /\ UNCHANGED cutoff

\* Any error: the caller falls back to a complete scan.
Decline ==
    /\ \/ replay = "idle" /\ ~WindowIsReadable(binding, Len(journal))
       \/ replay = "begun" /\ Results = {}
       \/ replay = "replayed" /\ ~Reconciles
       \/ replay = "read" /\ ~Unchanged(binding.id, cutoff)
    /\ replay' = "declined" /\ result' = NoResult /\ fresh' = {}
    /\ UNCHANGED <<binding, index, cutoff>>

\* Bound: the volume is left alone once no replay of the binding can succeed.
WorthWatching ==
    /\ replay # "declined"
    /\ binding.id = journalId /\ lowest <= binding.next
    /\ \A i \in DOMAIN journal : "link" \notin journal[i].why

ReplayNext ==
    \/ WorthWatching /\ (Touch \/ MoveInTwo) /\ UNCHANGED reader
    \/ (BeginReplay \/ Replay \/ Reconcile \/ Publish \/ Decline) /\ UNCHANGED volume

ReplaySpec == ReplayInit /\ [][ReplayNext]_replayVars

--------------------------------------------------------------------------------
(* The index that rests on a binding is exact while the journal has not moved  *)
(* past it: every link of the volume is in it under its path, with the spelling*)
(* it has now, and no file that is closed is older in it than on the volume.   *)
(* A startup that finds the journal unmoved shows the index without looking at *)
(* the volume.                                                                 *)
ResumeIsExact ==
    binding.id = journalId /\ Len(journal) = binding.next =>
      /\ binding.paths = StablePaths(links)
      /\ Matches(index, binding.paths)
      /\ \A p \in {q \in binding.paths : ~q.dir /\ reasons[q.ref] = {}} :
            \A e \in index : e.path = p.path => e.stamp = stamp[p.ref]
================================================================================
