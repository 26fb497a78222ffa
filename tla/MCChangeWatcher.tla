-------------------------- MODULE MCChangeWatcher --------------------------
(* Small instances of ChangeWatcher. *)
EXTENDS ChangeWatcher, TLC

CONSTANTS r1, r2, f1, f2

OneRoot  == {r1}
TwoRoots == {r1, r2}
TwoFiles == {f1, f2}
Together == f1 :> r1 @@ f2 :> r1
Apart    == f1 :> r1 @@ f2 :> r2
Grow     == {{r1, r2}}
Same     == {{r1}}
NoScope  == {}

\* A second start, with the complete snapshot the first one left: the index
\* is never empty, so no scan publishes the applications alone.
WarmInit ==
    /\ clock = 1 /\ touched = [f \in Files |-> 1] /\ present = [f \in Files |-> TRUE]
    /\ rootsFile = FirstRoots /\ boots = 2
    /\ snapshot \in {Snapshot(FirstRoots, [f \in Files |-> OnDisk(f)], TRUE, c)
                       : c \in {Unbound} \cup IF UseJournal THEN {clock} ELSE {}}
    /\ configured = FirstRoots
    /\ index = snapshot.index /\ apps = TRUE /\ body = Nothing
    /\ phase = "ready" /\ contentStatus = "idle"
    /\ generation = 0 /\ revision = 0 /\ startup = Binding(snapshot)
    /\ guard = Free /\ saver = NoWrite
    /\ scan = [g \in Generations |-> NoScan] /\ workers = {}
    /\ WatchInit
WarmSpec     == WarmInit /\ [][SystemNext]_allVars
=============================================================================
