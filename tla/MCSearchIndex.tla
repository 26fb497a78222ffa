--------------------------- MODULE MCSearchIndex ---------------------------
(* Small instances of SearchIndex. *)
EXTENDS SearchIndex, TLC

CONSTANTS r1, r2, r3, f1, f2

ThreeRoots == {r1, r2, r3}
TwoRoots   == {r1, r2}
OneRoot    == {r1}
TwoFiles   == {f1, f2}
OneFile    == {f1}
Apart      == f1 :> r1 @@ f2 :> r2
There      == f1 :> r1
AnyScope   == SUBSET Roots \ {{}}
SameScope  == {{r1}}
OtherScope == {{r2}, {r3}}
NoScope    == {}

\* A first start, whose process runs on while files change; or a later one with a
\* snapshot of files that have been deleted since, which may be followed by others.
TwoInits ==
    /\ rootsFile = FirstRoots /\ configured = FirstRoots
    /\ \/ /\ clock = 1 /\ boots = MaxBoots
          /\ present = [f \in Files |-> TRUE] /\ snapshot = NoSnapshot
       \/ /\ clock = MaxClock /\ boots = 1
          /\ present = [f \in Files |-> FALSE]
          /\ snapshot = Snapshot(FirstRoots, [f \in Files |-> 1], TRUE, 1)
    /\ touched = [f \in Files |-> clock]
    /\ index = snapshot.index /\ apps = snapshot.apps /\ body = Nothing
    /\ phase = IF apps THEN "ready" ELSE "idle"
    /\ contentStatus = "idle"
    /\ generation = 0 /\ revision = 0 /\ startup = Binding(snapshot)
    /\ guard = Free /\ saver = NoWrite
    /\ scan = [g \in Generations |-> NoScan] /\ workers = {}
TwoStarts == TwoInits /\ [][Next]_vars
=============================================================================
