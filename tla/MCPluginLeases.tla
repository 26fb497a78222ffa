--------------------------- MODULE MCPluginLeases ---------------------------
(* Small instances of PluginLeases. *)
EXTENDS PluginLeases, TLC

CONSTANTS p1, p2, l1, l2, l3, c1, r1, r2, u1, u2

Symmetric == Permutations({l1, l2, l3}) \cup Permutations({u1, u2})

\* Two cases share one run: one plugin whose source changes, for one request
\* at a time, and several plugins that only compete for places.
Asked       == {r \in Requests : requests[r].pc # "idle"}
Used        == {l \in Leases : lease[l].state # "unused"}
Elsewhere   == Plugins \ Changing
OneChanges  == /\ Asked \subseteq {r1}
               /\ \A r \in Asked : requests[r].plugin \in Changing
               /\ \A l \in Used : lease[l].plugin \in Changing
               /\ \A p \in Elsewhere : commands[p] = Quiet
NothingNew  == /\ source = [p \in Plugins |-> [version |-> 1, enabled |-> TRUE]]
               /\ updates = [u \in Updates |-> NoUpdate]
               /\ detached = [p \in Plugins |-> Closed] /\ unrevoked = {}

CasesSpec == Init /\ [][Next /\ (OneChanges' \/ NothingNew')]_vars
=============================================================================
