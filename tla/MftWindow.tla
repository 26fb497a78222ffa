------------------------------- MODULE MftWindow -------------------------------
(***************************************************************************)
(* The first reading of a drive root from the file table of its volume:    *)
(* ntfs_usn.rs, enumerate_volume_root and MftPathState.                    *)
(*                                                                         *)
(* The table is enumerated call by call while programs go on changing the  *)
(* volume, so what was gathered is of no one moment.  The journal records  *)
(* of the time between a query before the enumeration and one after it are *)
(* applied to what was gathered; the result should be the tree at the      *)
(* second query.  A record that is ambiguous gives the whole reading up.   *)
(* The window takes the two records of a rename for adjacent, as NTFS      *)
(* writes them: one query never falls between them.                        *)
(***************************************************************************)
EXTENDS NtfsVolume

VARIABLES window,    \* "closed", "open", "gathered", "read" or "failed"
          opened,    \* [id, at]: the journal at the first query
          nextRef,   \* the references enumerated so far are those below
          table,     \* the records gathered: links
          seed       \* [id, next, entries]: what a complete reading yields

windowReader == <<window, opened, nextRef, table, seed>>
windowVars == <<volume, windowReader>>

NoSeed == [id |-> 0, next |-> 0, entries |-> {}]

\* MftPathResolver: the references that can be resolved and their paths, one
\* level deeper.
Deeper(at, recs) ==
    at \cup {<<x[1].ref, Append(x[2][2], x[1].name)>> :
                x \in {y \in recs \X at : y[1].parent = y[2][1]}}

Levels == INSTANCE InTurn WITH Step <- Deeper

Resolved(recs) ==
    LET n == Cardinality(recs)
    IN Levels!After({<<Root, <<>>>>}, [i \in 1..n |-> recs], n)

\* Records each of which has its parent among them go round in a circle.
Cyclic(recs) ==
    \E circle \in SUBSET recs :
        circle # {} /\ \A l \in circle : \E k \in circle : k.ref = l.parent

\* build_entries: an error for a cycle, or when nothing reaches the root.
Entries(recs) ==
    {[link |-> x[1], path |-> Append(x[2][2], x[1].name)] :
        x \in {y \in recs \X Resolved(recs) : y[1].parent = y[2][1]}}

Buildable(recs) == ~Cyclic(recs) /\ (recs # {} => Entries(recs) # {})

WindowTopology(rec) == rec.why \cap {"create", "delete", "old", "new"}

\* Mutant: a rename is only the new name.
ApplyToTableNew(recs, rec) ==
    LET l == LinkTo(rec.ref, rec.parent, rec.name, rec.dir)
    IN IF rec.why \cap {"create", "new"} # {} THEN {recs \cup {l}}
       ELSE {IF "delete" \in rec.why THEN recs \ {l} ELSE recs}

\* MftPathState::apply_delta: the records that may follow, none for an error.
ApplyToTable(recs, rec) ==
    LET l == LinkTo(rec.ref, rec.parent, rec.name, rec.dir)
    IN IF "link" \in rec.why \/ Cardinality(WindowTopology(rec)) > 1 THEN {}
       ELSE IF WindowTopology(rec) = {} THEN {recs}
       ELSE IF rec.why \cap {"create", "new"} = {}
       THEN {{k \in recs : k.ref # rec.ref \/ k.parent # rec.parent \/ k.name # rec.name}}
       ELSE IF rec.parent = Root \/ LinksOf(recs, rec.parent) # {} THEN {recs \cup {l}} ELSE {}

ApplyToTables(tables, rec) == UNION {ApplyToTable(recs, rec) : recs \in tables}

Tables == INSTANCE InTurn WITH Step <- ApplyToTables

WindowApplied(recs, from, to) ==
    Tables!After({recs}, SubSeq(journal, from + 1, to), to - from)

WindowInit ==
    /\ VolumeInit
    /\ window = "closed" /\ opened = [id |-> 0, at |-> 0] /\ nextRef = 0
    /\ table = {} /\ seed = NoSeed

OpenWindow ==
    /\ window = "closed"
    /\ window' = "open" /\ opened' = [id |-> journalId, at |-> Len(journal)]
    /\ UNCHANGED <<nextRef, table, seed>>

\* One call returns the records from a reference up to another, in their order.
EnumerateCall ==
    /\ window = "open"
    /\ \E upTo \in {r \in Refs : r > nextRef} :
         /\ nextRef' = upTo
         /\ table' = table \cup {l \in links : l.ref > nextRef /\ l.ref <= upTo}
    /\ UNCHANGED <<window, opened, seed>>

\* After the last call the paths are built once before the window is closed.
Gathered ==
    /\ window = "open" /\ \A r \in Refs : r <= nextRef
    /\ window' = IF Buildable(table) THEN "gathered" ELSE "failed"
    /\ UNCHANGED <<opened, nextRef, table, seed>>

\* validate_initialization_replay_window
WindowHolds(to) == opened.id = journalId /\ lowest <= opened.at /\ opened.at <= to

\* The second query and the replay up to it; the records between are not written again.
Closed ==
    {recs \in IF WindowHolds(Len(journal))
              THEN WindowApplied(table, opened.at, Len(journal)) ELSE {} : Buildable(recs)}

CloseWindow ==
    /\ window = "gathered"
    /\ \E recs \in Closed :
         /\ table' = recs
         /\ seed' = [id |-> journalId, next |-> Len(journal), entries |-> Entries(recs)]
    /\ window' = "read"
    /\ UNCHANGED <<opened, nextRef>>

WindowFails ==
    /\ window = "gathered" /\ Closed = {}
    /\ window' = "failed"
    /\ UNCHANGED <<opened, nextRef, table, seed>>

\* Bound: the volume is left alone once the reading is over, or can only fail.
WindowStillOpen ==
    /\ window = "closed" => Len(journal) = 0
    /\ window \in {"closed", "open", "gathered"}
    /\ window # "closed" => opened.id = journalId /\ lowest <= opened.at
    /\ \A i \in DOMAIN journal : "link" \notin journal[i].why

WindowNext ==
    \/ WindowStillOpen /\ (Touch \/ MoveWhole) /\ UNCHANGED windowReader
    \/ /\ OpenWindow \/ EnumerateCall \/ Gathered \/ CloseWindow \/ WindowFails
       /\ UNCHANGED volume

WindowSpec == WindowInit /\ [][WindowNext]_windowVars

(* A reading that was not given up is of one moment: the entries are exactly    *)
(* the links of the volume at the second query, each under the path it has      *)
(* then, with nothing of an older name or a deleted file left.                  *)
WindowIsOneMoment ==
    window = "read" =>
      seed.entries = {[link |-> l, path |-> PathOf(links, l)] : l \in links}
================================================================================
