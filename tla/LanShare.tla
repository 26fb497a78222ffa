------------------------------ MODULE LanShare ------------------------------
(***************************************************************************)
(* The file share of lan_share.rs: one at a time, with a listener thread   *)
(* and a thread for each connection, until it is stopped or it expires.    *)
(* The threads of a share outlive it: stopping joins the listener only.    *)
(* One shared file is looked at; its open handle has one cursor.           *)
(***************************************************************************)
EXTENDS Naturals, Sequences, FiniteSets

CONSTANTS
    Downloads,      \* connections
    MaxConnections, \* served at once by one share
    MaxShares,      \* shares that are started
    Chunks          \* reads it takes to the end of the file

ASSUME ShareAssumption == MaxConnections \in Nat /\ MaxShares \in Nat /\ Chunks \in Nat

VARIABLES
    current,    \* the share in LanFileShareState.active; 0 is none
    started,    \* shares started
    halted,     \* shares whose stop flag is set, or that have expired
    listening,  \* shares whose listener thread runs
    leases,     \* the connection counter of each share
    cursor,     \* the position of the file each share holds open
    locked,     \* shares whose file is locked
    conn        \* each connection: its share, its step, what it has sent

shareVars == <<current, started, halted, listening, leases, cursor, locked, conn>>

Shares == 1..MaxShares
NoConn == [share |-> 0, pc |-> "closed", held |-> 0, sent |-> <<>>, late |-> 0]
Active(s) == s \notin halted

ConnAt(d, pc) == conn[d].pc = pc
ConnGoto(d, pc) == conn' = [conn EXCEPT ![d].pc = pc]
SameShare == UNCHANGED <<current, started, halted, listening>>

-----------------------------------------------------------------------------
(* The share *)

\* A share that has ended is cleaned up first.
Start ==
    /\ started < MaxShares
    /\ current # 0 => ~Active(current) /\ current \notin listening
    /\ started' = started + 1 /\ current' = started'
    /\ listening' = listening \cup {started'}
    /\ UNCHANGED <<halted, leases, cursor, locked, conn>>

\* stop takes the share away and waits for the listener; others may go on.
Stop ==
    /\ current # 0
    /\ current' = 0 /\ halted' = halted \cup {current}
    /\ UNCHANGED <<started, listening, leases, cursor, locked, conn>>

Expire(s) ==
    /\ s \in listening /\ Active(s)
    /\ halted' = halted \cup {s}
    /\ UNCHANGED <<current, started, listening, leases, cursor, locked, conn>>

\* The listener ends when it finds the share inactive, or when accepting fails.
ListenerEnds(s) ==
    /\ s \in listening
    /\ listening' = listening \ {s} /\ halted' = halted \cup {s}
    /\ UNCHANGED <<current, started, leases, cursor, locked, conn>>

\* A connection over the limit is refused at once.
Accept(s, d) ==
    /\ s \in listening /\ ConnAt(d, "closed")
    /\ leases[s] < MaxConnections
    /\ leases' = [leases EXCEPT ![s] = @ + 1]
    /\ conn' = [conn EXCEPT ![d] = [NoConn EXCEPT !.share = s, !.pc = "request"]]
    /\ SameShare /\ UNCHANGED <<cursor, locked>>

-----------------------------------------------------------------------------
(* A connection *)

\* Mutant: the file is not locked.
OpenFileShared(d) ==
    /\ ConnAt(d, "request")
    /\ locked' = locked \cup {conn[d].share}
    /\ cursor' = [cursor EXCEPT ![conn[d].share] = 1]
    /\ ConnGoto(d, "read")
    /\ SameShare /\ UNCHANGED leases

\* The file is locked for the whole transfer and read from its start.
OpenFile(d) ==
    /\ ConnAt(d, "request") /\ conn[d].share \notin locked
    /\ locked' = locked \cup {conn[d].share}
    /\ cursor' = [cursor EXCEPT ![conn[d].share] = 1]
    /\ ConnGoto(d, "read")
    /\ SameShare /\ UNCHANGED leases

\* Mutant: the transfer goes on until the end of the file.
ReadOn(d) ==
    /\ ConnAt(d, "read") /\ cursor[conn[d].share] <= Chunks
    /\ conn' = [conn EXCEPT ![d].pc = "send", ![d].held = cursor[conn[d].share]]
    /\ cursor' = [cursor EXCEPT ![conn[d].share] = @ + 1]
    /\ SameShare /\ UNCHANGED <<leases, locked>>

\* Before each read the share has to be active.
ReadChunk(d) ==
    /\ ConnAt(d, "read") /\ Active(conn[d].share) /\ cursor[conn[d].share] <= Chunks
    /\ conn' = [conn EXCEPT ![d].pc = "send", ![d].held = cursor[conn[d].share]]
    /\ cursor' = [cursor EXCEPT ![conn[d].share] = @ + 1]
    /\ SameShare /\ UNCHANGED <<leases, locked>>

SendChunk(d) ==
    /\ ConnAt(d, "send")
    /\ conn' = [conn EXCEPT ![d].pc = "read", ![d].sent = Append(@, conn[d].held),
                            ![d].late = @ + IF Active(conn[d].share) THEN 0 ELSE 1]
    /\ SameShare /\ UNCHANGED <<leases, cursor, locked>>

\* The transfer is over, the share has ended, the peer is gone or has asked for
\* something else: the file is unlocked and the lease returned.
CloseConn(d) ==
    /\ ~ConnAt(d, "closed")
    /\ locked' = locked \ (IF ConnAt(d, "request") THEN {} ELSE {conn[d].share})
    /\ leases' = [leases EXCEPT ![conn[d].share] = @ - 1]
    /\ conn' = [conn EXCEPT ![d] = NoConn]
    /\ SameShare /\ UNCHANGED cursor

ShareInit ==
    /\ current = 0 /\ started = 0 /\ halted = {} /\ listening = {} /\ locked = {}
    /\ leases = [s \in Shares |-> 0] /\ cursor = [s \in Shares |-> 1]
    /\ conn = [d \in Downloads |-> NoConn]

ShareNext ==
    \/ Start \/ Stop
    \/ \E s \in Shares :
         Expire(s) \/ ListenerEnds(s) \/ \E d \in Downloads : Accept(s, d)
    \/ \E d \in Downloads : OpenFile(d) \/ ReadChunk(d) \/ SendChunk(d) \/ CloseConn(d)

ShareSpec == ShareInit /\ [][ShareNext]_shareVars

-----------------------------------------------------------------------------
(* Properties *)

\* Connections that read one open file at the same time never get pieces of each
\* other's transfer (lan_share.rs:372): each has been sent a beginning of the file.
NoSplice == \A d \in Downloads : \A i \in 1..Len(conn[d].sent) : conn[d].sent[i] = i

\* A share that has ended sends, on each connection, no more than the piece that
\* had been read, and while it lasts serves no more connections than its limit.
EndedShareIsQuiet ==
    /\ \A d \in Downloads : conn[d].late <= 1
    /\ \A s \in Shares :
         Cardinality({d \in Downloads : conn[d].share = s}) <= MaxConnections
=============================================================================
