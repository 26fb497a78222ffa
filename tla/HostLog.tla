------------------------------ MODULE HostLog ------------------------------
(***************************************************************************)
(* The diagnostics of host_log.rs: an active file and rotated ones, moved  *)
(* up one slot when the active one is full.  Every rename may fail, which  *)
(* ends the write, and the process may end between two of them.            *)
(***************************************************************************)
EXTENDS Naturals, Sequences

CONSTANTS
    LogFiles,   \* files kept, the active one among them
    FileRoom,   \* entries a file has room for
    MaxEntries  \* entries that are written; they are numbered

ASSUME LogAssumption == LogFiles \in Nat \ {0, 1} /\ FileRoom \in Nat \ {0} /\ MaxEntries \in Nat

VARIABLES
    logs,       \* the readable entries of each file; slot 0 is the active one
    torn,       \* the active file ends in a part of an entry
    moving,     \* the slot a rotation moves next; LogFiles when there is none
    logged,     \* entries written
    spoilt      \* history: entries whose write ended with the process, or that
                \* were appended to a part of another

logVars == <<logs, torn, moving, logged, spoilt>>

Slots == 0..(LogFiles - 1)
EntriesOf(s) == {logs[s][i] : i \in 1..Len(logs[s])}
Kept == UNION {EntriesOf(s) : s \in Slots}
NotMoving == moving = LogFiles

\* An entry that follows a part of another on its line cannot be read.
AppendEntry(n) ==
    /\ logged' = n /\ moving' = LogFiles
    /\ \/ /\ logs' = IF torn THEN logs ELSE [logs EXCEPT ![0] = Append(@, n)]
          /\ spoilt' = IF torn THEN spoilt \cup {n} ELSE spoilt
          /\ torn' = FALSE
       \/ torn' = TRUE /\ spoilt' = spoilt \cup {n} /\ UNCHANGED logs

\* write, while there is room, or where the rotation has made some.
WriteEntry ==
    /\ logged < MaxEntries
    /\ NotMoving /\ Len(logs[0]) < FileRoom
    /\ AppendEntry(logged + 1)

\* A full file: the oldest one is removed first.
RotateBegin ==
    /\ NotMoving /\ logged < MaxEntries /\ Len(logs[0]) >= FileRoom
    /\ logs' = [logs EXCEPT ![LogFiles - 1] = <<>>]
    /\ moving' = LogFiles - 2
    /\ UNCHANGED <<torn, logged, spoilt>>

\* From the oldest slot on, each that is there is moved up; then the active one.
RotateSlot ==
    /\ ~NotMoving
    /\ logs' = IF logs[moving] = <<>> THEN logs
               ELSE [logs EXCEPT ![moving + 1] = logs[moving], ![moving] = <<>>]
    /\ torn' = (torn /\ moving # 0)
    /\ moving' = IF moving = 0 THEN LogFiles ELSE moving - 1
    /\ UNCHANGED <<logged, spoilt>>

\* Mutant: a slot that cannot be renamed is passed over.
RotatePassesOver ==
    /\ ~NotMoving /\ moving' = IF moving = 0 THEN LogFiles ELSE moving - 1
    /\ UNCHANGED <<logs, torn, logged, spoilt>>

\* A rename fails or the process ends.
RotateStops ==
    /\ ~NotMoving /\ moving' = LogFiles
    /\ UNCHANGED <<logs, torn, logged, spoilt>>

\* clear removes the active file first and stops where it fails.
ClearLog ==
    /\ NotMoving
    /\ \E n \in 1..LogFiles : logs' = [s \in Slots |-> IF s < n THEN <<>> ELSE logs[s]]
    /\ torn' = FALSE
    /\ spoilt' = spoilt \cup (Kept \ UNION {{logs'[s][i] : i \in 1..Len(logs'[s])} : s \in Slots})
    /\ UNCHANGED <<moving, logged>>

LogInit ==
    /\ logs = [s \in Slots |-> <<>>] /\ torn = FALSE /\ moving = LogFiles
    /\ logged = 0 /\ spoilt = {}

LogNext == WriteEntry \/ RotateBegin \/ RotateSlot \/ RotateStops \/ ClearLog

LogSpec == LogInit /\ [][LogNext]_logVars

-----------------------------------------------------------------------------
(* Properties *)

\* snapshot reads the files from the oldest slot to the active one (host_log.rs:158)
\* and takes that for the order of time: it is, wherever a rotation stopped.  Only
\* the oldest entries make room: what is kept is every entry from some one on, but
\* for those that never became readable.
LogKeepsNewest ==
    /\ \A s, t \in Slots : s < t => \A m \in EntriesOf(t), n \in EntriesOf(s) : m < n
    /\ \A s \in Slots : \A i, j \in 1..Len(logs[s]) : i < j => logs[s][i] < logs[s][j]
    /\ \A n \in 1..logged : (\E k \in Kept : k < n) => n \in Kept \cup spoilt
=============================================================================
