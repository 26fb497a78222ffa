----------------------------- MODULE AiRequests -----------------------------
(***************************************************************************)
(* utools.ai of app.rs: a document of a plugin starts a request, a task of *)
(* the host talks to the model and asks the document to run functions, and *)
(* the document or the end of its runtime aborts it.  Starting, aborting   *)
(* and clearing run under the operation lock, the task does not; the two   *)
(* tables have a lock each.  A task that is aborted ends where it awaits.  *)
(***************************************************************************)
EXTENDS Naturals, FiniteSets

CONSTANTS
    AiTasks,        \* requests; the runtime makes an id for each
    MaxRounds,      \* rounds with the model
    MaxAiTasks,     \* requests of the plugin at once
    MaxAiDocs       \* documents the plugin ever has

ASSUME AiAssumption == {MaxRounds, MaxAiTasks, MaxAiDocs} \subseteq Nat

VARIABLES
    aiDoc,          \* the active document; 0 is none
    aiDocs,         \* documents so far
    aiClear,        \* the step of clear_plugin_runtime_state; "no" when it does not run
    clearing,       \* what it has taken from the table of requests
    task,           \* the task of each request, and the calls that handle it
    listed,         \* the table of active requests
    functions       \* the table of pending functions, by the request they are for

aiVars   == <<aiDoc, aiDocs, aiClear, clearing, task, listed, functions>>
sameDoc  == UNCHANGED <<aiDoc, aiDocs, aiClear, clearing>>

\* start, abort: the step of these calls.  handle: the record has the task's
\* abort handle, hit: somebody has used it.  answer: what the function was told.
\* completed: the document was sent the result.
NoTask == [pc |-> "none", doc |-> 0, round |-> 0, start |-> "no", abort |-> "no",
           handle |-> FALSE, hit |-> FALSE, cancelled |-> FALSE, answer |-> "none",
           completed |-> FALSE, overtaken |-> FALSE]

TaskAt(r, pc) == task[r].pc = pc
TaskGoto(r, pc) == task' = [task EXCEPT ![r].pc = pc]
Current(r) == ~task[r].cancelled /\ aiDoc = task[r].doc
BridgeFree == \A r \in AiTasks : task[r].start # "handle" /\ task[r].abort \in {"no", "done"}

-----------------------------------------------------------------------------
(* The document *)

\* A new lease replaces the old one, and a released lease ends; then the
\* runtime is cleared.  The calls of the document are over by then.
OpenAiDoc ==
    /\ aiClear = "no" /\ BridgeFree /\ aiDocs < MaxAiDocs
    /\ aiDocs' = aiDocs + 1 /\ aiDoc' = aiDocs' /\ aiClear' = "take"
    /\ UNCHANGED <<clearing, task, listed, functions>>

CloseAiDoc ==
    /\ aiClear = "no" /\ BridgeFree /\ aiDoc # 0
    /\ aiDoc' = 0 /\ aiClear' = "take"
    /\ UNCHANGED <<aiDocs, clearing, task, listed, functions>>

\* A missed heartbeat clears nothing; lifecycle.dispose clears and keeps the lease.
LoseAiDoc ==
    /\ aiDoc # 0 /\ aiDoc' = 0
    /\ UNCHANGED <<aiDocs, aiClear, clearing, task, listed, functions>>

DisposeAiDoc ==
    /\ aiClear = "no" /\ aiDoc # 0 /\ aiClear' = "take"
    /\ UNCHANGED <<aiDoc, aiDocs, clearing, task, listed, functions>>

\* clear_plugin_runtime_state: the requests are taken from their table,
ClearTakes ==
    /\ aiClear = "take" /\ aiClear' = "stop"
    /\ clearing' = {[of |-> r, handle |-> task[r].handle] : r \in listed} /\ listed' = {}
    /\ UNCHANGED <<aiDoc, aiDocs, task, functions>>

\* cancelled, with their handles if they had one,
ClearStops ==
    /\ aiClear = "stop" /\ aiClear' = "reject" /\ clearing' = {}
    /\ task' = [r \in AiTasks |->
                  IF \E x \in clearing : x.of = r
                  THEN [task[r] EXCEPT !.cancelled = TRUE,
                                       !.hit = @ \/ [of |-> r, handle |-> TRUE] \in clearing]
                  ELSE task[r]]
    /\ UNCHANGED <<aiDoc, aiDocs, listed, functions>>

Rejected(S) == [r \in AiTasks |-> IF r \in S /\ TaskAt(r, "wait") THEN [task[r] EXCEPT !.answer = "error"]
                                  ELSE task[r]]

\* and their functions are answered.
ClearRejects ==
    /\ aiClear = "reject" /\ aiClear' = "no"
    /\ functions' = {} /\ task' = Rejected(functions)
    /\ UNCHANGED <<aiDoc, aiDocs, clearing, listed>>

-----------------------------------------------------------------------------
(* Calls of the document *)

StartAi(r) ==
    /\ aiClear = "no" /\ aiDoc # 0 /\ TaskAt(r, "none")
    /\ Cardinality(listed) < MaxAiTasks
    /\ listed' = listed \cup {r}
    /\ task' = [task EXCEPT ![r] = [NoTask EXCEPT !.pc = "round", !.doc = aiDoc, !.start = "handle"]]
    /\ UNCHANGED functions /\ sameDoc

\* Mutant: a record that has gone is left alone.
SetHandleOnly(r) ==
    /\ task[r].start = "handle"
    /\ task' = [task EXCEPT ![r].start = "done", ![r].handle = r \in listed]
    /\ UNCHANGED <<listed, functions>> /\ sameDoc

\* The handle is known after the task has been spawned.  A record that has gone
\* by then was aborted, or its task is over.
SetHandle(r) ==
    /\ task[r].start = "handle"
    /\ task' = [task EXCEPT ![r].start = "done", ![r].handle = r \in listed,
                            ![r].hit = @ \/ r \notin listed]
    /\ UNCHANGED <<listed, functions>> /\ sameDoc

AbortTakes(r) ==
    /\ aiDoc = task[r].doc /\ r \in listed
    /\ listed' = listed \ {r}
    /\ task' = [task EXCEPT ![r].abort = IF task[r].handle THEN "hit" ELSE "stop"]
    /\ UNCHANGED functions /\ sameDoc

AbortStops(r) ==
    /\ task[r].abort \in {"stop", "hit"}
    /\ task' = [task EXCEPT ![r].abort = "reject", ![r].cancelled = TRUE,
                            ![r].hit = @ \/ task[r].abort = "hit"]
    /\ UNCHANGED <<listed, functions>> /\ sameDoc

\* Mutant: the functions of an aborted request are left to their time limit.
AbortEnds(r) ==
    /\ task[r].abort = "reject"
    /\ task' = [task EXCEPT ![r].abort = "done"]
    /\ UNCHANGED <<listed, functions>> /\ sameDoc

AbortRejects(r) ==
    /\ task[r].abort = "reject"
    /\ functions' = functions \ {r}
    /\ task' = [Rejected(functions \cap {r}) EXCEPT ![r].abort = "done"]
    /\ UNCHANGED listed /\ sameDoc

\* toolComplete is for the document that was asked.
FunctionAnswered(r) ==
    /\ aiClear = "no" /\ r \in functions /\ aiDoc = task[r].doc
    /\ functions' = functions \ {r}
    /\ task' = [task EXCEPT ![r].answer = IF TaskAt(r, "wait") THEN "result" ELSE @]
    /\ UNCHANGED listed /\ sameDoc

-----------------------------------------------------------------------------
(* The task *)

\* An aborted task ends where it awaits the model or a function.
TaskDropped(r) ==
    /\ task[r].hit /\ task[r].pc \in {"round", "wait", "remove"}
    /\ TaskGoto(r, "dropped")
    /\ UNCHANGED <<listed, functions>> /\ sameDoc

\* The model answers, wants a function run, or fails; a task that is not
\* current stops as well.
Round(r) ==
    /\ TaskAt(r, "round")
    /\ \/ Current(r) /\ task[r].round < MaxRounds /\ TaskGoto(r, "enter")
       \/ TaskGoto(r, "finish")
    /\ UNCHANGED <<listed, functions>> /\ sameDoc

\* Between the check of the round and here the request may have been aborted.
FunctionEnters(r) ==
    /\ TaskAt(r, "enter")
    /\ functions' = functions \cup {r}
    /\ task' = [task EXCEPT ![r].pc = "wait", ![r].answer = "none", ![r].round = @ + 1,
                            ![r].overtaken = @ \/ r \notin listed]
    /\ UNCHANGED listed /\ sameDoc

\* Two minutes are over, or the document could not be asked.
FunctionTimesOut(r) ==
    /\ TaskAt(r, "wait") /\ task[r].answer = "none" /\ TaskGoto(r, "remove")
    /\ UNCHANGED <<listed, functions>> /\ sameDoc

FunctionRemoved(r) ==
    /\ TaskAt(r, "remove") /\ functions' = functions \ {r}
    /\ TaskGoto(r, "round")
    /\ UNCHANGED listed /\ sameDoc

FunctionReturns(r) ==
    /\ TaskAt(r, "wait") /\ task[r].answer # "none" /\ TaskGoto(r, "round")
    /\ UNCHANGED <<listed, functions>> /\ sameDoc

\* The result is for a request that is still listed.
Finish(r) ==
    /\ TaskAt(r, "finish")
    /\ task' = [task EXCEPT ![r].pc = "done", ![r].completed = r \in listed /\ ~task[r].cancelled]
    /\ listed' = listed \ {r}
    /\ UNCHANGED functions /\ sameDoc

TaskStep(r) ==
    \/ TaskDropped(r) \/ Round(r) \/ Finish(r)
    \/ FunctionEnters(r) \/ FunctionTimesOut(r) \/ FunctionRemoved(r) \/ FunctionReturns(r)

AiInit ==
    /\ aiDoc = 0 /\ aiDocs = 0 /\ aiClear = "no" /\ clearing = {}
    /\ task = [r \in AiTasks |-> NoTask] /\ listed = {} /\ functions = {}

AiNext ==
    \/ OpenAiDoc \/ CloseAiDoc \/ LoseAiDoc \/ DisposeAiDoc
    \/ ClearTakes \/ ClearStops \/ ClearRejects
    \/ \E r \in AiTasks :
         \/ StartAi(r) \/ SetHandle(r) \/ AbortTakes(r) \/ AbortStops(r) \/ AbortRejects(r)
         \/ FunctionAnswered(r) \/ TaskStep(r)

AiSpec == AiInit /\ [][AiNext]_aiVars

-----------------------------------------------------------------------------
(* Properties *)

Stopped(r)  == task[r].pc # "none" /\ task[r].cancelled /\ task[r].start = "done"
TaskOver(r) == task[r].pc \in {"dropped", "done"}

\* A document that has aborted a request never gets its result, and once abort
\* and start are over the task is told to end, in whichever order the two were
\* and wherever the task was (app.rs:7008 and 7033).
AbortIsFinal ==
    \A r \in AiTasks : /\ task[r].abort # "no" => ~task[r].completed
                       /\ Stopped(r) => task[r].hit \/ TaskOver(r)

Stopping(r) == \/ task[r].abort \in {"stop", "hit", "reject"}
               \/ aiClear = "reject" \/ \E x \in clearing : x.of = r

\* Places in the two tables come back: each request in the one has a task that
\* will remove it, and each function in the other a task that waits for it, but
\* for a function that was entered after its request had been aborted (app.rs:7132).
TablesDrain ==
    /\ \A r \in listed : ~TaskOver(r) /\ ~task[r].hit
    /\ \A r \in functions :
         task[r].pc \in {"wait", "remove"} \/ task[r].overtaken \/ Stopping(r)
=============================================================================
