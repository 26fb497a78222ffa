---------------------------- MODULE PluginCalls ----------------------------
(***************************************************************************)
(* What the host asks of the document of a plugin (app.rs): a search of    *)
(* one of its providers, the selection of a result it pushed, a tool.  A   *)
(* call waits outside the operation lock in a table of its kind; answers   *)
(* come as calls of the document, under that lock.  When the document is   *)
(* replaced or ends, the tables are cleared one after the other.           *)
(***************************************************************************)
EXTENDS Naturals, FiniteSets

CONSTANTS
    HostCalls,      \* callers
    MaxCallDocs,    \* documents the plugin ever has
    MaxWaiting,     \* entries of a table
    MaxIssued       \* searches whose results can be selected

ASSUME CallAssumption == {MaxCallDocs, MaxWaiting, MaxIssued} \subseteq Nat

VARIABLES
    callDoc,        \* the active document; 0 is none
    callDocs,       \* documents so far
    callClear,      \* the step of clear_plugin_runtime_state
    provider,       \* the search provider is registered
    handler,        \* the document that registered the tool; 0 is none
    caller,         \* each caller
    waiting,        \* the tables: callers with an entry
    issuedCount     \* searches whose results can still be selected

callVars    == <<callDoc, callDocs, callClear, provider, handler, caller, waiting, issuedCount>>
sameCallDoc == UNCHANGED <<callDoc, callDocs, callClear>>
sameHandlers == UNCHANGED <<provider, handler>>

\* to: the document the event went to.  answer: what is in the channel of the caller.
NoCaller == [pc |-> "none", kind |-> "none", to |-> 0, answer |-> "none"]
CallerAt(c, pc) == caller[c].pc = pc
Of(kind) == {c \in waiting : caller[c].kind = kind}
Answers(S, a) == [c \in HostCalls |-> IF c \in S /\ caller[c].answer = "none"
                                      THEN [caller[c] EXCEPT !.answer = a] ELSE caller[c]]

-----------------------------------------------------------------------------
(* The document *)

OpenCallDoc ==
    /\ callClear = "no" /\ callDocs < MaxCallDocs
    /\ callDocs' = callDocs + 1 /\ callDoc' = callDocs' /\ callClear' = "search"
    /\ UNCHANGED <<caller, waiting, issuedCount>> /\ sameHandlers

CloseCallDoc ==
    /\ callClear = "no" /\ callDoc # 0
    /\ callDoc' = 0 /\ callClear' = "search"
    /\ UNCHANGED <<callDocs, caller, waiting, issuedCount>> /\ sameHandlers

LoseCallDoc ==
    /\ callDoc # 0 /\ callDoc' = 0
    /\ UNCHANGED <<callDocs, callClear, caller, waiting, issuedCount>> /\ sameHandlers

DisposeCallDoc ==
    /\ callClear = "no" /\ callDoc # 0 /\ callClear' = "search"
    /\ UNCHANGED <<callDoc, callDocs, caller, waiting, issuedCount>> /\ sameHandlers

RegisterHandlers ==
    /\ callClear = "no" /\ callDoc # 0
    /\ provider' = TRUE /\ handler' \in {handler, callDoc}
    /\ UNCHANGED <<caller, waiting, issuedCount>> /\ sameCallDoc

-----------------------------------------------------------------------------
(* clear_plugin_runtime_state: what is in a table is taken out and answered. *)

ClearTable(kind, next) ==
    /\ callClear = kind /\ callClear' = next
    /\ waiting' = waiting \ Of(kind) /\ caller' = Answers(Of(kind), "error")
    /\ UNCHANGED <<callDoc, callDocs>>

ClearStep ==
    \/ ClearTable("search", "push") /\ provider' = FALSE /\ UNCHANGED <<handler, issuedCount>>
    \/ ClearTable("push", "tool") /\ UNCHANGED issuedCount /\ sameHandlers
    \/ ClearTable("tool", "issued") /\ handler' = 0 /\ UNCHANGED <<provider, issuedCount>>
    \/ /\ callClear = "issued" /\ callClear' = "no" /\ issuedCount' = 0
       /\ UNCHANGED <<callDoc, callDocs, caller, waiting>> /\ sameHandlers

-----------------------------------------------------------------------------
(* Callers *)

CallerSays(c, pc) == caller' = [caller EXCEPT ![c].pc = pc]
CallerDone(c) == caller' = [caller EXCEPT ![c] = NoCaller]
HasResults(c) == caller[c].kind = "search" /\ caller[c].answer = "ok"

\* A selection takes the results it is made from.
Begins(c, kind) ==
    /\ CallerAt(c, "none")
    /\ CASE kind = "search" -> provider /\ UNCHANGED issuedCount
         [] kind = "push"   -> provider /\ issuedCount > 0 /\ issuedCount' = issuedCount - 1
         [] kind = "tool"   -> handler # 0 /\ handler = callDoc /\ UNCHANGED issuedCount
    /\ caller' = [caller EXCEPT ![c] = [NoCaller EXCEPT !.pc = "enter", !.kind = kind,
                                            !.to = IF kind = "tool" THEN handler ELSE 0]]
    /\ UNCHANGED waiting /\ sameCallDoc /\ sameHandlers

\* The runtime may have been cleared since.
Enters(c) ==
    /\ CallerAt(c, "enter")
    /\ \/ /\ Cardinality(Of(caller[c].kind)) < MaxWaiting
          /\ waiting' = waiting \cup {c} /\ CallerSays(c, "emit")
       \/ CallerDone(c) /\ UNCHANGED waiting
    /\ UNCHANGED issuedCount /\ sameCallDoc /\ sameHandlers

\* The event goes to the window the document is in; the window of a tool's
\* handler may have another document by now.  Emitting may fail.
Emits(c) ==
    /\ CallerAt(c, "emit")
    /\ \/ /\ caller' = [caller EXCEPT ![c].pc = "wait",
                          ![c].to = IF caller[c].kind = "tool" THEN @ ELSE callDoc]
          /\ UNCHANGED waiting
       \/ CallerSays(c, "remove") /\ UNCHANGED waiting
    /\ UNCHANGED issuedCount /\ sameCallDoc /\ sameHandlers

\* recv_timeout: the answer, or the time limit.  Only a tool's caller knows that
\* an answer has removed its entry.
Waits(c) ==
    /\ CallerAt(c, "wait")
    /\ IF caller[c].answer # "none" /\ caller[c].kind = "tool" THEN CallerDone(c)
                                                              ELSE CallerSays(c, "remove")
    /\ UNCHANGED <<waiting, issuedCount>> /\ sameCallDoc /\ sameHandlers

\* Mutant: a caller that runs into its time limit leaves its entry behind.
RemovesIfAnswered(c) ==
    /\ CallerAt(c, "remove")
    /\ waiting' = IF caller[c].answer # "none" THEN waiting \ {c} ELSE waiting
    /\ IF HasResults(c) THEN CallerSays(c, "issue") ELSE CallerDone(c)
    /\ UNCHANGED issuedCount /\ sameCallDoc /\ sameHandlers

Removes(c) ==
    /\ CallerAt(c, "remove") /\ waiting' = waiting \ {c}
    /\ IF HasResults(c) THEN CallerSays(c, "issue") ELSE CallerDone(c)
    /\ UNCHANGED issuedCount /\ sameCallDoc /\ sameHandlers

\* The oldest results make room.
Issues(c) ==
    /\ CallerAt(c, "issue") /\ CallerDone(c)
    /\ issuedCount' = IF issuedCount < MaxIssued THEN issuedCount + 1 ELSE issuedCount
    /\ UNCHANGED waiting /\ sameCallDoc /\ sameHandlers

\* The launcher gives a tool up; results expire.
CancelsTool(c) ==
    /\ c \in Of("tool") /\ waiting' = waiting \ {c} /\ caller' = Answers({c}, "error")
    /\ UNCHANGED issuedCount /\ sameCallDoc /\ sameHandlers

ResultsExpire ==
    /\ issuedCount > 0 /\ issuedCount' = issuedCount - 1
    /\ UNCHANGED <<caller, waiting>> /\ sameCallDoc /\ sameHandlers

-----------------------------------------------------------------------------
(* Answers: of the document that was asked, while it is active *)

MayAnswer(c) ==
    /\ callClear = "no" /\ c \in waiting
    /\ callDoc # 0 /\ caller[c].to = callDoc /\ ~CallerAt(c, "emit")

AnswersCall(c) ==
    /\ MayAnswer(c) /\ caller[c].kind # "push"
    /\ waiting' = waiting \ {c}
    /\ \E a \in {"ok", "error"} : caller' = Answers({c}, a)
    /\ UNCHANGED issuedCount /\ sameCallDoc /\ sameHandlers

\* A selection is answered once and stays in the table, for the input methods
\* that claim it, until its caller goes on.
AnswersSelection(c) ==
    /\ MayAnswer(c) /\ caller[c].kind = "push" /\ caller[c].answer = "none"
    /\ caller' = Answers({c}, "ok")
    /\ UNCHANGED <<waiting, issuedCount>> /\ sameCallDoc /\ sameHandlers

CallsInit ==
    /\ callDoc = 0 /\ callDocs = 0 /\ callClear = "no" /\ provider = FALSE /\ handler = 0
    /\ caller = [c \in HostCalls |-> NoCaller] /\ waiting = {} /\ issuedCount = 0

CallsNext ==
    \/ OpenCallDoc \/ CloseCallDoc \/ LoseCallDoc \/ DisposeCallDoc \/ RegisterHandlers \/ ClearStep
    \/ ResultsExpire
    \/ \E c \in HostCalls :
         \/ Enters(c) \/ Emits(c) \/ Waits(c) \/ Removes(c) \/ Issues(c)
         \/ CancelsTool(c) \/ AnswersCall(c) \/ AnswersSelection(c)
         \/ \E kind \in {"search", "push", "tool"} : Begins(c, kind)

CallsSpec == CallsInit /\ [][CallsNext]_callVars

-----------------------------------------------------------------------------
(* Properties *)

\* An entry has a caller that will remove it, and a caller that still waits has
\* an entry through which it can be answered: neither a place in a table nor an
\* answer is lost, however clearing, cancelling, answering and the time limits
\* fall together (app.rs:9781 and 6700).
NobodyForgotten ==
    \A c \in HostCalls :
        /\ c \in waiting => caller[c].pc \in {"emit", "wait", "remove"}
        /\ caller[c].pc \in {"emit", "wait"} /\ caller[c].answer = "none" => c \in waiting
=============================================================================
