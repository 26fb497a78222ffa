------------------------------ MODULE SuperPanel ------------------------------
(***************************************************************************)
(* The long right click that opens the panel: super_panel.rs and the       *)
(* commands of app.rs that use it.  Commands run one after another on the  *)
(* main thread; each listener has a hook in the system and a detector      *)
(* thread, whose callback shows the window and for that needs the main     *)
(* thread.  A listener that cannot be stopped in time stays in its slot.   *)
(***************************************************************************)
EXTENDS Naturals, FiniteSets

CONSTANTS Listeners,      \* bound: listeners started, in any order
          NoListener,
          MaxTriggers,    \* bound: gestures
          MaxPanelFaults  \* bound: saves, hooks and starts that fail

ASSUME PanelAssumption ==
    /\ NoListener \notin Listeners
    /\ MaxTriggers \in Nat /\ MaxPanelFaults \in Nat

VARIABLES
    enabled, accepting, \* the two gates of a gesture
    panelChoice,         \* the saved choice
    slot,               \* the listener the state owns
    hook,               \* listener -> does the system call it?
    detector,           \* listener -> its thread
    stopping,           \* listeners told to stop
    unused,            \* the token of a gesture nobody has used yet; 0: none
    tokens,             \* tokens issued so far
    panelCommand,       \* what the main thread is doing
    panelFaults

panelVars == <<enabled, accepting, panelChoice, slot, hook, detector, stopping, unused,
               tokens, panelCommand, panelFaults>>
gates     == <<enabled, accepting, panelChoice>>
threads   == <<hook, detector, stopping>>

Idle       == [pc |-> "idle", next |-> "none"]
Doing(p, n) == [pc |-> p, next |-> n]
PanelFault  == panelFaults < MaxPanelFaults /\ panelFaults' = panelFaults + 1

\* A detector is not started, waits, has a gesture, is in its callback past the
\* gates, shows the window, or has ended.
PanelInit ==
    /\ enabled = FALSE /\ accepting = FALSE /\ panelChoice = FALSE
    /\ slot = NoListener
    /\ hook = [l \in Listeners |-> FALSE]
    /\ detector = [l \in Listeners |-> "none"]
    /\ stopping = {} /\ unused = 0 /\ tokens = 0
    /\ panelCommand = Idle /\ panelFaults = 0

--------------------------------------------------------------------------------
(* Commands.  Stopping gates the callbacks first, then asks the listener to  *)
(* stop and waits for its thread, at most for a while.                       *)

\* set_enabled_persisted(true): a choice that cannot be saved changes nothing.
Enable ==
    /\ panelCommand = Idle
    /\ panelChoice' = TRUE /\ enabled' = TRUE
    /\ panelCommand' = Doing("ensure", "none")
    /\ UNCHANGED <<accepting, slot, threads, unused, tokens, panelFaults>>

\* set_enabled(false), for the command, for a listener that failed, and at exit,
\* where only the gate of the listener is closed.
Disable(next) ==
    /\ enabled' = (enabled /\ next = "exit")
    /\ panelCommand' = Doing("revoke", next)
    /\ accepting' = (accepting /\ next # "exit")

DisableAsked ==
    /\ panelCommand = Idle
    /\ Disable("persist")
    /\ UNCHANGED <<panelChoice, slot, threads, unused, tokens, panelFaults>>

ExitAsked ==
    /\ panelCommand = Idle
    /\ Disable("exit")
    /\ UNCHANGED <<panelChoice, slot, threads, unused, tokens, panelFaults>>

Revoke ==
    /\ panelCommand.pc = "revoke"
    /\ unused' = 0
    /\ panelCommand' = Doing("gate", panelCommand.next)
    /\ UNCHANGED <<gates, slot, threads, tokens, panelFaults>>

CloseGate ==
    /\ panelCommand.pc = "gate"
    /\ accepting' = FALSE
    /\ panelCommand' = Doing(IF slot = NoListener THEN "stopped" ELSE "stop", panelCommand.next)
    /\ UNCHANGED <<enabled, panelChoice, slot, threads, unused, tokens, panelFaults>>

\* The caller removes the hook itself; that may fail until the hook's own
\* thread ends.
StopListener ==
    /\ panelCommand.pc = "stop"
    /\ stopping' = stopping \cup {slot}
    /\ \/ hook' = [hook EXCEPT ![slot] = FALSE] /\ UNCHANGED panelFaults
       \/ hook[slot] /\ PanelFault /\ UNCHANGED hook
    /\ panelCommand' = Doing("join", panelCommand.next)
    /\ UNCHANGED <<gates, slot, detector, unused, tokens>>

Joined ==
    /\ panelCommand.pc = "join"
    /\ detector[slot] = "ended" /\ ~hook[slot]
    /\ slot' = NoListener
    /\ panelCommand' = Doing("stopped", panelCommand.next)
    /\ UNCHANGED <<gates, threads, unused, tokens, panelFaults>>

\* The wait ends without the thread, or with the hook still there: the listener
\* stays in its slot for the next attempt.
NotStopped ==
    /\ panelCommand.pc = "join"
    /\ detector[slot] # "ended" \/ hook[slot]
    /\ panelCommand' = IF panelCommand.next = "start"
                       THEN Doing("failed", "none") ELSE Doing("stopped", panelCommand.next)
    /\ UNCHANGED <<gates, slot, threads, unused, tokens, panelFaults>>

\* After the stop: the choice is saved, if it can be, or a new listener started.
AfterStop ==
    /\ panelCommand.pc = "stopped"
    /\ \/ /\ panelCommand.next = "persist"
          /\ panelChoice' = FALSE /\ panelCommand' = Idle /\ UNCHANGED panelFaults
       \/ /\ panelCommand.next = "persist"
          /\ PanelFault /\ panelCommand' = Idle /\ UNCHANGED panelChoice
       \/ /\ panelCommand.next \in {"start", "exit"}
          /\ panelCommand' = Doing(panelCommand.next, "none") /\ UNCHANGED <<panelChoice, panelFaults>>
    /\ UNCHANGED <<enabled, accepting, slot, threads, unused, tokens>>

\* is_usable
Usable(l) == hook[l] /\ l \notin stopping /\ detector[l] \notin {"none", "ended"}

\* ensure_listener: the running listener, or a new one once the stale one is gone.
Ensure ==
    /\ panelCommand.pc = "ensure"
    /\ IF slot # NoListener /\ Usable(slot)
       THEN accepting' = TRUE /\ panelCommand' = Idle
       ELSE /\ panelCommand' = IF slot = NoListener THEN Doing("start", "none")
                               ELSE Doing("stop", "start")
            /\ UNCHANGED accepting
    /\ UNCHANGED <<enabled, panelChoice, slot, threads, unused, tokens, panelFaults>>

\* A start that fails ends what it had started, or keeps it in the slot.
StartNew ==
    /\ panelCommand.pc = "start"
    /\ \E l \in {k \in Listeners : detector[k] = "none"} :
         \/ /\ slot' = l /\ accepting' = TRUE
            /\ hook' = [hook EXCEPT ![l] = TRUE]
            /\ detector' = [detector EXCEPT ![l] = "waits"]
            /\ panelCommand' = Idle
            /\ UNCHANGED <<stopping, panelFaults>>
         \/ /\ PanelFault
            /\ stopping' = stopping \cup {l}
            /\ \/ slot' = NoListener /\ detector' = [detector EXCEPT ![l] = "ended"]
                  /\ UNCHANGED hook
               \/ slot' = l /\ detector' = [detector EXCEPT ![l] = "waits"]
                  /\ \E b \in BOOLEAN : hook' = [hook EXCEPT ![l] = b]
            /\ panelCommand' = Doing("failed", "none")
            /\ UNCHANGED accepting
    /\ UNCHANGED <<enabled, panelChoice, unused, tokens>>

\* listener_failed
StartFailed ==
    /\ panelCommand.pc = "failed"
    /\ Disable("persist")
    /\ UNCHANGED <<panelChoice, slot, threads, unused, tokens, panelFaults>>

\* The process ends with all its threads and hooks; the next one starts a
\* listener if the saved choice says so.
PanelRestart ==
    /\ panelCommand.pc = "exit"
    /\ enabled' = panelChoice /\ accepting' = FALSE
    /\ slot' = NoListener /\ unused' = 0
    /\ hook' = [l \in Listeners |-> FALSE]
    /\ detector' = [l \in Listeners |-> IF detector[l] = "none" THEN "none" ELSE "ended"]
    /\ panelCommand' = IF panelChoice THEN Doing("ensure", "none") ELSE Idle
    /\ UNCHANGED <<panelChoice, stopping, tokens, panelFaults>>

\* consume_context, with the unused token; any other leaves it.
Consume ==
    /\ panelCommand = Idle /\ unused # 0
    /\ unused' = 0
    /\ UNCHANGED <<gates, slot, threads, tokens, panelCommand, panelFaults>>

--------------------------------------------------------------------------------
(* A detector thread *)

Moves(l, from, to) == detector[l] = from /\ detector' = [detector EXCEPT ![l] = to]

\* A gesture reaches the detector through the hook.
Gesture(l) ==
    /\ hook[l] /\ l \notin stopping /\ tokens < MaxTriggers
    /\ Moves(l, "waits", "gesture")
    /\ UNCHANGED <<gates, slot, hook, stopping, unused, tokens, panelCommand, panelFaults>>

\* The first look at the gates, without the lock of the token.
PassGates(l) ==
    /\ Moves(l, "gesture", IF enabled /\ accepting THEN "past" ELSE "waits")
    /\ UNCHANGED <<gates, slot, hook, stopping, unused, tokens, panelCommand, panelFaults>>

\* Mutant: the gates are not read again.
StillOpenUnchecked == TRUE

\* With the lock the gates are read again.
StillOpen == enabled /\ accepting

Issue(l) ==
    /\ tokens < MaxTriggers
    /\ Moves(l, "past", IF StillOpen THEN "shows" ELSE "waits")
    /\ IF StillOpen THEN tokens' = tokens + 1 /\ unused' = tokens + 1
                    ELSE UNCHANGED <<tokens, unused>>
    /\ UNCHANGED <<gates, slot, hook, stopping, panelCommand, panelFaults>>

\* Showing the window needs the main thread, which a command keeps.
Show(l) ==
    /\ panelCommand = Idle
    /\ Moves(l, "shows", "waits")
    /\ UNCHANGED <<gates, slot, hook, stopping, unused, tokens, panelCommand, panelFaults>>

\* A listener told to stop ends its threads and with them the hook.
EndThreads(l) ==
    /\ l \in stopping /\ Moves(l, "waits", "ended")
    /\ hook' = [hook EXCEPT ![l] = FALSE]
    /\ UNCHANGED <<gates, slot, stopping, unused, tokens, panelCommand, panelFaults>>

PanelNext ==
    \/ Enable \/ DisableAsked \/ ExitAsked \/ Revoke \/ CloseGate \/ StopListener \/ Joined
    \/ NotStopped \/ AfterStop \/ Ensure \/ StartNew \/ StartFailed \/ PanelRestart \/ Consume
    \/ \E l \in Listeners :
          Gesture(l) \/ PassGates(l) \/ Issue(l) \/ Show(l) \/ EndThreads(l)

PanelSpec == PanelInit /\ [][PanelNext]_panelVars

--------------------------------------------------------------------------------
(* Once a command has switched the panel off no gesture is waiting to be used:  *)
(* not even one that had passed the gates before, in a thread the command could *)
(* not wait for.  And no listener goes on outside the slot, where nothing would *)
(* stop it any more, so that two never watch the mouse together.                *)
OffIsOff ==
    /\ panelCommand = Idle /\ ~enabled => unused = 0
    /\ \A l \in Listeners : hook[l] \/ detector[l] \notin {"none", "ended"} => l = slot
================================================================================
