--------------------------- MODULE BrowserWindows ---------------------------
(***************************************************************************)
(* The auxiliary windows of one plugin, utools_browser_window.rs: children *)
(* of the surface that opened them, each with a lease of its own.  The     *)
(* registry, the lease map and the pending scripts have separate locks;    *)
(* the windows themselves close some time after they are told to.          *)
(***************************************************************************)
EXTENDS Naturals, FiniteSets

CONSTANTS
    Children,       \* windows; a label is used once
    Boots,          \* bootstraps at once; a window that reloads starts another
    Scripts,        \* script executions
    MaxParents,     \* surfaces the plugin ever has
    MaxGrants,      \* child leases that are ever granted
    MaxChildren,    \* windows, and child leases, at once
    MaxPending      \* scripts that wait at once

ASSUME BrowserAssumption ==
    {MaxParents, MaxGrants, MaxChildren, MaxPending} \subseteq Nat

VARIABLES
    parent,     \* the surface that is active; 0 is none
    parents,    \* surfaces so far
    turn,       \* what the host is doing to the surface
    record,     \* the registry: of each window its parent and its lease
    glass,      \* the native windows
    granted,    \* child leases so far
    served,     \* child leases in the lease map
    dropping,   \* leases of closed windows, still to be released
    boot,       \* the bootstraps under way
    script,     \* the callers of scripts
    pending     \* scripts in the table of executions

browserVars == <<parent, parents, turn, record, glass, granted, served, dropping, boot,
                 script, pending>>
sameHost    == UNCHANGED <<parent, parents, turn>>
sameScripts == UNCHANGED <<script, pending>>

NoRecord == [parent |-> 0, lease |-> 0]
NoBoot   == [pc |-> "idle", child |-> "none", parent |-> 0, lease |-> 0, old |-> 0]
NoScript == [pc |-> "idle", child |-> "none"]
Registered == {w \in Children : record[w] # NoRecord}
ParentOf(w) == parent # 0 /\ record[w].parent = parent

\* close() of the windows of S that are there.
Closing(S) == glass' = [w \in Children |-> IF w \in S /\ glass[w] = "open" THEN "closing" ELSE glass[w]]

-----------------------------------------------------------------------------
(* The surface.  The children are told to close outside the operation lock, *)
(* before it is replaced or released and after it is revoked.                *)

SurfaceTurn(begin, S) ==
    /\ turn = "idle" /\ turn' = begin /\ Closing(S)
    /\ UNCHANGED <<parent, parents, record, granted, served, dropping, boot>> /\ sameScripts

ReplaceBegin == parents < MaxParents /\ SurfaceTurn("replace", Registered)
ReleaseBegin == parent # 0 /\ SurfaceTurn("release", {w \in Registered : ParentOf(w)})

SurfaceTurns ==
    /\ turn \in {"replace", "release"} /\ turn' = "idle"
    /\ parents' = IF turn = "replace" THEN parents + 1 ELSE parents
    /\ parent' = IF turn = "replace" THEN parents' ELSE 0
    /\ UNCHANGED <<record, glass, granted, served, dropping, boot>> /\ sameScripts

\* Revocation takes all leases of the plugin; a missed heartbeat only the one.
SurfaceRevoked ==
    /\ turn = "idle" /\ parent # 0 /\ parent' = 0
    /\ \/ served' = {} /\ turn' = "close"
       \/ UNCHANGED <<served, turn>>
    /\ UNCHANGED <<parents, record, glass, granted, dropping, boot>> /\ sameScripts

RevokedCloses ==
    /\ turn = "close" /\ turn' = "idle" /\ Closing(Registered)
    /\ UNCHANGED <<parent, parents, record, granted, served, dropping, boot>> /\ sameScripts

-----------------------------------------------------------------------------
(* A window *)

\* create_utools_browser_window reserves a place, then builds the window.
Reserve(w) ==
    /\ parent # 0 /\ glass[w] = "none" /\ Cardinality(Registered) < MaxChildren
    /\ record' = [record EXCEPT ![w] = [parent |-> parent, lease |-> 0]]
    /\ glass' = [glass EXCEPT ![w] = "reserved"]
    /\ UNCHANGED <<granted, served, dropping, boot>> /\ sameHost /\ sameScripts

Build(w) ==
    /\ glass[w] = "reserved"
    /\ \/ glass' = [glass EXCEPT ![w] = "open"] /\ UNCHANGED record
       \/ /\ glass' = [glass EXCEPT ![w] = "gone"]
          /\ record' = [record EXCEPT ![w] = NoRecord]
    /\ UNCHANGED <<granted, served, dropping, boot>> /\ sameHost /\ sameScripts

\* The user, or a control of the parent, or closeSelf; or a heartbeat, a call or
\* the ready signal of a child whose parent is not active any more.
CloseChild(w) ==
    /\ glass[w] = "open" /\ Closing({w})
    /\ UNCHANGED <<record, granted, served, dropping, boot>> /\ sameHost /\ sameScripts

\* take_window_lease removes the record first,
Destroyed(w) ==
    /\ glass[w] \in {"open", "closing"}
    /\ glass' = [glass EXCEPT ![w] = "destroyed"]
    /\ record' = [record EXCEPT ![w] = NoRecord]
    /\ dropping' = dropping \cup ({record[w].lease} \ {0})
    /\ UNCHANGED <<granted, served, boot>> /\ sameHost /\ sameScripts

\* then it answers the scripts that wait for the window.
CancelScripts(w) ==
    /\ glass[w] = "destroyed" /\ glass' = [glass EXCEPT ![w] = "gone"]
    /\ LET S == {e \in pending : script[e].child = w}
       IN /\ pending' = pending \ S
          /\ script' = [e \in Scripts |-> IF e \in S THEN NoScript ELSE script[e]]
    /\ UNCHANGED <<record, granted, served, dropping, boot>> /\ sameHost

\* The lease of a closed window is released under the operation lock; a lease
\* that misses its heartbeats goes as well.
DropLease(l) ==
    /\ l \in dropping \cup served
    /\ served' = served \ {l} /\ dropping' = dropping \ {l}
    /\ UNCHANGED <<record, glass, granted, boot>> /\ sameHost /\ sameScripts

-----------------------------------------------------------------------------
(* get_utools_browser_window_bootstrap *)

BootGoto(b, pc) == boot' = [boot EXCEPT ![b].pc = pc]

BootBegin(b, w) ==
    /\ boot[b] = NoBoot /\ glass[w] = "open" /\ w \in Registered
    /\ boot' = [boot EXCEPT ![b] = [NoBoot EXCEPT !.pc = "issue", !.child = w,
                                                  !.parent = record[w].parent]]
    /\ UNCHANGED <<record, glass, granted, served, dropping>> /\ sameHost /\ sameScripts

\* Under the operation lock the parent has to be active.
BootIssue(b) ==
    /\ boot[b].pc = "issue"
    /\ \/ /\ parent = boot[b].parent /\ Cardinality(served) < MaxChildren
          /\ granted < MaxGrants
          /\ granted' = granted + 1 /\ served' = served \cup {granted'}
          /\ boot' = [boot EXCEPT ![b].pc = "bind", ![b].lease = granted']
       \/ boot' = [boot EXCEPT ![b] = NoBoot] /\ UNCHANGED <<granted, served>>
    /\ UNCHANGED <<record, glass, dropping>> /\ sameHost /\ sameScripts

\* Mutant: the lease is left behind when its window has closed.
BootBindOnly(b) ==
    /\ boot[b].pc = "bind"
    /\ LET w == boot[b].child
       IN IF w \in Registered
          THEN /\ record' = [record EXCEPT ![w].lease = boot[b].lease]
               /\ boot' = [boot EXCEPT ![b].pc = "settle", ![b].old = record[w].lease]
          ELSE boot' = [boot EXCEPT ![b] = NoBoot] /\ UNCHANGED record
    /\ UNCHANGED <<glass, granted, served, dropping>> /\ sameHost /\ sameScripts

\* The window may have closed meanwhile; the lease goes back then.
BootBind(b) ==
    /\ boot[b].pc = "bind"
    /\ LET w == boot[b].child
       IN IF w \in Registered
          THEN /\ record' = [record EXCEPT ![w].lease = boot[b].lease]
               /\ boot' = [boot EXCEPT ![b].pc = "settle", ![b].old = record[w].lease]
               /\ UNCHANGED served
          ELSE /\ served' = served \ {boot[b].lease}
               /\ boot' = [boot EXCEPT ![b] = NoBoot] /\ UNCHANGED record
    /\ UNCHANGED <<glass, granted, dropping>> /\ sameHost /\ sameScripts

\* The lease of an earlier document of the window is released,
BootReplace(b) ==
    /\ boot[b].pc = "settle" /\ served' = served \ {boot[b].old}
    /\ BootGoto(b, "confirm")
    /\ UNCHANGED <<record, glass, granted, dropping>> /\ sameHost /\ sameScripts

\* and the parent is looked at again; without it the window closes.
BootConfirm(b) ==
    /\ boot[b].pc = "confirm"
    /\ LET w == boot[b].child
       IN IF ParentOf(w)
          THEN boot' = [boot EXCEPT ![b] = NoBoot] /\ UNCHANGED record
          ELSE /\ record' = [record EXCEPT ![w].lease =
                                IF @ = boot[b].lease /\ w \in Registered THEN 0 ELSE @]
               /\ BootGoto(b, "abandon")
    /\ UNCHANGED <<glass, granted, served, dropping>> /\ sameHost /\ sameScripts

BootAbandon(b) ==
    /\ boot[b].pc = "abandon" /\ served' = served \ {boot[b].lease}
    /\ Closing({boot[b].child})
    /\ boot' = [boot EXCEPT ![b] = NoBoot]
    /\ UNCHANGED <<record, granted, dropping>> /\ sameHost /\ sameScripts

BootStep(b) == BootIssue(b) \/ BootBind(b) \/ BootReplace(b) \/ BootConfirm(b) \/ BootAbandon(b)

-----------------------------------------------------------------------------
(* executeJavaScript of the parent *)

sameWindows == UNCHANGED <<record, glass, granted, served, dropping, boot>>

\* begin_execution finds the window, then enters the table under its own lock.
ScriptFinds(e, w) ==
    /\ script[e] = NoScript /\ ParentOf(w)
    /\ script' = [script EXCEPT ![e] = [pc |-> "enter", child |-> w]]
    /\ UNCHANGED pending /\ sameHost /\ sameWindows

ScriptEnters(e) ==
    /\ script[e].pc = "enter"
    /\ \/ /\ Cardinality(pending) < MaxPending
          /\ pending' = pending \cup {e} /\ script' = [script EXCEPT ![e].pc = "wait"]
       \/ script' = [script EXCEPT ![e] = NoScript] /\ UNCHANGED pending
    /\ sameHost /\ sameWindows

\* The child answers while its lease lasts and it is the one that was asked.
ScriptAnswered(e) ==
    /\ e \in pending /\ record[script[e].child].lease \in served
    /\ pending' = pending \ {e}
    /\ script' = [script EXCEPT ![e] = IF @.pc = "wait" THEN NoScript ELSE @]
    /\ sameHost /\ sameWindows

\* Fifteen seconds are over; an answer may still come before the entry goes.
ScriptTimesOut(e) ==
    /\ script[e].pc = "wait" /\ script' = [script EXCEPT ![e].pc = "late"]
    /\ UNCHANGED pending /\ sameHost /\ sameWindows

ScriptCancelled(e) ==
    /\ script[e].pc = "late" /\ pending' = pending \ {e}
    /\ script' = [script EXCEPT ![e] = NoScript]
    /\ sameHost /\ sameWindows

ScriptStep(e) ==
    ScriptEnters(e) \/ ScriptAnswered(e) \/ ScriptTimesOut(e) \/ ScriptCancelled(e)

-----------------------------------------------------------------------------

BrowserInit ==
    /\ parent = 0 /\ parents = 0 /\ turn = "idle"
    /\ record = [w \in Children |-> NoRecord] /\ glass = [w \in Children |-> "none"]
    /\ granted = 0 /\ served = {} /\ dropping = {}
    /\ boot = [b \in Boots |-> NoBoot]
    /\ script = [e \in Scripts |-> NoScript] /\ pending = {}

BrowserNext ==
    \/ ReplaceBegin \/ ReleaseBegin \/ SurfaceTurns \/ SurfaceRevoked \/ RevokedCloses
    \/ \E w \in Children : \/ Reserve(w) \/ Build(w) \/ CloseChild(w) \/ Destroyed(w)
                           \/ CancelScripts(w)
                           \/ \E b \in Boots : BootBegin(b, w)
                           \/ \E e \in Scripts : ScriptFinds(e, w)
    \/ \E l \in 1..MaxGrants : DropLease(l)
    \/ \E b \in Boots : BootStep(b)
    \/ \E e \in Scripts : ScriptStep(e)

BrowserSpec == BrowserInit /\ [][BrowserNext]_browserVars

-----------------------------------------------------------------------------
(* Properties *)

\* A lease of a child does not outlive its window (app.rs, bootstrap and
\* release_hosted_plugin_window_lease): it is the one the registry names for a
\* window, or it is in the hands of somebody who will bind or release it, however
\* a close, a reload and the end of the parent fall together.
NoOrphanLease ==
    \A l \in served :
        \/ l \in dropping \/ \E w \in Registered : record[w].lease = l
        \/ \E b \in Boots : l \in {boot[b].lease, boot[b].old}
=============================================================================
