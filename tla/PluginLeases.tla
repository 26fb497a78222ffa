---------------------------- MODULE PluginLeases ----------------------------
(* The leases of plugin documents, the source of a plugin and the commands   *)
(* that run from it: plugin_asset_server.rs, detached_plugin_window.rs and   *)
(* the commands of app.rs and plugins.rs that use them.                      *)
(*                                                                           *)
(* The host-wide lock `operation` orders them.  A Bridge call holds its read *)
(* side from its lease check to its effect; issuing and releasing a lease    *)
(* and changing a source hold the write side and are one action each.  Three *)
(* things happen outside the lock: a heartbeat finds its lease expired, a    *)
(* native command goes on after its Bridge call has returned, and an update  *)
(* from Git replaces the source, kept apart by a counter of transitions.     *)
(* BrowserWindow children and their leases are left out.                     *)
EXTENDS Naturals, FiniteSets

CONSTANTS
    Plugins, Leases, Calls, Requests, Updates,
    None,          \* no lease, no plugin
    MaxLeases,     \* MAX_ACTIVE_FRONTEND_LEASES
    MaxCommands,   \* MAX_ACTIVE_NATIVE_COMMANDS
    MaxVersion,    \* bound: replacements of the source of one plugin
    Changing,      \* bound: the plugins that are detached, updated or changed
    LateErrors     \* whether an operation may fail after it has changed a source

ASSUME LeaseAssumption ==
    /\ IsFiniteSet(Leases) /\ IsFiniteSet(Plugins) /\ IsFiniteSet(Updates)
    /\ Changing \subseteq Plugins
    /\ None \notin Leases \cup Plugins
    /\ MaxLeases \in Nat \ {0} /\ MaxCommands \in Nat \ {0} /\ MaxVersion \in Nat \ {0}
    /\ LateErrors \in BOOLEAN

VARIABLES
    source,        \* the installed version of a plugin and its lifecycle state
    lease,         \* every lease ever issued, removed ones included
    owner,         \* the document whose registrations a plugin has in the host
    transitions,   \* updates from Git that have announced themselves
    commands,      \* the version a native command of a plugin runs from
    calls,         \* Bridge calls
    requests,      \* calls of get_plugin_frontend_url
    updates,       \* calls of update_plugin_from_git, each made once
    detached,      \* the registry of detached windows
    releasing,     \* leases whose release waits for the lock
    unrevoked      \* plugins whose source an operation changed before it failed

documents == <<lease, owner>>
plugin    == <<source, unrevoked>>
bridge    == <<calls, commands>>
updating  == <<transitions, updates>>
windows   == <<requests, detached, releasing>>
vars      == <<documents, plugin, bridge, updating, windows>>

Versions == 1..MaxVersion
Quiet    == 0   \* no command runs

-----------------------------------------------------------------------------
(* The lock, and the leases in the map. *)

InMap(l)    == lease[l].state \in {"live", "stale"}
Held        == {l \in Leases : InMap(l)}
HeldBy(p)   == {l \in Held : lease[l].plugin = p}
Expired     == {l \in Leases : lease[l].state = "stale"}
Active(l, p) == lease[l].state = "live" /\ lease[l].plugin = p
Running     == {p \in Plugins : commands[p] # Quiet}

\* Mutant: the write side does not wait for Bridge calls.
WritableAtOnce == TRUE

\* No Bridge call holds the read side.
Writable == \A c \in Calls : calls[c].pc # "entered"

\* The map without the leases S.  A lease that has expired before it is
\* removed is told from one that is taken away.
Without(S) ==
    [l \in Leases |->
        IF l \in S /\ InMap(l)
          THEN [lease[l] EXCEPT !.state = IF @ = "live" THEN "gone" ELSE "expired"]
          ELSE lease[l]]

ClearRuntime(p) == owner' = [owner EXCEPT ![p] = None]

\* revoke_plugin and the cleanup every caller adds.
Revoke(p) ==
    lease' = Without(HeldBy(p)) /\ ClearRuntime(p) /\ unrevoked' = unrevoked \ {p}

NoLease == [state |-> "unused", plugin |-> None, version |-> 0, window |-> "main"]
NoCall  == [pc |-> "idle", plugin |-> None, lease |-> None]
NoRequest == [pc |-> "idle", plugin |-> None, window |-> "main", lease |-> None]
NoUpdate  == [pc |-> "idle", plugin |-> None]
Closed    == [open |-> FALSE, lease |-> None]

-----------------------------------------------------------------------------
(* Asking for a document. *)

\* A launcher surface or a hidden search runtime.
MainRequest(r, p) ==
    /\ requests[r].pc = "idle"
    /\ ~detached[p].open
    /\ requests' = [requests EXCEPT ![r] = [@ EXCEPT !.pc = "waiting", !.plugin = p, !.window = "main"]]
    /\ UNCHANGED <<detached, releasing, documents, plugin, bridge, updating>>

DetachedRequest(r, p) ==
    /\ requests[r].pc = "idle"
    /\ detached[p].open
    /\ requests' = [requests EXCEPT ![r] = [@ EXCEPT !.pc = "waiting", !.plugin = p, !.window = "detached"]]
    /\ UNCHANGED <<detached, releasing, documents, plugin, bridge, updating>>

\* Expired leases and the plugin's own document make room for the new one.
Replaced(p) == Expired \cup HeldBy(p)
Servable(p) == source[p].enabled /\ transitions[p] = 0

\* Mutant: the document to be replaced is counted.
FullBefore(p) == Cardinality(Held \ Expired) >= MaxLeases

Full(p) == Cardinality(Held \ Replaced(p)) >= MaxLeases

Issue(r) ==
    LET p == requests[r].plugin IN
    /\ requests[r].pc = "waiting" /\ Writable
    /\ Servable(p) /\ ~Full(p)
    /\ \E l \in Leases :
        /\ lease[l].state = "unused"
        /\ lease' = [Without(Replaced(p)) EXCEPT ![l] =
                        [state |-> "live", plugin |-> p, version |-> source[p].version,
                         window |-> requests[r].window]]
        /\ requests' = [requests EXCEPT ![r] =
                        IF @.window = "main" THEN NoRequest
                        ELSE [@ EXCEPT !.pc = "issued", !.lease = l]]
    /\ ClearRuntime(p)
    /\ unrevoked' = unrevoked \ {p}
    /\ UNCHANGED <<source, detached, releasing, bridge, updating>>

\* The same call when the plugin is not served or the map is full.
Refuse(r) ==
    LET p == requests[r].plugin IN
    /\ requests[r].pc = "waiting" /\ Writable
    /\ ~Servable(p) \/ Full(p)
    /\ lease' = IF Servable(p) THEN Without(Replaced(p)) ELSE lease
    /\ requests' = [requests EXCEPT ![r] = NoRequest]
    /\ UNCHANGED <<owner, detached, releasing, plugin, bridge, updating>>

\* The window may have been closed meanwhile, or opened again.
Bind(r) ==
    LET p == requests[r].plugin  l == requests[r].lease IN
    /\ requests[r].pc = "issued"
    /\ IF detached[p].open
         THEN detached' = [detached EXCEPT ![p].lease = l] /\ UNCHANGED releasing
         ELSE releasing' = releasing \cup {l} /\ UNCHANGED detached
    /\ requests' = [requests EXCEPT ![r] = NoRequest]
    /\ UNCHANGED <<documents, plugin, bridge, updating>>

-----------------------------------------------------------------------------
(* Detached windows, releases and expiry. *)

\* open_detached_plugin_window; the label is reserved before the window is built.
OpenWindow(p) ==
    /\ source[p].enabled /\ ~detached[p].open
    /\ detached' = [detached EXCEPT ![p].open = TRUE]
    /\ UNCHANGED <<requests, releasing, documents, plugin, bridge, updating>>

\* The window is closed, or could not be built.
CloseWindow(p) ==
    /\ detached[p].open
    /\ detached' = [detached EXCEPT ![p] = Closed]
    /\ releasing' = releasing \cup ({detached[p].lease} \ {None})
    /\ UNCHANGED <<requests, documents, plugin, bridge, updating>>

\* A React cleanup gives its lease back; a detached window only its own.
GiveBack(l) ==
    LET p == lease[l].plugin IN
    /\ InMap(l)
    /\ \/ lease[l].window = "main" /\ UNCHANGED detached
       \/ /\ lease[l].window = "detached" /\ detached[p].lease = l
          /\ detached' = [detached EXCEPT ![p].lease = None]
    /\ releasing' = releasing \cup {l}
    /\ UNCHANGED <<requests, documents, plugin, bridge, updating>>

\* release_plugin_frontend_lease: nothing happens unless the lease is in the map.
Release(l) ==
    /\ l \in releasing /\ Writable
    /\ releasing' = releasing \ {l}
    /\ lease' = Without({l})
    /\ IF InMap(l) THEN ClearRuntime(lease[l].plugin) ELSE UNCHANGED owner
    /\ UNCHANGED <<requests, detached, plugin, bridge, updating>>

\* The heartbeat has been missing for FRONTEND_LEASE_HEARTBEAT_TIMEOUT.
Lapse(l) ==
    /\ lease[l].state = "live"
    /\ lease' = [lease EXCEPT ![l].state = "stale"]
    /\ UNCHANGED <<owner, plugin, bridge, updating, windows>>

\* A late heartbeat removes the lease, without the lock.
Touch(l) ==
    /\ lease[l].state = "stale"
    /\ \/ lease[l].window = "main" \/ detached[lease[l].plugin].lease = l
    /\ lease' = Without({l})
    /\ UNCHANGED <<owner, plugin, bridge, updating, windows>>

-----------------------------------------------------------------------------
(* Bridge calls and native commands. *)

\* validate_plugin_renderer_lease_caller, before the lock.
CallBegin(c, l) ==
    LET p == lease[l].plugin IN
    /\ calls[c].pc = "idle" /\ InMap(l)
    /\ IF lease[l].window = "main" THEN ~detached[p].open ELSE detached[p].lease = l
    /\ calls' = [calls EXCEPT ![c] = [pc |-> "checked", plugin |-> p, lease |-> l]]
    /\ UNCHANGED <<commands, documents, plugin, updating, windows>>

\* The read side is taken and the lease is checked; an error ends the call.
CallEnter(c) ==
    /\ calls[c].pc = "checked"
    /\ calls' = [calls EXCEPT ![c] =
                    IF Active(@.lease, @.plugin) THEN [@ EXCEPT !.pc = "entered"] ELSE NoCall]
    /\ UNCHANGED <<commands, documents, plugin, updating, windows>>

\* A registration becomes part of the runtime state of the plugin.
CallRegister(c) ==
    /\ calls[c].pc = "entered"
    /\ owner' = [owner EXCEPT ![calls[c].plugin] = calls[c].lease]
    /\ calls' = [calls EXCEPT ![c] = NoCall]
    /\ UNCHANGED <<lease, commands, plugin, updating, windows>>

\* Mutant: begin_native_command without the check of the transitions.
MayRunMeanwhile(p) == Cardinality(Running) < MaxCommands /\ commands[p] = Quiet

\* begin_native_command, with one command for a plugin at a time.
MayRun(p) ==
    /\ transitions[p] = 0
    /\ Cardinality(Running) < MaxCommands
    /\ commands[p] = Quiet

StartCommand(p) ==
    IF MayRun(p) THEN commands' = [commands EXCEPT ![p] = source[p].version]
                 ELSE UNCHANGED commands

CallNative(c) ==
    /\ calls[c].pc = "entered"
    /\ StartCommand(calls[c].plugin)
    /\ calls' = [calls EXCEPT ![c] = NoCall]
    /\ UNCHANGED <<documents, plugin, updating, windows>>

\* run_plugin_command: the launcher needs no document.
RunPluginCommand(p) ==
    /\ source[p].enabled /\ MayRun(p)
    /\ StartCommand(p)
    /\ UNCHANGED <<calls, documents, plugin, updating, windows>>

CommandEnds(p) ==
    /\ commands[p] # Quiet
    /\ commands' = [commands EXCEPT ![p] = Quiet]
    /\ UNCHANGED <<calls, documents, plugin, updating, windows>>

-----------------------------------------------------------------------------
(* The source and the lifecycle of a plugin. *)

InstallFree == \A u \in Updates : updates[u].pc # "git"

\* with_plugin_source_operation, then install_lock.
SourceOperation(p, to) ==
    /\ Writable /\ Running = {} /\ InstallFree
    /\ source' = [source EXCEPT ![p] = to]
    /\ UNCHANGED <<bridge, updating, windows>>

\* An operation that reports an error after the change revokes nothing.
RevokeOrFail(p) ==
    \/ Revoke(p)
    \/ LateErrors /\ unrevoked' = unrevoked \cup {p} /\ UNCHANGED documents

NextVersion(p) == source[p].version + 1

\* install_plugin_from_git enables the plugin; a link keeps its state.
Install(p) ==
    /\ source[p].version < MaxVersion
    /\ \E e \in {TRUE, source[p].enabled} :
          SourceOperation(p, [version |-> NextVersion(p), enabled |-> e])
    /\ RevokeOrFail(p)

Withdraw(p) ==
    /\ SourceOperation(p, [source[p] EXCEPT !.enabled = FALSE])
    /\ RevokeOrFail(p)

Enable(p) ==
    /\ ~source[p].enabled
    /\ SourceOperation(p, [source[p] EXCEPT !.enabled = TRUE])
    /\ UNCHANGED <<unrevoked, documents>>

-----------------------------------------------------------------------------
(* update_plugin_from_git. *)

UpdateBegin(u, p) ==
    /\ updates[u].pc = "idle"
    /\ Writable /\ Running = {}
    /\ transitions' = [transitions EXCEPT ![p] = @ + 1]
    /\ updates' = [updates EXCEPT ![u] = [pc |-> "begun", plugin |-> p]]
    /\ UNCHANGED <<documents, plugin, bridge, windows>>

\* install_lock; the operation lock is free while Git works.
UpdateGit(u) ==
    /\ updates[u].pc = "begun" /\ InstallFree
    /\ updates' = [updates EXCEPT ![u].pc = "git"]
    /\ UNCHANGED <<transitions, documents, plugin, bridge, windows>>

\* The snapshot is replaced; its information may then turn out unreadable.
UpdateSwap(u) ==
    LET p == updates[u].plugin IN
    /\ updates[u].pc = "git"
    /\ source[p].version < MaxVersion
    /\ source' = [source EXCEPT ![p].version = NextVersion(p)]
    /\ \/ updates' = [updates EXCEPT ![u].pc = "swapped"] /\ UNCHANGED unrevoked
       \/ /\ LateErrors
          /\ updates' = [updates EXCEPT ![u].pc = "kept"]
          /\ unrevoked' = unrevoked \cup {p}
    /\ UNCHANGED <<transitions, documents, bridge, windows>>

\* Nothing to do, or an error before the replacement.
UpdateKeep(u) ==
    /\ updates[u].pc = "git"
    /\ updates' = [updates EXCEPT ![u].pc = "kept"]
    /\ UNCHANGED <<transitions, documents, plugin, bridge, windows>>

EndTransition(p) == transitions' = [transitions EXCEPT ![p] = IF @ <= 1 THEN 0 ELSE @ - 1]

\* Mutant: the revocation is left to an update that is still to come.
UpdateFinishLazily(u) ==
    LET p == updates[u].plugin IN
    /\ updates[u].pc \in {"swapped", "kept"} /\ Writable
    /\ IF updates[u].pc = "swapped" /\ transitions[p] = 1 THEN Revoke(p)
       ELSE UNCHANGED <<unrevoked, documents>>
    /\ EndTransition(p)
    /\ updates' = [updates EXCEPT ![u] = [pc |-> "done", plugin |-> None]]
    /\ UNCHANGED <<source, bridge, windows>>

\* finish_plugin_transition, after the revocation if the snapshot was replaced.
UpdateFinish(u) ==
    LET p == updates[u].plugin IN
    /\ updates[u].pc \in {"swapped", "kept"} /\ Writable
    /\ IF updates[u].pc = "swapped" THEN Revoke(p) ELSE UNCHANGED <<unrevoked, documents>>
    /\ EndTransition(p)
    /\ updates' = [updates EXCEPT ![u] = [pc |-> "done", plugin |-> None]]
    /\ UNCHANGED <<source, bridge, windows>>

-----------------------------------------------------------------------------
Init ==
    /\ source = [p \in Plugins |-> [version |-> 1, enabled |-> TRUE]]
    /\ lease = [l \in Leases |-> NoLease]
    /\ owner = [p \in Plugins |-> None]
    /\ transitions = [p \in Plugins |-> 0]
    /\ commands = [p \in Plugins |-> Quiet]
    /\ calls = [c \in Calls |-> NoCall]
    /\ requests = [r \in Requests |-> NoRequest]
    /\ updates = [u \in Updates |-> NoUpdate]
    /\ detached = [p \in Plugins |-> Closed]
    /\ releasing = {} /\ unrevoked = {}

Next ==
    \/ \E r \in Requests : Issue(r) \/ Refuse(r) \/ Bind(r)
    \/ \E r \in Requests, p \in Plugins : MainRequest(r, p) \/ DetachedRequest(r, p)
    \/ \E p \in Changing : OpenWindow(p) \/ CloseWindow(p)
    \/ \E l \in Leases : GiveBack(l) \/ Release(l) \/ Lapse(l) \/ Touch(l)
    \/ \E c \in Calls, l \in Leases : CallBegin(c, l)
    \/ \E c \in Calls : CallEnter(c) \/ CallRegister(c) \/ CallNative(c)
    \/ \E p \in Plugins : RunPluginCommand(p) \/ CommandEnds(p)
    \/ \E p \in Changing : Install(p) \/ Withdraw(p) \/ Enable(p)
    \/ \E u \in Updates, p \in Changing : UpdateBegin(u, p)
    \/ \E u \in Updates : UpdateGit(u) \/ UpdateSwap(u) \/ UpdateKeep(u) \/ UpdateFinish(u)

Spec == Init /\ [][Next]_vars

-----------------------------------------------------------------------------
(* Properties. *)

Phases == {"idle", "begun", "git", "swapped", "kept", "done"}

LeaseTypes ==
    /\ source \in [Plugins -> [version : Versions, enabled : BOOLEAN]]
    /\ lease \in [Leases -> [state : {"unused", "live", "stale", "gone", "expired"},
                             plugin : Plugins \cup {None}, version : 0..MaxVersion,
                             window : {"main", "detached"}]]
    /\ owner \in [Plugins -> Leases \cup {None}]
    /\ transitions \in [Plugins -> Nat]
    /\ commands \in [Plugins -> 0..MaxVersion]
    /\ calls \in [Calls -> [pc : {"idle", "checked", "entered"},
                            plugin : Plugins \cup {None}, lease : Leases \cup {None}]]
    /\ requests \in [Requests -> [pc : {"idle", "waiting", "issued"}, plugin : Plugins \cup {None},
                                  window : {"main", "detached"}, lease : Leases \cup {None}]]
    /\ updates \in [Updates -> [pc : Phases, plugin : Plugins \cup {None}]]
    /\ detached \in [Plugins -> [open : BOOLEAN, lease : Leases \cup {None}]]
    /\ releasing \subseteq Leases /\ unrevoked \subseteq Plugins

Limits == Cardinality(Held) <= MaxLeases /\ Cardinality(Running) <= MaxCommands

\* Every variable has its type, and neither the number of documents nor that of
\* native commands exceeds its limit.
LeaseTypeOK == LeaseTypes /\ Limits

\* A document in the map shows the installed version of an enabled plugin,
\* except between the replacement of an update and its end, and after an
\* operation that failed once it had changed the source.
LeaseServesSource ==
    \A l \in Held : LET p == lease[l].plugin IN
        \/ source[p] = [version |-> lease[l].version, enabled |-> TRUE]
        \/ \E u \in Updates : updates[u] = [pc |-> "swapped", plugin |-> p]
        \/ p \in unrevoked

\* No source is replaced under a native command that runs from it, although
\* the command outlives its Bridge call and Git works outside the lock.
NativeOnSource ==
    \A p \in Running : commands[p] = source[p].version

\* What a plugin has registered in the host comes from its present document,
\* or from one that was left to expire: never from one taken away, not even
\* by a Bridge call that was under way.
OwnerNotRevoked ==
    \A p \in Plugins : owner[p] # None =>
        lease[owner[p]].plugin = p /\ lease[owner[p]].state \in {"live", "stale", "expired"}

Unissued == {l \in Leases : lease[l].state = "unused"}

\* A request that is turned away costs nobody an open document.
RefusalIsFree ==
    [][\A r \in Requests :
         requests[r].pc = "waiting" /\ requests'[r].pc = "idle" /\ Unissued' = Unissued
           => \A l \in Leases : lease[l].state = "live" => lease'[l] = lease[l]]_vars

\* A plugin is shut exactly while an update of it is under way, however many
\* there are and however they end.
TransitionsCounted ==
    \A p \in Plugins :
        transitions[p] = Cardinality({u \in Updates : updates[u].plugin = p})

\* A launcher surface or a hidden runtime never replaces the document of a
\* detached window.
DetachedKeepsLease ==
    [][\A p \in Plugins : LET l == detached[p].lease IN
         l # None /\ lease[l].state = "live" /\ lease'[l].state = "gone"
           => ~\E n \in Unissued : lease'[n].state = "live" /\ lease'[n].window = "main"]_vars
=============================================================================
