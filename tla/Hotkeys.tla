------------------------------ MODULE Hotkeys ------------------------------
(***************************************************************************)
(* The global shortcuts of app.rs: the hotkey of the launcher, which the   *)
(* user may change, and the shortcuts plugins declare, which are           *)
(* reconciled with the system whenever a declaration may have changed.     *)
(* Each has a lock of its own; the system's table of keys is shared, with  *)
(* other programs as well.  Undoing a registration may fail.               *)
(***************************************************************************)
EXTENDS Naturals, Sequences, FiniteSets

CONSTANTS
    Keys, Primary, Fallback, NoKey,
    Bindings, NoBinding,    \* commands and keywords with a shortcut
    MaxKeyFaults            \* unregistrations and saves that fail

ASSUME KeyAssumption ==
    /\ {Primary, Fallback} \subseteq Keys /\ NoKey \notin Keys /\ NoBinding \notin Bindings
    /\ MaxKeyFaults \in Nat

VARIABLES
    native,         \* who holds each key in the system
    hotkey,         \* the status of the launcher's hotkey: its key, the preferred one
    preference,     \* the saved preference; NoKey is the default
    change,         \* a change of the hotkey under way
    wanted,         \* the key each binding declares; NoKey when it is disabled
    active,         \* the registry of plugin shortcuts
    refresh,        \* a reconciliation under way
    keyFaults       \* failures so far

keyVars == <<native, hotkey, preference, change, wanted, active, refresh, keyFaults>>
sameLauncher == UNCHANGED <<hotkey, preference, change>>
samePlugins  == UNCHANGED <<wanted, active, refresh>>

NoChange  == [pc |-> "no", key |-> NoKey, pref |-> NoKey, old |-> NoKey, oldPref |-> NoKey]
NoRefresh == [pc |-> "no", plan |-> [k \in Keys |-> NoBinding], kept |-> {}, failed |-> {}, todo |-> {}]
Fault     == keyFaults < MaxKeyFaults /\ keyFaults' = keyFaults + 1
NoFault   == UNCHANGED keyFaults
Register(k, owner) == native[k] = "free" /\ native' = [native EXCEPT ![k] = owner]
Unregister(k) == native' = [native EXCEPT ![k] = "free"]

-----------------------------------------------------------------------------
(* The launcher *)

\* register_launcher_hotkey tries the preference, the documented default and a
\* recovery binding, in that order.
Candidates(pref) == (IF pref = NoKey THEN <<>> ELSE <<pref>>) \o <<Primary, Fallback>>
StartKey(held, pref) ==
    LET cs == Candidates(pref)
        free == {i \in DOMAIN cs : held[cs[i]] = "free"}
    IN IF free = {} THEN NoKey ELSE cs[CHOOSE i \in free : \A j \in free : i <= j]

\* The system after a start, and what the status says.
StartsWith(held, pref) ==
    LET k == StartKey(held, pref)
    IN /\ native' = [x \in Keys |-> IF x = k THEN "launcher" ELSE held[x]]
       /\ hotkey' = [key |-> k, pref |-> pref]

\* set_launcher_hotkey and reset_launcher_hotkey.  A key that is already the
\* launcher's only has to be saved.
ChangeBegins(k, pref) ==
    /\ change.pc = "no" /\ pref \in {k, NoKey} /\ (pref = NoKey => k = Primary)
    /\ change' = [pc |-> IF hotkey.key = k THEN "save only" ELSE "register", key |-> k, pref |-> pref,
                  old |-> hotkey.key, oldPref |-> preference]
    /\ UNCHANGED <<native, hotkey, preference>> /\ NoFault /\ samePlugins

ChangeGoto(pc) == change' = [change EXCEPT !.pc = pc]
ChangeEnds == change' = NoChange
NewStatus == hotkey' = [key |-> change.key, pref |-> change.pref]

ChangeSavesOnly ==
    /\ change.pc = "save only" /\ ChangeEnds
    /\ \/ preference' = change.pref /\ NewStatus /\ NoFault
       \/ Fault /\ UNCHANGED <<preference, hotkey>>
    /\ UNCHANGED native /\ samePlugins

ChangeRegisters ==
    /\ change.pc = "register"
    /\ \/ Register(change.key, "launcher") /\ ChangeGoto("save")
       \/ native[change.key] # "free" /\ ChangeEnds /\ UNCHANGED native
    /\ UNCHANGED <<hotkey, preference>> /\ NoFault /\ samePlugins

\* Mutant: the old binding goes as soon as the new one is registered.
SavesAfterUnregister ==
    /\ change.pc = "save"
    /\ native' = IF change.old = NoKey THEN native ELSE [native EXCEPT ![change.old] = "free"]
    /\ \/ preference' = change.pref /\ ChangeGoto("unregister") /\ NoFault
       \/ Fault /\ ChangeGoto("undo key") /\ UNCHANGED preference
    /\ UNCHANGED hotkey /\ samePlugins

ChangeSaves ==
    /\ change.pc = "save"
    /\ \/ preference' = change.pref /\ ChangeGoto("unregister") /\ NoFault
       \/ Fault /\ ChangeGoto("undo key") /\ UNCHANGED preference
    /\ UNCHANGED <<native, hotkey>> /\ samePlugins

\* The old binding goes last.  If it cannot, the preference and the candidate go back.
ChangeUnregisters ==
    /\ change.pc = "unregister"
    /\ \/ /\ IF change.old = NoKey THEN UNCHANGED native ELSE Unregister(change.old)
          /\ NewStatus /\ ChangeEnds /\ NoFault
       \/ change.old # NoKey /\ Fault /\ ChangeGoto("undo save") /\ UNCHANGED <<native, hotkey>>
    /\ UNCHANGED preference /\ samePlugins

ChangeUndoesSave ==
    /\ change.pc = "undo save" /\ ChangeGoto("undo key")
    /\ \/ preference' = change.oldPref /\ NoFault
       \/ Fault /\ UNCHANGED preference
    /\ UNCHANGED <<native, hotkey>> /\ samePlugins

ChangeUndoesKey ==
    /\ change.pc = "undo key" /\ ChangeEnds
    /\ \/ Unregister(change.key) /\ NoFault
       \/ Fault /\ UNCHANGED native
    /\ UNCHANGED <<hotkey, preference>> /\ samePlugins

ChangeStep == \/ ChangeSavesOnly \/ ChangeRegisters \/ ChangeSaves \/ ChangeUnregisters
              \/ ChangeUndoesSave \/ ChangeUndoesKey

-----------------------------------------------------------------------------
(* The shortcuts of plugins *)

\* A plugin is installed, switched or removed, or a preference is set.
Declares(b, k) ==
    /\ wanted[b] # k /\ wanted' = [wanted EXCEPT ![b] = k]
    /\ UNCHANGED <<native, active, refresh>> /\ NoFault /\ sameLauncher

\* Keys of the launcher, and keys two bindings want, are nobody's.
Reserved == {Primary, Fallback, hotkey.key, hotkey.pref}
PlanFor(k) ==
    IF k \in Reserved \/ Cardinality({b \in Bindings : wanted[b] = k}) # 1 THEN NoBinding
    ELSE CHOOSE b \in Bindings : wanted[b] = k

Stale(plan) == {k \in Keys : active[k] # NoBinding /\ active[k] # plan[k]}

\* refresh_plugin_shortcuts: what is registered and still planned is kept.
RefreshBegins ==
    /\ refresh.pc = "no"
    /\ LET plan == [k \in Keys |-> PlanFor(k)]
       IN refresh' = [pc |-> "off", plan |-> plan, failed |-> {},
                      kept |-> {k \in Keys : active[k] # NoBinding} \ Stale(plan),
                      todo |-> Stale(plan)]
    /\ UNCHANGED <<native, wanted, active>> /\ NoFault /\ sameLauncher

RefreshRemoves(k) ==
    /\ refresh.pc = "off" /\ k \in refresh.todo
    /\ \/ Unregister(k) /\ refresh' = [refresh EXCEPT !.todo = @ \ {k}] /\ NoFault
       \/ /\ Fault /\ UNCHANGED native
          /\ refresh' = [refresh EXCEPT !.todo = @ \ {k}, !.failed = @ \cup {k}]
    /\ UNCHANGED <<wanted, active>> /\ sameLauncher

RefreshTurns ==
    /\ refresh.pc = "off" /\ refresh.todo = {}
    /\ refresh' = [refresh EXCEPT !.pc = "on",
                     !.todo = {k \in Keys : refresh.plan[k] # NoBinding}
                              \ (refresh.kept \cup refresh.failed)]
    /\ UNCHANGED <<native, wanted, active>> /\ NoFault /\ sameLauncher

\* Mutant: a key the system refuses is taken for registered.
AddsAnyway(k) ==
    /\ refresh.pc = "on" /\ k \in refresh.todo
    /\ native' = [native EXCEPT ![k] = IF @ = "free" THEN "plugin" ELSE @]
    /\ refresh' = [refresh EXCEPT !.todo = @ \ {k}, !.kept = @ \cup {k}]
    /\ UNCHANGED <<wanted, active>> /\ NoFault /\ sameLauncher

RefreshAdds(k) ==
    /\ refresh.pc = "on" /\ k \in refresh.todo
    /\ \/ /\ Register(k, "plugin")
          /\ refresh' = [refresh EXCEPT !.todo = @ \ {k}, !.kept = @ \cup {k}]
       \/ /\ native[k] # "free" /\ UNCHANGED native
          /\ refresh' = [refresh EXCEPT !.todo = @ \ {k}]
    /\ UNCHANGED <<wanted, active>> /\ NoFault /\ sameLauncher

\* The registry is replaced; a key whose removal failed is not in it any more.
RefreshPublishes ==
    /\ refresh.pc = "on" /\ refresh.todo = {} /\ refresh' = NoRefresh
    /\ active' = [k \in Keys |-> IF k \in refresh.kept THEN refresh.plan[k] ELSE NoBinding]
    /\ UNCHANGED <<native, wanted>> /\ NoFault /\ sameLauncher

RefreshStep == RefreshTurns \/ RefreshPublishes \/ \E k \in Keys : RefreshRemoves(k) \/ RefreshAdds(k)

\* dispatch_plugin_shortcut: a key that is pressed runs what the registry has
\* for it, if plugins still declare it so.
Runs(k) == IF native[k] = "plugin" /\ active[k] # NoBinding /\ wanted[active[k]] = k
           THEN active[k] ELSE NoBinding

-----------------------------------------------------------------------------

\* Another program takes a key or gives it back.
ForeignKey(k) ==
    /\ native[k] \in {"free", "foreign"}
    /\ native' = [native EXCEPT ![k] = IF @ = "free" THEN "foreign" ELSE "free"]
    /\ UNCHANGED keyFaults /\ sameLauncher /\ samePlugins

\* The process ends, the system frees its keys, and it starts again.
HostRestarts ==
    /\ StartsWith([k \in Keys |-> IF native[k] = "foreign" THEN "foreign" ELSE "free"], preference)
    /\ change' = NoChange /\ refresh' = NoRefresh
    /\ active' = [k \in Keys |-> NoBinding]
    /\ UNCHANGED <<preference, wanted, keyFaults>>

KeysInit ==
    /\ native = [k \in Keys |-> IF k = Primary THEN "launcher" ELSE "free"]
    /\ hotkey = [key |-> Primary, pref |-> NoKey] /\ preference = NoKey /\ change = NoChange
    /\ wanted = [b \in Bindings |-> NoKey] /\ active = [k \in Keys |-> NoBinding]
    /\ refresh = NoRefresh /\ keyFaults = 0

KeysNext ==
    \/ ChangeStep \/ RefreshBegins \/ RefreshStep \/ HostRestarts
    \/ \E k \in Keys : \/ ForeignKey(k)
                       \/ \E pref \in {k, NoKey} : ChangeBegins(k, pref)
    \/ \E b \in Bindings, k \in Keys \cup {NoKey} : Declares(b, k)

KeysSpec == KeysInit /\ [][KeysNext]_keyVars

-----------------------------------------------------------------------------
(* Properties *)

\* A conflict or a disk error cannot make the resident app unreachable
\* (app.rs:4166): the key the status names is the launcher's, but for the moment
\* after it was replaced, when the new one is; and after a change that failed the
\* saved preference is what the status says, unless restoring it failed too.
LauncherReachable ==
    /\ hotkey.key # NoKey => native[hotkey.key] = "launcher"
    /\ change.pc = "no" /\ keyFaults < 2 => preference = hotkey.pref

\* A shortcut in the registry is a key the system has given to it, whatever
\* other programs take and whichever removal fails, and no key of the launcher
\* runs a plugin (app.rs:12228).
RegistryIsNative ==
    \A k \in Keys : /\ active[k] # NoBinding /\ refresh.pc = "no" => native[k] = "plugin"
                    /\ k \in refresh.kept => native[k] = "plugin"
                    /\ hotkey.key = k => Runs(k) = NoBinding
=============================================================================
