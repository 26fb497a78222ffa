--------------------------- MODULE PluginRegistry ---------------------------
(***************************************************************************)
(* What the plugin store promises its callers: a registry in which every   *)
(* operation takes place at once or not at all.  PluginStore.tla has the   *)
(* renames of files and directories it is made of.                         *)
(***************************************************************************)
EXTENDS Naturals

CONSTANTS Plugins, MaxVersion

VARIABLES
    version,    \* the version of each installed plugin; 0 is none
    damaged,    \* plugins an uninstall has left in pieces
    disabled,   \* plugins the user has switched off
    linked,     \* plugins that run from a developer's own directory
    life        \* the process: another one when it has ended and started again

registry == <<version, damaged, disabled, linked, life>>

RegistryInit ==
    /\ version = [p \in Plugins |-> 0]
    /\ damaged = {} /\ disabled = {} /\ linked = {} /\ life = 0

\* A new import starts enabled, unless the record of that could not be written.
Add(p, v) ==
    /\ p \notin linked /\ version[p] = 0
    /\ version' = [version EXCEPT ![p] = v]
    /\ disabled' \in {disabled \ {p}, disabled}
    /\ UNCHANGED <<damaged, linked, life>>

\* An update keeps the choice of the user, and mends nothing.
Change(p, v) ==
    /\ p \notin linked \cup damaged /\ version[p] \notin {0, v}
    /\ version' = [version EXCEPT ![p] = v]
    /\ UNCHANGED <<damaged, disabled, linked, life>>

\* A removal that fails half way leaves pieces, and the choice of the user.
Remove(p) ==
    /\ p \notin linked /\ version[p] # 0
    /\ \/ /\ version' = [version EXCEPT ![p] = 0]
          /\ damaged' = damaged \ {p} /\ disabled' = disabled \ {p}
       \/ /\ damaged' = damaged \cup {p}
          /\ UNCHANGED <<version, disabled>>
    /\ UNCHANGED <<linked, life>>

Switch(p) ==
    /\ p \in linked \/ version[p] # 0
    /\ disabled' \in {disabled \ {p}, disabled \cup {p}}
    /\ UNCHANGED <<version, damaged, linked, life>>

Attach(p) ==
    /\ linked' \in {linked \ {p}, linked \cup {p}}
    /\ UNCHANGED <<version, damaged, disabled, life>>

\* A process that ends in the middle of an operation may cost the plugin that
\* was being replaced or removed, and the whole of one record.
Break(p) ==
    /\ life' = 1 - life
    /\ version' \in {version, [version EXCEPT ![p] = 0]}
                    \cup {[version EXCEPT ![p] = v] : v \in IF version[p] = 0 THEN 1..MaxVersion ELSE {}}
    /\ damaged' = {q \in damaged : version'[q] # 0}
    /\ \/ disabled' \in {disabled, disabled \ {p}, {}} /\ UNCHANGED linked
       \/ linked' = {} /\ UNCHANGED <<version, disabled>>

RegistryNext ==
    \E p \in Plugins :
        \/ Attach(p) \/ Switch(p) \/ Remove(p) \/ Break(p)
        \/ \E v \in 1..MaxVersion : Add(p, v) \/ Change(p, v)

RegistrySpec == RegistryInit /\ [][RegistryNext]_registry
=============================================================================
