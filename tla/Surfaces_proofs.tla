--------------------------- MODULE Surfaces_proofs ---------------------------
(* What holds of windows, panel, keys, icons and the clipboard history, for any of *)
(* them and any number of steps.                                                   *)
EXTENDS BrowserWindows, SuperPanel, Hotkeys, NativeIcons, ClipboardHistory,
        FiniteSetTheorems, SequenceTheorems, WellFoundedInduction, TLAPS

------------------------------------------------------------------------------
(* Windows of plugins and their leases *)

RegistryEntry(w) == record[w] = [parent |-> record[w].parent, lease |-> record[w].lease]
BootRecord(b) == DOMAIN boot[b] = {"pc", "child", "parent", "lease", "old"}

WindowTypes ==
    /\ DOMAIN record = Children /\ DOMAIN glass = Children /\ DOMAIN boot = Boots
    /\ \A w \in Children : RegistryEntry(w)
    /\ \A b \in Boots : BootRecord(b) /\ (boot[b].pc # "idle" => boot[b].child \in Children)
    /\ granted \in Nat /\ served \subseteq Nat \ {0}

\* A bootstrap has a lease in its hands before it binds it and when it gives it up,
\* and the one it replaced until it has released that.
Held(l) ==
    \/ l \in dropping
    \/ \E w \in Children : record[w] # NoRecord /\ record[w].lease = l
    \/ \E b \in Boots : boot[b].pc \in {"bind", "abandon"} /\ boot[b].lease = l
    \/ \E b \in Boots : boot[b].pc = "settle" /\ boot[b].old = l

\* A window that is not built yet has no lease: no bootstrap is for such a one.
Unbuilt(w) == glass[w] \in {"none", "reserved"}

WindowInv ==
    /\ WindowTypes
    /\ \A l \in served : Held(l)
    /\ \A w \in Children : Unbuilt(w) => record[w].lease = 0
    /\ \A b \in Boots : boot[b].pc # "idle" => ~Unbuilt(boot[b].child)

(* A window whose document is loading goes on from where it is.                  *)
LEMMA ClosingKeepsBuilt ==
  ASSUME WindowTypes, NEW S, Closing(S)
  PROVE  /\ DOMAIN glass' = Children
         /\ \A w \in Children : Unbuilt(w)' <=> Unbuilt(w)
BY DEF WindowTypes, Closing, Unbuilt

\* What the surface, the parent of the windows, does keeps the invariant.
LEMMA SurfaceKeeps ==
  ASSUME WindowInv,
         ReplaceBegin \/ ReleaseBegin \/ SurfaceTurns \/ SurfaceRevoked \/ RevokedCloses
  PROVE  WindowInv'
<1>1. /\ UNCHANGED <<record, granted, dropping, boot>> /\ served' \subseteq served
      /\ glass' = glass \/ \E S : Closing(S)
  BY DEF ReplaceBegin, ReleaseBegin, SurfaceTurn, SurfaceTurns, SurfaceRevoked, RevokedCloses
<1>2. /\ DOMAIN glass' = Children /\ \A w \in Children : Unbuilt(w)' <=> Unbuilt(w)
  BY <1>1, ClosingKeepsBuilt DEF WindowInv, WindowTypes, Unbuilt
<1>3. WindowTypes'
  BY <1>1, <1>2 DEF WindowInv, WindowTypes, RegistryEntry, BootRecord
<1>4. \A l \in served' : Held(l)'
  BY <1>1 DEF WindowInv, Held
<1>5. \A w \in Children : Unbuilt(w)' => record'[w].lease = 0
  BY <1>1, <1>2 DEF WindowInv
<1>6. \A b \in Boots : boot'[b].pc # "idle" => ~Unbuilt(boot[b].child)'
  BY <1>1, <1>2 DEF WindowInv, WindowTypes
<1> QED
  BY <1>1, <1>3, <1>4, <1>5, <1>6 DEF WindowInv, Unbuilt

\* So does what one window does, and what is done to it.
LEMMA WindowKeeps ==
  ASSUME WindowInv, NEW w \in Children,
         Reserve(w) \/ Build(w) \/ CloseChild(w) \/ Destroyed(w) \/ CancelScripts(w)
  PROVE  WindowInv'
<1>1. CASE Reserve(w)
  <2>1. /\ glass[w] = "none" /\ record' = [record EXCEPT ![w] = [parent |-> parent, lease |-> 0]]
        /\ glass' = [glass EXCEPT ![w] = "reserved"]
        /\ UNCHANGED <<granted, served, dropping, boot>>
    BY <1>1 DEF Reserve
  <2>2. /\ DOMAIN record' = Children /\ DOMAIN glass' = Children
        /\ record'[w] = [parent |-> parent, lease |-> 0] /\ record'[w].lease = 0
        /\ record'[w].parent = parent
        /\ \A v \in Children \ {w} : record'[v] = record[v] /\ glass'[v] = glass[v]
    BY <2>1 DEF WindowInv, WindowTypes
  <2>3. \A v \in Children : Unbuilt(v)' <=> Unbuilt(v)
    BY <2>1, <2>2 DEF WindowInv, WindowTypes, Unbuilt
  <2>4. WindowTypes'
    BY <2>1, <2>2 DEF WindowInv, WindowTypes, RegistryEntry, BootRecord
  <2>5. 0 \notin served /\ record[w].lease = 0
    BY <2>1 DEF WindowInv, WindowTypes, Unbuilt
  <2>6. \A l \in served' : Held(l)'
    BY <2>1, <2>2, <2>5 DEF WindowInv, Held
  <2>7. \A v \in Children : Unbuilt(v)' => record'[v].lease = 0
    BY <2>2, <2>3 DEF WindowInv
  <2>8. \A b \in Boots : boot'[b].pc # "idle" => ~Unbuilt(boot[b].child)'
    BY <2>1, <2>3 DEF WindowInv, WindowTypes
  <2> QED
    BY <2>1, <2>4, <2>6, <2>7, <2>8 DEF WindowInv, Unbuilt
<1>2. CASE Build(w)
  <2>1. /\ glass[w] = "reserved" /\ UNCHANGED <<granted, served, dropping, boot>>
        /\ \/ glass' = [glass EXCEPT ![w] = "open"] /\ record' = record
           \/ glass' = [glass EXCEPT ![w] = "gone"] /\ record' = [record EXCEPT ![w] = NoRecord]
    BY <1>2 DEF Build
  <2>2. /\ DOMAIN record' = Children /\ DOMAIN glass' = Children
        /\ record'[w] \in {record[w], NoRecord} /\ RegistryEntry(w)'
        /\ \A v \in Children \ {w} : record'[v] = record[v] /\ glass'[v] = glass[v]
        /\ glass'[w] \in {"open", "gone"}
    BY <2>1 DEF WindowInv, WindowTypes, RegistryEntry, NoRecord
  <2>3. /\ ~Unbuilt(w)' /\ \A v \in Children \ {w} : Unbuilt(v)' <=> Unbuilt(v)
    BY <2>2 DEF Unbuilt
  <2>4. WindowTypes'
    BY <2>1, <2>2 DEF WindowInv, WindowTypes, RegistryEntry, BootRecord
  <2>5. 0 \notin served /\ record[w].lease = 0
    BY <2>1 DEF WindowInv, WindowTypes, Unbuilt
  <2>6. \A l \in served' : Held(l)'
    BY <2>1, <2>2, <2>5 DEF WindowInv, Held
  <2>7. \A v \in Children : Unbuilt(v)' => record'[v].lease = 0
    BY <2>2, <2>3 DEF WindowInv
  <2>8. \A b \in Boots : boot'[b].pc # "idle" => ~Unbuilt(boot[b].child)'
    BY <2>1, <2>3 DEF WindowInv, WindowTypes
  <2> QED
    BY <2>1, <2>4, <2>6, <2>7, <2>8 DEF WindowInv, Unbuilt
<1>3. CASE CloseChild(w)
  <2>1. Closing({w}) /\ UNCHANGED <<record, granted, served, dropping, boot>>
    BY <1>3 DEF CloseChild
  <2>2. /\ DOMAIN glass' = Children /\ \A v \in Children : Unbuilt(v)' <=> Unbuilt(v)
    BY <2>1, ClosingKeepsBuilt DEF WindowInv
  <2>3. WindowTypes'
    BY <2>1, <2>2 DEF WindowInv, WindowTypes, RegistryEntry, BootRecord
  <2>4. \A b \in Boots : boot'[b].pc # "idle" => ~Unbuilt(boot[b].child)'
    BY <2>1, <2>2 DEF WindowInv, WindowTypes
  <2> QED
    BY <2>1, <2>2, <2>3, <2>4 DEF WindowInv, Held, Unbuilt
<1>4. CASE Destroyed(w)
  <2>1. /\ glass[w] \in {"open", "closing"} /\ glass' = [glass EXCEPT ![w] = "destroyed"]
        /\ record' = [record EXCEPT ![w] = NoRecord]
        /\ dropping' = dropping \cup ({record[w].lease} \ {0})
        /\ UNCHANGED <<granted, served, boot>>
    BY <1>4 DEF Destroyed
  <2>2. /\ DOMAIN record' = Children /\ DOMAIN glass' = Children
        /\ record'[w] = NoRecord /\ RegistryEntry(w)'
        /\ \A v \in Children \ {w} : record'[v] = record[v] /\ glass'[v] = glass[v]
        /\ glass'[w] = "destroyed"
    BY <2>1 DEF WindowInv, WindowTypes, RegistryEntry, NoRecord
  <2>3. \A v \in Children : Unbuilt(v)' <=> Unbuilt(v)
    BY <2>1, <2>2 DEF Unbuilt
  <2>4. WindowTypes'
    BY <2>1, <2>2 DEF WindowInv, WindowTypes, RegistryEntry, BootRecord
  <2>5. 0 \notin served
    BY DEF WindowInv, WindowTypes
  <2>6. \A l \in served' : Held(l)'
    BY <2>1, <2>2, <2>5 DEF WindowInv, Held
  <2>7. \A v \in Children : Unbuilt(v)' => record'[v].lease = 0
    BY <2>1, <2>2, <2>3 DEF WindowInv, Unbuilt
  <2>8. \A b \in Boots : boot'[b].pc # "idle" => ~Unbuilt(boot[b].child)'
    BY <2>1, <2>3 DEF WindowInv, WindowTypes
  <2> QED
    BY <2>1, <2>4, <2>6, <2>7, <2>8 DEF WindowInv, Unbuilt
<1>5. CASE CancelScripts(w)
  <2>1. /\ glass[w] = "destroyed" /\ glass' = [glass EXCEPT ![w] = "gone"]
        /\ UNCHANGED <<record, granted, served, dropping, boot>>
    BY <1>5 DEF CancelScripts
  <2>2. DOMAIN glass' = Children /\ \A v \in Children : Unbuilt(v)' <=> Unbuilt(v)
    BY <2>1 DEF WindowInv, WindowTypes, Unbuilt
  <2>3. WindowTypes'
    BY <2>1, <2>2 DEF WindowInv, WindowTypes, RegistryEntry, BootRecord
  <2>4. \A b \in Boots : boot'[b].pc # "idle" => ~Unbuilt(boot[b].child)'
    BY <2>1, <2>2 DEF WindowInv, WindowTypes
  <2> QED
    BY <2>1, <2>2, <2>3, <2>4 DEF WindowInv, Held, Unbuilt
<1> QED
  BY <1>1, <1>2, <1>3, <1>4, <1>5

(* What every step of a bootstrap leaves alone, but for what is said of it.      *)
LEMMA OneBoot ==
  ASSUME WindowInv, NEW b \in Boots,
         DOMAIN boot' = Boots, \A c \in Boots \ {b} : boot'[c] = boot[c], BootRecord(b)',
         boot'[b].pc # "idle" => boot'[b].child \in Children /\ ~Unbuilt(boot'[b].child),
         UNCHANGED <<record, glass>>, granted' \in Nat, served' \subseteq Nat \ {0},
         \A l \in served' : Held(l)'
  PROVE  WindowInv'
<1>1. WindowTypes'
  BY DEF WindowInv, WindowTypes, RegistryEntry, BootRecord
<1>2. \A c \in Boots : boot'[c].pc # "idle" => ~Unbuilt(boot'[c].child)
  BY DEF WindowInv
<1> QED
  BY <1>1, <1>2 DEF WindowInv, WindowTypes, Unbuilt

\* One bootstrap is now there, for the same window, with these leases.
BootNow(b, pc, lease, old) ==
    /\ DOMAIN boot' = Boots /\ BootRecord(b)' /\ \A c \in Boots \ {b} : boot'[c] = boot[c]
    /\ boot'[b].pc = pc /\ boot'[b].child = boot[b].child
    /\ boot'[b].lease = lease /\ boot'[b].old = old

\* A bootstrap that goes on keeps its window and its parent.
LEMMA BootGoesOn ==
  ASSUME WindowInv, NEW b \in Boots, NEW pc
  PROVE  /\ boot' = [boot EXCEPT ![b].pc = pc] => BootNow(b, pc, boot[b].lease, boot[b].old)
         /\ \A l : boot' = [boot EXCEPT ![b].pc = pc, ![b].lease = l] => BootNow(b, pc, l, boot[b].old)
         /\ \A l : boot' = [boot EXCEPT ![b].pc = pc, ![b].old = l] => BootNow(b, pc, boot[b].lease, l)
<1>1. DOMAIN boot = Boots /\ BootRecord(b)
  BY DEF WindowInv, WindowTypes
<1>2. ASSUME boot' = [boot EXCEPT ![b].pc = pc]
      PROVE  BootNow(b, pc, boot[b].lease, boot[b].old)
  BY <1>1, <1>2 DEF BootRecord, BootNow
<1>3. ASSUME NEW l, boot' = [boot EXCEPT ![b].pc = pc, ![b].lease = l]
      PROVE  BootNow(b, pc, l, boot[b].old)
  BY <1>1, <1>3 DEF BootRecord, BootNow
<1>4. ASSUME NEW l, boot' = [boot EXCEPT ![b].pc = pc, ![b].old = l]
      PROVE  BootNow(b, pc, boot[b].lease, l)
  BY <1>1, <1>4 DEF BootRecord, BootNow
<1> QED
  BY <1>2, <1>3, <1>4

\* A bootstrap that is over leaves the others alone.
LEMMA BootIsOver ==
  ASSUME WindowInv, NEW b \in Boots, boot' = [boot EXCEPT ![b] = NoBoot]
  PROVE  /\ DOMAIN boot' = Boots /\ BootRecord(b)' /\ boot'[b].pc = "idle"
         /\ \A c \in Boots \ {b} : boot'[c] = boot[c]
BY DEF NoBoot, WindowInv, WindowTypes, BootRecord

\* The registry now has this lease for one window.
RecordNow(w, lease) ==
    /\ DOMAIN record' = Children /\ RegistryEntry(w)' /\ record'[w].lease = lease
    /\ \A v \in Children \ {w} : record'[v] = record[v]

\* Binding a lease changes one entry of the registry, and nothing else of it.
LEMMA NewLease ==
  ASSUME WindowTypes, NEW w \in Children, NEW l, record' = [record EXCEPT ![w].lease = l]
  PROVE  RecordNow(w, l)
BY DEF WindowTypes, RegistryEntry, RecordNow

(* The lease of a window is only ever changed for one that is built.             *)
LEMMA OneBind ==
  ASSUME WindowInv, NEW b \in Boots, NEW w \in Children, NEW lease, RecordNow(w, lease),
         ~Unbuilt(w), DOMAIN boot' = Boots, \A c \in Boots \ {b} : boot'[c] = boot[c],
         BootRecord(b)', boot'[b].child = w, UNCHANGED <<glass, granted, served>>,
         \A l \in served' : Held(l)'
  PROVE  WindowInv'
<1>1. WindowTypes'
  BY DEF WindowInv, WindowTypes, RegistryEntry, BootRecord, RecordNow
<1>2. \A c \in Boots : boot'[c].pc # "idle" => ~Unbuilt(boot'[c].child)
  BY DEF WindowInv
<1>3. \A v \in Children : Unbuilt(v) => record'[v].lease = 0
  BY DEF WindowInv, RecordNow
<1> QED
  BY <1>1, <1>2, <1>3 DEF WindowInv, Unbuilt

\* A step of a bootstrap keeps the invariant: what it replaces it releases later.
LEMMA BootKeeps ==
  ASSUME WindowInv, NEW b \in Boots,
         BootStep(b) \/ \E w \in Children : BootBegin(b, w)
  PROVE  WindowInv'
<1>1. /\ DOMAIN boot = Boots /\ BootRecord(b)
      /\ boot[b].pc # "idle" => boot[b].child \in Children /\ ~Unbuilt(boot[b].child)
      /\ granted \in Nat /\ served \subseteq Nat \ {0} /\ DOMAIN record = Children
      /\ \A w \in Children : RegistryEntry(w)
  BY DEF WindowInv, WindowTypes
<1>2. ASSUME NEW w \in Children, BootBegin(b, w)
      PROVE  WindowInv'
  <2>1. /\ glass[w] = "open" /\ boot[b] = NoBoot
        /\ boot' = [boot EXCEPT ![b] = [NoBoot EXCEPT !.pc = "issue", !.child = w,
                                                      !.parent = record[w].parent]]
        /\ UNCHANGED <<record, glass, granted, served, dropping>>
    BY <1>2 DEF BootBegin
  <2>2. /\ DOMAIN boot' = Boots /\ BootRecord(b)' /\ \A c \in Boots \ {b} : boot'[c] = boot[c]
        /\ boot'[b].child = w /\ boot'[b].pc = "issue"
    BY <2>1, <1>1 DEF BootRecord, NoBoot
  <2>3. ~Unbuilt(w)
    BY <2>1 DEF Unbuilt
  <2>4. \A l \in served' : Held(l)'
    BY <2>1, <2>2 DEF WindowInv, Held, NoBoot
  <2> QED
    BY <2>1, <2>2, <2>3, <2>4, <1>1, OneBoot
<1>3. CASE BootIssue(b)
  <2>1. /\ boot[b].pc = "issue" /\ UNCHANGED <<record, glass, dropping>>
        /\ \/ /\ granted' = granted + 1 /\ served' = served \cup {granted'}
              /\ BootNow(b, "bind", granted', boot[b].old)
           \/ boot' = [boot EXCEPT ![b] = NoBoot] /\ UNCHANGED <<granted, served>>
    BY <1>3, BootGoesOn DEF BootIssue
  <2>2. CASE /\ granted' = granted + 1 /\ served' = served \cup {granted'}
             /\ BootNow(b, "bind", granted', boot[b].old)
    <3>0. granted' = granted + 1 /\ served' = served \cup {granted'}
      BY <2>2
    <3>1. granted' \in Nat /\ served' \subseteq Nat \ {0}
      <4>1. granted \in Nat /\ served \subseteq Nat \ {0}
        BY <1>1
      <4> QED
        BY <3>0, <4>1
    <3>2. ASSUME NEW l, l = granted' PROVE Held(l)'
      <4>1. boot'[b].pc = "bind" /\ boot'[b].lease = l
        BY <2>2, <3>2 DEF BootNow
      <4> QED
        BY <4>1 DEF Held
    <3>3. ASSUME NEW l \in served PROVE Held(l)'
      <4>1. Held(l)
        BY DEF WindowInv
      <4>2. boot[b].pc \notin {"bind", "abandon", "settle"}
        BY <2>1
      <4> QED
        BY <2>1, <2>2, <4>1, <4>2 DEF Held, BootNow
    <3>4. \A l \in served' : Held(l)'
      <4> SUFFICES ASSUME NEW l \in served' PROVE Held(l)'
        OBVIOUS
      <4>1. l \in served \/ l = granted'
        BY <3>0
      <4> QED
        BY <3>2, <3>3, <4>1
    <3>5. /\ DOMAIN boot' = Boots /\ BootRecord(b)' /\ \A c \in Boots \ {b} : boot'[c] = boot[c]
          /\ boot'[b].child \in Children /\ ~Unbuilt(boot'[b].child)
      BY <1>1, <2>1, <2>2 DEF BootNow
    <3> QED
      BY <2>1, <3>1, <3>4, <3>5, OneBoot
  <2>3. CASE boot' = [boot EXCEPT ![b] = NoBoot] /\ UNCHANGED <<granted, served>>
    <3>1. \A l \in served' : Held(l)'
      BY <2>1, <2>3, BootIsOver DEF WindowInv, Held
    <3> QED
      BY <2>1, <2>3, <3>1, <1>1, BootIsOver, OneBoot
  <2> QED
    BY <2>1, <2>2, <2>3
<1>4. CASE BootReplace(b)
  <2>1. /\ boot[b].pc = "settle" /\ served' = served \ {boot[b].old}
        /\ BootNow(b, "confirm", boot[b].lease, boot[b].old)
        /\ UNCHANGED <<record, glass, granted, dropping>>
    BY <1>4, BootGoesOn DEF BootReplace, BootGoto
  <2>2. \A l \in served' : Held(l)'
    BY <2>1 DEF WindowInv, Held, BootNow
  <2> QED
    BY <2>1, <2>2, <1>1, OneBoot DEF BootNow
<1>5. CASE BootAbandon(b)
  <2>1. /\ boot[b].pc = "abandon" /\ served' = served \ {boot[b].lease}
        /\ Closing({boot[b].child}) /\ boot' = [boot EXCEPT ![b] = NoBoot]
        /\ UNCHANGED <<record, granted, dropping>>
    BY <1>5 DEF BootAbandon
  <2>2. \A l \in served' : Held(l)'
    BY <2>1, BootIsOver DEF WindowInv, Held
  <2>3. DOMAIN glass' = Children /\ \A w \in Children : Unbuilt(w)' <=> Unbuilt(w)
    BY <2>1, ClosingKeepsBuilt DEF WindowInv
  <2>4. WindowTypes'
    BY <2>1, <2>3, <1>1, BootIsOver DEF WindowInv, WindowTypes, RegistryEntry, BootRecord
  <2>5. \A c \in Boots : boot'[c].pc # "idle" => ~Unbuilt(boot[c].child)'
    BY <2>1, <2>3, BootIsOver DEF WindowInv, WindowTypes
  <2>6. \A w \in Children : Unbuilt(w)' => record'[w].lease = 0
    BY <2>1, <2>3 DEF WindowInv
  <2> QED
    BY <2>2, <2>4, <2>5, <2>6 DEF WindowInv, Unbuilt
<1>6. CASE BootBind(b)
  <2> DEFINE w == boot[b].child
  <2>1. /\ boot[b].pc = "bind" /\ UNCHANGED <<glass, granted, dropping>> /\ w \in Children /\ ~Unbuilt(w)
    BY <1>6, <1>1 DEF BootBind
  <2>2. CASE w \in Registered
    <3>1. /\ record' = [record EXCEPT ![w].lease = boot[b].lease] /\ served' = served
          /\ BootNow(b, "settle", boot[b].lease, record[w].lease)
      BY <2>2, <1>6, BootGoesOn DEF BootBind
    <3>2. RecordNow(w, boot[b].lease)
      BY <2>1, <3>1, NewLease DEF WindowInv
    <3>3. \A l \in served' : Held(l)'
      <4> SUFFICES ASSUME NEW l \in served PROVE Held(l)'
        BY <3>1
      <4>1. Held(l) /\ l # 0
        BY <1>1 DEF WindowInv
      <4>2. CASE l = boot[b].lease
        BY <4>1, <4>2, <2>1, <3>2 DEF Held, NoRecord, RecordNow
      <4>3. CASE l = record[w].lease
        BY <4>3, <3>1 DEF Held, BootNow
      <4>4. CASE l # boot[b].lease /\ l # record[w].lease
        BY <4>1, <4>4, <2>1, <3>1, <3>2 DEF Held, BootNow, RecordNow
      <4> QED
        BY <4>2, <4>3, <4>4
    <3> QED
      BY <2>1, <3>1, <3>2, <3>3, <1>1, OneBind DEF BootNow
  <2>3. CASE w \notin Registered
    <3>1. /\ record' = record /\ served' = served \ {boot[b].lease}
          /\ boot' = [boot EXCEPT ![b] = NoBoot]
      BY <2>3, <1>6 DEF BootBind
    <3>2. \A l \in served' : Held(l)'
      BY <2>1, <3>1, BootIsOver DEF WindowInv, Held
    <3> QED
      BY <2>1, <3>1, <3>2, <1>1, BootIsOver, OneBoot
  <2> QED
    BY <2>2, <2>3
<1>7. CASE BootConfirm(b)
  <2> DEFINE w == boot[b].child
  <2>1. /\ boot[b].pc = "confirm" /\ UNCHANGED <<glass, granted, served, dropping>>
        /\ w \in Children /\ ~Unbuilt(w)
    BY <1>7, <1>1 DEF BootConfirm
  <2>2. CASE ParentOf(w)
    <3>1. record' = record /\ boot' = [boot EXCEPT ![b] = NoBoot]
      BY <2>2, <1>7 DEF BootConfirm
    <3>2. \A l \in served' : Held(l)'
      BY <2>1, <3>1, BootIsOver DEF WindowInv, Held
    <3> QED
      BY <2>1, <3>1, <3>2, <1>1, BootIsOver, OneBoot
  <2>3. CASE ~ParentOf(w)
    <3> DEFINE left == IF record[w].lease = boot[b].lease /\ w \in Registered THEN 0 ELSE record[w].lease
    <3>1. /\ record' = [record EXCEPT ![w].lease = left]
          /\ BootNow(b, "abandon", boot[b].lease, boot[b].old)
      BY <2>3, <1>7, BootGoesOn DEF BootConfirm, BootGoto
    <3>2. RecordNow(w, left)
      BY <2>1, <3>1, NewLease DEF WindowInv
    <3>3. \A l \in served' : Held(l)'
      <4> SUFFICES ASSUME NEW l \in served PROVE Held(l)'
        BY <2>1
      <4>1. Held(l) /\ l # 0
        BY <1>1 DEF WindowInv
      <4>2. CASE l = boot[b].lease
        BY <4>2, <3>1 DEF Held, BootNow
      <4>3. CASE l # boot[b].lease
        <5>1. record[w].lease = l => left = l
          BY <4>3
        <5> HIDE DEF left
        <5>2. record[w].lease = l => record'[w] # NoRecord
          BY <4>1, <5>1, <3>2 DEF RecordNow, NoRecord
        <5> QED
          BY <4>1, <4>3, <5>1, <5>2, <2>1, <3>1, <3>2 DEF Held, BootNow, RecordNow
      <4> QED
        BY <4>2, <4>3
    <3> QED
      BY <2>1, <3>1, <3>2, <3>3, <1>1, OneBind DEF BootNow
  <2> QED
    BY <2>2, <2>3
<1> QED
  BY <1>2, <1>3, <1>4, <1>5, <1>6, <1>7 DEF BootStep

\* The invariant holds from the start on.
LEMMA WindowInvHolds == BrowserSpec => []WindowInv
<1>1. BrowserInit => WindowInv
  <2> SUFFICES ASSUME BrowserInit PROVE WindowInv
    OBVIOUS
  <2>1. /\ DOMAIN record = Children /\ DOMAIN glass = Children /\ DOMAIN boot = Boots
        /\ \A w \in Children : record[w] = NoRecord /\ RegistryEntry(w) /\ record[w].lease = 0
        /\ \A b \in Boots : BootRecord(b) /\ boot[b].pc = "idle"
        /\ granted = 0 /\ served = {}
    BY DEF BrowserInit, RegistryEntry, NoRecord, BootRecord, NoBoot
  <2> QED
    BY <2>1 DEF WindowInv, WindowTypes
<1>2. WindowInv /\ [BrowserNext]_browserVars => WindowInv'
  <2> SUFFICES ASSUME WindowInv, [BrowserNext]_browserVars PROVE WindowInv'
    OBVIOUS
  <2>1. CASE ReplaceBegin \/ ReleaseBegin \/ SurfaceTurns \/ SurfaceRevoked \/ RevokedCloses
    BY <2>1, SurfaceKeeps
  <2>2. ASSUME NEW w \in Children,
               Reserve(w) \/ Build(w) \/ CloseChild(w) \/ Destroyed(w) \/ CancelScripts(w)
        PROVE  WindowInv'
    BY <2>2, WindowKeeps
  <2>3. ASSUME NEW b \in Boots, BootStep(b) \/ \E w \in Children : BootBegin(b, w)
        PROVE  WindowInv'
    BY <2>3, BootKeeps
  <2>4. ASSUME UNCHANGED <<record, glass, granted, boot>>, served' \subseteq served,
               \A l \in served' : l \in dropping => l \in dropping'
        PROVE  WindowInv'
    <3>1. WindowTypes'
      BY <2>4 DEF WindowInv, WindowTypes, RegistryEntry, BootRecord
    <3>2. \A l \in served' : Held(l)'
      BY <2>4 DEF WindowInv, Held
    <3> QED
      BY <2>4, <3>1, <3>2 DEF WindowInv, Unbuilt
  <2>5. ASSUME NEW l, DropLease(l) PROVE WindowInv'
    BY <2>4, <2>5 DEF DropLease
  <2>6. ASSUME NEW e \in Scripts, ScriptStep(e) \/ \E w \in Children : ScriptFinds(e, w)
        PROVE  WindowInv'
    BY <2>4, <2>6 DEF ScriptStep, ScriptEnters, ScriptAnswered, ScriptTimesOut, ScriptCancelled,
                      ScriptFinds, sameWindows
  <2>7. CASE UNCHANGED browserVars
    BY <2>4, <2>7 DEF browserVars
  <2> QED
    BY <2>1, <2>2, <2>3, <2>5, <2>6, <2>7 DEF BrowserNext
<1> QED
  BY <1>1, <1>2, PTL DEF BrowserSpec

(* For any number of windows, documents and leases: a served lease of a child is *)
(* the one the registry names for a window, or somebody is about to bind or to   *)
(* release it (get_utools_browser_window_bootstrap, take_window_lease).          *)
THEOREM NoLeaseIsOrphaned == BrowserSpec => []NoOrphanLease
<1>1. WindowInv => NoOrphanLease
  BY DEF WindowInv, Held, NoOrphanLease, Registered
<1> QED
  BY <1>1, WindowInvHolds, PTL

------------------------------------------------------------------------------
(* The super panel *)

DetectorStates == {"none", "waits", "gesture", "past", "shows", "ended"}

\* Between the switch and the revocation a gesture may still wait; a new listener is
\* started only when there is no other.
PanelInv ==
    /\ hook \in [Listeners -> BOOLEAN] /\ detector \in [Listeners -> DetectorStates]
    /\ slot \in Listeners \cup {NoListener} /\ tokens \in Nat /\ unused \in Nat
    /\ ~enabled => unused = 0 \/ panelCommand.pc = "revoke"
    /\ panelCommand.pc = "start" => slot = NoListener
    /\ panelCommand.pc = "stopped" /\ panelCommand.next = "start" => slot = NoListener
    /\ \A l \in Listeners : hook[l] \/ detector[l] \notin {"none", "ended"} => l = slot

\* A step of a command of the panel keeps the invariant.
LEMMA PanelCommandsKeep ==
  ASSUME PanelInv,
         \/ Enable \/ DisableAsked \/ ExitAsked \/ Revoke \/ CloseGate \/ StopListener \/ Joined
         \/ NotStopped \/ AfterStop \/ Ensure \/ StartFailed \/ PanelRestart \/ Consume
  PROVE  PanelInv'
<1> USE PanelAssumption DEF gates, threads, Doing, Idle, PanelFault
<1>1. CASE Enable
  BY <1>1 DEF Enable, PanelInv
<1>2. CASE DisableAsked
  BY <1>2 DEF DisableAsked, Disable, PanelInv
<1>3. CASE ExitAsked
  BY <1>3 DEF ExitAsked, Disable, PanelInv
<1>4. CASE Revoke
  BY <1>4 DEF Revoke, PanelInv
<1>5. CASE CloseGate
  BY <1>5 DEF CloseGate, PanelInv
<1>6. CASE StopListener
  BY <1>6 DEF StopListener, PanelInv
<1>7. CASE Joined
  BY <1>7 DEF Joined, PanelInv
<1>8. CASE NotStopped
  BY <1>8 DEF NotStopped, PanelInv
<1>9. CASE AfterStop
  <2>1. /\ panelCommand.pc = "stopped"
        /\ \/ panelCommand' = Idle
           \/ panelCommand' = Doing(panelCommand.next, "none") /\ panelCommand.next \in {"start", "exit"}
    BY <1>9 DEF AfterStop
  <2>2. UNCHANGED <<enabled, slot, hook, detector, unused, tokens>>
    BY <1>9 DEF AfterStop
  <2> QED
    BY <2>1, <2>2 DEF PanelInv
<1>10. CASE Ensure
  <2>1. \/ panelCommand' = Idle
        \/ slot = NoListener /\ panelCommand' = Doing("start", "none")
        \/ panelCommand' = Doing("stop", "start")
    BY <1>10 DEF Ensure
  <2>2. UNCHANGED <<enabled, panelChoice, slot, hook, detector, stopping, unused, tokens>>
        /\ panelCommand.pc # "revoke"
    BY <1>10 DEF Ensure
  <2> QED
    BY <2>1, <2>2 DEF PanelInv
<1>11. CASE StartFailed
  BY <1>11 DEF StartFailed, Disable, PanelInv
<1>12. CASE PanelRestart
  BY <1>12 DEF PanelRestart, PanelInv, DetectorStates
<1>13. CASE Consume
  BY <1>13 DEF Consume, PanelInv
<1> QED
  BY <1>1, <1>2, <1>3, <1>4, <1>5, <1>6, <1>7, <1>8, <1>9, <1>10, <1>11, <1>12, <1>13

\* The slot is empty, so that no other listener is alive when one starts.
LEMMA StartNewKeeps ==
  ASSUME PanelInv, StartNew
  PROVE  PanelInv'
<1> USE PanelAssumption DEF Doing, Idle, PanelFault
<1>1. slot = NoListener /\ panelCommand.pc = "start"
  BY DEF StartNew, PanelInv
<1>2. PICK l \in Listeners :
        /\ detector[l] = "none"
        /\ \/ /\ slot' = l /\ hook' = [hook EXCEPT ![l] = TRUE]
              /\ detector' = [detector EXCEPT ![l] = "waits"]
           \/ /\ slot' = NoListener /\ detector' = [detector EXCEPT ![l] = "ended"] /\ hook' = hook
           \/ /\ slot' = l /\ detector' = [detector EXCEPT ![l] = "waits"]
              /\ \E b \in BOOLEAN : hook' = [hook EXCEPT ![l] = b]
        /\ panelCommand'.pc \in {"idle", "failed"} 
  <2>1. PICK l \in {k \in Listeners : detector[k] = "none"} :
         \/ /\ slot' = l
            /\ hook' = [hook EXCEPT ![l] = TRUE]
            /\ detector' = [detector EXCEPT ![l] = "waits"]
            /\ panelCommand' = Idle
         \/ /\ \/ slot' = NoListener /\ detector' = [detector EXCEPT ![l] = "ended"]
                  /\ UNCHANGED hook
               \/ slot' = l /\ detector' = [detector EXCEPT ![l] = "waits"]
                  /\ \E b \in BOOLEAN : hook' = [hook EXCEPT ![l] = b]
            /\ panelCommand' = Doing("failed", "none")
    BY DEF StartNew
  <2> QED
    BY <2>1
<1>3. UNCHANGED <<enabled, panelChoice, unused, tokens>>
  BY DEF StartNew, PanelInv
<1>4. \A k \in Listeners : ~hook[k] /\ detector[k] \in {"none", "ended"}
  BY <1>1 DEF PanelInv
<1>5. hook' \in [Listeners -> BOOLEAN] /\ detector' \in [Listeners -> DetectorStates]
  BY <1>2 DEF PanelInv, DetectorStates
<1>6. \A k \in Listeners : hook'[k] \/ detector'[k] \notin {"none", "ended"} => k = slot'
  BY <1>2, <1>4 DEF PanelInv
<1> QED
  BY <1>1, <1>2, <1>3, <1>5, <1>6 DEF PanelInv

\* So does a step of a listener or its detector.
LEMMA DetectorKeeps ==
  ASSUME PanelInv, NEW l \in Listeners,
         Gesture(l) \/ PassGates(l) \/ Issue(l) \/ Show(l) \/ EndThreads(l)
  PROVE  PanelInv'
<1> USE DEF gates, Moves, DetectorStates
<1>1. CASE Gesture(l)
  BY <1>1 DEF Gesture, PanelInv
<1>2. CASE PassGates(l)
  BY <1>2 DEF PassGates, PanelInv
<1>3. CASE Issue(l)
  BY <1>3 DEF Issue, StillOpen, PanelInv
<1>4. CASE Show(l)
  BY <1>4 DEF Show, PanelInv
<1>5. CASE EndThreads(l)
  BY <1>5 DEF EndThreads, PanelInv
<1> QED
  BY <1>1, <1>2, <1>3, <1>4, <1>5

\* The invariant holds from the start on.
LEMMA PanelInvHolds == PanelSpec => []PanelInv
<1>1. PanelInit => PanelInv
  <2>1. [l \in Listeners |-> FALSE] \in [Listeners -> BOOLEAN]
    OBVIOUS
  <2>2. [l \in Listeners |-> "none"] \in [Listeners -> DetectorStates]
    BY DEF DetectorStates
  <2> QED
    BY <2>1, <2>2 DEF PanelInit, PanelInv, Idle
<1>2. ASSUME PanelInv, [PanelNext]_panelVars PROVE PanelInv'
  <2>1. CASE UNCHANGED panelVars
    BY <1>2, <2>1 DEF panelVars, PanelInv
  <2> QED
    BY <1>2, <2>1, PanelCommandsKeep, StartNewKeeps, DetectorKeeps DEF PanelNext
<1> QED
  BY <1>1, <1>2, PTL DEF PanelSpec

\* No gesture waits once the panel is off, and no listener lives outside the slot, for
\* any listeners and gestures.
THEOREM PanelOffIsOff == PanelSpec => []OffIsOff
<1>1. PanelInv => OffIsOff
  BY DEF PanelInv, OffIsOff, Idle
<1> QED
  BY <1>1, PanelInvHolds, PTL

------------------------------------------------------------------------------
(* The launcher's hotkey and those of plugins *)

KeyOrNone == Keys \cup {NoKey}
\* The key of a change is the launcher's from its registration on.
Taken == {"save", "unregister", "undo save", "undo key"}

KeyTypes ==
    /\ native \in [Keys -> {"free", "launcher", "plugin", "foreign"}]
    /\ hotkey.key \in KeyOrNone /\ preference \in KeyOrNone
    /\ change = [pc |-> change.pc, key |-> change.key, pref |-> change.pref, old |-> change.old,
                 oldPref |-> change.oldPref]
    /\ {change.key, change.pref, change.old, change.oldPref} \subseteq KeyOrNone
    /\ refresh = [pc |-> refresh.pc, plan |-> refresh.plan, kept |-> refresh.kept,
                  failed |-> refresh.failed, todo |-> refresh.todo]
    /\ refresh.pc \in {"no", "off", "on"} /\ refresh.kept \subseteq Keys /\ refresh.todo \subseteq Keys

\* While a change is under way the status stays as it was when it began.
LauncherInv ==
    /\ hotkey.key # NoKey => native[hotkey.key] = "launcher"
    /\ change.pc # "no" => change.old = hotkey.key /\ change.key \in Keys
    /\ change.pc = "save only" => change.key = hotkey.key
    /\ change.pc \in Taken => native[change.key] = "launcher"
    /\ change.pc \in Taken \cup {"register"} => change.key # hotkey.key

Calm    == keyFaults < 2
Faulted == keyFaults >= 1

\* Until two steps have failed, the saved preference is the one of the status, or the
\* one a change has saved and can take back.
PreferenceInv ==
    /\ keyFaults \in Nat
    /\ change.pc = "undo save" => Faulted
    /\ Calm /\ change.pc \notin {"unregister", "undo save"} => preference = hotkey.pref
    /\ Calm /\ change.pc # "no" => change.oldPref = hotkey.pref
    /\ change.pc = "unregister" => preference = change.pref

\* What a reconciliation keeps is registered, and what it is about to remove is.
ShortcutsInv ==
    /\ \A k \in Keys : active[k] # NoBinding /\ refresh.pc = "no" => native[k] = "plugin"
    /\ \A k \in refresh.kept : native[k] = "plugin"
    /\ refresh.pc = "off" => \A k \in refresh.todo : native[k] = "plugin" /\ k \notin refresh.kept

KeysInv == KeyTypes /\ LauncherInv /\ PreferenceInv /\ ShortcutsInv

(* A candidate for the key at a start is a key.                                  *)
LEMMA StartKeyIsKey ==
  ASSUME NEW held, NEW pref \in KeyOrNone
  PROVE  StartKey(held, pref) \in KeyOrNone
<1> DEFINE cs == Candidates(pref)
           free == {i \in DOMAIN cs : held[cs[i]] = "free"}
<1>1. cs \in Seq(Keys) /\ Len(cs) \in {2, 3} /\ DOMAIN cs = 1..Len(cs)
  <2>1. CASE pref = NoKey
    <3>1. cs = <<>> \o <<Primary, Fallback>>
      BY <2>1 DEF Candidates
    <3> QED
      BY <3>1, KeyAssumption
  <2>2. CASE pref # NoKey
    <3>1. cs = <<pref>> \o <<Primary, Fallback>> /\ pref \in Keys
      BY <2>2 DEF Candidates, KeyOrNone
    <3> QED
      BY <3>1, KeyAssumption
  <2> QED
    BY <2>1, <2>2
<1>2. free \subseteq 1..3 /\ \A i \in free : cs[i] \in Keys
  BY <1>1
<1>3. StartKey(held, pref) = IF free = {} THEN NoKey ELSE cs[CHOOSE i \in free : \A j \in free : i <= j]
  BY Zenon DEF StartKey
<1> HIDE DEF free, cs
<1>4. free # {} => \E i \in free : \A j \in free : i <= j
  <2>1. 1..3 = {1, 2, 3}
    OBVIOUS
  <2>2. CASE 1 \in free
    BY <2>2, <1>2
  <2>3. CASE 1 \notin free /\ 2 \in free
    BY <2>1, <2>3, <1>2
  <2>4. CASE 1 \notin free /\ 2 \notin free
    <3>1. free \subseteq {3}
      BY <2>1, <2>4, <1>2
    <3>2. \A j \in free : 3 <= j
      BY <3>1
    <3>3. free # {} => 3 \in free
      BY <3>1
    <3> QED
      BY <3>2, <3>3
  <2> QED
    BY <2>2, <2>3, <2>4
<1> QED
  BY <1>2, <1>3, <1>4 DEF KeyOrNone

Settled == keyFaults' \in Nat /\ (Calm' => Calm) /\ (Faulted => Faulted')
Faults  == Settled /\ Faulted' /\ (Calm' => ~Faulted)

(* Faults are only ever added, one at a time.                                    *)
LEMMA FaultsGrow ==
  ASSUME KeysInv
  PROVE  (NoFault => Settled) /\ (Fault => Faults)
<1>1. keyFaults \in Nat
  BY DEF KeysInv, PreferenceInv
<1>2. ASSUME NoFault PROVE Settled
  BY <1>1, <1>2 DEF NoFault, Settled, Calm, Faulted
<1>3. ASSUME Fault PROVE Faults
  <2>1. keyFaults' = keyFaults + 1
    BY <1>3 DEF Fault
  <2> QED
    BY <1>1, <2>1 DEF Faults, Settled, Calm, Faulted
<1> QED
  BY <1>2, <1>3

GoesOn(pc) ==
    /\ change' = [pc |-> pc, key |-> change.key, pref |-> change.pref, old |-> change.old,
                  oldPref |-> change.oldPref]
    /\ change'.pc = pc
    /\ change'.key = change.key /\ change'.pref = change.pref
    /\ change'.old = change.old /\ change'.oldPref = change.oldPref

(* A change that goes on keeps what it was begun with.                           *)
LEMMA ChangeGoesOn ==
  ASSUME KeyTypes, NEW pc, ChangeGoto(pc)
  PROVE  GoesOn(pc)
BY DEF GoesOn, ChangeGoto, KeyTypes

(* When it has ended there is none, and a new status is the one it asked for.    *)
LEMMA ChangeIsOver ==
  /\ ChangeEnds => change' = NoChange /\ change'.pc = "no"
  /\ NewStatus => hotkey'.key = change.key /\ hotkey'.pref = change.pref
BY DEF ChangeEnds, NoChange, NewStatus

(* Nor is a key of the launcher disturbed by what the others do.                 *)
LEMMA LauncherUndisturbed ==
  ASSUME KeysInv, UNCHANGED <<hotkey, change>>,
         \A k \in Keys : native[k] = "launcher" => native'[k] = "launcher"
  PROVE  LauncherInv'
<1>1. hotkey.key # NoKey => hotkey.key \in Keys
  BY DEF KeysInv, KeyTypes, KeyOrNone
<1>2. change.pc \in Taken => change.key \in Keys
  BY DEF KeysInv, LauncherInv, Taken
<1> QED
  BY <1>1, <1>2 DEF KeysInv, LauncherInv

\* A step of a change of the launcher's hotkey keeps the invariant.
LEMMA ChangeKeeps ==
  ASSUME KeysInv,
         ChangeStep \/ \E k \in Keys : \E pref \in {k, NoKey} : ChangeBegins(k, pref)
  PROVE  KeysInv'
<1> USE KeyAssumption
<1>0. UNCHANGED <<wanted, active, refresh>>
  BY DEF ChangeStep, ChangeSavesOnly, ChangeRegisters, ChangeSaves, ChangeUnregisters,
         ChangeUndoesSave, ChangeUndoesKey, ChangeBegins, samePlugins
<1>1. ASSUME NEW k \in Keys, NEW pref \in {k, NoKey}, ChangeBegins(k, pref)
      PROVE  KeysInv'
  <2>1. /\ change.pc = "no"
        /\ change' = [pc |-> IF hotkey.key = k THEN "save only" ELSE "register", key |-> k, pref |-> pref,
                      old |-> hotkey.key, oldPref |-> preference]
        /\ UNCHANGED <<native, hotkey, preference>> /\ Settled
    BY <1>1, FaultsGrow DEF ChangeBegins
  <2>2. KeyTypes'
    BY <2>1, <1>0 DEF KeysInv, KeyTypes, NoChange, KeyOrNone
  <2>3. LauncherInv' /\ PreferenceInv'
    BY <2>1 DEF KeysInv, KeyTypes, LauncherInv, PreferenceInv, Taken, Settled, Faults
  <2>4. ShortcutsInv'
    BY <2>1, <1>0 DEF KeysInv, ShortcutsInv
  <2> QED
    BY <2>2, <2>3, <2>4 DEF KeysInv
<1>2. CASE ChangeSavesOnly
  <2>1. /\ change.pc = "save only" /\ change' = NoChange /\ change'.pc = "no" /\ native' = native
        /\ \/ preference' = change.pref /\ hotkey'.key = change.key /\ hotkey'.pref = change.pref
              /\ Settled
           \/ Faults /\ UNCHANGED <<preference, hotkey>>
    BY <1>2, ChangeGoesOn, ChangeIsOver, FaultsGrow DEF KeysInv, ChangeSavesOnly
  <2>2. KeyTypes'
    BY <2>1, <1>0 DEF KeysInv, KeyTypes, NoChange, GoesOn, KeyOrNone
  <2>3. LauncherInv' /\ PreferenceInv'
    BY <2>1 DEF KeysInv, KeyTypes, LauncherInv, PreferenceInv, Taken, Settled, Faults, KeyOrNone, GoesOn
  <2>4. ShortcutsInv'
    BY <2>1, <1>0 DEF KeysInv, ShortcutsInv
  <2> QED
    BY <2>2, <2>3, <2>4 DEF KeysInv
<1>3. CASE ChangeRegisters
  <2>1. /\ change.pc = "register" /\ UNCHANGED <<hotkey, preference>> /\ Settled
        /\ \/ /\ native[change.key] = "free" /\ native' = [native EXCEPT ![change.key] = "launcher"]
              /\ GoesOn("save")
           \/ change' = NoChange /\ change'.pc = "no" /\ native' = native
    BY <1>3, ChangeGoesOn, ChangeIsOver, FaultsGrow DEF KeysInv, ChangeRegisters, Register
  <2>5. change.key \in Keys /\ (hotkey.key # NoKey => native'[hotkey.key] = "launcher")
    BY <2>1 DEF KeysInv, KeyTypes, LauncherInv, KeyOrNone
  <2>6. \/ native'[change.key] = "launcher" /\ GoesOn("save")
        \/ change' = NoChange /\ change'.pc = "no"
    BY <2>1, <2>5 DEF KeysInv, KeyTypes
  <2>2. KeyTypes'
    BY <2>1, <1>0 DEF KeysInv, KeyTypes, NoChange, GoesOn, KeyOrNone
  <2>3. LauncherInv' /\ PreferenceInv'
    BY <2>1, <2>5, <2>6 DEF KeysInv, LauncherInv, PreferenceInv, Taken, Settled, Faults, KeyOrNone, GoesOn
  <2>4. ShortcutsInv'
    BY <2>1, <1>0 DEF KeysInv, KeyTypes, LauncherInv, ShortcutsInv
  <2> QED
    BY <2>2, <2>3, <2>4 DEF KeysInv
<1>4. CASE ChangeSaves
  <2>1. /\ change.pc = "save" /\ UNCHANGED <<native, hotkey>>
        /\ \/ preference' = change.pref /\ GoesOn("unregister")
              /\ Settled
           \/ Faults /\ GoesOn("undo key")
              /\ UNCHANGED preference
    BY <1>4, ChangeGoesOn, ChangeIsOver, FaultsGrow DEF KeysInv, ChangeSaves
  <2>2. KeyTypes'
    BY <2>1, <1>0 DEF KeysInv, KeyTypes, NoChange, GoesOn, KeyOrNone
  <2>3. LauncherInv' /\ PreferenceInv'
    BY <2>1 DEF KeysInv, KeyTypes, LauncherInv, PreferenceInv, Taken, Settled, Faults, KeyOrNone, GoesOn
  <2>4. ShortcutsInv'
    BY <2>1, <1>0 DEF KeysInv, ShortcutsInv
  <2> QED
    BY <2>2, <2>3, <2>4 DEF KeysInv
<1>5. CASE ChangeUnregisters
  <2>1. /\ change.pc = "unregister" /\ UNCHANGED preference
        /\ \/ /\ IF change.old = NoKey THEN UNCHANGED native
                 ELSE native' = [native EXCEPT ![change.old] = "free"]
              /\ hotkey'.key = change.key /\ hotkey'.pref = change.pref
              /\ change' = NoChange /\ change'.pc = "no" /\ Settled
           \/ Faults /\ GoesOn("undo save")
              /\ UNCHANGED <<native, hotkey>>
    BY <1>5, ChangeGoesOn, ChangeIsOver, FaultsGrow DEF KeysInv, ChangeUnregisters, Unregister
  <2>2. /\ change.old = hotkey.key /\ change.key \in Keys /\ change.key # change.old
        /\ native[change.key] = "launcher"
        /\ change.old # NoKey => native[change.old] = "launcher"
    BY <2>1 DEF KeysInv, LauncherInv, Taken
  <2>3. CASE Faults /\ GoesOn("undo save") /\ UNCHANGED <<native, hotkey>>
    <3>1. KeyTypes'
      BY <2>1, <2>3, <1>0 DEF KeysInv, KeyTypes, GoesOn, KeyOrNone
    <3>2. LauncherInv' /\ PreferenceInv'
      BY <2>1, <2>3 DEF KeysInv, LauncherInv, PreferenceInv, Taken, Settled, Faults, GoesOn
    <3>3. ShortcutsInv'
      BY <2>3, <1>0 DEF KeysInv, ShortcutsInv
    <3> QED
      BY <3>1, <3>2, <3>3 DEF KeysInv
  <2>4. CASE /\ IF change.old = NoKey THEN UNCHANGED native
                ELSE native' = [native EXCEPT ![change.old] = "free"]
             /\ hotkey'.key = change.key /\ hotkey'.pref = change.pref
             /\ change' = NoChange /\ change'.pc = "no" /\ Settled
    <3>1. /\ native' \in [Keys -> {"free", "launcher", "plugin", "foreign"}]
          /\ native'[change.key] = "launcher"
          /\ \A k \in Keys : native[k] = "plugin" => native'[k] = "plugin"
      BY <2>2, <2>4 DEF KeysInv, KeyTypes
    <3>2. KeyTypes'
      BY <2>1, <2>2, <2>4, <3>1, <1>0 DEF KeysInv, KeyTypes, NoChange, KeyOrNone
    <3>3. LauncherInv'
      BY <2>2, <2>4, <3>1 DEF LauncherInv, Taken
    <3>4. PreferenceInv'
      BY <2>1, <2>4 DEF KeysInv, PreferenceInv, Settled
    <3>5. ShortcutsInv'
      BY <3>1, <1>0 DEF KeysInv, KeyTypes, ShortcutsInv
    <3> QED
      BY <3>2, <3>3, <3>4, <3>5 DEF KeysInv
  <2> QED
    BY <2>1, <2>3, <2>4
<1>6. CASE ChangeUndoesSave
  <2>1. /\ change.pc = "undo save" /\ GoesOn("undo key")
        /\ UNCHANGED <<native, hotkey>>
        /\ \/ preference' = change.oldPref /\ Settled
           \/ Faults /\ UNCHANGED preference
    BY <1>6, ChangeGoesOn, ChangeIsOver, FaultsGrow DEF KeysInv, ChangeUndoesSave
  <2>2. KeyTypes'
    BY <2>1, <1>0 DEF KeysInv, KeyTypes, NoChange, GoesOn, KeyOrNone
  <2>3. LauncherInv' /\ PreferenceInv'
    BY <2>1 DEF KeysInv, KeyTypes, LauncherInv, PreferenceInv, Taken, Settled, Faults, KeyOrNone, GoesOn
  <2>4. ShortcutsInv'
    BY <2>1, <1>0 DEF KeysInv, ShortcutsInv
  <2> QED
    BY <2>2, <2>3, <2>4 DEF KeysInv
<1>7. CASE ChangeUndoesKey
  <2>1. /\ change.pc = "undo key" /\ change' = NoChange /\ change'.pc = "no" /\ UNCHANGED <<hotkey, preference>>
        /\ \/ native' = [native EXCEPT ![change.key] = "free"] /\ Settled
           \/ Faults /\ UNCHANGED native
    BY <1>7, ChangeGoesOn, ChangeIsOver, FaultsGrow DEF KeysInv, ChangeUndoesKey, Unregister
  <2>2. KeyTypes'
    BY <2>1, <1>0 DEF KeysInv, KeyTypes, NoChange, GoesOn, KeyOrNone
  <2>3. LauncherInv' /\ PreferenceInv'
    BY <2>1 DEF KeysInv, KeyTypes, LauncherInv, PreferenceInv, Taken, Settled, Faults, KeyOrNone, GoesOn
  <2>4. ShortcutsInv'
    <3>1. native[change.key] = "launcher" /\ UNCHANGED <<active, refresh>>
      BY <2>1, <1>7 DEF KeysInv, LauncherInv, Taken, ChangeUndoesKey, samePlugins
    <3>2. \A k \in Keys : native[k] = "plugin" => native'[k] = "plugin"
      BY <2>1, <3>1 DEF KeysInv, KeyTypes
    <3> QED
      BY <3>1, <3>2 DEF KeysInv, KeyTypes, ShortcutsInv
  <2> QED
    BY <2>2, <2>3, <2>4 DEF KeysInv
<1> QED
  BY <1>1, <1>2, <1>3, <1>4, <1>5, <1>6, <1>7 DEF ChangeStep

\* So does a step of a refresh of the plugins' keys.
LEMMA RefreshKeeps ==
  ASSUME KeysInv, RefreshBegins \/ RefreshStep
  PROVE  KeysInv'
<1>0. UNCHANGED <<hotkey, preference, change, wanted>>
  BY DEF RefreshBegins, RefreshStep, RefreshTurns, RefreshPublishes, RefreshRemoves, RefreshAdds,
         sameLauncher
<1>1. Settled
  BY FaultsGrow DEF RefreshBegins, RefreshStep, RefreshTurns, RefreshPublishes, RefreshRemoves,
                    RefreshAdds, Faults
<1>2. PreferenceInv'
  BY <1>0, <1>1 DEF KeysInv, PreferenceInv, Settled
<1>3. CASE RefreshBegins
  <2>1. PICK plan :
        /\ refresh.pc = "no" /\ UNCHANGED <<native, active>>
        /\ refresh' = [pc |-> "off", plan |-> plan, failed |-> {},
                       kept |-> {k \in Keys : active[k] # NoBinding} \ Stale(plan), todo |-> Stale(plan)]
    BY <1>3, Zenon DEF RefreshBegins
  <2>2. KeyTypes'
    BY <2>1, <1>0, <1>2 DEF KeysInv, KeyTypes, Stale
  <2>3. LauncherInv'
    BY <2>1, <1>0 DEF KeysInv, LauncherInv
  <2>4. ShortcutsInv'
    BY <2>1 DEF KeysInv, ShortcutsInv, Stale
  <2> QED
    BY <2>2, <2>3, <2>4, <1>2 DEF KeysInv
<1>4. ASSUME NEW k \in Keys, RefreshRemoves(k)
      PROVE  KeysInv'
  <2>1. /\ refresh.pc = "off" /\ k \in refresh.todo /\ UNCHANGED active
        /\ \/ native' = [native EXCEPT ![k] = "free"] /\ refresh' = [refresh EXCEPT !.todo = @ \ {k}]
           \/ native' = native
              /\ refresh' = [refresh EXCEPT !.todo = @ \ {k}, !.failed = @ \cup {k}]
    BY <1>4 DEF RefreshRemoves, Unregister
  <2>2. refresh'.pc = "off" /\ refresh'.todo = refresh.todo \ {k} /\ refresh'.kept = refresh.kept
    BY <2>1 DEF KeysInv, KeyTypes
  <2>3. native[k] = "plugin"
    BY <2>1 DEF KeysInv, ShortcutsInv
  <2>4. KeyTypes'
    BY <2>1, <2>2, <1>0, <1>2 DEF KeysInv, KeyTypes
  <2>5. LauncherInv'
    BY <2>1, <2>3, <1>0, LauncherUndisturbed DEF KeysInv, KeyTypes
  <2>6. ShortcutsInv'
    BY <2>1, <2>2 DEF KeysInv, KeyTypes, ShortcutsInv
  <2> QED
    BY <2>4, <2>5, <2>6, <1>2 DEF KeysInv
<1>5. CASE RefreshTurns
  <2>1. /\ UNCHANGED <<native, active>> /\ refresh.pc = "off"
        /\ refresh' = [refresh EXCEPT !.pc = "on",
                         !.todo = {k \in Keys : refresh.plan[k] # NoBinding}
                                  \ (refresh.kept \cup refresh.failed)]
    BY <1>5 DEF RefreshTurns
  <2>2. KeyTypes'
    BY <2>1, <1>0, <1>2 DEF KeysInv, KeyTypes
  <2>3. LauncherInv'
    BY <2>1, <1>0 DEF KeysInv, LauncherInv
  <2>4. ShortcutsInv'
    BY <2>1 DEF KeysInv, KeyTypes, ShortcutsInv
  <2> QED
    BY <2>2, <2>3, <2>4, <1>2 DEF KeysInv
<1>6. ASSUME NEW k \in Keys, RefreshAdds(k)
      PROVE  KeysInv'
  <2>1. /\ refresh.pc = "on" /\ UNCHANGED active
        /\ \/ /\ native[k] = "free" /\ native' = [native EXCEPT ![k] = "plugin"]
              /\ refresh' = [refresh EXCEPT !.todo = @ \ {k}, !.kept = @ \cup {k}]
           \/ native' = native /\ refresh' = [refresh EXCEPT !.todo = @ \ {k}]
    BY <1>6 DEF RefreshAdds, Register
  <2>2. /\ refresh'.pc = "on" /\ refresh'.todo = refresh.todo \ {k}
        /\ refresh'.kept \in {refresh.kept, refresh.kept \cup {k}}
        /\ refresh'.kept = refresh.kept \/ native'[k] = "plugin"
    BY <2>1 DEF KeysInv, KeyTypes
  <2>3. KeyTypes'
    BY <2>1, <2>2, <1>0, <1>2 DEF KeysInv, KeyTypes
  <2>4. LauncherInv'
    BY <2>1, <1>0, LauncherUndisturbed DEF KeysInv, KeyTypes
  <2>5. ShortcutsInv'
    BY <2>1, <2>2 DEF KeysInv, KeyTypes, ShortcutsInv
  <2> QED
    BY <2>3, <2>4, <2>5, <1>2 DEF KeysInv
<1>7. CASE RefreshPublishes
  <2>1. /\ native' = native /\ refresh' = NoRefresh /\ refresh.pc = "on"
        /\ active' = [k \in Keys |-> IF k \in refresh.kept THEN refresh.plan[k] ELSE NoBinding]
    BY <1>7 DEF RefreshPublishes
  <2>2. KeyTypes'
    BY <2>1, <1>0, <1>2 DEF KeysInv, KeyTypes, NoRefresh
  <2>3. LauncherInv'
    BY <2>1, <1>0 DEF KeysInv, LauncherInv
  <2>4. ShortcutsInv'
    BY <2>1 DEF KeysInv, ShortcutsInv, NoRefresh
  <2> QED
    BY <2>2, <2>3, <2>4, <1>2 DEF KeysInv
<1> QED
  BY <1>3, <1>4, <1>5, <1>6, <1>7 DEF RefreshStep

\* What a binding asks for is not in the invariant.
LEMMA KeysStay ==
  ASSUME KeysInv, UNCHANGED <<native, hotkey, preference, change, active, refresh, keyFaults>>
  PROVE  KeysInv'
<1>1. KeyTypes'
  BY DEF KeysInv, KeyTypes
<1>2. LauncherInv'
  BY DEF KeysInv, LauncherInv
<1>3. PreferenceInv'
  BY DEF KeysInv, PreferenceInv, Calm, Faulted
<1>4. ShortcutsInv'
  BY DEF KeysInv, ShortcutsInv
<1> QED
  BY <1>1, <1>2, <1>3, <1>4 DEF KeysInv

\* The invariant holds from the start on.
LEMMA KeysInvHolds == KeysSpec => []KeysInv
<1> USE KeyAssumption
<1>1. KeysInit => KeysInv
  BY DEF KeysInit, KeysInv, KeyTypes, LauncherInv, PreferenceInv, ShortcutsInv, NoChange, NoRefresh,
         KeyOrNone, Taken, Faulted
<1>2. KeysInv /\ [KeysNext]_keyVars => KeysInv'
  <2> SUFFICES ASSUME KeysInv, [KeysNext]_keyVars PROVE KeysInv'
    OBVIOUS
  <2>1. CASE ChangeStep \/ \E k \in Keys : \E pref \in {k, NoKey} : ChangeBegins(k, pref)
    BY <2>1, ChangeKeeps
  <2>2. CASE RefreshBegins \/ RefreshStep
    BY <2>2, RefreshKeeps
  <2>3. CASE HostRestarts
    <3> DEFINE held == [k \in Keys |-> IF native[k] = "foreign" THEN "foreign" ELSE "free"]
    <3>1. PICK key : /\ key = StartKey(held, preference)
                     /\ native' = [x \in Keys |-> IF x = key THEN "launcher" ELSE held[x]]
                     /\ hotkey' = [key |-> key, pref |-> preference]
      BY <2>3, Zenon DEF HostRestarts, StartsWith
    <3>2. key \in KeyOrNone
      BY <3>1, StartKeyIsKey DEF KeysInv, KeyTypes
    <3>3. /\ change' = NoChange /\ refresh' = NoRefresh /\ active' = [k \in Keys |-> NoBinding]
          /\ UNCHANGED <<preference, wanted, keyFaults>>
      BY <2>3 DEF HostRestarts
    <3>4. native' \in [Keys -> {"free", "launcher", "plugin", "foreign"}]
      BY <3>1
    <3>5. KeyTypes'
      BY <3>1, <3>2, <3>3, <3>4 DEF KeysInv, KeyTypes, NoChange, NoRefresh, KeyOrNone
    <3>7. /\ hotkey'.key = key /\ hotkey'.pref = preference /\ (key # NoKey => native'[key] = "launcher")
          /\ change'.pc = "no" /\ refresh'.pc = "no" /\ refresh'.kept = {}
      BY <3>1, <3>2, <3>3 DEF KeyOrNone, NoChange, NoRefresh
    <3>8. keyFaults \in Nat
      BY DEF KeysInv, PreferenceInv
    <3>6. LauncherInv' /\ PreferenceInv' /\ ShortcutsInv'
      BY <3>3, <3>7, <3>8 DEF LauncherInv, PreferenceInv, ShortcutsInv, Taken
    <3> QED
      BY <3>5, <3>6 DEF KeysInv
  <2>4. ASSUME NEW k \in Keys, ForeignKey(k)
        PROVE  KeysInv'
    <3>1. /\ native[k] \in {"free", "foreign"}
          /\ native' = [native EXCEPT ![k] = IF @ = "free" THEN "foreign" ELSE "free"]
          /\ UNCHANGED <<hotkey, preference, change, active, refresh, keyFaults>>
      BY <2>4 DEF ForeignKey, sameLauncher, samePlugins
    <3>2. KeyTypes' /\ ShortcutsInv'
      BY <3>1 DEF KeysInv, KeyTypes, ShortcutsInv
    <3>3. LauncherInv'
      BY <3>1, LauncherUndisturbed DEF KeysInv, KeyTypes
    <3>4. PreferenceInv'
      BY <3>1 DEF KeysInv, PreferenceInv, Calm, Faulted
    <3> QED
      BY <3>2, <3>3, <3>4 DEF KeysInv
  <2>5. ASSUME NEW b \in Bindings, NEW k \in KeyOrNone, Declares(b, k)
        PROVE  KeysInv'
    <3>1. UNCHANGED <<native, hotkey, preference, change, active, refresh, keyFaults>>
      BY <2>5 DEF Declares, sameLauncher, NoFault
    <3> QED
      BY <3>1, KeysStay
  <2>6. CASE UNCHANGED keyVars
    <3>1. UNCHANGED <<native, hotkey, preference, change, active, refresh, keyFaults>>
      BY <2>6 DEF keyVars
    <3> QED
      BY <3>1, KeysStay
  <2> QED
    BY <2>1, <2>2, <2>3, <2>4, <2>5, <2>6 DEF KeysNext, KeyOrNone
<1> QED
  BY <1>1, <1>2, PTL DEF KeysSpec

(* For any keys and any number of faults: the key the status names is the       *)
(* launcher's, at every step of a change and of a reconciliation, and the saved  *)
(* preference agrees with it after a change until two undoings have failed.     *)
THEOREM LauncherStaysReachable == KeysSpec => []LauncherReachable
<1>1. KeysInv => LauncherReachable
  BY DEF KeysInv, LauncherInv, PreferenceInv, LauncherReachable, Calm
<1> QED
  BY <1>1, KeysInvHolds, PTL

(* For any keys and bindings: what the registry of shortcuts holds the system    *)
(* has given to it, and no key of the launcher runs a plugin.                    *)
THEOREM RegistryFollowsSystem == KeysSpec => []RegistryIsNative
<1>1. KeysInv => RegistryIsNative
  BY KeyAssumption DEF KeysInv, LauncherInv, ShortcutsInv, RegistryIsNative, Runs
<1> QED
  BY <1>1, KeysInvHolds, PTL

------------------------------------------------------------------------------
(* Selected *)

Less == {ss \in Nat \X Nat : ss[1] < ss[2]}
LEMMA Smallest == ASSUME NEW T \in SUBSET Nat, T # {} PROVE \E n \in T : \A m \in T : n <= m
<1>1. IsWellFoundedOn(Less, Nat)
  BY NatLessThanWellFounded, Zenon DEF OpToRel, Less
<1>2. PICK n \in T : \A m \in T : <<m, n>> \notin Less
  BY <1>1, WFMin, Zenon
<1>3. ASSUME NEW m \in T PROVE n <= m
  <2>1. <<m, n>> \in Nat \X Nat /\ <<m, n>>[1] = m /\ <<m, n>>[2] = n
    OBVIOUS
  <2>2. ~(m < n)
    BY <1>2, <2>1, Zenon DEF Less
  <2> QED BY <2>2
<1> QED BY <1>3

\* A set of numbers with 0, and with i + 1 if with i, has all of them.
LEMMA Counting ==
  ASSUME NEW n \in Nat, NEW G, 0 \in G, \A i \in 0..(n - 1) : i \in G => i + 1 \in G
  PROVE  \A i \in 0..n : i \in G
<1> DEFINE Rest == {i \in 0..n : i \notin G}
<1>1. SUFFICES ASSUME Rest # {} PROVE FALSE
  OBVIOUS
<1>2. Rest \in SUBSET Nat
  OBVIOUS
<1>3. PICK k \in Rest : \A m \in Rest : k <= m
  <2> HIDE DEF Rest
  <2> QED BY <1>1, <1>2, Smallest
<1>4. k # 0 /\ k - 1 \in 0..(n - 1) /\ k - 1 \notin Rest
  BY <1>3
<1> QED BY <1>3, <1>4

LEMMA SelectedFrom ==
  ASSUME NEW S, NEW s \in Seq(S), NEW T
  PROVE  Selected(s, T) \in Seq(S \cap T)
<1> DEFINE N == Len(s)
           Next(i, q) == IF s[i] \in T THEN Append(q, s[i]) ELSE q
           Upto(g, n) == [i \in 0..n |-> IF i = 0 THEN <<>> ELSE Next(i, g[i - 1])]
           Good == {n \in Nat : \E g : g = Upto(g, n)}
           F == CHOOSE g : g = Upto(g, N)
<1>1. Selected(s, T) = F[N]
  BY Zenon DEF Selected
<1>2. 0 \in Good
  <2> DEFINE g == [i \in 0..0 |-> <<>>]
  <2>1. g = Upto(g, 0)
    OBVIOUS
  <2> QED BY <2>1
<1>3. ASSUME NEW n \in 0..(N - 1), n \in Good PROVE n + 1 \in Good
  <2> HIDE DEF Next
  <2>1. PICK g : g = Upto(g, n)
    BY <1>3
  <2> DEFINE h == [i \in 0..(n + 1) |-> IF i = 0 THEN <<>> ELSE Next(i, g[i - 1])]
  <2>2. ASSUME NEW i \in 0..n PROVE h[i] = g[i]
    <3>1. g[i] = Upto(g, n)[i]
      BY <2>1, Zenon
    <3>2. Upto(g, n)[i] = IF i = 0 THEN <<>> ELSE Next(i, g[i - 1])
      OBVIOUS
    <3>3. h[i] = IF i = 0 THEN <<>> ELSE Next(i, g[i - 1])
      OBVIOUS
    <3> QED BY <3>1, <3>2, <3>3, Zenon
  <2>3. ASSUME NEW i \in 1..(n + 1) PROVE h[i - 1] = g[i - 1]
    <3>1. i - 1 \in 0..n
      OBVIOUS
    <3> HIDE DEF h
    <3> QED BY <2>2, <3>1
  <2>4. h = Upto(h, n + 1)
    <3>1. ASSUME NEW i \in 0..(n + 1)
          PROVE  (IF i = 0 THEN <<>> ELSE Next(i, g[i - 1])) = (IF i = 0 THEN <<>> ELSE Next(i, h[i - 1]))
      <4> HIDE DEF h
      <4>1. CASE i = 0  BY <4>1, Zenon
      <4>2. CASE i # 0
        <5>1. i \in 1..(n + 1)
          BY <4>2
        <5>2. h[i - 1] = g[i - 1]
          BY <2>3, <5>1, Zenon
        <5> QED BY <5>2, Zenon
      <4> QED BY <4>1, <4>2
    <3> QED BY <3>1, Zenon
  <2>5. n + 1 \in Nat
    OBVIOUS
  <2> QED BY <2>4, <2>5, Zenon
<1>4. N \in Nat
  OBVIOUS
<1>5. N \in Good
  <2>1. \A n \in 0..N : n \in Good
    <3> HIDE DEF Good
    <3> QED BY <1>2, <1>3, <1>4, Counting
  <2>2. N \in 0..N
    BY <1>4
  <2> QED BY <2>1, <2>2, Zenon
<1>6. F = Upto(F, N)
  <2>1. \E g : g = Upto(g, N)
    BY <1>5
  <2> QED BY <2>1, Zenon
<1> DEFINE K == S \cap T
           Typed == {i \in 0..N : F[i] \in Seq(K)}
<1>7. 0 \in Typed
  <2>1. F[0] = <<>>
    <3> HIDE DEF F
    <3> QED BY <1>6, <1>4
  <2>2. <<>> \in Seq(K) /\ 0 \in 0..N
    <3> HIDE DEF K
    <3> QED BY <1>4
  <2> HIDE DEF F, K
  <2> QED BY <2>1, <2>2, Zenon
<1>8. ASSUME NEW i \in 0..(N - 1), i \in Typed PROVE i + 1 \in Typed
  <2>1. F[i + 1] = Next(i + 1, F[i])
    <3> HIDE DEF F, Next
    <3>1. i + 1 \in 0..N /\ i + 1 # 0 /\ (i + 1) - 1 = i
      BY <1>4
    <3>2. F[i + 1] = IF i + 1 = 0 THEN <<>> ELSE Next(i + 1, F[(i + 1) - 1])
      BY <1>6, <3>1
    <3> QED BY <3>1, <3>2
  <2>2. i + 1 \in 0..N /\ (s[i + 1] \in T => s[i + 1] \in K)
    BY <1>4
  <2>3. F[i] \in Seq(K)
    BY <1>8, Zenon
  <2>4. Next(i + 1, F[i]) \in Seq(K)
    <3> HIDE DEF F, K
    <3> QED BY <2>2, <2>3
  <2>5. F[i + 1] \in Seq(K)
    <3> HIDE DEF F, Next
    <3> QED BY <2>1, <2>4, Zenon
  <2> QED BY <2>2, <2>5, Zenon
<1>9. \A i \in 0..N : i \in Typed
  <2> HIDE DEF Typed
  <2> QED BY <1>7, <1>8, <1>4, Counting
<1>10. N \in Typed
  <2>1. N \in 0..N
    BY <1>4
  <2> QED BY <1>9, <2>1, Zenon
<1> QED BY <1>1, <1>10, Zenon

------------------------------------------------------------------------------
(* Icons *)

\* An entry has the icon of its key, or says that there is none.
GoodEntries == {e \in [file : IconFiles, key : Nat, value : Nat, fresh : BOOLEAN] :
                    e.value \in {NoIcon, e.key}}

Looking == {"looks", "extracts", "releases"}
Ending  == {"stamps", "opens", "replies"}
AskerPcs  == {"none", "asks", "sends", "waits", "closes"}
WorkerPcs == {"gone", "starts", "idle"} \cup Looking \cup Ending
Askers  == [pc : AskerPcs, id : Nat, file : IconFiles \cup {"none"}, held : Nat, answer : Nat]
WorkerTyped ==
    /\ DOMAIN worker = {"pc", "id", "file", "key", "value", "guard"}
    /\ worker.pc \in WorkerPcs /\ worker.id \in Nat

IconTypes ==
    /\ fileVersion \in [IconFiles -> Nat] /\ lastIcon \in Nat
    /\ asker \in [IconCallers -> Askers]
    /\ iconQueue \in Seq([id : Nat, file : IconFiles])
    /\ icons \in Seq(GoodEntries)
    /\ WorkerTyped

\* A number is of one request, and before it there is none.
OwnNumbers ==
    /\ \A c \in IconCallers :
         /\ asker[c].id <= lastIcon
         /\ asker[c].pc \in {"none", "asks"} <=> asker[c].id = 0
    /\ \A c, d \in IconCallers : asker[c].id = asker[d].id /\ asker[c].id # 0 => c = d

\* The file of a request is held from before its number is taken ...
Holds(a, versions) == a.file \in IconFiles /\ a.held = versions[a.file]
AskersHold ==
    \A c \in IconCallers : asker[c].pc \in {"asks", "sends"} => Holds(asker[c], fileVersion)

\* ... while it is in the queue and until the worker has its icon.
IsFor(a, id, file, versions) ==
    a.id = id => a.pc \in {"waits", "closes"} /\ a.file = file /\ Holds(a, versions)
QueueHolds ==
    \A i \in 1..Len(iconQueue) :
        /\ iconQueue[i].id \in 1..lastIcon
        /\ \A c \in IconCallers : IsFor(asker[c], iconQueue[i].id, iconQueue[i].file, fileVersion)

WorkerHolds ==
    /\ worker.pc \in Looking =>
         /\ worker.guard /\ worker.file \in IconFiles /\ worker.id \in 1..lastIcon
         /\ \A c \in IconCallers : IsFor(asker[c], worker.id, worker.file, fileVersion)
    /\ worker.pc = "extracts" => worker.key = fileVersion[worker.file]
    /\ worker.pc = "releases" => worker.value \in {NoIcon, fileVersion[worker.file]}
    /\ worker.pc \in Ending =>
         /\ worker.id \in 1..lastIcon
         /\ \A c \in IconCallers : asker[c].id = worker.id =>
              asker[c].pc \in {"waits", "closes"} /\ worker.value \in {NoIcon, asker[c].held}

IconInv ==
    /\ IconTypes /\ OwnNumbers /\ AskersHold /\ QueueHolds /\ WorkerHolds /\ IconIsCurrent

LEMMA IconInitially == IconInit => IconInv
<1> SUFFICES ASSUME IconInit PROVE IconInv
  OBVIOUS
<1> USE IconAssumption
<1>1. NoAnswer \in Nat /\ Dropped \in Nat
  BY DEF NoAnswer, Dropped
<1>2. IconTypes
  <2>1. fileVersion \in [IconFiles -> Nat] /\ lastIcon \in Nat
    BY DEF IconInit
  <2>2. asker \in [IconCallers -> Askers]
    BY <1>1 DEF IconInit, NoAsker, Askers, AskerPcs
  <2>3. iconQueue \in Seq([id : Nat, file : IconFiles]) /\ icons \in Seq(GoodEntries)
    BY DEF IconInit
  <2>4. WorkerTyped
    BY DEF IconInit, Resting, WorkerTyped, WorkerPcs, NoIcon
  <2> QED BY <2>1, <2>2, <2>3, <2>4 DEF IconTypes
<1>3. OwnNumbers /\ AskersHold /\ IconIsCurrent
  BY DEF IconInit, OwnNumbers, AskersHold, IconIsCurrent, NoAsker
<1>4. QueueHolds
  BY DEF IconInit, QueueHolds
<1>5. WorkerHolds
  BY DEF IconInit, WorkerHolds, Resting, Looking, Ending
<1> QED BY <1>2, <1>3, <1>4, <1>5 DEF IconInv

\* A request that its caller goes on with, or gives up.
Continues(a, b) ==
    /\ a.id = b.id /\ a.file = b.file /\ a.held = b.held
    /\ a.pc \in {"waits", "closes"} => b.pc \in {"waits", "closes"}

\* A step of callers disturbs neither queue nor worker.
LEMMA StillHeld ==
  ASSUME IconInv, UNCHANGED <<fileVersion, worker>>, lastIcon' \in Nat, lastIcon <= lastIcon',
         \A d \in IconCallers : asker'[d].id \in 1..lastIcon => Continues(asker[d], asker'[d])
  PROVE  WorkerHolds' /\ (iconQueue' = iconQueue => QueueHolds')
<1> USE DEF IconInv
<1>1. ASSUME NEW id \in 1..lastIcon, NEW file, NEW d \in IconCallers,
             IsFor(asker[d], id, file, fileVersion)
      PROVE  IsFor(asker'[d], id, file, fileVersion)
  BY <1>1 DEF Continues, IsFor, Holds
<1>2. lastIcon \in Nat /\ 1..lastIcon \subseteq 1..lastIcon'
  BY DEF IconTypes
<1>3. worker' = worker /\ fileVersion' = fileVersion
  OBVIOUS
<1>4. QueueHolds' \/ iconQueue' # iconQueue
  <2>1. ASSUME NEW i \in 1..Len(iconQueue), NEW d \in IconCallers
        PROVE  IsFor(asker'[d], iconQueue[i].id, iconQueue[i].file, fileVersion)
    <3>1. iconQueue[i].id \in 1..lastIcon
      BY DEF QueueHolds
    <3>2. IsFor(asker[d], iconQueue[i].id, iconQueue[i].file, fileVersion)
      BY DEF QueueHolds
    <3> QED BY <1>1, <3>1, <3>2, Zenon
  <2>2. \A i \in 1..Len(iconQueue) : iconQueue[i].id \in 1..lastIcon'
    BY <1>2 DEF QueueHolds
  <2> QED BY <2>1, <2>2, <1>3 DEF QueueHolds
<1>5. WorkerHolds'
  <2>1. worker.pc \in Looking \cup Ending => worker.id \in 1..lastIcon /\ worker.id \in 1..lastIcon'
    BY <1>2 DEF WorkerHolds
  <2>2. ASSUME worker.pc \in Looking, NEW d \in IconCallers
        PROVE  IsFor(asker'[d], worker.id, worker.file, fileVersion)
    <3>1. IsFor(asker[d], worker.id, worker.file, fileVersion)
      BY <2>2 DEF WorkerHolds
    <3> QED BY <1>1, <2>1, <2>2, <3>1, Zenon
  <2>3. ASSUME worker.pc \in Ending, NEW d \in IconCallers, asker'[d].id = worker.id
        PROVE  asker'[d].pc \in {"waits", "closes"} /\ worker.value \in {NoIcon, asker'[d].held}
    BY <2>1, <2>3 DEF WorkerHolds, Continues
  <2> QED BY <2>1, <2>2, <2>3, <1>3 DEF WorkerHolds
<1> QED BY <1>4, <1>5

\* A caller that leaves, or that steps on with the number it has.
LEMMA CallerStep ==
  ASSUME IconInv, NEW c \in IconCallers, UNCHANGED <<fileVersion, iconQueue, worker, icons, lastIcon>>,
         NEW pc \in {"waits", "closes"},
         \/ asker' = [asker EXCEPT ![c] = NoAsker]
         \/ asker[c].pc = "waits" /\ asker' = [asker EXCEPT ![c].pc = pc]
  PROVE  IconInv'
<1> USE IconAssumption DEF IconInv
<1>1. NoAnswer \in Nat
  BY DEF NoAnswer
<1>2. IconTypes'
  <2>1. NoAsker \in Askers
    BY <1>1 DEF NoAsker, Askers, AskerPcs
  <2>2. [asker[c] EXCEPT !.pc = pc] \in Askers
    BY DEF IconTypes, Askers, AskerPcs
  <2>3. asker' \in [IconCallers -> Askers]
    BY <2>1, <2>2 DEF IconTypes
  <2> QED BY <2>3 DEF IconTypes, WorkerTyped
<1>3. \A d \in IconCallers : d # c => asker'[d] = asker[d]
  BY DEF IconTypes
<1>4. \/ /\ asker'[c].pc = "none" /\ asker'[c].id = 0 /\ asker'[c].answer = NoAnswer
      \/ /\ asker'[c].pc \in {"waits", "closes"} /\ asker[c].pc \in {"waits", "closes"}
         /\ asker'[c].id = asker[c].id /\ asker'[c].file = asker[c].file
         /\ asker'[c].held = asker[c].held /\ asker'[c].answer = asker[c].answer
  BY DEF IconTypes, Askers, NoAsker
<1>5. OwnNumbers'
  <2>1. \A d \in IconCallers : asker'[d].id \in {0, asker[d].id}
    BY <1>3, <1>4
  <2>2. \A d, e \in IconCallers : asker'[d].id = asker'[e].id /\ asker'[d].id # 0 => d = e
    BY <2>1 DEF OwnNumbers
  <2>3. ASSUME NEW d \in IconCallers
        PROVE  /\ asker'[d].id <= lastIcon
               /\ asker'[d].pc \in {"none", "asks"} <=> asker'[d].id = 0
    <3>1. CASE d # c
      BY <3>1, <1>3 DEF OwnNumbers
    <3>2. CASE d = c
      BY <3>2, <1>4 DEF OwnNumbers, IconTypes
    <3> QED BY <3>1, <3>2
  <2> QED BY <2>2, <2>3 DEF OwnNumbers
<1>6. AskersHold' /\ IconIsCurrent'
  BY <1>3, <1>4 DEF AskersHold, Holds, IconIsCurrent
<1>7. \A d \in IconCallers : asker'[d].id \in 1..lastIcon => Continues(asker[d], asker'[d])
  BY <1>3, <1>4 DEF Continues
<1>8. QueueHolds' /\ WorkerHolds'
  BY <1>7, StillHeld DEF IconTypes
<1> QED BY <1>2, <1>5, <1>6, <1>8

LEMMA PrepareKeeps ==
  ASSUME IconInv, NEW c \in IconCallers, NEW f \in IconFiles, Prepare(c, f)
  PROVE  IconInv'
<1> USE IconAssumption DEF IconInv
<1>1. NoAnswer \in Nat /\ fileVersion[f] \in Nat
  BY DEF NoAnswer, IconTypes
<1> DEFINE a == [NoAsker EXCEPT !.pc = "asks", !.file = f, !.held = fileVersion[f]]
<1>2. /\ a \in Askers /\ a.pc = "asks" /\ a.id = 0 /\ a.answer = NoAnswer
      /\ Holds(a, fileVersion)
  BY <1>1 DEF NoAsker, Askers, AskerPcs, Holds
<1>3. /\ asker' = [asker EXCEPT ![c] = a] /\ asker[c].pc = "none"
      /\ UNCHANGED <<fileVersion, iconQueue, worker, icons, lastIcon>>
  BY DEF AskerAt, Prepare, sameWorker
<1> HIDE DEF a
<1>4. /\ asker' \in [IconCallers -> Askers] /\ asker'[c] = a
      /\ \A d \in IconCallers : d # c => asker'[d] = asker[d]
  BY <1>2, <1>3 DEF IconTypes
<1>5. IconTypes'
  BY <1>3, <1>4 DEF IconTypes, WorkerTyped
<1>6. OwnNumbers'
  <2>1. \A d \in IconCallers : asker'[d].id = asker[d].id
    BY <1>2, <1>3, <1>4 DEF OwnNumbers
  <2>2. \A d \in IconCallers : asker'[d].pc \in {"none", "asks"} <=> asker[d].pc \in {"none", "asks"}
    BY <1>2, <1>3, <1>4
  <2> QED BY <1>3, <2>1, <2>2 DEF OwnNumbers
<1>7. AskersHold' /\ IconIsCurrent'
  BY <1>2, <1>3, <1>4 DEF AskersHold, IconIsCurrent, Holds
<1>8. \A d \in IconCallers : asker'[d].id \in 1..lastIcon => Continues(asker[d], asker'[d])
  BY <1>2, <1>4 DEF Continues
<1>9. QueueHolds' /\ WorkerHolds'
  BY <1>3, <1>8, StillHeld DEF IconTypes
<1> QED BY <1>5, <1>6, <1>7, <1>9

LEMMA AskKeeps ==
  ASSUME IconInv, NEW c \in IconCallers, AskIcon(c)
  PROVE  IconInv'
<1> USE IconAssumption DEF IconInv
<1>1. CASE stalled \/ lastIcon >= MaxIcons
  <2>1. Forget(c) /\ UNCHANGED <<fileVersion, iconQueue, worker, icons, lastIcon>>
    BY <1>1 DEF AskIcon, sameWorker
  <2> QED BY <2>1, CallerStep DEF Forget
<1>2. CASE ~(stalled \/ lastIcon >= MaxIcons)
  <2>1. /\ asker[c].pc = "asks" /\ lastIcon' = lastIcon + 1
        /\ asker' = [asker EXCEPT ![c].pc = "sends", ![c].id = lastIcon']
        /\ UNCHANGED <<fileVersion, iconQueue, worker, icons>>
    BY <1>2 DEF AskIcon, AskerAt, sameWorker
  <2>2. lastIcon \in Nat /\ lastIcon' \in Nat
    BY <2>1 DEF IconTypes
  <2>3. /\ asker' \in [IconCallers -> Askers]
        /\ \A d \in IconCallers : d # c => asker'[d] = asker[d]
        /\ asker'[c].pc = "sends" /\ asker'[c].id = lastIcon'
        /\ asker'[c].file = asker[c].file /\ asker'[c].held = asker[c].held
        /\ asker'[c].answer = asker[c].answer
    <3>1. [asker[c] EXCEPT !.pc = "sends", !.id = lastIcon'] \in Askers
      BY <2>2 DEF IconTypes, Askers, AskerPcs
    <3>2. asker' = [asker EXCEPT ![c] = [asker[c] EXCEPT !.pc = "sends", !.id = lastIcon']]
      BY <2>1 DEF IconTypes, Askers
    <3> QED BY <3>1, <3>2, <2>2 DEF IconTypes, Askers
  <2>4. IconTypes'
    BY <2>1, <2>2, <2>3 DEF IconTypes, WorkerTyped
  <2>5. OwnNumbers'
    <3>1. \A d \in IconCallers : d # c => asker'[d].id # lastIcon' /\ asker'[d].id <= lastIcon'
      <4> SUFFICES ASSUME NEW d \in IconCallers, d # c
                   PROVE  asker'[d].id # lastIcon' /\ asker'[d].id <= lastIcon'
        OBVIOUS
      <4>1. asker'[d].id = asker[d].id /\ asker[d].id <= lastIcon
        BY <2>3 DEF OwnNumbers
      <4>2. asker[d].id \in Nat
        BY DEF IconTypes, Askers
      <4> QED BY <2>1, <2>2, <4>1, <4>2
    <3>2. \A d \in IconCallers : asker'[d].pc \in {"none", "asks"} <=> asker'[d].id = 0
      <4>1. lastIcon' # 0
        BY <2>1, <2>2
      <4> QED BY <4>1, <2>3 DEF OwnNumbers
    <3>3. \A d, e \in IconCallers : asker'[d].id = asker'[e].id /\ asker'[d].id # 0 => d = e
      BY <3>1, <2>3 DEF OwnNumbers
    <3> QED BY <3>1, <3>2, <3>3, <2>2, <2>3 DEF OwnNumbers
  <2>6. AskersHold' /\ IconIsCurrent'
    BY <2>1, <2>3 DEF AskersHold, IconIsCurrent, Holds
  <2>7. \A d \in IconCallers : asker'[d].id \in 1..lastIcon => Continues(asker[d], asker'[d])
    BY <2>1, <2>2, <2>3 DEF Continues
  <2>8. QueueHolds' /\ WorkerHolds'
    <3>1. lastIcon <= lastIcon'
      BY <2>1, <2>2
    <3> QED BY <2>1, <2>2, <2>7, <3>1, StillHeld
  <2> QED BY <2>4, <2>5, <2>6, <2>8
<1> QED BY <1>1, <1>2

LEMMA SendKeeps ==
  ASSUME IconInv, NEW c \in IconCallers, SendIcon(c)
  PROVE  IconInv'
<1> USE IconAssumption DEF IconInv
<1> DEFINE q == [id |-> asker[c].id, file |-> asker[c].file]
<1>1. CASE Forget(c) /\ UNCHANGED iconQueue
  <2>1. UNCHANGED <<fileVersion, iconQueue, worker, icons, lastIcon>>
    BY <1>1 DEF SendIcon, sameWorker
  <2> QED BY <1>1, <2>1, CallerStep DEF Forget
<1>2. CASE iconQueue' = Append(iconQueue, q) /\ AskerSays(c, "waits")
  <2>1. /\ asker[c].pc = "sends" /\ asker' = [asker EXCEPT ![c].pc = "waits"]
        /\ UNCHANGED <<fileVersion, worker, icons, lastIcon>>
    BY <1>2 DEF SendIcon, AskerAt, AskerSays, sameWorker
  <2>2. /\ asker' \in [IconCallers -> Askers]
        /\ \A d \in IconCallers : d # c => asker'[d] = asker[d]
        /\ asker'[c].pc = "waits" /\ asker'[c].id = asker[c].id
        /\ asker'[c].file = asker[c].file /\ asker'[c].held = asker[c].held
        /\ asker'[c].answer = asker[c].answer
    BY <2>1 DEF IconTypes, Askers, AskerPcs
  <2>3. asker[c].id \in 1..lastIcon /\ Holds(asker[c], fileVersion)
    <3>1. asker[c].id # 0 /\ asker[c].id <= lastIcon
      BY <2>1 DEF OwnNumbers
    <3> QED BY <2>1, <3>1 DEF AskersHold, IconTypes, Askers
  <2>4. q \in [id : Nat, file : IconFiles] /\ q.id = asker[c].id /\ q.file = asker[c].file
    BY <2>3 DEF Holds, IconTypes, Askers
  <2> HIDE DEF q
  <2>5. IconTypes'
    BY <1>2, <2>1, <2>2, <2>4 DEF IconTypes, WorkerTyped
  <2>6. OwnNumbers'
    <3>1. \A d \in IconCallers : asker'[d].id = asker[d].id
      BY <2>2
    <3>2. \A d \in IconCallers :
            asker'[d].pc \in {"none", "asks"} <=> asker[d].pc \in {"none", "asks"}
      BY <2>1, <2>2
    <3> QED BY <2>1, <3>1, <3>2 DEF OwnNumbers
  <2>7. AskersHold' /\ IconIsCurrent'
    BY <2>1, <2>2 DEF AskersHold, IconIsCurrent, Holds
  <2>8. \A d \in IconCallers : Continues(asker[d], asker'[d])
    BY <2>1, <2>2 DEF Continues
  <2>9. ASSUME NEW d \in IconCallers PROVE IsFor(asker'[d], q.id, q.file, fileVersion)
    <3>1. CASE d = c
      BY <3>1, <2>2, <2>3, <2>4 DEF IsFor, Holds
    <3>2. CASE d # c
      BY <3>2, <2>2, <2>3, <2>4 DEF IsFor, OwnNumbers
    <3> QED BY <3>1, <3>2
  <2>10. /\ Len(iconQueue') = Len(iconQueue) + 1 /\ iconQueue'[Len(iconQueue) + 1] = q
         /\ \A i \in 1..Len(iconQueue) : iconQueue'[i] = iconQueue[i]
    BY <1>2, <2>4 DEF IconTypes
  <2>11. Len(iconQueue) \in Nat
    BY DEF IconTypes
  <2>12. QueueHolds'
    <3>1. ASSUME NEW i \in 1..Len(iconQueue')
          PROVE  /\ iconQueue'[i].id \in 1..lastIcon
                 /\ \A d \in IconCallers :
                      IsFor(asker'[d], iconQueue'[i].id, iconQueue'[i].file, fileVersion)
      <4>1. CASE i \in 1..Len(iconQueue)
        <5>1. iconQueue'[i] = iconQueue[i]
          BY <4>1, <2>10
        <5>2. \A d \in IconCallers : IsFor(asker'[d], iconQueue[i].id, iconQueue[i].file, fileVersion)
          BY <4>1, <2>8 DEF QueueHolds, IsFor, Continues, Holds
        <5> QED BY <5>1, <5>2, <4>1 DEF QueueHolds
      <4>2. CASE i = Len(iconQueue) + 1
        <5>1. iconQueue'[i] = q
          BY <4>2, <2>10
        <5> QED BY <5>1, <2>3, <2>4, <2>9
      <4> QED BY <4>1, <4>2, <2>10, <2>11
    <3> QED BY <3>1, <2>1 DEF QueueHolds
  <2>13. WorkerHolds'
    <3>1. lastIcon \in Nat /\ lastIcon' \in Nat /\ lastIcon <= lastIcon'
      BY <2>1 DEF IconTypes
    <3>2. UNCHANGED <<fileVersion, worker>>
      BY <2>1
    <3> HIDE DEF IconInv
    <3> QED BY <2>8, <3>1, <3>2, StillHeld
  <2> QED BY <2>5, <2>6, <2>7, <2>12, <2>13
<1> QED BY <1>1, <1>2 DEF SendIcon

\* A step of the worker that leaves the callers alone.
LEMMA WorkerGoesOn ==
  ASSUME IconInv, UNCHANGED <<fileVersion, asker, iconQueue, lastIcon>>,
         icons' \in Seq(GoodEntries), WorkerTyped', WorkerHolds'
  PROVE  IconInv'
<1> USE DEF IconInv
<1>1. IconTypes'
  BY DEF IconTypes
<1>2. OwnNumbers' /\ AskersHold' /\ IconIsCurrent'
  BY DEF OwnNumbers, AskersHold, Holds, IconIsCurrent
<1>3. QueueHolds'
  BY DEF QueueHolds, IsFor, Holds
<1> QED BY <1>1, <1>2, <1>3

LEMMA ReceiveKeeps == ASSUME IconInv, ReceiveIcon PROVE IconInv'
<1> USE DEF IconInv
<1>1. /\ iconQueue \in Seq([id : Nat, file : IconFiles]) /\ iconQueue # <<>>
      /\ iconQueue' = Tail(iconQueue) /\ UNCHANGED <<fileVersion, asker, icons, lastIcon>>
  BY DEF IconTypes, ReceiveIcon, sameAskers
<1>2. /\ 1 \in 1..Len(iconQueue) /\ Head(iconQueue) = iconQueue[1]
      /\ iconQueue' \in Seq([id : Nat, file : IconFiles]) /\ Len(iconQueue') = Len(iconQueue) - 1
      /\ \A i \in 1..Len(iconQueue') : i + 1 \in 1..Len(iconQueue) /\ iconQueue'[i] = iconQueue[i + 1]
  BY <1>1
<1>3. /\ worker'.pc = "looks" /\ worker'.guard /\ worker'.id = iconQueue[1].id
      /\ worker'.file = iconQueue[1].file
      /\ DOMAIN worker' = {"pc", "id", "file", "key", "value", "guard"}
  <2> DEFINE w == [Resting EXCEPT !.pc = "looks", !.id = iconQueue[1].id, !.file = iconQueue[1].file,
                                  !.guard = TRUE]
  <2>1. worker' = w
    BY <1>2 DEF ReceiveIcon
  <2>2. /\ w.pc = "looks" /\ w.id = iconQueue[1].id /\ w.file = iconQueue[1].file
        /\ DOMAIN w = {"pc", "id", "file", "key", "value", "guard"}
    BY DEF Resting
  <2>3. w.guard
    BY DEF Resting
  <2> HIDE DEF w
  <2> QED BY <2>1, <2>2, <2>3
<1>4. iconQueue[1] \in [id : Nat, file : IconFiles]
  <2> DEFINE Req == [id : Nat, file : IconFiles]
  <2>1. iconQueue \in Seq(Req)
    BY <1>1
  <2> HIDE DEF Req
  <2>2. iconQueue[1] \in Req
    BY <1>2, <2>1
  <2> QED BY <2>2 DEF Req
<1>5. WorkerTyped'
  BY <1>3, <1>4 DEF WorkerTyped, WorkerPcs, Looking
<1>6. IconTypes'
  BY <1>1, <1>2, <1>5 DEF IconTypes
<1>7. OwnNumbers' /\ AskersHold' /\ IconIsCurrent'
  BY <1>1 DEF OwnNumbers, AskersHold, Holds, IconIsCurrent
<1>8. QueueHolds'
  <2>1. ASSUME NEW i \in 1..Len(iconQueue')
        PROVE  /\ iconQueue'[i].id \in 1..lastIcon
               /\ \A d \in IconCallers :
                    IsFor(asker[d], iconQueue'[i].id, iconQueue'[i].file, fileVersion)
    BY <1>2 DEF QueueHolds
  <2> QED BY <1>1, <2>1 DEF QueueHolds
<1>9. WorkerHolds'
  BY <1>1, <1>2, <1>3, <1>4 DEF WorkerHolds, QueueHolds, Looking, Ending
<1> QED BY <1>6, <1>7, <1>8, <1>9

\* What get and insert make of the cache.
LEMMA CacheKeeps ==
  ASSUME IconInv, NEW f \in IconFiles, NEW v \in Nat, NEW value \in {NoIcon, v},
         NEW cache \in Inserted(f, v, value)
  PROVE  /\ Touched(f, v) \in Seq(GoodEntries) /\ cache \in Seq(GoodEntries)
         /\ \A e \in Cached(f, v) : e.value \in {NoIcon, v}
<1>1. icons \in Seq(GoodEntries)
  BY DEF IconInv, IconTypes
<1>2. \A T : Selected(icons, T) \in Seq(GoodEntries)
  <2>1. ASSUME NEW T PROVE Selected(icons, T) \in Seq(GoodEntries)
    <3>1. Selected(icons, T) \in Seq(GoodEntries \cap T)
      BY <1>1, SelectedFrom
    <3>2. Seq(GoodEntries \cap T) \subseteq Seq(GoodEntries)
      OBVIOUS
    <3> QED BY <3>1, <3>2
  <2> QED BY <2>1
<1>3. Touched(f, v) \in Seq(GoodEntries)
  BY <1>2, ConcatProperties DEF Touched
<1>4. cache \in Seq(GoodEntries)
  <2> DEFINE kept == Selected(icons, FreshIcons \ IconsFor(f, v))
             new  == [file |-> f, key |-> v, value |-> value, fresh |-> TRUE]
  <2>1. kept \in Seq(GoodEntries)
    BY <1>2
  <2>2. new \in GoodEntries
    BY DEF GoodEntries, NoIcon
  <2>3. cache = kept \/ \E n \in 0..Len(kept) :
          cache = Append(SubSeq(kept, Len(kept) - n + 1, Len(kept)), new)
    BY DEF Inserted
  <2> HIDE DEF kept, new
  <2>4. ASSUME NEW n \in 0..Len(kept)
        PROVE  SubSeq(kept, Len(kept) - n + 1, Len(kept)) \in Seq(GoodEntries)
    <3>1. /\ Len(kept) \in Nat /\ Len(kept) - n + 1 \in 1..(Len(kept) + 1)
          /\ \A i \in (Len(kept) - n + 1)..Len(kept) : kept[i] \in GoodEntries
      BY <2>1
    <3> QED BY <2>1, <3>1, SubSeqProperties
  <2>5. CASE cache = kept
    BY <2>1, <2>5
  <2>6. ASSUME NEW n \in 0..Len(kept), cache = Append(SubSeq(kept, Len(kept) - n + 1, Len(kept)), new)
        PROVE  cache \in Seq(GoodEntries)
    <3> DEFINE last == SubSeq(kept, Len(kept) - n + 1, Len(kept))
    <3>1. last \in Seq(GoodEntries)
      BY <2>4
    <3> HIDE DEF last
    <3>2. Append(last, new) \in Seq(GoodEntries)
      BY <3>1, <2>2
    <3> QED BY <2>6, <3>2 DEF last
  <2> QED BY <2>3, <2>5, <2>6
<1>5. \A e \in Cached(f, v) : e.value \in {NoIcon, v}
  BY <1>1 DEF Cached, IconsFor, IconEntries, GoodEntries
<1> QED BY <1>3, <1>4, <1>5

LEMMA LookUpKeeps == ASSUME IconInv, LookUp PROVE IconInv'
<1> DEFINE v == fileVersion[worker.file]
<1>1. /\ worker.pc = "looks" /\ worker.file \in IconFiles /\ v \in Nat
      /\ UNCHANGED <<fileVersion, asker, iconQueue, lastIcon>>
      /\ icons' = Touched(worker.file, v)
  BY DEF IconInv, IconTypes, LookUp, WorkerHolds, Looking, sameAskers
<1>2. \/ worker' = [worker EXCEPT !.pc = "extracts", !.key = v]
      \/ \E e \in Cached(worker.file, v) :
            worker' = [worker EXCEPT !.pc = "releases", !.key = v, !.value = e.value]
  BY DEF LookUp
<1>3. icons' \in Seq(GoodEntries) /\ \A e \in Cached(worker.file, v) : e.value \in {NoIcon, v}
  <2>1. Selected(icons, FreshIcons \ IconsFor(worker.file, v)) \in Inserted(worker.file, v, NoIcon)
    BY DEF Inserted
  <2> QED BY <1>1, <2>1, CacheKeeps
<1>4. WorkerTyped
  BY DEF IconInv, IconTypes
<1>5. /\ worker'.pc \in {"extracts", "releases"} /\ worker'.id = worker.id /\ worker'.file = worker.file
      /\ worker'.guard = worker.guard /\ DOMAIN worker' = DOMAIN worker
      /\ worker'.pc = "extracts" => worker'.key = v
      /\ worker'.pc = "releases" => worker'.value \in {NoIcon, v}
  <2> HIDE DEF v
  <2> QED BY <1>2, <1>3, <1>4 DEF WorkerTyped
<1>6. WorkerTyped'
  BY <1>4, <1>5 DEF WorkerTyped, WorkerPcs, Looking
<1>7. WorkerHolds'
  BY <1>1, <1>5 DEF IconInv, WorkerHolds, Looking, Ending
<1> QED BY <1>1, <1>3, <1>6, <1>7, WorkerGoesOn

LEMMA ExtractKeeps == ASSUME IconInv, Extract PROVE IconInv'
<1> DEFINE v == fileVersion[worker.file]
<1>1. /\ worker.pc = "extracts" /\ worker.file \in IconFiles /\ v \in Nat /\ worker.key = v
      /\ UNCHANGED <<fileVersion, asker, iconQueue, lastIcon>>
  BY DEF IconInv, IconTypes, Extract, WorkerHolds, Looking, sameAskers
<1>2. PICK value \in {NoIcon, v} :
        /\ icons' \in Inserted(worker.file, worker.key, value)
        /\ worker' = [worker EXCEPT !.pc = "releases", !.value = value]
  BY DEF Extract
<1>3. icons' \in Seq(GoodEntries)
  BY <1>1, <1>2, CacheKeeps
<1>4. WorkerTyped
  BY DEF IconInv, IconTypes
<1>5. /\ worker'.pc = "releases" /\ worker'.id = worker.id /\ worker'.file = worker.file
      /\ worker'.guard = worker.guard /\ DOMAIN worker' = DOMAIN worker
      /\ worker'.value = value
  BY <1>2, <1>4 DEF WorkerTyped
<1>6. WorkerTyped'
  BY <1>4, <1>5 DEF WorkerTyped, WorkerPcs, Looking
<1>7. WorkerHolds'
  BY <1>1, <1>2, <1>5 DEF IconInv, WorkerHolds, Looking, Ending
<1> QED BY <1>1, <1>3, <1>6, <1>7, WorkerGoesOn

\* The steps after the icon was found.
LEMMA EndingKeeps ==
  ASSUME IconInv, ReleaseFile \/ StampDone \/ OpenService
  PROVE  IconInv'
<1>1. /\ UNCHANGED <<fileVersion, asker, iconQueue, lastIcon, icons>>
      /\ worker.pc \in {"releases", "stamps", "opens"}
  BY DEF ReleaseFile, StampDone, OpenService, sameAskers
<1>2. WorkerTyped /\ icons \in Seq(GoodEntries)
  BY DEF IconInv, IconTypes
<1>3. /\ worker'.pc \in Ending /\ worker'.id = worker.id /\ worker'.value = worker.value
      /\ DOMAIN worker' = DOMAIN worker
  BY <1>2 DEF ReleaseFile, StampDone, OpenService, WorkerGoto, WorkerTyped, Ending
<1>4. WorkerTyped'
  BY <1>2, <1>3 DEF WorkerTyped, WorkerPcs
<1>5. WorkerHolds'
  BY <1>1, <1>3 DEF IconInv, WorkerHolds, Looking, Ending, IsFor, Holds
<1> QED BY <1>1, <1>2, <1>4, <1>5, WorkerGoesOn

\* An answer changes nothing else of a request.
LEMMA RepliesAnswer ==
  ASSUME IconInv, NEW ids, NEW a \in Nat, Replies(ids, a)
  PROVE  /\ asker' \in [IconCallers -> Askers]
         /\ \A d \in IconCallers :
              /\ asker'[d].pc = asker[d].pc /\ Continues(asker[d], asker'[d])
              /\ \/ asker'[d].answer = asker[d].answer
                 \/ asker[d].id \in ids /\ asker'[d].answer = a
<1>1. asker \in [IconCallers -> Askers]
  BY DEF IconInv, IconTypes
<1>2. ASSUME NEW d \in IconCallers
      PROVE  \/ asker'[d] = asker[d]
             \/ asker[d].id \in ids /\ asker'[d] = [asker[d] EXCEPT !.answer = a]
  BY DEF Replies
<1>3. ASSUME NEW d \in IconCallers
      PROVE  /\ asker'[d] \in Askers
             /\ asker'[d].pc = asker[d].pc /\ Continues(asker[d], asker'[d])
             /\ \/ asker'[d].answer = asker[d].answer
                \/ asker[d].id \in ids /\ asker'[d].answer = a
  <2>1. asker[d] \in Askers
    BY <1>1
  <2>2. CASE asker'[d] = asker[d]
    BY <2>1, <2>2 DEF Continues
  <2>3. CASE asker[d].id \in ids /\ asker'[d] = [asker[d] EXCEPT !.answer = a]
    BY <2>1, <2>3 DEF Askers, Continues
  <2> QED BY <1>2, <2>2, <2>3
<1>4. DOMAIN asker' = IconCallers /\ asker' = [c \in IconCallers |-> asker'[c]]
  BY DEF Replies
<1> QED BY <1>3, <1>4

LEMMA ReplyKeeps == ASSUME IconInv, ReplyIcon PROVE IconInv'
<1> USE IconAssumption
<1> DEFINE a == worker.value
<1>1. /\ worker.pc = "replies" /\ worker' = Resting /\ Replies({worker.id}, a)
      /\ UNCHANGED <<fileVersion, iconQueue, icons, lastIcon>>
  BY DEF ReplyIcon
<1>2. \A d \in IconCallers : asker[d].id = worker.id => a \in {NoIcon, asker[d].held}
  BY <1>1 DEF IconInv, WorkerHolds, Ending
<1>3. PICK b \in Nat : Replies({worker.id}, b) /\
        \A d \in IconCallers : asker[d].id = worker.id => b \in {NoIcon, asker[d].held}
  <2>1. CASE a \in Nat
    BY <1>1, <1>2, <2>1
  <2>2. CASE a \notin Nat
    <3>1. \A d \in IconCallers : asker[d].id # worker.id
      <4>1. \A d \in IconCallers : asker[d].held \in Nat
        BY DEF IconInv, IconTypes, Askers
      <4>2. NoIcon \in Nat
        BY DEF NoIcon
      <4> HIDE DEF a
      <4> QED BY <1>2, <2>2, <4>1, <4>2
    <3>2. Replies({worker.id}, 0)
      BY <1>1, <3>1 DEF Replies
    <3> QED BY <3>1, <3>2
  <2> QED BY <2>1, <2>2
<1>4. /\ asker' \in [IconCallers -> Askers]
      /\ \A d \in IconCallers :
           /\ asker'[d].pc = asker[d].pc /\ Continues(asker[d], asker'[d])
           /\ \/ asker'[d].answer = asker[d].answer
              \/ asker[d].id = worker.id /\ asker'[d].answer = b
  BY <1>3, RepliesAnswer
<1>5. worker'.pc = "idle" /\ WorkerTyped'
  BY <1>1 DEF Resting, WorkerTyped, WorkerPcs
<1>6. IconTypes'
  BY <1>1, <1>4, <1>5 DEF IconInv, IconTypes
<1>7. OwnNumbers' /\ AskersHold'
  BY <1>1, <1>4 DEF IconInv, OwnNumbers, AskersHold, Holds, Continues
<1>8. IconIsCurrent'
  BY <1>3, <1>4 DEF IconInv, IconIsCurrent, Continues
<1>9. QueueHolds'
  BY <1>1, <1>4 DEF IconInv, QueueHolds, IsFor, Holds, Continues
<1>10. WorkerHolds'
  BY <1>5 DEF WorkerHolds, Looking, Ending
<1> QED BY <1>6, <1>7, <1>8, <1>9, <1>10 DEF IconInv

LEMMA StartKeeps == ASSUME IconInv, StartWorker PROVE IconInv'
<1> USE IconAssumption
<1>1. UNCHANGED <<fileVersion, icons, lastIcon>> /\ worker.pc = "starts" /\ WorkerTyped
  BY DEF StartWorker, IconInv, IconTypes
<1>2. CASE WorkerGoto("idle") /\ UNCHANGED <<asker, iconQueue, stalled>>
  <2>1. worker'.pc = "idle" /\ WorkerTyped'
    BY <1>1, <1>2 DEF WorkerGoto, WorkerTyped, WorkerPcs
  <2>2. WorkerHolds' /\ icons' \in Seq(GoodEntries)
    BY <1>1, <2>1 DEF WorkerHolds, Looking, Ending, IconInv, IconTypes
  <2> QED BY <1>1, <1>2, <2>1, <2>2, WorkerGoesOn
<1>3. CASE /\ WorkerGoto("gone") /\ iconQueue' = <<>>
           /\ Replies({iconQueue[i].id : i \in 1..Len(iconQueue)}, Dropped)
  <2>1. worker'.pc = "gone" /\ WorkerTyped'
    BY <1>1, <1>3 DEF WorkerGoto, WorkerTyped, WorkerPcs
  <2>2. Dropped \in Nat
    BY DEF Dropped
  <2>3. /\ asker' \in [IconCallers -> Askers]
        /\ \A d \in IconCallers :
             /\ asker'[d].pc = asker[d].pc /\ Continues(asker[d], asker'[d])
             /\ asker'[d].answer \in {asker[d].answer, Dropped}
    <3> HIDE DEF Dropped
    <3> QED BY <1>3, <2>2, RepliesAnswer
  <2>4. IconTypes'
    BY <1>1, <1>3, <2>1, <2>3 DEF IconInv, IconTypes
  <2>5. OwnNumbers' /\ AskersHold' /\ IconIsCurrent'
    BY <1>1, <2>3 DEF IconInv, OwnNumbers, AskersHold, Holds, Continues, IconIsCurrent
  <2>6. QueueHolds'
    BY <1>3 DEF QueueHolds
  <2>7. WorkerHolds'
    BY <2>1 DEF WorkerHolds, Looking, Ending
  <2> QED BY <2>4, <2>5, <2>6, <2>7 DEF IconInv
<1> QED BY <1>2, <1>3 DEF StartWorker

LEMMA AgeKeeps == ASSUME IconInv, EntryAges PROVE IconInv'
<1>1. PICK i \in 1..Len(icons) : icons' = [icons EXCEPT ![i].fresh = FALSE]
  BY DEF EntryAges
<1>2. icons \in Seq(GoodEntries) /\ UNCHANGED <<fileVersion, asker, iconQueue, worker, lastIcon>>
  BY DEF IconInv, IconTypes, EntryAges
<1>3. [icons[i] EXCEPT !.fresh = FALSE] \in GoodEntries
  <2>1. icons[i] \in GoodEntries
    BY <1>2
  <2> QED BY <2>1 DEF GoodEntries
<1>4. icons' \in Seq(GoodEntries)
  <2> DEFINE e == [icons[i] EXCEPT !.fresh = FALSE]
  <2>1. icons' = [icons EXCEPT ![i] = e] /\ e \in GoodEntries
    BY <1>1, <1>2, <1>3
  <2> HIDE DEF e
  <2> QED BY <2>1, <1>2
<1>5. WorkerTyped' /\ WorkerHolds'
  BY <1>2 DEF IconInv, IconTypes, WorkerTyped, WorkerHolds, IsFor, Holds
<1> QED BY <1>2, <1>4, <1>5, WorkerGoesOn

LEMMA FileChangeKeeps == ASSUME IconInv, NEW f \in IconFiles, ChangeFile(f) PROVE IconInv'
<1> USE DEF IconInv
<1>1. /\ UNCHANGED <<asker, iconQueue, worker, icons, lastIcon>> /\ ~Guarded(f)
      /\ fileVersion' \in [IconFiles -> Nat]
      /\ \A g \in IconFiles : g # f => fileVersion'[g] = fileVersion[g]
  BY DEF ChangeFile, IconTypes
<1>2. IconTypes'
  BY <1>1 DEF IconTypes, WorkerTyped
<1>3. OwnNumbers' /\ IconIsCurrent'
  BY <1>1 DEF OwnNumbers, IconIsCurrent
<1>4. AskersHold'
  BY <1>1 DEF AskersHold, Holds, Guarded
<1>5. \A a, id, file : file # f /\ IsFor(a, id, file, fileVersion) => IsFor(a, id, file, fileVersion')
  BY <1>1 DEF IsFor, Holds
<1>6. QueueHolds'
  BY <1>1, <1>5 DEF QueueHolds, Guarded
<1>7. WorkerHolds'
  <2>1. worker.pc \in Looking => worker.file # f /\ worker.file \in IconFiles
    BY <1>1 DEF WorkerHolds, Guarded
  <2>2. worker.pc \in Looking => fileVersion'[worker.file] = fileVersion[worker.file]
    BY <1>1, <2>1
  <2>3. worker.pc \in Looking => \A c \in IconCallers : IsFor(asker[c], worker.id, worker.file, fileVersion')
    BY <1>5, <2>1 DEF WorkerHolds
  <2> QED BY <1>1, <2>2, <2>3 DEF WorkerHolds, Looking
<1> QED BY <1>2, <1>3, <1>4, <1>6, <1>7

LEMMA IconsStep == ASSUME IconInv, [IconNext]_iconVars PROVE IconInv'
<1>1. ASSUME NEW c \in IconCallers, AskerStep(c) PROVE IconInv'
  <2>1. ASSUME NEW f \in IconFiles, Prepare(c, f) PROVE IconInv'
    BY <2>1, PrepareKeeps
  <2>2. CASE AskIcon(c)
    BY <2>2, AskKeeps
  <2>3. CASE SendIcon(c)
    BY <2>3, SendKeeps
  <2>4. CASE TakeIcon(c) \/ CloseService(c) \/ LeaveIcon(c)
    <3>1. Forget(c) /\ UNCHANGED <<fileVersion, iconQueue, worker, icons, lastIcon>>
      BY <2>4 DEF TakeIcon, CloseService, LeaveIcon, sameWorker
    <3> QED BY <3>1, CallerStep DEF Forget
  <2>5. CASE IconTimeout(c)
    <3>1. /\ Forget(c) \/ (AskerSays(c, "closes") /\ asker[c].pc = "waits")
          /\ UNCHANGED <<fileVersion, iconQueue, worker, icons, lastIcon>>
      BY <2>5 DEF IconTimeout, AskerAt, sameWorker
    <3> QED BY <3>1, CallerStep DEF Forget, AskerSays
  <2> QED BY <1>1, <2>1, <2>2, <2>3, <2>4, <2>5 DEF AskerStep
<1>2. CASE UNCHANGED iconVars
  <2>1. UNCHANGED <<fileVersion, asker, iconQueue, worker, icons, lastIcon>>
    BY <1>2 DEF iconVars
  <2>2. IconTypes' /\ OwnNumbers' /\ AskersHold' /\ IconIsCurrent'
    BY <2>1 DEF IconInv, IconTypes, WorkerTyped, OwnNumbers, AskersHold, IconIsCurrent, Holds
  <2>3. QueueHolds'
    BY <2>1 DEF IconInv, QueueHolds, IsFor, Holds
  <2>4. WorkerHolds'
    BY <2>1 DEF IconInv, WorkerHolds, IsFor, Holds
  <2> QED BY <2>2, <2>3, <2>4 DEF IconInv
<1> QED BY <1>1, <1>2, StartKeeps, ReceiveKeeps, LookUpKeeps, ExtractKeeps, EndingKeeps, ReplyKeeps,
           AgeKeeps, FileChangeKeeps DEF IconNext

\* An icon is the one of the version the file had while it was held for the
\* request, from the cache as from the shell, however late the worker answers and
\* whoever gave up meanwhile (native_icons.rs).
THEOREM IconsAreCurrent == IconSpec => []IconIsCurrent
<1>1. IconInv /\ [IconNext]_iconVars => IconInv'
  BY IconsStep
<1>2. IconInv => IconIsCurrent
  BY DEF IconInv
<1> QED BY <1>1, <1>2, IconInitially, PTL DEF IconSpec

------------------------------------------------------------------------------
(* The clipboard history *)

Items(P) == [clip : Clips, pinned : BOOLEAN, png : P]

LEMMA LastOf ==
  ASSUME NEW n \in Nat, NEW S \in SUBSET (1..n), S # {}
  PROVE  SetOps!Max(S) \in S
<1> DEFINE T == {n - i : i \in S}
<1>1. T \in SUBSET Nat /\ T # {}
  <2>1. \A i \in S : n - i \in Nat
    OBVIOUS
  <2> QED BY <2>1
<1>2. PICK k \in T : \A m \in T : k <= m
  <2> HIDE DEF T
  <2> QED BY <1>1, Smallest
<1>3. PICK i \in S : k = n - i
  BY <1>2
<1>4. \A j \in S : i >= j
  <2> SUFFICES ASSUME NEW j \in S PROVE i >= j
    OBVIOUS
  <2>1. n - j \in T
    OBVIOUS
  <2>2. k <= n - j
    <3> HIDE DEF T
    <3> QED BY <1>2, <2>1
  <2> QED BY <1>3, <2>2
<1> QED BY <1>4, Zenon DEF SetOps!Max

LEMMA WithoutOne ==
  ASSUME NEW S, NEW s \in Seq(S), NEW i \in 1..Len(s)
  PROVE  ListOps!RemoveAt(s, i) \in Seq(S)
<1>1. SubSeq(s, 1, i - 1) \in Seq(S) /\ SubSeq(s, i + 1, Len(s)) \in Seq(S)
  BY SubSeqProperties
<1> QED BY <1>1, ConcatProperties DEF ListOps!RemoveAt

\* One entry too many goes, whichever it is: nothing new comes into the list.
LEMMA TrimmedFrom ==
  ASSUME NEW S, NEW list \in Seq(S)
  PROVE  Trimmed(list) \in Seq(S)
<1>1. ASSUME NEW l \in Seq(S), NEW ks, NEW limit \in Nat
      PROVE  TrimTo(l, ks, limit) \in Seq(S)
  <2> DEFINE those == {i \in DOMAIN l : KindOf[l[i].clip] \in ks}
             loose == {i \in those : ~l[i].pinned}
             some  == IF loose = {} THEN those ELSE loose
  <2>1. TrimTo(l, ks, limit) = IF Cardinality(those) <= limit THEN l
                               ELSE ListOps!RemoveAt(l, SetOps!Max(some))
    BY Zenon DEF TrimTo
  <2>2. CASE those = {}
    <3>1. Cardinality(those) <= limit
      <4>1. Cardinality({}) <= limit
        BY FS_EmptySet
      <4> HIDE DEF those
      <4> QED BY <2>2, <4>1
    <3> HIDE DEF those, some
    <3> QED BY <2>1, <3>1
  <2>3. CASE those # {}
    <3>1. some \in SUBSET (1..Len(l)) /\ some # {} /\ Len(l) \in Nat
      BY <2>3
    <3>2. SetOps!Max(some) \in 1..Len(l)
      <4> HIDE DEF some
      <4> QED BY <3>1, LastOf
    <3>3. ListOps!RemoveAt(l, SetOps!Max(some)) \in Seq(S)
      <4> HIDE DEF some
      <4> QED BY <3>2, WithoutOne
    <3> HIDE DEF those, some
    <3> QED BY <2>1, <3>3
  <2> QED BY <2>2, <2>3
<1> QED BY <1>1, ClipAssumption DEF Trimmed

LEMMA WithClipFrom ==
  ASSUME NEW P, items \in Seq(Items(P)), NEW c \in Clips, NEW png \in P
  PROVE  WithClip(c, png) \in Seq(Items(P))
<1> DEFINE at  == {i \in DOMAIN items : items[i].clip = c}
           new == [clip |-> c, pinned |-> FALSE, png |-> png]
<1>1. new \in Items(P)
  BY DEF Items
<1>2. CASE at = {}
  <2>1. WithClip(c, png) = Trimmed(<<new>> \o items)
    BY <1>2, Zenon DEF WithClip
  <2> HIDE DEF new
  <2>2. <<new>> \o items \in Seq(Items(P))
    BY <1>1, ConcatProperties
  <2> QED BY <2>1, <2>2, TrimmedFrom
<1>3. CASE at # {}
  <2> DEFINE i == CHOOSE i \in at : TRUE
  <2>1. WithClip(c, png) = Trimmed(<<items[i]>> \o ListOps!RemoveAt(items, i))
    BY <1>3, Zenon DEF WithClip
  <2>2. i \in DOMAIN items
    BY <1>3
  <2> HIDE DEF i
  <2>3. i \in 1..Len(items) /\ items[i] \in Items(P)
    BY <2>2
  <2>4. <<items[i]>> \o ListOps!RemoveAt(items, i) \in Seq(Items(P))
    BY <2>3, WithoutOne, ConcatProperties
  <2> QED BY <2>1, <2>4, TrimmedFrom
<1> QED BY <1>2, <1>3

\* What a change of the list may make of the pictures.
LEMMA PicturesWithin ==
  ASSUME NEW P, NEW list \in Seq(Items(P))
  PROVE  PicturesOf(list) \subseteq P \ {0}
<1>1. \A i \in DOMAIN list : list[i] \in Items(P)
  OBVIOUS
<1>2. \A i \in DOMAIN list : list[i].png \in P
  BY <1>1 DEF Items
<1> QED BY <1>2 DEF PicturesOf

LEMMA OwnPictures ==
  ASSUME items \in Seq(Items(Nat))
  PROVE  \A P \in SUBSET Nat : PicturesOf(items) \cup {0} \subseteq P => items \in Seq(Items(P))
<1> SUFFICES ASSUME NEW P \in SUBSET Nat, PicturesOf(items) \cup {0} \subseteq P PROVE items \in Seq(Items(P))
  OBVIOUS
<1>1. \A i \in DOMAIN items : items[i] \in Items(Nat)
  OBVIOUS
<1>2. \A i \in DOMAIN items : items[i].png \in P
  BY DEF PicturesOf
<1>3. \A i \in DOMAIN items : items[i] \in Items(P)
  BY <1>1, <1>2 DEF Items
<1> QED BY <1>3

KindsOfStep == {"idle", "text", "image", "files", "write", "insert", "clean"}
PollTyped ==
    /\ poll.pc \in KindsOfStep
    /\ poll.pc = "idle" <=> poll = NotPolling
    /\ poll.pc # "idle" => {"pc", "clip", "kinds"} \subseteq DOMAIN poll
    /\ poll.pc \in {"write", "insert"} => poll.clip \in Clips
    /\ poll.pc = "clean" => poll.kind \in AllKinds

\* A copied entry was in the list, whatever the poll has made of it since.
Copied == {"capture", "record"}
CopyIsThere(command) ==
    command.pc \in Copied =>
        command.clip \in Clips /\ command.clip \in ClipsOf(items) \cup removed
CommandTyped ==
    /\ clipCommand.pc \in {"idle", "reset", "clean"} \cup Copied
    /\ clipCommand.pc = "idle" <=> clipCommand = NotAsked
    /\ CopyIsThere(clipCommand)
    /\ clipCommand.pc = "clean" =>
         /\ clipCommand.files \subseteq 1..pngCount
         /\ clipCommand.then = NotAsked \/ clipCommand.then.pc \in Copied
         /\ CopyIsThere(clipCommand.then)

ClipTypes ==
    /\ items \in Seq(Items(Nat)) /\ pngCount \in Nat /\ pngs \subseteq 1..pngCount
    /\ consent \in [Kinds -> BOOLEAN] /\ prints \in [Kinds -> Clips \cup {NoClip}]
    /\ untidy \in BOOLEAN
    /\ PollTyped /\ CommandTyped

\* A picture that is not in the list yet, or not any more, is in the hands of
\* somebody who will put it there or remove it.
InHand ==
    (IF clipCommand.pc = "clean" THEN clipCommand.files ELSE {})
    \cup (IF poll.pc = "clean" THEN poll.files ELSE {})
    \cup (IF poll.pc = "insert" THEN {pngCount} ELSE {})
PicturesAccounted ==
    /\ PicturesOf(items) \subseteq pngs
    /\ untidy \/ pngs \subseteq PicturesOf(items) \cup InHand
    /\ poll.pc = "insert" =>
         /\ pngCount \in pngs \ PicturesOf(items)
         /\ clipCommand.pc = "clean" => pngCount \notin clipCommand.files

\* What was recorded is in the list or was removed from it.
RecordedIsThere ==
    poll.pc = "clean" => poll.clip \in Clips /\ poll.clip \in ClipsOf(items) \cup removed

ClipInv == ClipTypes /\ PicturesAccounted /\ RecordedIsThere /\ NothingHidden

LEMMA ClipInitially == ClipInit => ClipInv
<1> SUFFICES ASSUME ClipInit PROVE ClipInv
  OBVIOUS
<1>1. /\ items = <<>> /\ pngs = {} /\ pngCount = 0 /\ prints = NoPrints /\ untidy = FALSE
      /\ consent = [k \in Kinds |-> FALSE] /\ poll = NotPolling /\ clipCommand = NotAsked
  BY DEF ClipInit
<1>2. poll.pc = "idle" /\ clipCommand.pc = "idle" /\ PicturesOf(items) = {}
  BY <1>1 DEF NotPolling, NotAsked, PicturesOf
<1>3. PollTyped /\ CommandTyped
  BY <1>1, <1>2 DEF PollTyped, CommandTyped, KindsOfStep, Copied, CopyIsThere
<1>4. ClipTypes
  <2>1. items \in Seq(Items(Nat)) /\ pngCount \in Nat /\ pngs \subseteq 1..pngCount
    BY <1>1
  <2>2. prints \in [Kinds -> Clips \cup {NoClip}]
    BY <1>1 DEF NoPrints
  <2>3. consent \in [Kinds -> BOOLEAN] /\ untidy \in BOOLEAN
    BY <1>1
  <2> QED BY <1>3, <2>1, <2>2, <2>3 DEF ClipTypes
<1>5. PicturesAccounted /\ RecordedIsThere /\ NothingHidden
  BY <1>1, <1>2 DEF PicturesAccounted, RecordedIsThere, NothingHidden
<1> QED BY <1>4, <1>5 DEF ClipInv

\* What is in the list or was removed from it stays so.
There == ClipsOf(items) \cup removed
LEMMA BecomesKeeps ==
  ASSUME NEW list, NEW c, Becomes(list, c)
  PROVE  There \cup c \subseteq There' /\ items' = list
BY DEF Becomes, There

\* Consent.
LEMMA ConsentKeeps ==
  ASSUME ClipInv, SetHistoryEnabled \/ SetCaptureOptions \/ ResetPollState
  PROVE  ClipInv'
<1> USE DEF ClipInv
<1>1. UNCHANGED <<items, pngs, pngCount, poll, untidy>>
  BY DEF SetHistoryEnabled, SetCaptureOptions, ResetPollState, SetConsent
<1>2. CASE ResetPollState
  <2>1. /\ clipCommand.pc = "reset" /\ clipCommand' = NotAsked /\ poll.pc \notin {"insert", "clean"}
        /\ prints' = NoPrints /\ consent' = consent
    BY <1>2 DEF ResetPollState, PollLockFree
  <2>2. clipCommand'.pc = "idle"
    BY <2>1 DEF NotAsked
  <2>3. ClipTypes'
    BY <1>1, <2>1, <2>2 DEF ClipTypes, PollTyped, CommandTyped, Copied, CopyIsThere, NoPrints
  <2>4. PicturesAccounted'
    BY <1>1, <2>1, <2>2 DEF PicturesAccounted, InHand
  <2>5. RecordedIsThere' /\ NothingHidden'
    BY <1>1, <2>1, ClipAssumption DEF RecordedIsThere, NothingHidden, NoPrints
  <2> QED BY <2>3, <2>4, <2>5
<1>3. CASE SetHistoryEnabled \/ SetCaptureOptions
  <2>1. PICK new \in [Kinds -> BOOLEAN] : SetConsent(new)
    <3>1. CASE SetHistoryEnabled
      BY <3>1 DEF SetHistoryEnabled, ClipTypes
    <3>2. CASE SetCaptureOptions
      BY <3>2 DEF SetCaptureOptions
    <3> QED BY <1>3, <3>1, <3>2
  <2>2. /\ clipCommand = NotAsked /\ consent' = new /\ UNCHANGED <<prints, removed>>
        /\ \/ clipCommand' = NotAsked /\ consent' = consent
           \/ clipCommand' = [pc |-> "reset"]
    BY <2>1 DEF SetConsent
  <2>3. clipCommand.pc = "idle" /\ clipCommand'.pc \in {"idle", "reset"}
    BY <2>2 DEF NotAsked
  <2>4. CommandTyped'
    BY <2>2, <2>3 DEF CommandTyped, Copied, CopyIsThere, NotAsked
  <2>5. ClipTypes'
    BY <1>1, <2>2, <2>4 DEF ClipTypes, PollTyped
  <2>6. PicturesAccounted'
    BY <1>1, <2>2, <2>3 DEF PicturesAccounted, InHand
  <2>7. RecordedIsThere'
    BY <1>1, <2>2 DEF RecordedIsThere
  <2>8. NothingHidden'
    BY <1>1, <2>2, <2>3 DEF NothingHidden
  <2> QED BY <2>5, <2>6, <2>7, <2>8
<1> QED BY <1>2, <1>3

\* Changes of the list.
LEMMA ListKeeps ==
  ASSUME ClipInv, SetPinned \/ DeleteItem \/ ClearUnpinned
  PROVE  ClipInv'
<1> USE DEF ClipInv
<1>0. items \in Seq(Items(Nat))
  BY DEF ClipTypes
<1>1. /\ clipCommand = NotAsked /\ UNCHANGED <<consent, pngs, pngCount, prints, poll, untidy>>
  BY DEF SetPinned, DeleteItem, ClearUnpinned, RemoveTo
<1>2. clipCommand.pc = "idle"
  BY <1>1 DEF NotAsked
<1>3. CASE SetPinned
  <2>1. PICK i \in DOMAIN items, b \in BOOLEAN : items' = [items EXCEPT ![i].pinned = b]
    BY <1>3 DEF SetPinned
  <2>2. UNCHANGED <<clipCommand, removed>>
    BY <1>3 DEF SetPinned
  <2>3. [items[i] EXCEPT !.pinned = b] \in Items(Nat) /\ items[i] \in Items(Nat)
    <3>1. items[i] \in Items(Nat)
      BY <1>0
    <3> QED BY <3>1 DEF Items
  <2>4. items' \in Seq(Items(Nat))
    <3> DEFINE e == [items[i] EXCEPT !.pinned = b]
    <3>1. items' = [items EXCEPT ![i] = e] /\ e \in Items(Nat)
      BY <1>0, <2>1, <2>3
    <3> HIDE DEF e
    <3> QED BY <1>0, <3>1
  <2>5. /\ DOMAIN items' = DOMAIN items
        /\ \A j \in DOMAIN items : items'[j].clip = items[j].clip /\ items'[j].png = items[j].png
    BY <1>0, <2>1, <2>3 DEF Items
  <2>6. ClipsOf(items') = ClipsOf(items) /\ PicturesOf(items') = PicturesOf(items)
    BY <2>5 DEF ClipsOf, PicturesOf
  <2>7. ClipTypes'
    BY <1>1, <2>2, <2>4, <2>6 DEF ClipTypes, PollTyped, CommandTyped, CopyIsThere
  <2>8. PicturesAccounted'
    BY <1>1, <2>2, <2>6 DEF PicturesAccounted, InHand
  <2>9. RecordedIsThere' /\ NothingHidden'
    BY <1>1, <2>2, <2>6 DEF RecordedIsThere, NothingHidden
  <2> QED BY <2>7, <2>8, <2>9
<1>4. CASE DeleteItem \/ ClearUnpinned
  <2>0. PicturesOf(items) \subseteq 1..pngCount /\ pngCount \in Nat
    BY DEF PicturesAccounted, ClipTypes
  <2> DEFINE P == PicturesOf(items) \cup {0}
  <2>1. items \in Seq(Items(P)) /\ P \in SUBSET Nat
    BY <1>0, <2>0, OwnPictures
  <2>2. PICK list : list \in Seq(Items(P)) /\ RemoveTo(list)
    <3>1. CASE DeleteItem
      <4>1. PICK i \in DOMAIN items : RemoveTo(ListOps!RemoveAt(items, i))
        BY <3>1 DEF DeleteItem
      <4>2. i \in 1..Len(items)
        BY <1>0
      <4> HIDE DEF P
      <4> QED BY <2>1, <4>1, <4>2, WithoutOne
    <3>2. CASE ClearUnpinned
      <4> DEFINE T == {e \in {items[i] : i \in DOMAIN items} : e.pinned}
      <4>1. Selected(items, T) \in Seq(Items(P) \cap T)
        <5> HIDE DEF P, T
        <5> QED BY <2>1, SelectedFrom
      <4>2. Selected(items, T) \in Seq(Items(P))
        <5> HIDE DEF P, T
        <5> QED BY <4>1
      <4>3. RemoveTo(Selected(items, T))
        BY <3>2 DEF ClearUnpinned
      <4> QED BY <4>2, <4>3
    <3> QED BY <1>4, <3>1, <3>2
  <2>3. PicturesOf(list) \subseteq PicturesOf(items)
    <3>1. PicturesOf(list) \subseteq P \ {0}
      <4> HIDE DEF P
      <4> QED BY <2>2, PicturesWithin
    <3> QED BY <3>1
  <2>4. list \in Seq(Items(Nat))
    <3>1. Items(P) \subseteq Items(Nat)
      BY <2>1 DEF Items
    <3> HIDE DEF P
    <3> QED BY <2>2, <3>1
  <2>5. /\ items' = list /\ There \subseteq There'
        /\ clipCommand' = [pc |-> "clean", files |-> PicturesOf(items) \ PicturesOf(list),
                           then |-> NotAsked]
    BY <2>2, BecomesKeeps DEF RemoveTo
  <2>6. /\ clipCommand'.pc = "clean" /\ clipCommand'.then = NotAsked
        /\ clipCommand'.files = PicturesOf(items) \ PicturesOf(list)
    BY <2>5
  <2>7. CommandTyped'
    BY <1>1, <2>0, <2>6 DEF CommandTyped, Copied, CopyIsThere, NotAsked
  <2>8. ClipTypes'
    BY <1>1, <2>4, <2>5, <2>7 DEF ClipTypes, PollTyped
  <2>9. PicturesAccounted'
    BY <1>1, <1>2, <2>3, <2>5, <2>6 DEF PicturesAccounted, InHand
  <2>10. RecordedIsThere' /\ NothingHidden'
    BY <1>1, <1>2, <2>5, <2>6 DEF RecordedIsThere, NothingHidden, There
  <2> QED BY <2>8, <2>9, <2>10
<1> QED BY <1>3, <1>4

\* cleanup_unreferenced_images
LEMMA CleanedKeeps ==
  ASSUME NEW files, Cleaned(files), untidy \in BOOLEAN
  PROVE  /\ pngs' \subseteq pngs /\ pngs \cap PicturesOf(items) \subseteq pngs' /\ pngs \ files \subseteq pngs'
         /\ untidy' \in BOOLEAN
         /\ untidy' \/ (~untidy /\ pngs' \cap files \subseteq PicturesOf(items))
<1>1. PICK stay \in SUBSET (files \ PicturesOf(items)) :
        /\ pngs' = pngs \ (files \ (PicturesOf(items) \cup stay))
        /\ untidy' = (untidy \/ stay # {})
  BY DEF Cleaned
<1>2. untidy' \in BOOLEAN /\ (untidy' \/ (~untidy /\ stay = {}))
  BY <1>1
<1> QED BY <1>1, <1>2

LEMMA CommandKeeps ==
  ASSUME ClipInv, CommandCleans \/ CopyItem \/ CopyCaptures \/ CopyRecords
  PROVE  ClipInv'
<1> USE DEF ClipInv
<1>0. items \in Seq(Items(Nat)) /\ untidy \in BOOLEAN
  BY DEF ClipTypes
<1>1. CASE CommandCleans
  <2>1. /\ clipCommand.pc = "clean" /\ clipCommand' = clipCommand.then
        /\ Cleaned(clipCommand.files)
        /\ UNCHANGED <<items, consent, pngCount, prints, poll, removed>>
    BY <1>1 DEF CommandCleans
  <2>2. clipCommand'.pc \in {"idle"} \cup Copied
    BY <2>1 DEF ClipTypes, CommandTyped, NotAsked
  <2>3. /\ pngs' \subseteq pngs /\ pngs \cap PicturesOf(items) \subseteq pngs'
        /\ pngs \ clipCommand.files \subseteq pngs' /\ untidy' \in BOOLEAN
        /\ untidy' \/ (~untidy /\ pngs' \cap clipCommand.files \subseteq PicturesOf(items))
    BY <1>0, <2>1, CleanedKeeps
  <2>4. CommandTyped'
    BY <2>1, <2>2 DEF ClipTypes, CommandTyped, CopyIsThere, NotAsked, Copied
  <2>5. ClipTypes'
    BY <2>1, <2>3, <2>4 DEF ClipTypes, PollTyped
  <2>6. PicturesAccounted'
    BY <2>1, <2>2, <2>3 DEF PicturesAccounted, InHand, Copied
  <2>7. RecordedIsThere' /\ NothingHidden'
    BY <2>1, <2>2 DEF RecordedIsThere, NothingHidden
  <2> QED BY <2>5, <2>6, <2>7
<1>2. CASE CopyItem
  <2>1. PICK i \in DOMAIN items :
          clipCommand' = [pc |-> IF KindOf[items[i].clip] = "text" THEN "capture" ELSE "record",
                          clip |-> items[i].clip]
    BY <1>2 DEF CopyItem
  <2>2. /\ clipCommand = NotAsked
        /\ UNCHANGED <<items, consent, pngs, pngCount, prints, poll, removed, untidy>>
    BY <1>2 DEF CopyItem
  <2>3. clipCommand.pc = "idle"
    BY <2>2 DEF NotAsked
  <2>4. clipCommand'.pc \in Copied /\ clipCommand'.clip = items[i].clip
    BY <2>1 DEF Copied
  <2>5. items[i].clip \in Clips /\ items[i].clip \in ClipsOf(items)
    <3>1. items[i] \in Items(Nat)
      BY <1>0
    <3> QED BY <3>1 DEF Items, ClipsOf
  <2>6. CommandTyped'
    BY <2>2, <2>4, <2>5 DEF CommandTyped, CopyIsThere, NotAsked, Copied
  <2>7. ClipTypes'
    BY <2>2, <2>6 DEF ClipTypes, PollTyped
  <2>8. PicturesAccounted' /\ RecordedIsThere' /\ NothingHidden'
    BY <2>2, <2>3, <2>4 DEF PicturesAccounted, InHand, RecordedIsThere, NothingHidden, Copied
  <2> QED BY <2>7, <2>8
<1>3. CASE CopyCaptures
  <2> DEFINE c == clipCommand.clip
             afterwards == [pc |-> "record", clip |-> c]
             new == WithClip(c, 0)
             out == PicturesOf(items) \ PicturesOf(new)
  <2>1. clipCommand.pc = "capture" /\ UNCHANGED <<consent, pngs, pngCount, prints, poll, untidy>>
    BY <1>3 DEF CopyCaptures
  <2>2. c \in Clips /\ c \in There
    BY <2>1 DEF ClipTypes, CommandTyped, CopyIsThere, Copied, There
  <2>3. CASE clipCommand' = afterwards /\ UNCHANGED <<items, removed>>
    <3>1. clipCommand'.pc = "record" /\ clipCommand'.clip = c
      BY <2>3
    <3>2. CommandTyped'
      BY <2>2, <2>3, <3>1 DEF CommandTyped, CopyIsThere, NotAsked, Copied, There
    <3>3. ClipTypes'
      BY <2>1, <2>3, <3>2 DEF ClipTypes, PollTyped
    <3>4. PicturesAccounted' /\ RecordedIsThere' /\ NothingHidden'
      BY <2>1, <2>3, <3>1 DEF PicturesAccounted, InHand, RecordedIsThere, NothingHidden
    <3> QED BY <3>3, <3>4
  <2>4. CASE Becomes(new, {c}) /\ clipCommand' = [pc |-> "clean", files |-> out, then |-> afterwards]
    <3> DEFINE P == PicturesOf(items) \cup {0}
    <3>0. PicturesOf(items) \subseteq 1..pngCount /\ pngCount \in Nat
      BY DEF PicturesAccounted, ClipTypes
    <3>1. items \in Seq(Items(P)) /\ P \in SUBSET Nat /\ 0 \in P
      BY <1>0, <3>0, OwnPictures
    <3>2. new \in Seq(Items(P))
      <4> HIDE DEF P
      <4> QED BY <2>2, <3>1, WithClipFrom
    <3>3. new \in Seq(Items(Nat))
      <4>1. Items(P) \subseteq Items(Nat)
        BY <3>1 DEF Items
      <4> HIDE DEF P, new
      <4> QED BY <3>2, <4>1
    <3>4. PicturesOf(new) \subseteq PicturesOf(items)
      <4>1. PicturesOf(new) \subseteq P \ {0}
        <5> HIDE DEF P, new
        <5> QED BY <3>2, PicturesWithin
      <4> QED BY <4>1
    <3>5. items' = new /\ There \subseteq There' /\ c \in There'
      <4> HIDE DEF new
      <4> QED BY <2>4, BecomesKeeps
    <3> HIDE DEF new
    <3>6. clipCommand'.pc = "clean" /\ clipCommand'.files = out /\ clipCommand'.then = afterwards
      BY <2>4
    <3>7. afterwards.pc = "record" /\ afterwards.clip = c
      OBVIOUS
    <3> HIDE DEF c, afterwards
    <3>8. CommandTyped'
      BY <2>1, <2>2, <3>0, <3>5, <3>6, <3>7 DEF CommandTyped, CopyIsThere, NotAsked, Copied, There
    <3>9. ClipTypes'
      BY <2>1, <3>3, <3>5, <3>8 DEF ClipTypes, PollTyped
    <3>10. PicturesAccounted'
      BY <2>1, <3>4, <3>5, <3>6 DEF PicturesAccounted, InHand
    <3>11. RecordedIsThere' /\ NothingHidden'
      BY <2>1, <3>5, <3>6 DEF RecordedIsThere, NothingHidden, There
    <3> QED BY <3>9, <3>10, <3>11
  <2> QED BY <1>3, <2>3, <2>4 DEF CopyCaptures
<1>4. CASE CopyRecords
  <2>1. /\ clipCommand.pc = "record" /\ clipCommand' = NotAsked
        /\ prints' = [k \in Kinds |-> IF k = KindOf[clipCommand.clip] THEN clipCommand.clip ELSE NoClip]
        /\ UNCHANGED <<items, consent, pngs, pngCount, poll, removed, untidy>>
    BY <1>4 DEF CopyRecords
  <2>2. clipCommand'.pc = "idle"
    BY <2>1 DEF NotAsked
  <2>3. clipCommand.clip \in Clips /\ clipCommand.clip \in There
    BY <2>1 DEF ClipTypes, CommandTyped, CopyIsThere, Copied, There
  <2>4. CommandTyped'
    BY <2>1, <2>2 DEF CommandTyped, CopyIsThere, Copied
  <2>5. prints' \in [Kinds -> Clips \cup {NoClip}]
    BY <2>1, <2>3
  <2>6. ClipTypes'
    BY <2>1, <2>4, <2>5 DEF ClipTypes, PollTyped
  <2>7. PicturesAccounted' /\ RecordedIsThere'
    BY <2>1, <2>2 DEF PicturesAccounted, InHand, RecordedIsThere
  <2>8. NothingHidden'
    BY <2>1, <2>3, ClipAssumption DEF NothingHidden, There
  <2> QED BY <2>6, <2>7, <2>8
<1> QED BY <1>1, <1>2, <1>3, <1>4

\* The poll.
LEMMA AfterKindIs ==
  ASSUME NEW k \in AllKinds, {"pc", "clip", "kinds"} \subseteq DOMAIN poll
  PROVE  /\ AfterKind(k).pc \in {"image", "files", "idle"}
         /\ AfterKind(k).pc = "idle" <=> AfterKind(k) = NotPolling
         /\ AfterKind(k).pc # "idle" => {"pc", "clip", "kinds"} \subseteq DOMAIN AfterKind(k)
<1>1. CASE k = "text"
  <2>1. AfterKind(k) = [poll EXCEPT !.pc = "image"]
    BY <1>1, Zenon DEF AfterKind
  <2>2. AfterKind(k).pc = "image" /\ DOMAIN AfterKind(k) = DOMAIN poll
    BY <2>1
  <2>3. NotPolling.pc = "idle"
    BY DEF NotPolling
  <2> QED BY <2>2, <2>3
<1>2. CASE k = "image"
  <2> DEFINE after == [pc |-> "files", clip |-> poll.clip, kinds |-> poll.kinds]
  <2>1. AfterKind(k) = after
    BY <1>2 DEF AfterKind
  <2>2. after.pc = "files" /\ DOMAIN after = {"pc", "clip", "kinds"}
    OBVIOUS
  <2>3. NotPolling.pc = "idle"
    BY DEF NotPolling
  <2> HIDE DEF after
  <2> QED BY <2>1, <2>2, <2>3
<1>3. CASE k = "files"
  BY <1>3 DEF AfterKind, NotPolling
<1> QED BY <1>1, <1>2, <1>3 DEF AllKinds

\* A kind is done with: nobody holds a picture for the poll any more.
LEMMA PollTurns ==
  ASSUME NEW k \in AllKinds, {"pc", "clip", "kinds"} \subseteq DOMAIN poll, poll' = AfterKind(k)
  PROVE  PollTyped' /\ RecordedIsThere' /\ poll'.pc \notin {"write", "insert", "clean"}
<1>1. /\ poll'.pc \in {"image", "files", "idle"}
      /\ poll'.pc = "idle" <=> poll' = NotPolling
      /\ poll'.pc # "idle" => {"pc", "clip", "kinds"} \subseteq DOMAIN poll'
  BY AfterKindIs
<1> QED BY <1>1 DEF PollTyped, KindsOfStep, RecordedIsThere

LEMMA PollPassesKeeps ==
  ASSUME ClipInv, NEW k \in AllKinds, PollPasses(k)
  PROVE  ClipInv'
<1> USE DEF ClipInv
<1>1. /\ poll.pc = k /\ poll' = AfterKind(k)
      /\ UNCHANGED <<items, consent, pngs, pngCount, clipCommand, removed, untidy>>
  BY DEF PollPasses
<1>2. {"pc", "clip", "kinds"} \subseteq DOMAIN poll /\ poll.pc \notin {"insert", "clean"}
  BY <1>1 DEF ClipTypes, PollTyped, AllKinds
<1>3. PollTyped' /\ RecordedIsThere' /\ poll'.pc \notin {"write", "insert", "clean"}
  BY <1>1, <1>2, PollTurns
<1>4. prints' = prints \/ (prints' = [prints EXCEPT ![k] = Sampled(k)]
                             /\ (Sampled(k) # NoClip => ~consent[k]))
  BY DEF PollPasses, Seen
<1>5. Sampled(k) \in Clips \cup {NoClip} /\ NoClip \notin Clips
  BY ClipAssumption DEF Sampled
<1>6. prints' \in [Kinds -> Clips \cup {NoClip}]
  BY <1>4, <1>5 DEF ClipTypes
<1>7. ClipTypes'
  BY <1>1, <1>3, <1>6 DEF ClipTypes, CommandTyped, CopyIsThere
<1>8. PicturesAccounted'
  BY <1>1, <1>2, <1>3 DEF PicturesAccounted, InHand
<1>9. NothingHidden'
  <2>1. \A q \in Kinds : consent[q] /\ prints'[q] \in Clips => prints'[q] = prints[q]
    BY <1>4, <1>5 DEF ClipTypes
  <2> QED BY <1>1, <2>1 DEF NothingHidden
<1> QED BY <1>3, <1>7, <1>8, <1>9

\* An entry is recorded, with a new picture if the poll has just written one.
LEMMA PollRecordsKeeps ==
  ASSUME ClipInv, NEW k \in AllKinds, NEW png \in {0} \cup pngs, PollRecords(k, png),
         poll.clip \in Clips, poll.pc # "clean", poll.pc = "insert" => png = pngCount,
         UNCHANGED <<consent, pngs, pngCount, prints, clipCommand, untidy>>
  PROVE  ClipInv'
<1> USE DEF ClipInv
<1> DEFINE c   == poll.clip
           new == WithClip(c, png)
           out == (PicturesOf(items) \cup ({png} \ {0})) \ PicturesOf(new)
           then == [pc |-> "clean", clip |-> c, kinds |-> poll.kinds, kind |-> k, files |-> out]
           P   == PicturesOf(items) \cup {0, png}
<1>0. PicturesOf(items) \subseteq pngs /\ pngs \subseteq 1..pngCount /\ pngCount \in Nat
  BY DEF PicturesAccounted, ClipTypes
<1>1. Becomes(new, {c}) /\ poll' = then
  BY DEF PollRecords
<1>2. items \in Seq(Items(P)) /\ P \in SUBSET Nat /\ png \in P
  <2>1. PicturesOf(items) \in SUBSET Nat /\ png \in Nat
    <3>1. pngs \in SUBSET Nat
      BY <1>0
    <3>2. PicturesOf(items) \in SUBSET Nat
      BY <1>0, <3>1, Zenon
    <3> QED BY <3>1, <3>2
  <2>2. P \in SUBSET Nat
    <3> HIDE DEF P
    <3>1. P = PicturesOf(items) \cup {0, png}
      BY DEF P
    <3> QED BY <2>1, <3>1
  <2>3. PicturesOf(items) \cup {0} \subseteq P /\ png \in P
    OBVIOUS
  <2> HIDE DEF P
  <2> QED BY <2>2, <2>3, OwnPictures DEF ClipTypes
<1>3. new \in Seq(Items(P))
  <2> HIDE DEF P
  <2> QED BY <1>2, WithClipFrom
<1>4. new \in Seq(Items(Nat))
  <2>1. Items(P) \subseteq Items(Nat)
    BY <1>2 DEF Items
  <2> HIDE DEF P, new
  <2> QED BY <1>3, <2>1
<1>5. PicturesOf(new) \subseteq PicturesOf(items) \cup ({png} \ {0})
  <2>1. PicturesOf(new) \subseteq P \ {0}
    <3> HIDE DEF P, new
    <3> QED BY <1>3, PicturesWithin
  <2> QED BY <2>1
<1>6. items' = new /\ There \subseteq There' /\ c \in There'
  <2> HIDE DEF new
  <2> QED BY <1>1, BecomesKeeps
<1> HIDE DEF new
<1>7. /\ then.pc = "clean" /\ then.clip = c /\ then.kind = k /\ then.files = out
      /\ {"pc", "clip", "kinds"} \subseteq DOMAIN then
  OBVIOUS
<1>8. NotPolling.pc = "idle"
  BY DEF NotPolling
<1> HIDE DEF then, P
<1>9. /\ poll'.pc = "clean" /\ poll'.clip = c /\ poll'.kind = k /\ poll'.files = out
      /\ {"pc", "clip", "kinds"} \subseteq DOMAIN poll'
  BY <1>1, <1>7
<1>10. PollTyped' /\ CommandTyped'
  <2>1. PollTyped'
    BY <1>8, <1>9 DEF PollTyped, KindsOfStep
  <2>2. CommandTyped'
    BY <1>6 DEF ClipTypes, CommandTyped, CopyIsThere, There
  <2> QED BY <2>1, <2>2
<1>11. ClipTypes'
  BY <1>4, <1>6, <1>10 DEF ClipTypes
<1>12. PicturesAccounted'
  <2>1. PicturesOf(items') \subseteq pngs'
    BY <1>0, <1>5, <1>6
  <2>2. ASSUME ~untidy PROVE pngs \subseteq PicturesOf(items) \cup ({png} \ {0})
                              \cup (IF clipCommand.pc = "clean" THEN clipCommand.files ELSE {})
    <3>1. pngs \subseteq PicturesOf(items) \cup InHand
      BY <2>2 DEF PicturesAccounted
    <3>2. poll.pc = "insert" => pngCount \in {png} \ {0}
      BY DEF PicturesAccounted, ClipTypes
    <3> QED BY <3>1, <3>2 DEF InHand
  <2>3. untidy \in BOOLEAN
    BY DEF ClipTypes
  <2> QED BY <1>5, <1>6, <1>9, <2>1, <2>2, <2>3 DEF PicturesAccounted, InHand
<1>13. RecordedIsThere' /\ NothingHidden'
  BY <1>6, <1>9 DEF RecordedIsThere, NothingHidden, There
<1> QED BY <1>11, <1>12, <1>13

LEMMA MayRecordIs ==
  ASSUME ClipInv, NEW k \in AllKinds, MayRecord(k)
  PROVE  /\ poll.clip \in Clips /\ poll.pc \in AllKinds
         /\ {"pc", "clip", "kinds"} \subseteq DOMAIN poll
<1>1. poll.pc = k /\ Sampled(k) \in Clips
  BY DEF MayRecord
<1>2. poll.clip \in Clips
  BY <1>1, ClipAssumption DEF Sampled
<1> QED BY <1>1, <1>2 DEF ClipInv, ClipTypes, PollTyped, AllKinds

LEMMA PollCapturesKeeps ==
  ASSUME ClipInv, NEW k \in AllKinds, PollCaptures(k)
  PROVE  ClipInv'
<1>1. /\ poll.clip \in Clips /\ poll.pc \in AllKinds
      /\ {"pc", "clip", "kinds"} \subseteq DOMAIN poll
  BY MayRecordIs DEF PollCaptures
<1>2. poll.pc \notin {"insert", "clean"}
  BY <1>1 DEF AllKinds
<1>3. UNCHANGED <<consent, pngs, pngCount, prints, clipCommand, untidy>>
  BY DEF PollCaptures
<1>4. CASE PollRecords(k, 0)
  BY <1>1, <1>2, <1>3, <1>4, PollRecordsKeeps
<1>5. CASE poll' = AfterKind(k) /\ UNCHANGED <<items, removed>>
  <2>1. PollTyped' /\ RecordedIsThere' /\ poll'.pc \notin {"write", "insert", "clean"}
    BY <1>1, <1>5, PollTurns
  <2>2. ClipTypes'
    BY <1>3, <1>5, <2>1 DEF ClipInv, ClipTypes, CommandTyped, CopyIsThere
  <2>3. PicturesAccounted'
    BY <1>2, <1>3, <1>5, <2>1 DEF ClipInv, PicturesAccounted, InHand
  <2>4. NothingHidden'
    BY <1>3, <1>5 DEF ClipInv, NothingHidden
  <2> QED BY <2>1, <2>2, <2>3, <2>4 DEF ClipInv
<1> QED BY <1>4, <1>5 DEF PollCaptures

LEMMA PollCleansKeeps == ASSUME ClipInv, PollCleans PROVE ClipInv'
<1> USE DEF ClipInv
<1>1. /\ poll.pc = "clean" /\ Cleaned(poll.files) /\ poll' = AfterKind(poll.kind)
      /\ prints' = [prints EXCEPT ![poll.kind] = Sampled(poll.kind)]
      /\ UNCHANGED <<items, consent, pngCount, clipCommand, removed>>
  BY DEF PollCleans, Seen
<1>2. /\ poll.kind \in AllKinds /\ {"pc", "clip", "kinds"} \subseteq DOMAIN poll
      /\ untidy \in BOOLEAN /\ pngs \subseteq 1..pngCount
  BY <1>1 DEF ClipTypes, PollTyped
<1>3. PollTyped' /\ RecordedIsThere' /\ poll'.pc \notin {"write", "insert", "clean"}
  BY <1>1, <1>2, PollTurns
<1>4. /\ pngs' \subseteq pngs /\ pngs \cap PicturesOf(items) \subseteq pngs'
      /\ pngs \ poll.files \subseteq pngs' /\ untidy' \in BOOLEAN
      /\ untidy' \/ (~untidy /\ pngs' \cap poll.files \subseteq PicturesOf(items))
  BY <1>1, <1>2, CleanedKeeps
<1>5. Sampled(poll.kind) \in Clips \cup {NoClip} /\ NoClip \notin Clips
  BY ClipAssumption DEF Sampled
<1>6. prints' \in [Kinds -> Clips \cup {NoClip}]
  BY <1>1, <1>5 DEF ClipTypes
<1>7. ClipTypes'
  BY <1>1, <1>2, <1>3, <1>4, <1>6 DEF ClipTypes, CommandTyped, CopyIsThere
<1>8. PicturesAccounted'
  BY <1>1, <1>3, <1>4 DEF PicturesAccounted, InHand
<1>9. NothingHidden'
  <2>1. Sampled(poll.kind) \in Clips => Sampled(poll.kind) \in There
    BY <1>1, <1>5 DEF Sampled, RecordedIsThere, There
  <2>2. \A k \in Kinds : prints'[k] = prints[k] \/ prints'[k] = Sampled(poll.kind)
    BY <1>1 DEF ClipTypes
  <2> QED BY <1>1, <2>1, <2>2 DEF NothingHidden, There
<1> QED BY <1>3, <1>7, <1>8, <1>9

LEMMA PollStartsKeeps ==
  ASSUME ClipInv, PollSamples \/ PollEncodes
  PROVE  ClipInv'
<1> USE DEF ClipInv
<1>1. UNCHANGED <<items, consent, pngs, pngCount, prints, clipCommand, removed, untidy>>
  BY DEF PollSamples, PollEncodes
<1>2. NotPolling.pc = "idle"
  BY DEF NotPolling
<1>3. PollTyped' /\ poll.pc \notin {"insert", "clean"} /\ poll'.pc \notin {"insert", "clean"}
  <2>1. CASE PollSamples
    <3>1. PICK c \in Clips \cup {NoClip} :
            poll' = [pc |-> "text", clip |-> c, kinds |-> {k \in Kinds : consent[k]}]
      BY <2>1 DEF PollSamples
    <3>2. poll = NotPolling
      BY <2>1 DEF PollSamples
    <3>3. poll'.pc = "text" /\ DOMAIN poll' = {"pc", "clip", "kinds"}
      BY <3>1
    <3> QED BY <1>2, <3>2, <3>3 DEF PollTyped, KindsOfStep
  <2>2. CASE PollEncodes
    <3>1. poll.clip \in Clips /\ poll.pc \in AllKinds /\ {"pc", "clip", "kinds"} \subseteq DOMAIN poll
      BY <2>2, MayRecordIs DEF PollEncodes, AllKinds
    <3>2. poll' = [poll EXCEPT !.pc = "write"]
      BY <2>2 DEF PollEncodes
    <3>3. poll'.pc = "write" /\ DOMAIN poll' = DOMAIN poll /\ poll'.clip = poll.clip
      BY <3>1, <3>2
    <3> QED BY <1>2, <3>1, <3>3 DEF PollTyped, KindsOfStep, AllKinds
  <2> QED BY <2>1, <2>2
<1>4. ClipTypes'
  BY <1>1, <1>3 DEF ClipTypes, CommandTyped, CopyIsThere
<1>5. PicturesAccounted' /\ RecordedIsThere' /\ NothingHidden'
  BY <1>1, <1>3 DEF PicturesAccounted, InHand, RecordedIsThere, NothingHidden
<1> QED BY <1>4, <1>5

\* The picture is a new file, so nobody else can hold it.
LEMMA PollWritesKeeps == ASSUME ClipInv, PollWrites PROVE ClipInv'
<1> USE DEF ClipInv
<1>1. poll.pc = "write" /\ UNCHANGED <<items, consent, prints, clipCommand, removed, untidy>>
  BY DEF PollWrites
<1>2. {"pc", "clip", "kinds"} \subseteq DOMAIN poll /\ poll.clip \in Clips
  BY <1>1 DEF ClipTypes, PollTyped
<1>3. NotPolling.pc = "idle"
  BY DEF NotPolling
<1>4. CASE pngCount' = pngCount + 1 /\ pngs' = pngs \cup {pngCount + 1}
             /\ poll' = [poll EXCEPT !.pc = "insert"]
  <2>1. poll'.pc = "insert" /\ DOMAIN poll' = DOMAIN poll /\ poll'.clip = poll.clip
    BY <1>2, <1>4
  <2>2. PollTyped'
    BY <1>2, <1>3, <2>1 DEF PollTyped, KindsOfStep
  <2>3. /\ pngCount \in Nat /\ pngs \subseteq 1..pngCount /\ PicturesOf(items) \subseteq pngs
        /\ clipCommand.pc = "clean" => clipCommand.files \subseteq 1..pngCount
    BY DEF ClipTypes, CommandTyped, PicturesAccounted
  <2>4. /\ pngCount' \in Nat /\ pngs' \subseteq 1..pngCount' /\ 1..pngCount \subseteq 1..pngCount'
        /\ pngCount' \notin 1..pngCount /\ pngs' = pngs \cup {pngCount'}
    BY <1>4, <2>3
  <2>5. CommandTyped'
    BY <1>1, <2>4 DEF ClipTypes, CommandTyped, CopyIsThere
  <2>6. ClipTypes'
    BY <1>1, <2>2, <2>4, <2>5 DEF ClipTypes
  <2>7. PicturesAccounted'
    <3>1. pngCount' \in pngs' \ PicturesOf(items) /\ PicturesOf(items) \subseteq pngs'
      BY <2>3, <2>4
    <3>2. clipCommand.pc = "clean" => pngCount' \notin clipCommand.files
      BY <2>3, <2>4
    <3>3. untidy \/ pngs' \subseteq PicturesOf(items) \cup InHand'
      <4>1. untidy \/ pngs \subseteq PicturesOf(items) \cup InHand
        BY DEF PicturesAccounted
      <4>2. InHand' = InHand \cup {pngCount'}
        BY <1>1, <2>1 DEF InHand
      <4> QED BY <2>4, <4>1, <4>2
    <3> QED BY <1>1, <3>1, <3>2, <3>3 DEF PicturesAccounted
  <2>8. RecordedIsThere' /\ NothingHidden'
    BY <1>1, <2>1 DEF RecordedIsThere, NothingHidden
  <2> QED BY <2>6, <2>7, <2>8
<1>5. CASE poll' = AfterKind("image") /\ UNCHANGED <<pngs, pngCount>>
  <2>1. PollTyped' /\ RecordedIsThere' /\ poll'.pc \notin {"write", "insert", "clean"}
    BY <1>2, <1>5, PollTurns DEF AllKinds
  <2>2. ClipTypes'
    BY <1>1, <1>5, <2>1 DEF ClipTypes, CommandTyped, CopyIsThere
  <2>3. PicturesAccounted' /\ NothingHidden'
    BY <1>1, <1>5, <2>1 DEF PicturesAccounted, InHand, NothingHidden
  <2> QED BY <2>1, <2>2, <2>3
<1> QED BY <1>4, <1>5 DEF PollWrites

LEMMA PollInsertsKeeps == ASSUME ClipInv, PollInserts PROVE ClipInv'
<1> USE DEF ClipInv
<1>1. poll.pc = "insert" /\ UNCHANGED <<consent, pngCount, clipCommand>>
  BY DEF PollInserts
<1>2. /\ {"pc", "clip", "kinds"} \subseteq DOMAIN poll /\ poll.clip \in Clips
      /\ pngCount \in pngs /\ untidy \in BOOLEAN
  BY <1>1 DEF ClipTypes, PollTyped, PicturesAccounted
<1>3. CASE PollRecords("image", pngCount) /\ UNCHANGED <<pngs, prints, untidy>>
  BY <1>1, <1>2, <1>3, PollRecordsKeeps DEF AllKinds
<1>4. CASE /\ \/ pngs' = pngs \ {pngCount} /\ UNCHANGED untidy
              \/ untidy' = TRUE /\ UNCHANGED pngs
           /\ Seen("image", ~StillConsents)
           /\ poll' = AfterKind("image") /\ UNCHANGED <<items, removed>>
  <2>1. PollTyped' /\ RecordedIsThere' /\ poll'.pc \notin {"write", "insert", "clean"}
    BY <1>2, <1>4, PollTurns DEF AllKinds
  <2>2. Sampled("image") \in Clips \cup {NoClip}
    BY DEF Sampled
  <2>3. \/ prints' = prints
        \/ ~consent["image"] /\ prints' = [prints EXCEPT !["image"] = Sampled("image")]
    BY <1>4 DEF Seen, StillConsents
  <2>4. prints' \in [Kinds -> Clips \cup {NoClip}]
    BY <2>2, <2>3 DEF ClipTypes
  <2>5. pngs' \subseteq pngs /\ pngs \ {pngCount} \subseteq pngs' /\ untidy' \in BOOLEAN
        /\ (untidy' \/ (~untidy /\ pngs' = pngs \ {pngCount}))
    <3>1. CASE pngs' = pngs \ {pngCount} /\ untidy' = untidy
      BY <1>2, <3>1
    <3>2. CASE untidy' = TRUE /\ pngs' = pngs
      BY <3>2
    <3> QED BY <1>4, <3>1, <3>2
  <2>6. ClipTypes'
    BY <1>1, <1>4, <2>1, <2>4, <2>5 DEF ClipTypes, CommandTyped, CopyIsThere
  <2>7. PicturesAccounted'
    <3>1. PicturesOf(items) \subseteq pngs'
      BY <1>1, <2>5 DEF PicturesAccounted
    <3>2. untidy' \/ pngs' \subseteq PicturesOf(items) \cup InHand'
      BY <1>1, <2>1, <2>5 DEF PicturesAccounted, InHand
    <3> QED BY <1>4, <2>1, <3>1, <3>2 DEF PicturesAccounted
  <2>8. NothingHidden'
    <3>1. \A k \in Kinds : consent[k] => prints'[k] = prints[k]
      BY <2>3 DEF ClipTypes
    <3> QED BY <1>1, <1>4, <3>1 DEF NothingHidden
  <2> QED BY <2>1, <2>6, <2>7, <2>8
<1> QED BY <1>3, <1>4, Zenon DEF PollInserts

LEMMA ClipCrashKeeps == ASSUME ClipInv, ClipCrash PROVE ClipInv'
<1> USE DEF ClipInv
<1>1. /\ prints' = NoPrints /\ poll' = NotPolling /\ clipCommand' = NotAsked /\ untidy' = TRUE
      /\ UNCHANGED <<items, consent, pngs, pngCount>>
  BY DEF ClipCrash
<1>2. poll'.pc = "idle" /\ clipCommand'.pc = "idle"
  BY <1>1 DEF NotPolling, NotAsked
<1>3. PollTyped' /\ CommandTyped'
  BY <1>1, <1>2 DEF PollTyped, CommandTyped, KindsOfStep, Copied, CopyIsThere
<1>4. ClipTypes'
  BY <1>1, <1>3 DEF ClipTypes, NoPrints
<1>5. PicturesAccounted' /\ RecordedIsThere'
  BY <1>1, <1>2 DEF PicturesAccounted, RecordedIsThere
<1>6. NothingHidden'
  BY <1>1, ClipAssumption DEF NothingHidden, NoPrints
<1> QED BY <1>4, <1>5, <1>6

LEMMA ClipStep == ClipInv /\ [ClipNext]_clipVars => ClipInv'
<1> SUFFICES ASSUME ClipInv, [ClipNext]_clipVars PROVE ClipInv'
  OBVIOUS
<1>1. CASE SetHistoryEnabled \/ SetCaptureOptions \/ ResetPollState
  BY <1>1, ConsentKeeps
<1>2. CASE SetPinned \/ DeleteItem \/ ClearUnpinned
  BY <1>2, ListKeeps
<1>3. CASE CommandCleans \/ CopyItem \/ CopyCaptures \/ CopyRecords
  BY <1>3, CommandKeeps
<1>4. CASE PollSamples \/ PollEncodes
  BY <1>4, PollStartsKeeps
<1>5. CASE PollCleans
  BY <1>5, PollCleansKeeps
<1>6. CASE PollWrites
  BY <1>6, PollWritesKeeps
<1>7. CASE PollInserts
  BY <1>7, PollInsertsKeeps
<1>8. ASSUME NEW k \in AllKinds, PollPasses(k) PROVE ClipInv'
  BY <1>8, PollPassesKeeps
<1>9. ASSUME NEW k \in AllKinds, PollCaptures(k) PROVE ClipInv'
  BY <1>9, PollCapturesKeeps
<1>10. CASE ClipCrash
  BY <1>10, ClipCrashKeeps
<1>11. CASE UNCHANGED clipVars
  <2>1. UNCHANGED <<items, consent, pngs, pngCount, prints, poll, clipCommand, removed, untidy>>
    BY <1>11 DEF clipVars
  <2>2. ClipTypes'
    BY <2>1 DEF ClipInv, ClipTypes, PollTyped, CommandTyped, CopyIsThere
  <2>3. PicturesAccounted' /\ RecordedIsThere' /\ NothingHidden'
    BY <2>1 DEF ClipInv, PicturesAccounted, InHand, RecordedIsThere, NothingHidden
  <2> QED BY <2>2, <2>3 DEF ClipInv
<1> QED BY <1>1, <1>2, <1>3, <1>4, <1>5, <1>6, <1>7, <1>8, <1>9, <1>10, <1>11, Zenon DEF ClipNext

\* Every picture in the list can be shown, and once nobody is at work no picture
\* outlives its entry, whatever the poll, the commands and their removals did in
\* between (capture_image, remove, clear_unpinned and cleanup_unreferenced_images).
THEOREM PicturesMatch == ClipSpec => []PicturesMatchItems
<1>1. ClipInv => PicturesMatchItems
  <2> SUFFICES ASSUME ClipInv PROVE PicturesMatchItems
    OBVIOUS
  <2>1. PicturesOf(items) \subseteq pngs /\ (untidy \/ pngs \subseteq PicturesOf(items) \cup InHand)
    BY DEF ClipInv, PicturesAccounted
  <2>2. poll = NotPolling /\ clipCommand = NotAsked => InHand = {}
    BY DEF InHand, NotPolling, NotAsked
  <2> QED BY <2>1, <2>2 DEF PicturesMatchItems
<1> QED BY <1>1, ClipInitially, ClipStep, PTL DEF ClipSpec

\* What the poll takes for seen is in the list or was removed from it: neither a
\* consent that changes in the middle of a poll nor a copy or a save that fails
\* hides what is on the clipboard (the poll of app.rs and its PollState).
THEOREM NothingIsHidden == ClipSpec => []NothingHidden
<1>1. ClipInv => NothingHidden
  BY DEF ClipInv
<1> QED BY <1>1, ClipInitially, ClipStep, PTL DEF ClipSpec
==============================================================================
