----------------------------- MODULE Moves_proofs -----------------------------
(* What holds of the two parts that move things about and roll back: of        *)
(* PluginStore for any plugins and versions, its invariant for any number of   *)
(* failing calls and the refinement for one in each operation; of BatchRename  *)
(* for any number of names, files, lists and faults.                           *)
EXTENDS PluginStore, BatchRename, SequenceTheorems, FiniteSetTheorems, TLAPS

Idle      == op = NoOp
Target    == dir[op.plugin]
Kept      == op.dir
WithoutIt == op.off \ {op.plugin}
Stands(d) == d.state = "none" <=> d.ver = 0

\* Nothing and no version go together, and only an operation has a step.
Consistent ==
    /\ \A p \in Plugins : Stands(dir[p])
    /\ Idle \/ (op.pc # "idle" /\ op.plugin \in Plugins /\ op.kind # "none" /\ Stands(op.dir))
    /\ Idle => op.aside = NoDir

\* Where each kind of operation has the directory of its plugin.
Installs ==
    op.kind = "install" =>
        /\ op.pc \in {"swap", "write", "promote"} /\ op.which = "lifecycle" /\ op.then = "end"
        /\ op.new = WithoutIt /\ op.ver # 0 /\ op.plugin \notin op.linked
        /\ Kept = NoDir /\ op.aside = NoDir
        /\ Target = IF OpAt("swap") THEN NoDir ELSE [state |-> "whole", ver |-> op.ver]
Updates ==
    op.kind = "update" =>
        /\ op.pc \in {"aside", "swap"} /\ op.ver \notin {0, Kept.ver} /\ op.plugin \notin op.linked
        /\ Kept.state = "whole"
        /\ IF OpAt("aside") THEN op.aside = NoDir /\ Target = Kept
                            ELSE op.aside = Kept /\ Target = NoDir
Uninstalls ==
    op.kind = "uninstall" =>
        /\ op.pc \in {"aside", "write", "promote", "remove", "putback"}
        /\ op.which = "lifecycle" /\ op.plugin \notin op.linked
        /\ Kept.state \in {"whole", "broken"}
        /\ OpAt("aside") => op.aside = NoDir /\ Target = Kept /\ op.then = "remove"
        /\ ~OpAt("aside") => Target = NoDir /\ op.aside \in Pieces(Kept)
        /\ IF op.then = "remove"
           THEN /\ ~OpAt("putback") /\ op.new = WithoutIt
                /\ ~OpAt("aside") => op.aside = Kept
           ELSE ~OpAt("remove") /\ op.then = "putback" /\ op.new = op.off /\ op.faults >= 1
Writes ==
    op.kind \in {"enable", "link"} =>
        /\ op.pc \in {"write", "promote"} /\ op.then = "end"
        /\ op.aside = NoDir /\ Target = Kept
        /\ IF op.kind = "enable"
           THEN /\ op.which = "lifecycle" /\ op.new \in {WithoutIt, op.off \cup {op.plugin}}
                /\ op.plugin \in op.linked \/ Kept.state # "none"
           ELSE op.which = "links" /\ op.new \in {op.linked \ {op.plugin}, op.linked \cup {op.plugin}}

\* What the two records hold at each step.
OffBefore == IF op.then = "putback" THEN WithoutIt ELSE op.off
Records ==
    /\ op.pc \in {"aside", "swap"} => Off = op.off /\ Linked = op.linked
    /\ OpAt("write") => Off = OffBefore /\ Linked = op.linked
    /\ OpAt("promote") /\ op.which = "lifecycle" =>
         Off = {} /\ op.backup.of = OffBefore /\ Linked = op.linked
    /\ OpAt("promote") /\ op.which = "links" =>
         Linked = {} /\ op.backup.of = op.linked /\ Off = op.off
    /\ OpAt("remove") => Off = WithoutIt /\ Linked = op.linked
    /\ OpAt("putback") => Linked = op.linked /\ (MaxFaults <= 1 => Off = op.off)

StoreInv ==
    /\ StoreTypeOK /\ Consistent
    /\ Installs /\ Updates /\ Uninstalls /\ Writes /\ Records

-----------------------------------------------------------------------------
(* The operation *)

StorePcs   == {"aside", "swap", "write", "promote", "remove", "putback"}
Kinds == {"install", "update", "uninstall", "enable", "link"}

\* What an operation is asked for stays until it ends.
SameOp ==
    /\ op'.kind = op.kind /\ op'.plugin = op.plugin /\ op'.ver = op.ver
    /\ op'.which = op.which /\ op'.dir = op.dir /\ op'.off = op.off /\ op'.linked = op.linked
SameRest == op'.new = op.new /\ op'.then = op.then /\ op'.faults = op.faults

\* No operation, as the variable op has it.
LEMMA NoOpIs ==
  /\ NoOp \in OpType /\ NoOp.kind = "none" /\ NoOp.pc = "idle" /\ NoOp.aside = NoDir
  /\ NoOp.faults = 0
<1>1. NoDir \in Dirs
  BY StoreAssumption DEF NoDir, Dirs, DirStates
<1>2. NoFile \in [there : BOOLEAN, of : SUBSET Plugins]
  BY DEF NoFile
<1>3. 0 \in 0..MaxVersion
  BY StoreAssumption
<1> QED
  BY <1>1, <1>2, <1>3 DEF NoOp, OpType

\* An operation that begins has changed nothing on the disk.
LEMMA BeginIs ==
  ASSUME StoreInv, NEW p \in Plugins, NEW kind \in Kinds, NEW pc \in StorePcs,
         NEW v \in 0..MaxVersion, NEW which \in {"lifecycle", "links"},
         NEW new \in SUBSET Plugins, Begin(kind, pc, p, v, which, new)
  PROVE  /\ op' \in OpType /\ dir' = dir /\ file' = file /\ op = NoOp /\ op' # NoOp
         /\ op'.kind = kind /\ op'.pc = pc /\ op'.plugin = p /\ op'.ver = v
         /\ op'.which = which /\ op'.new = new /\ op'.aside = NoDir /\ op'.faults = 0
         /\ op'.then = IF kind = "uninstall" THEN "remove" ELSE "end"
         /\ op'.dir = dir[p] /\ op'.off = Off /\ op'.linked = Linked
<1>1. dir[p] \in Dirs /\ Off \in SUBSET Plugins /\ Linked \in SUBSET Plugins
  BY DEF StoreInv, StoreTypeOK, Off, Linked
<1>2. NoFile \in [there : BOOLEAN, of : SUBSET Plugins] /\ NoDir \in Dirs
  BY StoreAssumption DEF NoFile, NoDir, Dirs, DirStates
<1>3. op' = [kind |-> kind, pc |-> pc, plugin |-> p, ver |-> v, faults |-> 0,
             aside |-> NoDir, which |-> which, new |-> new, backup |-> NoFile,
             then |-> IF kind = "uninstall" THEN "remove" ELSE "end",
             dir |-> dir[p], off |-> Off, linked |-> Linked]
  BY DEF Begin, NoOp
<1>4. op' \in OpType
  BY <1>1, <1>2, <1>3 DEF OpType, Kinds, StorePcs
<1>5. op'.pc = pc /\ pc # "idle"
  BY <1>3 DEF StorePcs
<1> QED
  BY <1>3, <1>4, <1>5, NoOpIs DEF Begin

\* Beginning an operation keeps the invariant.
LEMMA BeginKeeps ==
  ASSUME StoreInv, NEW p \in Plugins, OpBegins(p), UNCHANGED life
  PROVE  StoreInv'
<1> USE DEF Kinds, StorePcs
<1>a. /\ dir[p] \in Dirs /\ Off \in SUBSET Plugins /\ Linked \in SUBSET Plugins
      /\ Stands(dir[p]) /\ 0 \in 0..MaxVersion /\ 0 <= MaxFaults
      /\ \A v \in 1..MaxVersion : v \in 0..MaxVersion /\ v # 0
  BY StoreAssumption DEF StoreInv, StoreTypeOK, Consistent, Off, Linked
<1>b. ASSUME dir' = dir, file' = file, op' \in OpType, op'.aside = NoDir, op'.faults = 0,
             op'.pc # "idle", op'.plugin = p, op'.kind # "none", op'.dir = dir[p]
      PROVE  StoreTypeOK' /\ Consistent'
  BY <1>a, <1>b DEF StoreInv, StoreTypeOK, Consistent, Stands, Idle
<1>1. ASSUME NEW v \in 1..MaxVersion, Install(p, v) PROVE StoreInv'
  <2>1. Begin("install", "swap", p, v, "lifecycle", Off \ {p}) /\ p \notin Linked /\ dir[p] = NoDir
    BY <1>1 DEF Install
  <2>2. /\ op' \in OpType /\ dir' = dir /\ file' = file
        /\ op'.kind = "install" /\ op'.pc = "swap" /\ op'.plugin = p /\ op'.ver = v
        /\ op'.which = "lifecycle" /\ op'.new = Off \ {p} /\ op'.aside = NoDir /\ op'.faults = 0
        /\ op'.then = "end" /\ op'.dir = dir[p] /\ op'.off = Off /\ op'.linked = Linked
    BY <1>a, <2>1, BeginIs
  <2> QED
    BY <1>a, <1>b, <2>1, <2>2 DEF StoreInv, Installs, Updates, Uninstalls, Writes, Records,
       OpAt, Target, Kept, WithoutIt, Off, Linked
<1>2. ASSUME NEW v \in 1..MaxVersion, Update(p, v) PROVE StoreInv'
  <2>1. /\ Begin("update", "aside", p, v, "lifecycle", {}) /\ p \notin Linked
        /\ dir[p].state = "whole" /\ v # dir[p].ver
    BY <1>2 DEF Update
  <2>2. /\ op' \in OpType /\ dir' = dir /\ file' = file
        /\ op'.kind = "update" /\ op'.pc = "aside" /\ op'.plugin = p /\ op'.ver = v
        /\ op'.which = "lifecycle" /\ op'.aside = NoDir /\ op'.faults = 0
        /\ op'.then = "end" /\ op'.dir = dir[p] /\ op'.off = Off /\ op'.linked = Linked
    BY <1>a, <2>1, BeginIs
  <2> QED
    BY <1>a, <1>b, <2>1, <2>2 DEF StoreInv, Installs, Updates, Uninstalls, Writes, Records,
       OpAt, Target, Kept, WithoutIt, Off, Linked
<1>3. CASE Uninstall(p)
  <2>1. /\ Begin("uninstall", "aside", p, 0, "lifecycle", Off \ {p}) /\ p \notin Linked
        /\ dir[p].state \in {"whole", "broken"}
    BY <1>3 DEF Uninstall
  <2>2. /\ op' \in OpType /\ dir' = dir /\ file' = file
        /\ op'.kind = "uninstall" /\ op'.pc = "aside" /\ op'.plugin = p
        /\ op'.which = "lifecycle" /\ op'.new = Off \ {p} /\ op'.aside = NoDir /\ op'.faults = 0
        /\ op'.then = "remove" /\ op'.dir = dir[p] /\ op'.off = Off /\ op'.linked = Linked
    BY <1>a, <2>1, BeginIs
  <2> QED
    BY <1>a, <1>b, <2>1, <2>2 DEF StoreInv, Installs, Updates, Uninstalls, Writes, Records,
       OpAt, Target, Kept, WithoutIt, Off, Linked
<1>4. CASE SetEnabled(p)
  <2>1. PICK S \in {Off \ {p}, Off \cup {p}} : Begin("enable", "write", p, 0, "lifecycle", S)
    BY <1>4 DEF SetEnabled
  <2>2. p \in Linked \/ dir[p].state # "none"
    BY <1>4 DEF SetEnabled, Resolves
  <2>3. /\ op' \in OpType /\ dir' = dir /\ file' = file
        /\ op'.kind = "enable" /\ op'.pc = "write" /\ op'.plugin = p
        /\ op'.which = "lifecycle" /\ op'.new = S /\ op'.aside = NoDir /\ op'.faults = 0
        /\ op'.then = "end" /\ op'.dir = dir[p] /\ op'.off = Off /\ op'.linked = Linked
    BY <1>a, <2>1, BeginIs
  <2> QED
    BY <1>a, <1>b, <2>1, <2>2, <2>3 DEF StoreInv, Installs, Updates, Uninstalls, Writes, Records,
       OpAt, Target, Kept, WithoutIt, Off, Linked, OffBefore
<1>5. CASE Link(p) \/ Unlink(p)
  <2>1. PICK S \in {Linked \ {p}, Linked \cup {p}} : Begin("link", "write", p, 0, "links", S)
    BY <1>5 DEF Link, Unlink
  <2>2. /\ op' \in OpType /\ dir' = dir /\ file' = file
        /\ op'.kind = "link" /\ op'.pc = "write" /\ op'.plugin = p
        /\ op'.which = "links" /\ op'.new = S /\ op'.aside = NoDir /\ op'.faults = 0
        /\ op'.then = "end" /\ op'.dir = dir[p] /\ op'.off = Off /\ op'.linked = Linked
    BY <1>a, <2>1, BeginIs
  <2> QED
    BY <1>a, <1>b, <2>1, <2>2 DEF StoreInv, Installs, Updates, Uninstalls, Writes, Records,
       OpAt, Target, Kept, WithoutIt, Off, Linked, OffBefore
<1> QED
  BY <1>1, <1>2, <1>3, <1>4, <1>5 DEF OpBegins

-----------------------------------------------------------------------------
(* Its steps *)

\* An operation may end whenever the folders stand and the files are there.
LEMMA StoreEndKeeps ==
  ASSUME StoreInv, Ends, dir' \in [Plugins -> Dirs], \A p \in Plugins : Stands(dir'[p]),
         file' \in [{"lifecycle", "links"} -> [there : BOOLEAN, of : SUBSET Plugins]],
         life' \in {0, 1}
  PROVE  StoreInv'
<1>1. op' = NoOp /\ NoOp \in OpType /\ NoOp.kind = "none" /\ NoOp.pc = "idle"
      /\ NoOp.aside = NoDir /\ NoOp.faults = 0 /\ 0 <= MaxFaults
  BY NoOpIs, StoreAssumption DEF Ends
<1>2. StoreTypeOK' /\ Consistent'
  BY <1>1 DEF StoreTypeOK, Consistent, Stands, Idle
<1> QED
  BY <1>1, <1>2 DEF StoreInv, Installs, Updates, Uninstalls, Writes, Records, OpAt

\* An operation has a plugin, and puts a directory in its place or none.
LEMMA PlacedIs ==
  ASSUME StoreInv, op # NoOp, NEW d \in Dirs, Stands(d), Placed(d)
  PROVE  /\ dir' \in [Plugins -> Dirs] /\ dir'[op.plugin] = d
         /\ \A p \in Plugins : Stands(dir'[p])
         /\ \A p \in Plugins \ {op.plugin} : dir'[p] = dir[p]
<1>1. dir \in [Plugins -> Dirs] /\ op.plugin \in Plugins /\ \A p \in Plugins : Stands(dir[p])
  BY DEF StoreInv, StoreTypeOK, Consistent, Idle
<1> QED
  BY <1>1 DEF Placed

\* A plugin without a folder stands.
LEMMA NoDirIs == NoDir \in Dirs /\ Stands(NoDir) /\ NoDir.state = "none" /\ NoDir.ver = 0
BY StoreAssumption DEF NoDir, Dirs, DirStates, Stands

\* What an operation has put aside, and what it found, stands.
LEMMA AsideIs ==
  ASSUME StoreInv, op # NoOp
  PROVE  op.aside \in Dirs /\ Stands(op.aside) /\ op.dir \in Dirs /\ Stands(op.dir)
<1>1. op.aside \in Dirs /\ op.dir \in Dirs /\ Stands(op.dir) /\ op.kind \in Kinds
  BY DEF StoreInv, StoreTypeOK, OpType, Consistent, Idle, Kinds
<1>2. op.aside = NoDir \/ op.aside = op.dir
        \/ (op.dir.state \in {"whole", "broken"} /\ op.aside \in Pieces(op.dir))
  <2>1. CASE op.kind = "uninstall"
    BY <2>1 DEF StoreInv, Uninstalls, Kept
  <2>2. CASE op.kind # "uninstall"
    BY <1>1, <2>2 DEF StoreInv, Installs, Updates, Writes, Kept, Kinds
  <2> QED
    BY <2>1, <2>2
<1>3. ASSUME op.dir.state \in {"whole", "broken"}, op.aside \in Pieces(op.dir)
      PROVE  Stands(op.aside)
  <2>1. op.aside.ver = op.dir.ver /\ op.aside.state # "none"
    BY <1>1, <1>3 DEF Pieces, Dirs, DirStates
  <2> QED
    BY <1>1, <1>3, <2>1 DEF Stands
<1> QED
  BY <1>1, <1>2, <1>3, NoDirIs

\* What a step that does not end the operation has to leave.
LEMMA StepTyped ==
  ASSUME StoreInv, op # NoOp, op' \in OpType, op'.pc # "idle", op'.faults <= MaxFaults, SameOp,
         dir' \in [Plugins -> Dirs], \A p \in Plugins : Stands(dir'[p]),
         file' \in [{"lifecycle", "links"} -> [there : BOOLEAN, of : SUBSET Plugins]],
         life' = life, op'.aside # NoDir => dir'[op.plugin] = NoDir
  PROVE  StoreTypeOK' /\ Consistent'
<1>1. op' # NoOp
  BY NoOpIs
<1> QED
  BY <1>1 DEF StoreInv, StoreTypeOK, Consistent, SameOp, Stands, Idle

\* An operation that has been undone keeps the invariant.
LEMMA RestoredKeeps ==
  ASSUME StoreInv, op # NoOp, NEW n \in Nat, Restored(n), Ends, life' = life,
         file' \in [{"lifecycle", "links"} -> [there : BOOLEAN, of : SUBSET Plugins]]
  PROVE  StoreInv'
<1>1. life' \in {0, 1} /\ dir \in [Plugins -> Dirs] /\ \A p \in Plugins : Stands(dir[p])
  BY DEF StoreInv, StoreTypeOK, Consistent
<1>2. CASE Placed(op.aside)
  <2>1. dir' \in [Plugins -> Dirs] /\ \A p \in Plugins : Stands(dir'[p])
    BY <1>2, AsideIs, PlacedIs
  <2> QED
    BY <1>1, <2>1, StoreEndKeeps
<1>3. CASE dir' = dir
  BY <1>1, <1>3, StoreEndKeeps
<1> QED
  BY <1>2, <1>3 DEF Restored

\* So does one whose write of a file fails.
LEMMA WriteFailsKeeps ==
  ASSUME StoreInv, op # NoOp, op.pc \in {"write", "promote"}, NEW n \in {1, 2}, WriteFails(n),
         life' = life,
         file' \in [{"lifecycle", "links"} -> [there : BOOLEAN, of : SUBSET Plugins]],
         op.which = "lifecycle" => file'["links"] = file["links"]
  PROVE  StoreInv'
<1>1. /\ life' \in {0, 1} /\ dir \in [Plugins -> Dirs] /\ \A p \in Plugins : Stands(dir[p])
      /\ op \in OpType
  BY DEF StoreInv, StoreTypeOK, Consistent
<1>2. CASE op.then = "end" /\ Ends /\ dir' = dir
  BY <1>1, <1>2, StoreEndKeeps
<1>3. CASE op.then = "remove" /\ Restored(n) /\ Ends
  BY <1>3, RestoredKeeps
<1>4. CASE /\ op.then = "putback" /\ Fails(n) /\ dir' = dir
           /\ op' = [op EXCEPT !.pc = "putback", !.faults = @ + n]
  <2>1. op.faults \in Nat /\ op.kind \in {"none"} \cup Kinds /\ MaxFaults \in Nat
    BY <1>1, StoreAssumption DEF OpType, Kinds
  <2>2. op'.pc = "putback" /\ SameOp /\ op'.aside = op.aside /\ op'.then = op.then
        /\ op'.new = op.new /\ op'.faults = op.faults + n
    BY <1>1, <1>4 DEF SameOp, OpType
  <2>3. op' \in OpType
    <3>1. op.faults + n \in Nat
      BY <2>1
    <3> QED
      BY <1>1, <1>4, <3>1 DEF OpType
  <2>4. op.kind = "uninstall"
    BY <1>4, <2>1 DEF StoreInv, Installs, Updates, Writes, Consistent, Idle, Kinds
  <2>5. op.faults >= 1 /\ op.faults + n <= MaxFaults
    BY <1>4, <2>4 DEF StoreInv, Uninstalls, Fails
  <2>6. op.aside # NoDir => dir[op.plugin] = NoDir
    BY DEF StoreInv, StoreTypeOK
  <2>7. StoreTypeOK' /\ Consistent'
    BY <1>1, <1>4, <2>1, <2>2, <2>3, <2>5, <2>6, StepTyped
  <2>8. Uninstalls'
    BY <1>4, <2>1, <2>2, <2>4, <2>5
       DEF StoreInv, Uninstalls, SameOp, OpAt, Target, Kept, WithoutIt
  <2>9. Records'
    <3>1. ~(MaxFaults <= 1) /\ op.which = "lifecycle" /\ Linked = op.linked
      BY <2>1, <2>4, <2>5 DEF StoreInv, Records, Uninstalls, OpAt
    <3> QED
      BY <2>2, <3>1 DEF Records, OpAt, SameOp, Linked
  <2> QED
    BY <2>2, <2>4, <2>7, <2>8, <2>9 DEF StoreInv, Installs, Updates, Writes, SameOp
<1> QED
  BY <1>2, <1>3, <1>4 DEF WriteFails

-----------------------------------------------------------------------------

\* Every step of an operation keeps the invariant.
LEMMA StepKeeps ==
  ASSUME StoreInv, OpStep, life' = life
  PROVE  StoreInv'
<1>a. op # NoOp
  BY NoOpIs DEF OpStep, MoveAside, Swap, WriteRecord, PromoteRecord, RemoveAside, PutBack, OpAt
<1>b. /\ life' \in {0, 1} /\ dir \in [Plugins -> Dirs] /\ \A p \in Plugins : Stands(dir[p])
      /\ op \in OpType /\ op.kind \in Kinds /\ op.plugin \in Plugins /\ op.faults <= MaxFaults
      /\ file \in [{"lifecycle", "links"} -> [there : BOOLEAN, of : SUBSET Plugins]]
      /\ op.aside # NoDir => dir[op.plugin] = NoDir
  BY <1>a DEF StoreInv, StoreTypeOK, Consistent, Idle, OpType, Kinds
<1>c. /\ Target \in Dirs /\ Stands(Target) /\ op.faults \in Nat /\ MaxFaults \in Nat
      /\ op.new \in SUBSET Plugins /\ op.which \in {"lifecycle", "links"}
  BY <1>b, StoreAssumption DEF Target, OpType
<1>1. CASE MoveAside
  <2>1. op.pc = "aside" /\ file' = file /\ op.kind \in {"update", "uninstall"}
    BY <1>1, <1>b DEF MoveAside, OpAt, StoreInv, Installs, Writes, Kinds
  <2>2. CASE dir' = dir /\ Ends
    BY <1>b, <2>1, <2>2, StoreEndKeeps
  <2>3. CASE /\ Placed(NoDir)
             /\ op' = [op EXCEPT !.aside = dir[op.plugin],
                                 !.pc = IF op.kind = "update" THEN "swap" ELSE "write"]
    <3>1. op'.aside = Target /\ op'.pc = (IF op.kind = "update" THEN "swap" ELSE "write")
          /\ SameOp /\ SameRest
      BY <1>b, <2>3 DEF SameOp, SameRest, Target, OpType
    <3>2. op' \in OpType
      BY <1>b, <1>c, <2>3 DEF OpType, Target
    <3>3. /\ dir' \in [Plugins -> Dirs] /\ \A p \in Plugins : Stands(dir'[p])
          /\ dir'[op.plugin] = NoDir
      BY <1>a, <2>3, NoDirIs, PlacedIs
    <3>4. StoreTypeOK' /\ Consistent'
      BY <1>a, <1>b, <2>1, <3>1, <3>2, <3>3, StepTyped DEF SameRest
    <3>5. Updates' /\ Uninstalls'
      BY <2>1, <3>1, <3>3 DEF StoreInv, Updates, Uninstalls, SameOp, SameRest, OpAt, Target,
         Kept, WithoutIt, Pieces
    <3>6. Records'
      BY <2>1, <3>1 DEF StoreInv, Uninstalls, Records, SameOp, SameRest, OpAt, Off, Linked,
         OffBefore
    <3> QED
      BY <2>1, <3>1, <3>4, <3>5, <3>6 DEF StoreInv, Installs, Writes, SameOp
  <2> QED
    BY <1>1, <2>2, <2>3 DEF MoveAside
<1>2. CASE Swap
  <2>1. op.pc = "swap" /\ file' = file /\ op.kind \in {"install", "update"}
    BY <1>2, <1>b DEF Swap, OpAt, StoreInv, Uninstalls, Writes, Kinds
  <2> DEFINE new == [state |-> "whole", ver |-> op.ver]
  <2>2. op.ver # 0 /\ op.ver \in 0..MaxVersion
    BY <1>b, <2>1 DEF StoreInv, Installs, Updates, OpType
  <2>3. new \in Dirs /\ Stands(new)
    BY <2>2 DEF Dirs, DirStates, Stands
  <2>4. CASE dir' = dir /\ Ends
    BY <1>b, <2>1, <2>4, StoreEndKeeps
  <2>5. CASE Restored(1) /\ Ends
    BY <1>a, <1>b, <2>1, <2>5, RestoredKeeps
  <2>6. CASE Placed(new) /\ Ends
    BY <1>a, <1>b, <2>1, <2>3, <2>6, PlacedIs, StoreEndKeeps
  <2>7. CASE Placed(new) /\ op.kind = "install" /\ op' = [op EXCEPT !.pc = "write"]
    <3>1. op'.pc = "write" /\ op'.aside = op.aside /\ SameOp /\ SameRest
      BY <1>b, <2>7 DEF SameOp, SameRest, OpType
    <3>2. op' \in OpType
      BY <1>b, <2>7 DEF OpType
    <3>3. /\ dir' \in [Plugins -> Dirs] /\ \A p \in Plugins : Stands(dir'[p])
          /\ dir'[op.plugin] = new
      BY <1>a, <2>3, <2>7, PlacedIs
    <3>4. op.aside = NoDir
      BY <2>7 DEF StoreInv, Installs
    <3>5. StoreTypeOK' /\ Consistent'
      BY <1>a, <1>b, <2>1, <3>1, <3>2, <3>3, <3>4, StepTyped DEF SameRest
    <3>6. Installs'
      BY <2>7, <3>1, <3>3 DEF StoreInv, Installs, SameOp, SameRest, OpAt, Target, Kept, WithoutIt
    <3>7. Records'
      BY <2>1, <2>7, <3>1 DEF StoreInv, Installs, Records, SameOp, SameRest, OpAt, Off, Linked,
         OffBefore
    <3> QED
      BY <2>7, <3>1, <3>5, <3>6, <3>7 DEF StoreInv, Updates, Uninstalls, Writes, SameOp
  <2> QED
    BY <1>2, <2>4, <2>5, <2>6, <2>7 DEF Swap, Goto
<1>3. CASE WriteRecord
  <2>1. op.pc = "write"
    BY <1>3 DEF WriteRecord, OpAt
  <2>2. CASE WriteFails(1) /\ file' = file
    BY <1>a, <1>b, <2>1, <2>2, WriteFailsKeeps
  <2>3. CASE /\ file' = [file EXCEPT ![op.which] = NoFile] /\ dir' = dir
             /\ op' = [op EXCEPT !.pc = "promote", !.backup = file[op.which]]
    <3>1. /\ op'.pc = "promote" /\ op'.aside = op.aside /\ SameOp /\ SameRest
          /\ op'.backup = file[op.which]
      BY <1>b, <2>3 DEF SameOp, SameRest, OpType
    <3>2. op' \in OpType
      BY <1>b, <1>c, <2>3 DEF OpType
    <3>3. /\ file' \in [{"lifecycle", "links"} -> [there : BOOLEAN, of : SUBSET Plugins]]
          /\ file'[op.which].of = {}
          /\ \A w \in {"lifecycle", "links"} \ {op.which} : file'[w] = file[w]
      BY <1>b, <1>c, <2>3 DEF NoFile
    <3>4. StoreTypeOK' /\ Consistent'
      BY <1>a, <1>b, <2>3, <3>1, <3>2, <3>3, StepTyped DEF SameRest
    <3>5. Installs' /\ Updates' /\ Uninstalls' /\ Writes'
      BY <1>b, <2>1, <2>3, <3>1 DEF StoreInv, Installs, Updates, Uninstalls, Writes, SameOp,
         SameRest, OpAt, Target, Kept, WithoutIt
    <3>6. Records'
      <4>1. OffBefore' = OffBefore
        BY <3>1 DEF OffBefore, WithoutIt, SameOp, SameRest
      <4>2. Off = OffBefore /\ Linked = op.linked
        BY <2>1 DEF StoreInv, Records, OpAt
      <4>3. CASE op.which = "lifecycle"
        BY <3>1, <3>3, <4>1, <4>2, <4>3 DEF Records, SameOp, OpAt, Off, Linked
      <4>4. CASE op.which = "links"
        <5>1. op.kind = "link" /\ op.then = "end"
          BY <1>b, <2>1, <4>4 DEF StoreInv, Installs, Updates, Uninstalls, Writes, Kinds
        <5>2. Off = op.off
          BY <4>2, <5>1 DEF OffBefore
        <5> QED
          BY <3>1, <3>3, <4>2, <4>4, <5>2 DEF Records, SameOp, OpAt, Off, Linked
      <4> QED
        BY <1>c, <4>3, <4>4
    <3> QED
      BY <3>4, <3>5, <3>6 DEF StoreInv
  <2> QED
    BY <1>3, <2>2, <2>3 DEF WriteRecord
<1>4. CASE PromoteRecord
  <2>1. op.pc = "promote"
    BY <1>4 DEF PromoteRecord, OpAt
  <2>2. CASE WriteFails(2) /\ file' = file
    BY <1>a, <1>b, <2>1, <2>2, WriteFailsKeeps
  <2>3. CASE file' = [file EXCEPT ![op.which] = op.backup] /\ WriteFails(1)
    <3>1. op.backup \in [there : BOOLEAN, of : SUBSET Plugins]
      BY <1>b DEF OpType
    <3>2. /\ file' \in [{"lifecycle", "links"} -> [there : BOOLEAN, of : SUBSET Plugins]]
          /\ op.which = "lifecycle" => file'["links"] = file["links"]
      BY <1>b, <1>c, <2>3, <3>1
    <3> QED
      BY <1>a, <1>b, <2>1, <2>3, <3>2, WriteFailsKeeps
  <2>4. CASE /\ file' = [file EXCEPT ![op.which] = Written(op.new)] /\ dir' = dir
             /\ IF op.then = "end" THEN Ends ELSE Goto(op.then)
    <3>1. /\ file' \in [{"lifecycle", "links"} -> [there : BOOLEAN, of : SUBSET Plugins]]
          /\ file'[op.which].of = op.new
          /\ \A w \in {"lifecycle", "links"} \ {op.which} : file'[w] = file[w]
      BY <1>b, <1>c, <2>4 DEF Written
    <3>2. CASE Ends
      BY <1>b, <2>4, <3>1, <3>2, StoreEndKeeps
    <3>3. CASE op.then # "end" /\ op' = [op EXCEPT !.pc = op.then]
      <4>1. op.then \in {"remove", "putback"} /\ op.kind = "uninstall"
        <5>1. op.then \in {"remove", "putback"}
          BY <1>b, <3>3 DEF OpType
        <5>2. op.kind \notin {"install", "enable", "link"} /\ op.kind # "update"
          BY <2>1, <5>1 DEF StoreInv, Installs, Updates, Writes
        <5> QED
          BY <1>b, <5>1, <5>2 DEF Kinds
      <4>2. op'.pc = op.then /\ op'.aside = op.aside /\ SameOp /\ SameRest
        BY <1>b, <3>3 DEF SameOp, SameRest, OpType
      <4>3. op' \in OpType
        BY <1>b, <3>3, <4>1 DEF OpType
      <4>4. StoreTypeOK' /\ Consistent'
        BY <1>a, <1>b, <2>4, <3>1, <4>1, <4>2, <4>3, StepTyped DEF SameRest
      <4>5. Uninstalls'
        BY <2>1, <2>4, <4>1, <4>2 DEF StoreInv, Uninstalls, SameOp, SameRest, OpAt, Target, Kept,
           WithoutIt
      <4>6. Records'
        BY <2>1, <3>1, <4>1, <4>2 DEF StoreInv, Uninstalls, Records, SameOp, SameRest, OpAt, Off,
           Linked, WithoutIt
      <4> QED
        BY <4>1, <4>2, <4>4, <4>5, <4>6 DEF StoreInv, Installs, Updates, Writes, SameOp
    <3> QED
      BY <2>4, <3>2, <3>3 DEF Goto
  <2> QED
    BY <1>4, <2>2, <2>3, <2>4 DEF PromoteRecord
<1>5. CASE RemoveAside
  <2>1. op.pc = "remove" /\ file' = file /\ dir' = dir /\ op.kind = "uninstall"
    BY <1>5, <1>b DEF RemoveAside, OpAt, StoreInv, Installs, Updates, Writes, Kinds
  <2>2. CASE Ends
    BY <1>b, <2>1, <2>2, StoreEndKeeps
  <2>3. ASSUME Fails(1), NEW d \in Pieces(op.aside),
               op' = [op EXCEPT !.pc = "write", !.aside = d, !.new = op.off,
                                !.then = "putback", !.faults = @ + 1]
        PROVE  StoreInv'
    <3>1. /\ op'.pc = "write" /\ op'.aside = d /\ op'.new = op.off /\ op'.then = "putback"
          /\ op'.faults = op.faults + 1 /\ SameOp
      BY <1>b, <2>3 DEF SameOp, OpType
    <3>2. op.aside = Kept /\ Target = NoDir /\ op.aside \in Dirs
      BY <1>b, <2>1 DEF StoreInv, Uninstalls, OpAt, OpType
    <3>3. d \in Dirs
      BY <2>3, <3>2 DEF Pieces, Dirs, DirStates
    <3>4. op' \in OpType
      <4>1. op.faults + 1 \in Nat /\ op.off \in SUBSET Plugins
        BY <1>b, <1>c DEF OpType
      <4> QED
        BY <1>b, <2>3, <3>3, <4>1 DEF OpType
    <3>5. op'.faults <= MaxFaults /\ op'.faults >= 1
      BY <1>c, <2>3, <3>1 DEF Fails
    <3>6. StoreTypeOK' /\ Consistent'
      BY <1>a, <1>b, <2>1, <3>1, <3>2, <3>4, <3>5, StepTyped DEF Target
    <3>7. Uninstalls'
      BY <2>1, <2>3, <3>1, <3>2, <3>5 DEF StoreInv, Uninstalls, SameOp, OpAt, Target, Kept
    <3>8. Records'
      BY <2>1, <3>1 DEF StoreInv, Records, SameOp, OpAt, Off, Linked, OffBefore, WithoutIt
    <3> QED
      BY <2>1, <3>1, <3>6, <3>7, <3>8 DEF StoreInv, Installs, Updates, Writes, SameOp
  <2> QED
    BY <1>5, <2>2, <2>3 DEF RemoveAside
<1>6. CASE PutBack
  BY <1>a, <1>b, <1>6, RestoredKeeps DEF PutBack
<1> QED
  BY <1>1, <1>2, <1>3, <1>4, <1>5, <1>6 DEF OpStep

\* So every step of the store does...
LEMMA StoreInvStep ==
  ASSUME StoreInv, [StoreNext]_storeVars
  PROVE  StoreInv'
<1>1. CASE Crash
  <2>1. dir' = dir /\ file' = file /\ Ends /\ life' \in {0, 1}
    BY <1>1 DEF Crash, Ends, StoreInv, StoreTypeOK
  <2> QED
    BY <2>1, StoreEndKeeps DEF StoreInv, StoreTypeOK, Consistent
<1>2. CASE UNCHANGED storeVars
  BY <1>2 DEF storeVars, StoreInv, StoreTypeOK, Consistent, Installs, Updates, Uninstalls, Writes,
     Records, Target, Kept, WithoutIt, OffBefore, Off, Linked, OpAt, Idle, Stands
<1> QED
  BY <1>1, <1>2, StepKeeps, BeginKeeps DEF StoreNext

\* ...and it holds from the start on.
LEMMA StoreInvHolds == StoreSpec => []StoreInv
<1>1. StoreInit => StoreInv
  <2> SUFFICES ASSUME StoreInit PROVE StoreInv
    OBVIOUS
  <2>1. /\ \A p \in Plugins : dir[p] = NoDir
        /\ dir \in [Plugins -> Dirs]
        /\ file \in [{"lifecycle", "links"} -> [there : BOOLEAN, of : SUBSET Plugins]]
        /\ op = NoOp /\ life \in {0, 1}
    BY NoDirIs DEF StoreInit, NoFile
  <2>2. StoreTypeOK /\ Consistent
    BY <2>1, NoOpIs, NoDirIs, StoreAssumption DEF StoreTypeOK, Consistent, Idle
  <2> QED
    BY <2>1, <2>2, NoOpIs DEF StoreInv, Installs, Updates, Uninstalls, Writes, Records, OpAt
<1>2. StoreInv /\ [StoreNext]_storeVars => StoreInv'
  BY StoreInvStep
<1> QED
  BY <1>1, <1>2, PTL DEF StoreSpec

\* While a snapshot is held aside nothing is in its place, and every variable keeps its
\* type, for any plugins and versions and however many calls fail.
THEOREM StoreTyping == StoreSpec => []StoreTypeOK
<1>1. StoreInv => StoreTypeOK
  BY DEF StoreInv
<1> QED
  BY <1>1, StoreInvHolds, PTL

-----------------------------------------------------------------------------
(* The refinement *)

InPieces(d) == d.state \in {"broken", "unlocked", "bare"}

\* An operation that begins or goes on is not seen.
LEMMA NotSeen ==
  ASSUME StoreInv, op' # NoOp, life' = life,
         IF op = NoOp THEN /\ dir' = dir /\ op'.plugin \in Plugins /\ op'.dir = dir[op'.plugin]
                           /\ op'.off = Off /\ op'.linked = Linked
                      ELSE SameOp /\ \A q \in Plugins \ {op.plugin} : dir'[q] = dir[q]
  PROVE  UNCHANGED Registry!registry
<1>1. ASSUME NEW p \in Plugins PROVE Before(p)' = Before(p)
  BY <1>1 DEF Before, SameOp
<1>2. Versions' = Versions /\ Damaged' = Damaged
  BY <1>1 DEF Versions, Damaged
<1>3. OffNow' = OffNow /\ LinkedNow' = LinkedNow
  BY DEF OffNow, LinkedNow, SameOp
<1> QED
  BY <1>2, <1>3 DEF Registry!registry

\* What is seen of one that ends.
LEMMA Seen ==
  ASSUME StoreInv, op # NoOp, Ends, dir' \in [Plugins -> Dirs],
         \A q \in Plugins \ {op.plugin} : dir'[q] = dir[q]
  PROVE  /\ op.plugin \in Plugins
         /\ Versions[op.plugin] = op.dir.ver /\ (op.plugin \in Damaged <=> InPieces(op.dir))
         /\ Versions' = [Versions EXCEPT ![op.plugin] = dir'[op.plugin].ver]
         /\ Damaged' = IF InPieces(dir'[op.plugin]) THEN Damaged \cup {op.plugin}
                                                   ELSE Damaged \ {op.plugin}
         /\ OffNow = op.off /\ OffNow' = Off' /\ LinkedNow = op.linked /\ LinkedNow' = Linked'
<1>1. op.plugin \in Plugins /\ op' = NoOp
  BY DEF StoreInv, Consistent, Idle, Ends
<1>2. /\ Before(op.plugin) = op.dir /\ \A p \in Plugins : Before(p)' = dir'[p]
      /\ \A q \in Plugins \ {op.plugin} : Before(q) = dir[q]
  BY <1>1 DEF Before
<1>3. Versions' = [Versions EXCEPT ![op.plugin] = dir'[op.plugin].ver]
  BY <1>1, <1>2 DEF Versions
<1>4. Damaged' = IF InPieces(dir'[op.plugin]) THEN Damaged \cup {op.plugin}
                                             ELSE Damaged \ {op.plugin}
  BY <1>1, <1>2 DEF Damaged, InPieces
<1>5. Versions[op.plugin] = op.dir.ver /\ (op.plugin \in Damaged <=> InPieces(op.dir))
  BY <1>1, <1>2 DEF Versions, Damaged, InPieces
<1> QED
  BY <1>1, <1>3, <1>4, <1>5 DEF OffNow, LinkedNow

\* One that ends as it began is not seen either.
LEMMA EndsUnseen ==
  ASSUME StoreInv, op # NoOp, Ends, life' = life, dir' \in [Plugins -> Dirs],
         \A q \in Plugins \ {op.plugin} : dir'[q] = dir[q],
         dir'[op.plugin] = op.dir, Off' = op.off, Linked' = op.linked
  PROVE  UNCHANGED Registry!registry
<1>1. Versions' = Versions
  BY Seen DEF Versions
<1>2. Damaged' = Damaged
  BY Seen
<1> QED
  BY <1>1, <1>2, Seen DEF Registry!registry

\* No version outlives its directory.
LEMMA DamagedAreThere ==
  ASSUME StoreInv, NEW p \in Damaged
  PROVE  p \in Plugins /\ Versions[p] # 0
<1>1. p \in Plugins /\ InPieces(Before(p)) /\ Versions[p] = Before(p).ver
  BY DEF Damaged, Versions, InPieces
<1>2. Stands(Before(p))
  BY <1>1 DEF StoreInv, Consistent, Idle, Before
<1> QED
  BY <1>1, <1>2 DEF InPieces, Stands

\* Beginning an operation changes nothing of the registry.
LEMMA BeginUnseen ==
  ASSUME StoreInv, NEW p \in Plugins, OpBegins(p), life' = life
  PROVE  UNCHANGED Registry!registry
<1>1. ASSUME NEW kind, NEW pc, NEW v, NEW which, NEW new, Begin(kind, pc, p, v, which, new),
             pc # "idle"
      PROVE  UNCHANGED Registry!registry
  <2>1. /\ op' = [kind |-> kind, pc |-> pc, plugin |-> p, ver |-> v, faults |-> 0,
                  aside |-> NoDir, which |-> which, new |-> new, backup |-> NoFile,
                  then |-> IF kind = "uninstall" THEN "remove" ELSE "end",
                  dir |-> dir[p], off |-> Off, linked |-> Linked]
        /\ op = NoOp /\ dir' = dir
    BY <1>1 DEF Begin, NoOp
  <2>2. op'.pc = pc /\ op'.plugin = p /\ op'.dir = dir[p] /\ op'.off = Off /\ op'.linked = Linked
    BY <2>1
  <2>3. op' # NoOp
    BY <1>1, <2>2, NoOpIs
  <2> QED
    BY <2>1, <2>2, <2>3, NotSeen
<1> QED
  BY <1>1 DEF OpBegins, Install, Update, Uninstall, SetEnabled, Link, Unlink

\* A step that goes on.
LEMMA GoesOnUnseen ==
  ASSUME StoreInv, op # NoOp, life' = life, op'.pc # "idle", SameOp,
         dir' = dir \/ \E d : Placed(d)
  PROVE  UNCHANGED Registry!registry
<1>1. op' # NoOp
  BY NoOpIs
<1>2. \A q \in Plugins \ {op.plugin} : dir'[q] = dir[q]
  BY DEF Placed, StoreInv, StoreTypeOK
<1> QED
  BY <1>1, <1>2, NotSeen

\* A record that cannot be written leaves things as they were, or an import enabled
\* as the plugin of that name was before.
LEMMA WriteFailsRefines ==
  ASSUME StoreInv, MaxFaults <= 1, op # NoOp, op.pc \in {"write", "promote"},
         NEW n \in {1, 2}, WriteFails(n), life' = life,
         n = 1 => Off' = OffBefore /\ Linked' = op.linked
  PROVE  Registry!RegistryNext \/ UNCHANGED Registry!registry
<1>a. /\ op \in OpType /\ op.faults \in Nat /\ MaxFaults \in Nat /\ op.kind \in Kinds
      /\ op.plugin \in Plugins /\ dir \in [Plugins -> Dirs]
  BY StoreAssumption DEF StoreInv, StoreTypeOK, OpType, Consistent, Idle, Kinds
<1>b. n = 1 /\ op.then # "putback"
  <2>1. Fails(n)
    BY <1>a DEF WriteFails, Fails, Restored
  <2>2. op.then = "putback" => op.faults >= 1
    BY <1>a DEF StoreInv, Installs, Updates, Uninstalls, Writes, Kinds
  <2> QED
    BY <1>a, <2>1, <2>2 DEF Fails
<1>c. Off' = op.off /\ Linked' = op.linked
  BY <1>b DEF OffBefore
<1>1. CASE op.then = "remove" /\ Restored(1) /\ Ends
  <2>1. op.kind = "uninstall"
    BY <1>1, <1>a DEF StoreInv, Installs, Updates, Writes, Kinds
  <2>2. op.aside = op.dir /\ Placed(op.aside)
    BY <1>1, <1>a, <2>1 DEF StoreInv, Uninstalls, OpAt, Kept, Restored, Fails
  <2>3. dir' \in [Plugins -> Dirs] /\ dir'[op.plugin] = op.dir
        /\ \A q \in Plugins \ {op.plugin} : dir'[q] = dir[q]
    BY <2>2, AsideIs, PlacedIs
  <2> QED
    BY <1>1, <1>c, <2>3, EndsUnseen
<1>2. CASE op.then = "end" /\ Ends /\ dir' = dir
  <2>1. CASE op.kind \in {"enable", "link"}
    <3>1. dir'[op.plugin] = op.dir
      BY <1>2, <2>1 DEF StoreInv, Writes, Target, Kept
    <3> QED
      BY <1>2, <1>a, <1>c, <3>1, EndsUnseen
  <2>2. CASE op.kind = "install"
    <3>1. /\ op.dir = NoDir /\ op.plugin \notin op.linked /\ op.ver # 0 /\ op.ver \in 0..MaxVersion
          /\ dir'[op.plugin].ver = op.ver /\ dir'[op.plugin].state = "whole"
      BY <1>2, <1>a, <2>2 DEF StoreInv, Installs, OpAt, Kept, Target, OpType
    <3>2. op.ver \in 1..MaxVersion
      BY <3>1, StoreAssumption
    <3>3. /\ Versions[op.plugin] = 0 /\ Versions' = [Versions EXCEPT ![op.plugin] = op.ver]
          /\ Damaged' = Damaged /\ OffNow' = OffNow /\ LinkedNow' = LinkedNow
          /\ op.plugin \notin LinkedNow
      BY <1>2, <1>a, <1>c, <3>1, Seen, NoDirIs DEF InPieces
    <3>4. Registry!Add(op.plugin, op.ver)
      BY <3>3 DEF Registry!Add
    <3> QED
      BY <1>a, <3>2, <3>4 DEF Registry!RegistryNext
  <2>3. op.kind \in {"install", "enable", "link"}
    BY <1>2, <1>a DEF StoreInv, Updates, Uninstalls, Kinds
  <2> QED
    BY <2>1, <2>2, <2>3
<1> QED
  BY <1>1, <1>2, <1>b DEF WriteFails

\* A step of an operation is a step of the registry, or none.
LEMMA StepRefines ==
  ASSUME StoreInv, MaxFaults <= 1, OpStep, life' = life
  PROVE  Registry!RegistryNext \/ UNCHANGED Registry!registry
<1>a. op # NoOp
  BY NoOpIs DEF OpStep, MoveAside, Swap, WriteRecord, PromoteRecord, RemoveAside, PutBack, OpAt
<1>b. /\ op \in OpType /\ op.faults \in Nat /\ MaxFaults \in Nat /\ op.kind \in Kinds
      /\ op.plugin \in Plugins /\ dir \in [Plugins -> Dirs] /\ op.ver \in 0..MaxVersion
      /\ op.which \in {"lifecycle", "links"}
      /\ file \in [{"lifecycle", "links"} -> [there : BOOLEAN, of : SUBSET Plugins]]
  BY <1>a, StoreAssumption DEF StoreInv, StoreTypeOK, OpType, Consistent, Idle, Kinds
<1>1. CASE MoveAside
  <2>1. op.pc = "aside" /\ file' = file /\ op.kind \in {"update", "uninstall"}
    BY <1>1, <1>b DEF MoveAside, OpAt, StoreInv, Installs, Writes, Kinds
  <2>2. CASE dir' = dir /\ Ends
    <3>1. dir'[op.plugin] = op.dir /\ Off' = op.off /\ Linked' = op.linked
      BY <2>1, <2>2 DEF StoreInv, Updates, Uninstalls, Records, OpAt, Target, Kept, Off, Linked
    <3> QED
      BY <1>a, <1>b, <2>2, <3>1, EndsUnseen
  <2>3. CASE /\ Placed(NoDir)
             /\ op' = [op EXCEPT !.aside = dir[op.plugin],
                                 !.pc = IF op.kind = "update" THEN "swap" ELSE "write"]
    <3>1. op'.pc # "idle" /\ SameOp
      BY <1>b, <2>3 DEF SameOp, OpType
    <3> QED
      BY <1>a, <2>3, <3>1, GoesOnUnseen
  <2> QED
    BY <1>1, <2>2, <2>3 DEF MoveAside
<1>2. CASE Swap
  <2> DEFINE new == [state |-> "whole", ver |-> op.ver]
  <2>1. op.pc = "swap" /\ file' = file /\ op.kind \in {"install", "update"}
    BY <1>2, <1>b DEF Swap, OpAt, StoreInv, Uninstalls, Writes, Kinds
  <2>2. /\ Off' = op.off /\ Linked' = op.linked /\ op.ver # 0 /\ op.plugin \notin op.linked
        /\ new \in Dirs /\ Stands(new) /\ op.ver \in 1..MaxVersion
    BY <1>b, <2>1, StoreAssumption DEF StoreInv, Installs, Updates, Records, OpAt, Off, Linked,
       Dirs, DirStates, Stands
  <2>3. CASE op.kind = "install" /\ dir' = dir /\ Ends
    <3>1. dir'[op.plugin] = op.dir
      BY <2>1, <2>3 DEF StoreInv, Installs, OpAt, Target, Kept
    <3> QED
      BY <1>a, <1>b, <2>2, <2>3, <3>1, EndsUnseen
  <2>4. CASE op.kind = "update" /\ Restored(1) /\ Ends
    <3>1. op.aside = op.dir /\ Placed(op.aside)
      BY <1>b, <2>1, <2>4 DEF StoreInv, Updates, OpAt, Kept, Restored, Fails
    <3>2. /\ dir' \in [Plugins -> Dirs] /\ dir'[op.plugin] = op.dir
          /\ \A q \in Plugins \ {op.plugin} : dir'[q] = dir[q]
      BY <1>a, <3>1, AsideIs, PlacedIs
    <3> QED
      BY <1>a, <2>2, <2>4, <3>2, EndsUnseen
  <2>5. CASE op.kind = "update" /\ Placed(new) /\ Ends
    <3>1. /\ dir' \in [Plugins -> Dirs] /\ dir'[op.plugin] = new
          /\ \A q \in Plugins \ {op.plugin} : dir'[q] = dir[q]
      BY <1>a, <2>2, <2>5, PlacedIs
    <3>2. op.dir.state = "whole" /\ op.dir.ver \notin {0, op.ver}
      BY <2>5, <1>a, AsideIs DEF StoreInv, Updates, Kept, Stands
    <3>3. /\ Versions[op.plugin] \notin {0, op.ver}
          /\ Versions' = [Versions EXCEPT ![op.plugin] = op.ver]
          /\ op.plugin \notin Damaged /\ Damaged' = Damaged
          /\ OffNow' = OffNow /\ LinkedNow' = LinkedNow /\ op.plugin \notin LinkedNow
      BY <1>a, <2>2, <2>5, <3>1, <3>2, Seen DEF InPieces
    <3>4. Registry!Change(op.plugin, op.ver)
      BY <3>3 DEF Registry!Change
    <3> QED
      BY <1>b, <2>2, <3>4 DEF Registry!RegistryNext
  <2>6. CASE op.kind = "install" /\ Placed(new) /\ op' = [op EXCEPT !.pc = "write"]
    <3>1. op'.pc # "idle" /\ SameOp
      BY <1>b, <2>6 DEF SameOp, OpType
    <3> QED
      BY <1>a, <2>6, <3>1, GoesOnUnseen
  <2> QED
    BY <1>2, <2>1, <2>3, <2>4, <2>5, <2>6 DEF Swap, Goto
<1>3. CASE WriteRecord
  <2>1. op.pc = "write"
    BY <1>3 DEF WriteRecord, OpAt
  <2>2. CASE WriteFails(1) /\ file' = file
    <3>1. Off' = OffBefore /\ Linked' = op.linked
      BY <2>1, <2>2 DEF StoreInv, Records, OpAt, Off, Linked
    <3> QED
      BY <1>a, <2>1, <2>2, <3>1, WriteFailsRefines
  <2>3. CASE dir' = dir /\ op' = [op EXCEPT !.pc = "promote", !.backup = file[op.which]]
    <3>1. op'.pc # "idle" /\ SameOp
      BY <1>b, <2>3 DEF SameOp, OpType
    <3> QED
      BY <1>a, <2>3, <3>1, GoesOnUnseen
  <2> QED
    BY <1>3, <2>2, <2>3 DEF WriteRecord
<1>4. CASE PromoteRecord
  <2>1. op.pc = "promote"
    BY <1>4 DEF PromoteRecord, OpAt
  <2>2. CASE WriteFails(2)
    BY <1>a, <2>1, <2>2, WriteFailsRefines
  <2>3. CASE file' = [file EXCEPT ![op.which] = op.backup] /\ WriteFails(1)
    <3>1. /\ file'[op.which] = op.backup
          /\ \A w \in {"lifecycle", "links"} \ {op.which} : file'[w] = file[w]
      BY <1>b, <2>3
    <3>2. op.which = "links" => OffBefore = op.off
      BY <1>b, <2>1 DEF StoreInv, Installs, Updates, Uninstalls, Writes, Kinds, OffBefore
    <3>3. Off' = OffBefore /\ Linked' = op.linked
      BY <1>b, <2>1, <3>1, <3>2 DEF StoreInv, Records, OpAt, Off, Linked
    <3> QED
      BY <1>a, <2>1, <2>3, <3>3, WriteFailsRefines
  <2>4. CASE /\ file' = [file EXCEPT ![op.which] = Written(op.new)] /\ dir' = dir
             /\ op.then = "end" /\ Ends
    <3>1. /\ file'[op.which].of = op.new
          /\ \A w \in {"lifecycle", "links"} \ {op.which} : file'[w] = file[w]
      BY <1>b, <2>4 DEF Written
    <3>2. /\ op.which = "lifecycle" => Off' = op.new /\ Linked' = op.linked
          /\ op.which = "links" => Off' = op.off /\ Linked' = op.new
      BY <2>1, <3>1 DEF StoreInv, Records, OpAt, Off, Linked
    <3>3. CASE op.kind = "install"
      <4>1. /\ op.dir = NoDir /\ op.plugin \notin op.linked /\ op.ver # 0
            /\ dir'[op.plugin].ver = op.ver /\ dir'[op.plugin].state = "whole"
            /\ op.which = "lifecycle" /\ op.new = op.off \ {op.plugin}
        BY <2>1, <2>4, <3>3 DEF StoreInv, Installs, OpAt, Kept, Target, WithoutIt
      <4>2. op.ver \in 1..MaxVersion
        BY <1>b, <4>1, StoreAssumption
      <4>3. /\ Versions[op.plugin] = 0 /\ Versions' = [Versions EXCEPT ![op.plugin] = op.ver]
            /\ Damaged' = Damaged /\ OffNow' = OffNow \ {op.plugin} /\ LinkedNow' = LinkedNow
            /\ op.plugin \notin LinkedNow
        BY <1>a, <1>b, <2>4, <3>2, <4>1, Seen, NoDirIs DEF InPieces
      <4>4. Registry!Add(op.plugin, op.ver)
        BY <4>3 DEF Registry!Add
      <4> QED
        BY <1>b, <4>2, <4>4 DEF Registry!RegistryNext
    <3>4. CASE op.kind \in {"enable", "link"}
      <4>1. /\ dir'[op.plugin] = op.dir /\ Stands(op.dir)
            /\ IF op.kind = "enable"
               THEN /\ op.which = "lifecycle"
                    /\ op.new \in {op.off \ {op.plugin}, op.off \cup {op.plugin}}
                    /\ op.plugin \in op.linked \/ op.dir.state # "none"
               ELSE /\ op.which = "links"
                    /\ op.new \in {op.linked \ {op.plugin}, op.linked \cup {op.plugin}}
        BY <1>a, <2>4, <3>4, AsideIs DEF StoreInv, Writes, Target, Kept, WithoutIt
      <4>2. Versions' = Versions /\ Damaged' = Damaged
        <5>1. /\ Versions[op.plugin] = op.dir.ver /\ (op.plugin \in Damaged <=> InPieces(op.dir))
              /\ Versions' = [Versions EXCEPT ![op.plugin] = op.dir.ver]
              /\ Damaged' = IF InPieces(op.dir) THEN Damaged \cup {op.plugin}
                                                ELSE Damaged \ {op.plugin}
          BY <1>a, <1>b, <2>4, <4>1, Seen
        <5>2. Versions' = Versions
          BY <5>1 DEF Versions
        <5>3. Damaged' = Damaged
          BY <5>1
        <5> QED
          BY <5>2, <5>3
      <4>3. CASE op.kind = "enable"
        <5>1. /\ op.plugin \in LinkedNow \/ Versions[op.plugin] # 0
              /\ OffNow' \in {OffNow \ {op.plugin}, OffNow \cup {op.plugin}}
              /\ LinkedNow' = LinkedNow
          BY <1>a, <1>b, <2>4, <3>2, <4>1, <4>3, Seen DEF Stands
        <5>2. Registry!Switch(op.plugin)
          BY <4>2, <5>1 DEF Registry!Switch
        <5> QED
          BY <1>b, <5>2 DEF Registry!RegistryNext
      <4>4. CASE op.kind = "link"
        <5>1. /\ LinkedNow' \in {LinkedNow \ {op.plugin}, LinkedNow \cup {op.plugin}}
              /\ OffNow' = OffNow
          BY <1>a, <1>b, <2>4, <3>2, <4>1, <4>4, Seen
        <5>2. Registry!Attach(op.plugin)
          BY <4>2, <5>1 DEF Registry!Attach
        <5> QED
          BY <1>b, <5>2 DEF Registry!RegistryNext
      <4> QED
        BY <3>4, <4>3, <4>4
    <3>5. op.kind \in {"install", "enable", "link"}
      BY <1>b, <2>1, <2>4 DEF StoreInv, Updates, Uninstalls, Kinds
    <3> QED
      BY <3>3, <3>4, <3>5
  <2>5. CASE dir' = dir /\ op.then # "end" /\ op' = [op EXCEPT !.pc = op.then]
    <3>1. op'.pc # "idle" /\ SameOp
      BY <1>b, <2>5 DEF SameOp, OpType
    <3> QED
      BY <1>a, <2>5, <3>1, GoesOnUnseen
  <2> QED
    BY <1>4, <2>2, <2>3, <2>4, <2>5 DEF PromoteRecord, Goto
<1>5. CASE RemoveAside
  <2>1. op.pc = "remove" /\ file' = file /\ dir' = dir /\ op.kind = "uninstall"
    BY <1>5, <1>b DEF RemoveAside, OpAt, StoreInv, Installs, Updates, Writes, Kinds
  <2>2. CASE Ends
    <3>1. /\ dir'[op.plugin] = NoDir /\ op.plugin \notin op.linked /\ op.dir.ver # 0
          /\ Off' = op.off \ {op.plugin} /\ Linked' = op.linked
      BY <1>a, <2>1, AsideIs DEF StoreInv, Uninstalls, Records, OpAt, Target, Kept, WithoutIt,
         Off, Linked, Stands
    <3>2. /\ Versions[op.plugin] # 0 /\ Versions' = [Versions EXCEPT ![op.plugin] = 0]
          /\ Damaged' = Damaged \ {op.plugin} /\ OffNow' = OffNow \ {op.plugin}
          /\ LinkedNow' = LinkedNow /\ op.plugin \notin LinkedNow
      BY <1>a, <1>b, <2>1, <2>2, <3>1, Seen, NoDirIs DEF InPieces
    <3>3. Registry!Remove(op.plugin)
      BY <3>2 DEF Registry!Remove
    <3> QED
      BY <1>b, <3>3 DEF Registry!RegistryNext
  <2>3. ASSUME NEW d, op' = [op EXCEPT !.pc = "write", !.aside = d, !.new = op.off,
                                !.then = "putback", !.faults = @ + 1]
        PROVE  UNCHANGED Registry!registry
    <3>1. op'.pc # "idle" /\ SameOp
      BY <1>b, <2>3 DEF SameOp, OpType
    <3> QED
      BY <1>a, <2>1, <3>1, GoesOnUnseen
  <2> QED
    BY <1>5, <2>2, <2>3 DEF RemoveAside
<1>6. CASE PutBack
  <2>1. op.pc = "putback" /\ file' = file /\ Ends /\ op.kind = "uninstall" /\ op.faults >= 1
    BY <1>6, <1>b DEF PutBack, OpAt, StoreInv, Installs, Updates, Uninstalls, Writes, Kinds
  <2>2. Placed(op.aside)
    BY <1>6, <1>b, <2>1 DEF PutBack, Restored, Fails
  <2>3. /\ dir' \in [Plugins -> Dirs] /\ dir'[op.plugin] = op.aside
        /\ \A q \in Plugins \ {op.plugin} : dir'[q] = dir[q]
    BY <1>a, <2>2, AsideIs, PlacedIs
  <2>4. /\ op.aside \in Pieces(op.dir) /\ Off' = op.off /\ Linked' = op.linked
        /\ op.plugin \notin op.linked /\ op.dir.ver # 0 /\ op.dir \in Dirs
    BY <1>a, <1>b, <2>1, AsideIs DEF StoreInv, Uninstalls, Records, OpAt, Kept, Off, Linked, Stands
  <2>5. CASE op.aside = op.dir
    BY <1>a, <2>1, <2>3, <2>4, <2>5, EndsUnseen
  <2>6. CASE op.aside.ver = op.dir.ver /\ InPieces(op.aside)
    <3>1. /\ Versions[op.plugin] # 0 /\ Versions' = Versions
          /\ Damaged' = Damaged \cup {op.plugin} /\ OffNow' = OffNow /\ LinkedNow' = LinkedNow
          /\ op.plugin \notin LinkedNow
      BY <1>a, <2>1, <2>3, <2>4, <2>6, Seen DEF Versions
    <3>2. Registry!Remove(op.plugin)
      BY <3>1 DEF Registry!Remove
    <3> QED
      BY <1>b, <3>2 DEF Registry!RegistryNext
  <2> QED
    BY <2>4, <2>5, <2>6 DEF Pieces, InPieces, Dirs
<1> QED
  BY <1>1, <1>2, <1>3, <1>4, <1>5, <1>6 DEF OpStep
\* What is left when the process ends in the middle of an operation.
LEMMA CrashLeaves ==
  ASSUME StoreInv, MaxFaults <= 1, Crash
  PROVE  /\ op.plugin \in Plugins /\ op # NoOp
         /\ \/ Target = Kept
            \/ Target.ver = 0 /\ ~InPieces(Target)
            \/ Kept = NoDir /\ Target.ver \in 1..MaxVersion /\ ~InPieces(Target)
         /\ \/ Off \in {op.off, WithoutIt, {}} /\ Linked = op.linked
            \/ Linked = {} /\ Off = op.off /\ Target = Kept
<1>1. /\ op # NoOp /\ op.plugin \in Plugins /\ op.kind \in Kinds /\ op.pc \in StorePcs
      /\ op.which \in {"lifecycle", "links"} /\ op.ver \in 0..MaxVersion
  BY DEF Crash, StoreInv, StoreTypeOK, OpType, Consistent, Idle, Kinds, StorePcs
<1>2. \/ Target = Kept
      \/ Target = NoDir
      \/ Kept = NoDir /\ op.ver # 0 /\ Target = [state |-> "whole", ver |-> op.ver]
  BY <1>1 DEF StoreInv, Installs, Updates, Uninstalls, Writes, Kinds
<1>3. op.ver # 0 => op.ver \in 1..MaxVersion
  BY <1>1, StoreAssumption
<1>4. \/ Target = Kept
      \/ Target.ver = 0 /\ ~InPieces(Target)
      \/ Kept = NoDir /\ Target.ver \in 1..MaxVersion /\ ~InPieces(Target)
  BY <1>2, <1>3, NoDirIs DEF InPieces
<1>5. \/ Off \in {op.off, WithoutIt, {}} /\ Linked = op.linked
      \/ Linked = {} /\ Off = op.off /\ op.kind = "link"
  BY <1>1 DEF StoreInv, Records, OffBefore, Installs, Updates, Uninstalls, Writes, OpAt, Kinds, StorePcs
<1>6. op.kind = "link" => Target = Kept
  BY DEF StoreInv, Writes
<1> QED
  BY <1>1, <1>4, <1>5, <1>6

\* So is a crash with the recovery that follows it.
LEMMA CrashRefines ==
  ASSUME StoreInv, MaxFaults <= 1, Crash
  PROVE  Registry!Break(op.plugin)
<1>1. /\ op # NoOp /\ op.plugin \in Plugins /\ Ends /\ dir' = dir /\ file' = file
      /\ dir' \in [Plugins -> Dirs] /\ life' = 1 - life
  BY CrashLeaves DEF Crash, Ends, StoreInv, StoreTypeOK
<1>2. /\ Versions[op.plugin] = Kept.ver /\ (op.plugin \in Damaged <=> InPieces(Kept))
      /\ Versions' = [Versions EXCEPT ![op.plugin] = Target.ver]
      /\ Damaged' = IF InPieces(Target) THEN Damaged \cup {op.plugin} ELSE Damaged \ {op.plugin}
      /\ OffNow = op.off /\ OffNow' = Off /\ LinkedNow = op.linked /\ LinkedNow' = Linked
  BY <1>1, Seen DEF Kept, Target, Off, Linked
<1>3. Versions \in [Plugins -> 0..MaxVersion]
  <2>1. ASSUME NEW p \in Plugins PROVE Before(p).ver \in 0..MaxVersion
    BY <1>1, AsideIs DEF StoreInv, StoreTypeOK, Before, Dirs
  <2> QED
    BY <2>1 DEF Versions
<1>4. Target = Kept => Versions' = Versions /\ Damaged' = Damaged
  <2>1. Target = Kept => Versions' = Versions
    BY <1>2, <1>3
  <2>2. Target = Kept => Damaged' = Damaged
    BY <1>2
  <2> QED
    BY <2>1, <2>2
<1>5. Versions' \in {Versions, [Versions EXCEPT ![op.plugin] = 0]}
        \cup {[Versions EXCEPT ![op.plugin] = v] :
                v \in IF Versions[op.plugin] = 0 THEN 1..MaxVersion ELSE {}}
  <2>1. CASE Target = Kept
    BY <1>4, <2>1
  <2>2. CASE Target.ver = 0
    BY <1>2, <2>2
  <2>3. CASE Kept = NoDir /\ Target.ver \in 1..MaxVersion
    BY <1>2, <2>3, NoDirIs
  <2> QED
    BY <2>1, <2>2, <2>3, CrashLeaves
<1>6. Damaged' = {q \in Damaged : Versions'[q] # 0}
  <2>1. ASSUME NEW q \in Damaged, q # op.plugin PROVE q \in Damaged' /\ Versions'[q] # 0
    BY <1>1, <1>2, <1>3, <2>1, DamagedAreThere
  <2>2. CASE Target = Kept
    <3>1. ASSUME NEW q \in Damaged PROVE Versions'[q] # 0
      BY <1>4, <2>2, <3>1, DamagedAreThere
    <3> QED
      BY <1>4, <2>2, <3>1
  <2>3. CASE ~InPieces(Target) /\ Target.ver = 0
    <3>1. Damaged' = Damaged \ {op.plugin} /\ Versions'[op.plugin] = 0
      BY <1>1, <1>2, <1>3, <2>3
    <3> QED
      BY <2>1, <3>1
  <2>4. CASE ~InPieces(Target) /\ Kept = NoDir
    <3>1. Damaged' = Damaged \ {op.plugin} /\ op.plugin \notin Damaged
      BY <1>2, <2>4, NoDirIs DEF InPieces
    <3> QED
      BY <2>1, <3>1
  <2> QED
    BY <2>2, <2>3, <2>4, CrashLeaves
<1>7. \/ OffNow' \in {OffNow, OffNow \ {op.plugin}, {}} /\ LinkedNow' = LinkedNow
      \/ LinkedNow' = {} /\ Versions' = Versions /\ OffNow' = OffNow
  BY <1>2, <1>4, CrashLeaves DEF WithoutIt
<1> QED
  BY <1>1, <1>5, <1>6, <1>7 DEF Registry!Break

\* Every step of the store is a step of the registry or is not seen.
LEMMA NextRefines ==
  ASSUME StoreInv, MaxFaults <= 1, [StoreNext]_storeVars
  PROVE  [Registry!RegistryNext]_(Registry!registry)
<1>1. CASE Crash
  <2>1. op.plugin \in Plugins /\ Registry!Break(op.plugin)
    BY <1>1, CrashLeaves, CrashRefines
  <2> QED
    BY <2>1 DEF Registry!RegistryNext
<1>2. CASE OpStep /\ life' = life
  BY <1>2, StepRefines
<1>3. ASSUME NEW p \in Plugins, OpBegins(p), life' = life PROVE UNCHANGED Registry!registry
  BY <1>3, BeginUnseen
<1>4. CASE UNCHANGED storeVars
  BY <1>4 DEF storeVars, Registry!registry, Versions, Damaged, Before, OffNow, LinkedNow, Off, Linked
<1> QED
  BY <1>1, <1>2, <1>3, <1>4 DEF StoreNext

\* The first states are first states of the registry.
LEMMA InitRefines ==
  ASSUME StoreInit
  PROVE  Registry!RegistryInit
<1>1. op = NoOp /\ life = 0 /\ Off = {} /\ Linked = {} /\ \A p \in Plugins : Before(p) = NoDir
  BY DEF StoreInit, Off, Linked, NoFile, Before
<1>2. Versions = [p \in Plugins |-> 0] /\ Damaged = {}
  BY <1>1, NoDirIs DEF Versions, Damaged
<1> QED
  BY <1>1, <1>2 DEF OffNow, LinkedNow, Registry!RegistryInit

\* The store implements the registry (ImplementsRegistry): with at most one failing
\* call in each, and the process ending anywhere, every import, update, removal,
\* switch and link of plugins.rs is all-or-nothing, for any plugins and versions.
THEOREM StoreImplementsRegistry ==
  ASSUME MaxFaults <= 1
  PROVE  StoreSpec => ImplementsRegistry
<1>1. StoreInit => Registry!RegistryInit
  BY InitRefines
<1>2. StoreInv /\ [StoreNext]_storeVars => [Registry!RegistryNext]_(Registry!registry)
  BY NextRefines
<1>3. StoreSpec => []StoreInv
  BY StoreInvHolds
<1> QED
  BY <1>1, <1>2, <1>3, PTL DEF StoreSpec, ImplementsRegistry, Registry!RegistrySpec

-------------------------------------------------------------------------------
(* Batch rename *)

Renames == [from : FileNames, to : FileNames]
Moves   == [from : AllNames, to : AllNames]
Pcs     == {"none", "stage", "final", "back", "ok", "rolled back", "incomplete", "abandoned"}

BatchRecord == [pc : Pcs, number : Nat, items : Seq(Renames), moves : Seq(Moves),
                linked : BOOLEAN, kept : BOOLEAN, took : Seq(Nat)]

\* A list names each file once, in the order of the names.
Listed(items) ==
    /\ Len(items) \in 1..MaxItems
    /\ \A i \in 1..Len(items) : items[i].to # items[i].from
    /\ \A i, j \in 1..Len(items) : j < i => items[j].from < items[i].from
ItemLists == {items \in Seq(Renames) : Listed(items)}

RenameTypes ==
    /\ folder \in [AllNames -> Nat] /\ files \in Nat /\ batches \in Nat
    /\ \A n \in AllNames : folder[n] <= files
    /\ previews \in Seq(ItemLists) /\ batch \in BatchRecord /\ batches <= MaxBatches
    /\ batch.pc = "none" => ~batch.linked

\* The list that is applied: its old names are not among its new ones, and its
\* files are files.
Under == Len(batch.items)
From(i) == batch.items[i].from
To(i)   == batch.items[i].to
Temp(i) == Temporary(batch.number, i)
Took(i) == batch.took[i]
Done    == Under - Len(batch.moves)
BatchListed ==
    batch.pc # "none" =>
        /\ batch.items \in ItemLists /\ batch.number \in 1..MaxBatches
        /\ \A i, j \in 1..Under : To(i) # From(j) /\ (i # j => To(i) # To(j))
        /\ Len(batch.took) = Under /\ \A i \in 1..Under : Took(i) \in 1..files

\* Both names of a linked file lead to it, or others have seen to it.
LinkedIsSafe ==
    batch.linked =>
        /\ batch.moves # <<>> /\ NextMove.from # NextMove.to
        /\ \A f \in 1..files :
              f \notin touched => (folder[NextMove.from] = f <=> folder[NextMove.to] = f)

\* The moves still to do are those of the items that have not been moved.
MovesInOrder ==
    /\ batch.pc \in {"stage", "final"} => Len(batch.moves) \in 1..Under
    /\ batch.pc \in {"stage", "final"} =>
          \A j \in 1..Len(batch.moves), i \in 1..Under : i = Done + j =>
              batch.moves[j] = IF batch.pc = "stage" THEN [from |-> From(i), to |-> Temp(i)]
                               ELSE [from |-> Temp(i), to |-> To(i)]
    /\ batch.pc = "back" =>
        /\ batch.moves # <<>>
        /\ \A j \in 1..Len(batch.moves) :
            /\ \E i \in 1..Under : batch.moves[j].to = From(i)
            /\ \A i \in 1..Under : batch.moves[j].from # From(i)
            /\ \A k \in 1..Len(batch.moves) : k # j =>
                  batch.moves[j].from # batch.moves[k].from

\* Where a file is that other programs have left alone.
Staged(i)   == folder[Temp(i)] = Took(i) /\ folder[From(i)] # Took(i)
Renamed(i)  == folder[To(i)] = Took(i) /\ folder[From(i)] # Took(i) /\ folder[Temp(i)] # Took(i)
Returns(i)  == \E j \in 1..Len(batch.moves) :
                  batch.moves[j].to = From(i) /\ folder[batch.moves[j].from] = Took(i)
FileIsThere(i) ==
    /\ batch.pc \in {"stage", "abandoned"} =>
          IF i <= Done THEN Staged(i) ELSE folder[From(i)] = Took(i)
    /\ batch.pc = "final" => IF i <= Done THEN Renamed(i) ELSE Staged(i)
    /\ batch.pc = "ok"    => Renamed(i)
    /\ batch.pc = "back" /\ ~batch.kept => folder[From(i)] = Took(i) \/ Returns(i)
    /\ batch.pc = "rolled back" => folder[From(i)] = Took(i)
FilesAreThere ==
    batch.pc # "none" => \A i \in 1..Under : Took(i) \notin touched => FileIsThere(i)

RenameInv ==
    /\ RenameTypes /\ BatchListed /\ LinkedIsSafe /\ MovesInOrder /\ FilesAreThere
    /\ NoFileLost

-----------------------------------------------------------------------------
(* Names, lists and moves *)

\* A temporary name is one of its own: not that of a file, nor of another item.
LEMMA NameFacts ==
    /\ FileNames \subseteq AllNames
    /\ \A n \in 1..MaxBatches, i \in 1..MaxItems :
          /\ Temporary(n, i) \in AllNames /\ Temporary(n, i) \notin FileNames
          /\ \A j \in 1..MaxItems : j # i => Temporary(n, j) # Temporary(n, i)
<1>1. FileNames \subseteq AllNames
  BY DEF AllNames
<1>2. ASSUME NEW n \in 1..MaxBatches, NEW i \in 1..MaxItems
      PROVE  /\ Temporary(n, i) \in AllNames /\ Temporary(n, i) \notin FileNames
             /\ \A j \in 1..MaxItems : j # i => Temporary(n, j) # Temporary(n, i)
  <2> DEFINE base == (n - 1) * MaxItems
  <2>1. /\ LastName \in Nat /\ MaxItems \in Nat /\ MaxBatches \in Nat /\ n - 1 \in Nat
    BY RenameAssumption
  <2>2. base \in Nat
    BY <2>1
  <2>3. Temporary(n, i) \in AllNames
    BY DEF AllNames, TemporaryNames
  <2>4. \A j \in 1..MaxItems : Temporary(n, j) = LastName + base + j
    BY DEF Temporary
  <2> HIDE DEF base
  <2> QED
    BY <2>1, <2>2, <2>3, <2>4 DEF FileNames
<1> QED
  BY <1>1, <1>2

\* A function on 1..k is a sequence of k elements.
LEMMA TupleIs ==
  ASSUME NEW S, NEW k \in Nat, NEW s \in [1..k -> S]
  PROVE  s \in Seq(S) /\ Len(s) = k
OBVIOUS

\* The moves of the two phases, item by item.
LEMMA PhasesAre ==
  ASSUME NEW items \in ItemLists, NEW n \in 1..MaxBatches
  PROVE  /\ Staging(n, items) \in Seq(Moves) /\ Len(Staging(n, items)) = Len(items)
         /\ Finalizing(n, items) \in Seq(Moves) /\ Len(Finalizing(n, items)) = Len(items)
         /\ \A i \in 1..Len(items) :
              /\ Staging(n, items)[i] = [from |-> items[i].from, to |-> Temporary(n, i)]
              /\ Finalizing(n, items)[i] = [from |-> Temporary(n, i), to |-> items[i].to]
<1>1. /\ items \in Seq(Renames) /\ Len(items) \in 1..MaxItems /\ Len(items) \in Nat
      /\ MaxItems \in Nat
  BY RenameAssumption DEF ItemLists, Listed
<1>2. ASSUME NEW i \in 1..Len(items)
      PROVE  /\ [from |-> items[i].from, to |-> Temporary(n, i)] \in Moves
             /\ [from |-> Temporary(n, i), to |-> items[i].to] \in Moves
  <2>1. items[i] \in Renames /\ i \in 1..MaxItems
    BY <1>1
  <2> QED
    BY <2>1, NameFacts DEF Renames, Moves
<1>3. /\ Staging(n, items) \in [1..Len(items) -> Moves]
      /\ Finalizing(n, items) \in [1..Len(items) -> Moves]
  BY <1>2 DEF Staging, Finalizing
<1>4. \A i \in 1..Len(items) :
        /\ Staging(n, items)[i] = [from |-> items[i].from, to |-> Temporary(n, i)]
        /\ Finalizing(n, items)[i] = [from |-> Temporary(n, i), to |-> items[i].to]
  BY DEF Staging, Finalizing
<1> QED
  BY <1>1, <1>3, <1>4, TupleIs

\* What is left of a sequence without one of its elements.
LEMMA RemoveAtIs ==
  ASSUME NEW S, NEW s \in Seq(S), NEW i \in 1..Len(s)
  PROVE  Seqs!RemoveAt(s, i) \in Seq(S)
<1>1. SubSeq(s, 1, i - 1) \in Seq(S) /\ SubSeq(s, i + 1, Len(s)) \in Seq(S)
  BY SubSeqProperties
<1> QED
  BY <1>1, ConcatProperties DEF Seqs!RemoveAt

\* A sequence from its last element to the first.
LEMMA ReverseIs ==
  ASSUME NEW S, NEW k \in Nat, NEW s \in [1..k -> S]
  PROVE  /\ Seqs!Reverse(s) \in Seq(S) /\ Len(Seqs!Reverse(s)) = k
         /\ \A i, j \in 1..k : i + j = k + 1 => Seqs!Reverse(s)[j] = s[i]
<1>1. Len(s) = k
  BY TupleIs
<1>2. \A j \in 1..k : (k - j) + 1 \in 1..k
  OBVIOUS
<1>3. Seqs!Reverse(s) = [j \in 1..k |-> s[(k - j) + 1]]
  BY <1>1 DEF Seqs!Reverse
<1>4. Seqs!Reverse(s) \in [1..k -> S]
  BY <1>2, <1>3
<1>5. ASSUME NEW i \in 1..k, NEW j \in 1..k, i + j = k + 1
      PROVE  Seqs!Reverse(s)[j] = s[i]
  <2>1. (k - j) + 1 = i
    BY <1>5
  <2> QED
    BY <1>3, <2>1
<1> QED
  BY <1>4, <1>5, TupleIs

\* Taken back, a list of moves is the reverse of each, from the last to the first.
LEMMA UndoIs ==
  ASSUME NEW m \in Seq(Moves), NEW k \in Nat, Len(m) = k
  PROVE  /\ Undo(m) \in Seq(Moves) /\ Len(Undo(m)) = k
         /\ \A i, j \in 1..k :
              i + j = k + 1 => Undo(m)[j].from = m[i].to /\ Undo(m)[j].to = m[i].from
<1> DEFINE s == [i \in 1..k |-> [from |-> m[i].to, to |-> m[i].from]]
<1>1. \A i \in 1..k : m[i] \in Moves
  OBVIOUS
<1>2. s \in [1..k -> Moves] /\ Undo(m) = Seqs!Reverse(s)
  BY <1>1 DEF Moves, Undo
<1>3. \A i \in 1..k : s[i].from = m[i].to /\ s[i].to = m[i].from
  OBVIOUS
<1> HIDE DEF s
<1>4. /\ Seqs!Reverse(s) \in Seq(Moves) /\ Len(Seqs!Reverse(s)) = k
      /\ \A i, j \in 1..k : i + j = k + 1 => Seqs!Reverse(s)[j] = s[i]
  BY <1>2, ReverseIs
<1> QED
  BY <1>2, <1>3, <1>4

\* What takes back k moves of the first phase, from the one of item a to that of
\* item b: items is the list, n its number.
LEMMA UndoStaging ==
  ASSUME NEW items \in ItemLists, NEW n \in 1..MaxBatches,
         NEW a \in Nat, NEW b \in Nat, NEW k \in Nat, 1 <= a, b <= Len(items), k + a = b + 1
  PROVE  LET r == Undo(SubSeq(Staging(n, items), a, b))
         IN /\ r \in Seq(Moves) /\ Len(r) = k
            /\ \A j \in 1..k, i \in 1..Len(items) :
                 i + j = b + 1 => r[j].from = Temporary(n, i) /\ r[j].to = items[i].from
<1> DEFINE s == Staging(n, items)
           p == SubSeq(s, a, b)
<1>1. /\ s \in Seq(Moves) /\ Len(s) = Len(items)
      /\ \A i \in 1..Len(items) : s[i] = [from |-> items[i].from, to |-> Temporary(n, i)]
  BY PhasesAre
<1>2. Len(items) \in Nat
  BY DEF ItemLists
<1> HIDE DEF s
<1>3. /\ p \in Seq(Moves) /\ Len(p) = k
      /\ \A i \in 1..k : p[i] = s[a + i - 1]
  BY <1>1, <1>2, SubSeqProperties
<1> HIDE DEF p
<1>4. /\ Undo(p) \in Seq(Moves) /\ Len(Undo(p)) = k
      /\ \A h, j \in 1..k :
           h + j = k + 1 => Undo(p)[j].from = p[h].to /\ Undo(p)[j].to = p[h].from
  BY <1>3, UndoIs
<1>5. ASSUME NEW j \in 1..k, NEW i \in 1..Len(items), i + j = b + 1
      PROVE  Undo(p)[j].from = Temporary(n, i) /\ Undo(p)[j].to = items[i].from
  <2>1. PICK h \in 1..k : h + j = k + 1 /\ a + h - 1 = i
    <3>1. k + 1 - j \in 1..k /\ (k + 1 - j) + j = k + 1 /\ a + (k + 1 - j) - 1 = i
      BY <1>2, <1>5
    <3> QED
      BY <3>1
  <2>2. p[h] = s[i]
    BY <1>3, <2>1
  <2>3. s[i] = [from |-> items[i].from, to |-> Temporary(n, i)]
    BY <1>1
  <2>4. p[h].from = items[i].from /\ p[h].to = Temporary(n, i)
    BY <2>2, <2>3
  <2> QED
    BY <1>4, <2>1, <2>4
<1> QED
  BY <1>4, <1>5 DEF p, s

-----------------------------------------------------------------------------
(* The list that is applied *)

\* The names of the items are apart from each other.
LEMMA NamesAre ==
  ASSUME RenameInv, batch.pc # "none"
  PROVE  /\ Under \in 1..MaxItems /\ Under \in Nat /\ batch.number \in 1..MaxBatches
         /\ batch.items \in ItemLists /\ batch.moves \in Seq(Moves) /\ files \in Nat
         /\ \A i \in 1..Under :
              /\ From(i) \in FileNames /\ To(i) \in FileNames
              /\ Temp(i) \in AllNames /\ Temp(i) \notin FileNames /\ Took(i) \in 1..files
         /\ \A i, j \in 1..Under :
              /\ To(i) # From(j)
              /\ i # j => From(i) # From(j) /\ To(i) # To(j) /\ Temp(i) # Temp(j)
<1>1. /\ batch.items \in ItemLists /\ batch.number \in 1..MaxBatches
      /\ \A i, j \in 1..Under : To(i) # From(j) /\ (i # j => To(i) # To(j))
      /\ \A i \in 1..Under : Took(i) \in 1..files
  BY DEF RenameInv, BatchListed
<1>2. batch.moves \in Seq(Moves) /\ files \in Nat
  BY DEF RenameInv, RenameTypes, BatchRecord
<1>3. /\ batch.items \in Seq(Renames) /\ Under \in 1..MaxItems /\ Under = Len(batch.items)
      /\ \A i, j \in 1..Under : j < i => From(j) < From(i)
  BY <1>1 DEF ItemLists, Listed, Under, From
<1>4. MaxItems \in Nat /\ Under \in Nat /\ LastName \in Nat
  BY <1>3, RenameAssumption
<1>5. ASSUME NEW i \in 1..Under PROVE From(i) \in FileNames /\ To(i) \in FileNames
  <2>1. batch.items[i] \in Renames
    BY <1>3
  <2> QED
    BY <2>1 DEF Renames, From, To
<1>6. ASSUME NEW i \in 1..Under, NEW j \in 1..Under, i # j PROVE From(i) # From(j)
  <2>1. From(i) \in Nat /\ From(j) \in Nat
    BY <1>4, <1>5 DEF FileNames
  <2> QED
    BY <1>3, <1>4, <1>6, <2>1
<1>7. \A i \in 1..Under : i \in 1..MaxItems
  BY <1>3, <1>4
<1>8. \A i, j \in 1..Under :
        /\ Temp(i) \in AllNames /\ Temp(i) \notin FileNames
        /\ i # j => Temp(i) # Temp(j)
  BY <1>1, <1>7, NameFacts DEF Temp
<1> QED
  BY <1>1, <1>2, <1>3, <1>4, <1>5, <1>6, <1>8

\* The move that is next.
LEMMA NextMoveIs ==
  ASSUME RenameInv, Moving
  PROVE  /\ batch.moves \in Seq(Moves) /\ batch.moves # <<>> /\ Len(batch.moves) \in Nat \ {0}
         /\ NextMove = batch.moves[1] /\ NextMove \in Moves
         /\ NextMove.from \in AllNames /\ NextMove.to \in AllNames
         /\ batch.pc # "none"
         /\ Len(Tail(batch.moves)) = Len(batch.moves) - 1 /\ Tail(batch.moves) \in Seq(Moves)
         /\ \A j \in 1..Len(Tail(batch.moves)) : Tail(batch.moves)[j] = batch.moves[j + 1]
<1>1. batch.moves \in Seq(Moves)
  BY DEF RenameInv, RenameTypes, BatchRecord
<1>2. batch.moves # <<>>
  <2>1. CASE batch.pc = "back"
    BY <2>1 DEF RenameInv, MovesInOrder
  <2>2. CASE batch.pc \in {"stage", "final"}
    BY <2>2 DEF RenameInv, MovesInOrder
  <2> QED
    BY <2>1, <2>2 DEF Moving
<1>3. NextMove = batch.moves[1] /\ batch.moves[1] \in Moves /\ Len(batch.moves) \in Nat \ {0}
  BY <1>1, <1>2 DEF NextMove
<1>4. NextMove.from \in AllNames /\ NextMove.to \in AllNames
  BY <1>3 DEF Moves
<1>5. /\ Len(Tail(batch.moves)) = Len(batch.moves) - 1 /\ Tail(batch.moves) \in Seq(Moves)
      /\ \A j \in 1..Len(Tail(batch.moves)) : Tail(batch.moves)[j] = batch.moves[j + 1]
  BY <1>1, <1>2
<1> QED
  BY <1>1, <1>2, <1>3, <1>4, <1>5 DEF Moving

\* How far a phase is, and what its next move is.
LEMMA PhaseIs ==
  ASSUME RenameInv, batch.pc \in {"stage", "final"}
  PROVE  /\ Done \in 0..(Under - 1) /\ Len(batch.moves) = Under - Done
         /\ Done + 1 \in 1..Under
         /\ batch.pc = "stage" =>
              NextMove = [from |-> From(Done + 1), to |-> Temp(Done + 1)]
         /\ batch.pc = "final" =>
              NextMove = [from |-> Temp(Done + 1), to |-> To(Done + 1)]
<1>1. Len(batch.moves) \in 1..Under /\ Under \in Nat
  BY NamesAre DEF RenameInv, MovesInOrder
<1>2. Done \in 0..(Under - 1) /\ Len(batch.moves) = Under - Done /\ Done + 1 \in 1..Under
  BY <1>1 DEF Done
<1>3. NextMove = batch.moves[1] /\ 1 \in 1..Len(batch.moves)
  BY <1>1, NextMoveIs DEF Moving
<1> QED
  BY <1>2, <1>3 DEF RenameInv, MovesInOrder

\* What takes back the moves of the first phase.
LEMMA UndoStage ==
  ASSUME RenameInv, batch.pc = "stage"
  PROVE  /\ Rollback(batch) \in Seq(Moves) /\ Len(Rollback(batch)) = Done
         /\ \A i, j \in 1..Done : i + j = Done + 1 =>
              Rollback(batch)[j].from = Temp(i) /\ Rollback(batch)[j].to = From(i)
<1>1. PICK u \in Nat : u = Under
  BY NamesAre
<1>2. PICK d \in 0..(u - 1) : d = Done
  BY <1>1, PhaseIs
<1>3. u = Under /\ d = Done
  BY <1>1, <1>2
<1>4. PICK items \in ItemLists, n \in 1..MaxBatches, a \in Nat, k \in Nat :
        items = batch.items /\ n = batch.number /\ a = 1 /\ k = d
  BY NamesAre
<1>5. Len(items) = u /\ d = Len(items) - Len(batch.moves)
  BY <1>3, <1>4 DEF Under, Done
<1>6. d \in Nat /\ d <= Len(items) /\ 1 <= a /\ k + a = d + 1
  <2>1. d <= u /\ d \in Nat /\ k + a = d + 1
    BY <1>4
  <2> QED
    BY <1>4, <1>5, <2>1
<1> DEFINE r == Undo(SubSeq(Staging(n, items), a, d))
<1>7. /\ r \in Seq(Moves) /\ Len(r) = k
      /\ \A j \in 1..k, i \in 1..Len(items) :
           i + j = d + 1 => r[j].from = Temporary(n, i) /\ r[j].to = items[i].from
  BY <1>6, UndoStaging
<1>8. Rollback(batch) = r
  BY <1>4, <1>5 DEF Rollback
<1>9. \A i : Temporary(n, i) = Temp(i) /\ items[i].from = From(i)
  BY <1>4 DEF Temp, From
<1>10. \A i \in 1..d : i \in 1..Len(items)
  BY <1>5
<1> HIDE DEF r
<1>11. /\ r \in Seq(Moves) /\ Len(r) = d
      /\ \A i, j \in 1..d : i + j = d + 1 => r[j].from = Temp(i) /\ r[j].to = From(i)
  <2>1. k = d
    BY <1>4
  <2> QED
    BY <1>7, <1>9, <1>10, <2>1
<1> QED
  BY <1>3, <1>8, <1>11

\* What takes back the moves of both phases: those to the new names come first.
LEMMA UndoFinal ==
  ASSUME RenameInv, batch.pc = "final"
  PROVE  /\ Rollback(batch) \in Seq(Moves) /\ Len(Rollback(batch)) = Under
         /\ \A i, j \in 1..Done : i + j = Done + 1 =>
              Rollback(batch)[j].from = To(i) /\ Rollback(batch)[j].to = From(i)
         /\ \A i, j \in (Done + 1)..Under : i + j = Under + Done + 1 =>
              Rollback(batch)[j].from = Temp(i) /\ Rollback(batch)[j].to = From(i)
<1>1. PICK u \in Nat : u = Under
  BY NamesAre
<1>2. PICK d \in 0..(u - 1) : d = Done
  BY <1>1, PhaseIs
<1>3. u = Under /\ d = Done
  BY <1>1, <1>2
<1>4. PICK items \in ItemLists, n \in 1..MaxBatches, a \in Nat, k \in Nat :
        items = batch.items /\ n = batch.number /\ a = d + 1 /\ k = u - d
  <2>1. d + 1 \in Nat /\ u - d \in Nat
    OBVIOUS
  <2> QED
    BY <2>1, NamesAre
<1>5. Len(items) = u /\ d = Len(items) - Len(batch.moves)
  BY <1>3, <1>4 DEF Under, Done
<1>6. d \in Nat /\ d + k = u
  BY <1>4
<1>7. k + a = u + 1 /\ 1 <= a /\ u <= Len(items)
  <2>1. k + a = u + 1 /\ 1 <= a
    BY <1>4
  <2> QED
    BY <1>5, <2>1
<1>8. \A i : Temporary(n, i) = Temp(i) /\ items[i].from = From(i) /\ items[i].to = To(i)
  BY <1>4 DEF Temp, From, To
<1> DEFINE front == [i \in 1..d |-> [from |-> items[i].to, to |-> items[i].from]]
           back  == Seqs!Reverse(front)
           rest  == Undo(SubSeq(Staging(n, items), a, u))
           all   == back \o rest
<1>9. /\ rest \in Seq(Moves) /\ Len(rest) = k
      /\ \A j \in 1..k, i \in 1..Len(items) :
           i + j = u + 1 => rest[j].from = Temporary(n, i) /\ rest[j].to = items[i].from
  BY <1>7, UndoStaging, SMTT(20)
<1>10. Rollback(batch) = all
  <2>1. Len(Staging(n, items)) = u
    BY <1>5, PhasesAre
  <2> QED
    BY <1>4, <1>5, <2>1 DEF Rollback
<1>11. front \in [1..d -> Moves] /\ \A i \in 1..d : front[i].from = To(i) /\ front[i].to = From(i)
  <2>1. ASSUME NEW i \in 1..d PROVE [from |-> To(i), to |-> From(i)] \in Moves
    <3>1. i \in 1..Under
      BY <1>3
    <3> QED
      BY <3>1, NamesAre, NameFacts DEF Moves
  <2> QED
    BY <1>8, <2>1
<1> HIDE DEF front
<1>12. /\ back \in Seq(Moves) /\ Len(back) = d
      /\ \A i, j \in 1..d : i + j = d + 1 => back[j] = front[i]
  BY <1>6, <1>11, ReverseIs
<1> HIDE DEF back, rest
<1>13. /\ all \in Seq(Moves) /\ Len(all) = Len(back) + Len(rest)
       /\ \A j \in 1..(Len(back) + Len(rest)) :
            all[j] = IF j <= Len(back) THEN back[j] ELSE rest[j - Len(back)]
  <2>1. back \in Seq(Moves) /\ rest \in Seq(Moves)
    BY <1>9, <1>12
  <2> QED
    BY <2>1, ConcatProperties, SMTT(20)
<1> HIDE DEF all
<1>14. /\ Len(all) = d + k
       /\ \A j \in 1..(d + k) : all[j] = IF j <= d THEN back[j] ELSE rest[j - d]
  <2>1. Len(back) = d /\ Len(rest) = k
    BY <1>9, <1>12
  <2> QED
    BY <1>13, <2>1
<1>15. ASSUME NEW i \in 1..d, NEW j \in 1..d, i + j = d + 1
       PROVE  all[j].from = To(i) /\ all[j].to = From(i)
  <2>1. all[j] = back[j]
    BY <1>14
  <2> QED
    BY <1>11, <1>12, <1>15, <2>1
<1>16. ASSUME NEW i \in (d + 1)..u, NEW j \in (d + 1)..u, i + j = u + d + 1
       PROVE  all[j].from = Temp(i) /\ all[j].to = From(i)
  <2>1. PICK h \in 1..k : h = j - d /\ i + h = u + 1 /\ i \in 1..u /\ j \in 1..(d + k)
    BY <1>6, <1>16
  <2>2. all[j] = rest[h]
    BY <1>14, <2>1
  <2>3. rest[h].from = Temporary(n, i) /\ rest[h].to = items[i].from
    BY <1>5, <1>9, <2>1
  <2> QED
    BY <1>8, <2>2, <2>3
<1>17. /\ all \in Seq(Moves) /\ Len(all) = u
  BY <1>6, <1>13, <1>14
<1> QED
  BY <1>3, <1>10, <1>15, <1>16, <1>17

-----------------------------------------------------------------------------
(* Steps of an application *)

\* The names of an application do not change while it goes on.
LEMMA SameList ==
  ASSUME batch'.items = batch.items, batch'.number = batch.number, batch'.took = batch.took
  PROVE  /\ Under' = Under
         /\ \A i : /\ From(i)' = From(i) /\ To(i)' = To(i)
                   /\ Temp(i)' = Temp(i) /\ Took(i)' = Took(i)
BY DEF Under, From, To, Temp, Took

\* What becomes of an application whose moves may be over.
LEMMA SettledIs ==
  ASSUME RenameInv, NEW b \in BatchRecord, b.pc \in {"stage", "final", "back"},
         b.items = batch.items, b.number = batch.number, batch.pc # "none", Goes(b)
  PROVE  /\ batch' \in BatchRecord /\ ~batch'.linked /\ batch'.items = b.items
         /\ batch'.number = b.number /\ batch'.took = b.took /\ batch'.kept = b.kept
         /\ b.moves # <<>> => batch'.pc = b.pc /\ batch'.moves = b.moves
         /\ b.moves = <<>> =>
              /\ b.pc = "stage" => /\ batch'.pc = "final"
                                  /\ batch'.moves = Finalizing(b.number, b.items)
              /\ b.pc = "final" => batch'.pc = "ok"
              /\ b.pc = "back"  => batch'.pc = IF b.kept THEN "incomplete" ELSE "rolled back"
<1> DEFINE c == [b EXCEPT !.linked = FALSE]
<1>1. /\ c \in BatchRecord /\ ~c.linked /\ c.items = b.items /\ c.number = b.number
      /\ c.took = b.took /\ c.kept = b.kept /\ c.moves = b.moves /\ c.pc = b.pc
  BY DEF BatchRecord
<1>2. batch' = Settled(c)
  BY DEF Goes
<1>3. Finalizing(b.number, b.items) \in Seq(Moves)
  BY NamesAre, PhasesAre
<1> HIDE DEF c
<1>4. CASE c.moves # <<>>
  <2>1. batch' = c
    BY <1>2, <1>4 DEF Settled
  <2> QED
    BY <1>1, <1>4, <2>1
<1>5. CASE c.moves = <<>> /\ c.pc = "stage"
  <2>1. batch' = [c EXCEPT !.pc = "final", !.moves = Finalizing(c.number, c.items)]
    BY <1>2, <1>5 DEF Settled
  <2> QED
    BY <1>1, <1>3, <1>5, <2>1 DEF BatchRecord, Pcs
<1>6. CASE c.moves = <<>> /\ c.pc = "final"
  <2>1. batch' = [c EXCEPT !.pc = "ok"]
    BY <1>2, <1>6 DEF Settled
  <2> QED
    BY <1>1, <1>6, <2>1 DEF BatchRecord, Pcs
<1>7. CASE c.moves = <<>> /\ c.pc = "back"
  <2>1. batch' = [c EXCEPT !.pc = IF c.kept THEN "incomplete" ELSE "rolled back"]
    BY <1>2, <1>7 DEF Settled
  <2> QED
    BY <1>1, <1>7, <2>1 DEF BatchRecord, Pcs
<1> QED
  BY <1>1, <1>4, <1>5, <1>6, <1>7

\* The second name of a move: it was free, and everything else is where it was.
LEMMA LinkKeeps ==
  ASSUME RenameInv, Moving, Taken(NextMove.from), ~Taken(NextMove.to),
         folder' = [folder EXCEPT ![NextMove.to] = folder[NextMove.from]],
         batch' = [batch EXCEPT !.linked = TRUE],
         UNCHANGED <<files, previews, batches, touched>>
  PROVE  RenameInv'
<1> DEFINE to == NextMove.to
           old == NextMove.from
<1>1. /\ old \in AllNames /\ to \in AllNames /\ batch.moves # <<>> /\ batch.pc # "none"
      /\ batch.moves \in Seq(Moves) /\ folder[to] = 0 /\ folder[old] # 0 /\ old # to
  BY NextMoveIs DEF Taken, Vacant
<1>2. /\ folder \in [AllNames -> Nat] /\ files \in Nat /\ batch \in BatchRecord
      /\ \A n \in AllNames : folder[n] <= files
  BY DEF RenameInv, RenameTypes
<1>3. /\ folder' \in [AllNames -> Nat] /\ folder'[to] = folder[old]
      /\ \A n \in AllNames : n # to => folder'[n] = folder[n]
      /\ \A n \in AllNames : folder[n] # 0 => folder'[n] = folder[n]
  BY <1>1, <1>2
<1>4. /\ batch' \in BatchRecord /\ batch'.pc = batch.pc /\ batch'.items = batch.items
      /\ batch'.number = batch.number /\ batch'.took = batch.took /\ batch'.kept = batch.kept
      /\ batch'.moves = batch.moves
  BY <1>2 DEF BatchRecord
<1>5. /\ Under' = Under /\ Done' = Done /\ NextMove' = NextMove
      /\ \A i : /\ From(i)' = From(i) /\ To(i)' = To(i)
                /\ Temp(i)' = Temp(i) /\ Took(i)' = Took(i)
  BY <1>4, SameList DEF Done, NextMove
<1> HIDE DEF to, old
<1>6. RenameTypes'
  <2>1. \A n \in AllNames : folder'[n] <= files
    BY <1>1, <1>2, <1>3
  <2> QED
    BY <1>1, <1>3, <1>4, <2>1 DEF RenameInv, RenameTypes
<1>7. BatchListed'
  BY <1>4, <1>5 DEF RenameInv, BatchListed
<1>8. LinkedIsSafe'
  BY <1>1, <1>3, <1>4, <1>5 DEF LinkedIsSafe, to, old
<1>9. MovesInOrder'
  BY <1>4, <1>5 DEF RenameInv, MovesInOrder
<1>10. FilesAreThere'
  <2> SUFFICES ASSUME NEW i \in 1..Under, Took(i) \notin touched
               PROVE  FileIsThere(i)'
    BY <1>4, <1>5 DEF FilesAreThere
  <2>1. FileIsThere(i)
    BY <1>1 DEF RenameInv, FilesAreThere
  <2>2. /\ From(i) \in AllNames /\ To(i) \in AllNames /\ Temp(i) \in AllNames
        /\ Temp(i) \notin FileNames /\ From(i) \in FileNames /\ To(i) \in FileNames
        /\ Took(i) # 0 /\ Under \in Nat
        /\ \A j \in 1..Under : To(j) \in FileNames /\ Temp(j) \notin FileNames
        /\ \A j \in 1..Under : To(j) # From(i) /\ (i # j => To(i) # To(j) /\ Temp(i) # Temp(j))
    BY <1>1, <1>2, NamesAre, NameFacts
  <2>3. CASE batch.pc = "stage"
    <3>1. to = Temp(Done + 1) /\ Done + 1 \in 1..Under /\ Done \in Nat
      BY <2>2, <2>3, PhaseIs DEF to
    <3>2. To(i) # to /\ From(i) # to /\ (i <= Done => Temp(i) # to)
      BY <2>2, <3>1
    <3>3. (i <= Done => Staged(i)) /\ (~(i <= Done) => folder[From(i)] = Took(i))
      BY <2>1, <2>3 DEF FileIsThere
    <3>4. (i <= Done => Staged(i)') /\ (~(i <= Done) => folder'[From(i)] = Took(i))
      BY <1>3, <1>5, <2>2, <3>2, <3>3 DEF Staged
    <3> QED
      BY <1>4, <1>5, <2>3, <3>4 DEF FileIsThere
  <2>4. CASE batch.pc = "final"
    <3>1. to = To(Done + 1) /\ Done + 1 \in 1..Under /\ Done \in Nat
      BY <2>2, <2>4, PhaseIs DEF to
    <3>2. Temp(i) # to /\ From(i) # to /\ (i <= Done => To(i) # to)
      BY <2>2, <3>1
    <3>3. (i <= Done => Renamed(i)) /\ (~(i <= Done) => Staged(i))
      BY <2>1, <2>4 DEF FileIsThere
    <3>4. (i <= Done => Renamed(i)') /\ (~(i <= Done) => Staged(i)')
      BY <1>3, <1>5, <2>2, <3>2, <3>3 DEF Staged, Renamed
    <3> QED
      BY <1>4, <1>5, <2>4, <3>4 DEF FileIsThere
  <2>5. CASE batch.pc = "back"
    <3>1. \A j \in 1..Len(batch.moves) : batch.moves[j].from \in AllNames
      <4>1. \A j \in 1..Len(batch.moves) : batch.moves[j] \in Moves
        BY <1>1
      <4> QED
        BY <4>1 DEF Moves
    <3>2. batch.kept \/ folder[From(i)] = Took(i) \/ Returns(i)
      BY <2>1, <2>5 DEF FileIsThere
    <3>3. batch.kept \/ folder'[From(i)] = Took(i) \/ Returns(i)'
      BY <1>3, <1>4, <1>5, <2>2, <3>1, <3>2 DEF Returns
    <3> QED
      BY <1>4, <1>5, <2>5, <3>3 DEF FileIsThere
  <2> QED
    BY <2>3, <2>4, <2>5 DEF Moving
<1>11. NoFileLost'
  <2> SUFFICES ASSUME NEW f \in 1..files, f \notin touched
               PROVE  \E n \in AllNames : folder'[n] = f
    BY DEF NoFileLost, NamesOf
  <2>1. PICK n \in AllNames : folder[n] = f
    BY DEF RenameInv, NoFileLost, NamesOf
  <2> QED
    BY <1>3, <2>1
<1> QED
  BY <1>6, <1>7, <1>8, <1>9, <1>10, <1>11 DEF RenameInv

\* What a step leaves of the moves when it takes back others.
LEMMA TailBack ==
  ASSUME RenameInv, batch.pc = "back", batch'.pc = "back", Tail(batch.moves) # <<>>,
         batch'.moves = Tail(batch.moves), batch'.items = batch.items,
         batch'.number = batch.number, batch'.took = batch.took
  PROVE  MovesInOrder'
<1>1. /\ Under' = Under /\ \A i : From(i)' = From(i)
  BY SameList
<1> DEFINE m == batch.moves
           t == Tail(batch.moves)
<1>2. /\ m \in Seq(Moves) /\ Len(m) \in Nat /\ Len(t) = Len(m) - 1 /\ t \in Seq(Moves)
      /\ \A j \in 1..Len(t) : t[j] = m[j + 1]
  BY NextMoveIs DEF Moving
<1>3. \A j \in 1..Len(m) :
        /\ \E i \in 1..Under : m[j].to = From(i)
        /\ \A i \in 1..Under : m[j].from # From(i)
        /\ \A k \in 1..Len(m) : k # j => m[j].from # m[k].from
  BY DEF RenameInv, MovesInOrder
<1> HIDE DEF m, t
<1>4. ASSUME NEW j \in 1..Len(t)
      PROVE  /\ \E i \in 1..Under : t[j].to = From(i)
             /\ \A i \in 1..Under : t[j].from # From(i)
             /\ \A k \in 1..Len(t) : k # j => t[j].from # t[k].from
  <2>1. j + 1 \in 1..Len(m) /\ t[j] = m[j + 1]
    BY <1>2
  <2>2. ASSUME NEW k \in 1..Len(t), k # j PROVE t[j].from # t[k].from
    <3>1. k + 1 \in 1..Len(m) /\ t[k] = m[k + 1] /\ k + 1 # j + 1
      BY <1>2, <2>2
    <3>2. m[j + 1].from # m[k + 1].from
      BY <1>3, <2>1, <3>1
    <3> QED
      BY <2>1, <3>1, <3>2
  <2> QED
    BY <1>3, <2>1, <2>2
<1> QED
  BY <1>1, <1>4 DEF MovesInOrder, t

\* A move that has been made.
LEMMA MovedIs ==
  ASSUME RenameInv, Moving, Moved
  PROVE  /\ batch' \in BatchRecord /\ ~batch'.linked /\ batch'.items = batch.items
         /\ batch'.number = batch.number /\ batch'.took = batch.took
         /\ batch'.kept = batch.kept /\ batch'.pc # "none"
         /\ Tail(batch.moves) # <<>> =>
              batch'.pc = batch.pc /\ batch'.moves = Tail(batch.moves)
         /\ Tail(batch.moves) = <<>> =>
              /\ batch.pc = "stage" => /\ batch'.pc = "final"
                                      /\ batch'.moves = Finalizing(batch.number, batch.items)
              /\ batch.pc = "final" => batch'.pc = "ok"
              /\ batch.pc = "back"  =>
                    batch'.pc = IF batch.kept THEN "incomplete" ELSE "rolled back"
<1> DEFINE b == [batch EXCEPT !.moves = Tail(batch.moves)]
<1>1. /\ b \in BatchRecord /\ b.items = batch.items /\ b.number = batch.number /\ b.pc = batch.pc
      /\ b.took = batch.took /\ b.kept = batch.kept /\ b.moves = Tail(batch.moves)
  BY NextMoveIs DEF RenameInv, RenameTypes, BatchRecord
<1>2. Goes(b)
  BY DEF Moved
<1>3. batch.pc \in {"stage", "final", "back"} /\ batch.pc # "none"
  BY DEF Moving
<1> HIDE DEF b
<1>4. /\ batch' \in BatchRecord /\ ~batch'.linked /\ batch'.items = b.items
      /\ batch'.number = b.number /\ batch'.took = b.took /\ batch'.kept = b.kept
      /\ b.moves # <<>> => batch'.pc = b.pc /\ batch'.moves = b.moves
      /\ b.moves = <<>> =>
           /\ b.pc = "stage" => /\ batch'.pc = "final"
                               /\ batch'.moves = Finalizing(b.number, b.items)
           /\ b.pc = "final" => batch'.pc = "ok"
           /\ b.pc = "back"  => batch'.pc = IF b.kept THEN "incomplete" ELSE "rolled back"
  BY <1>1, <1>2, <1>3, SettledIs
<1> QED
  BY <1>1, <1>3, <1>4

\* A move that has failed: of the rollback, it is noted; any other is taken back
\* with those before it.
LEMMA FailedIs ==
  ASSUME RenameInv, Moving, Failed
  PROVE  /\ batch' \in BatchRecord /\ ~batch'.linked /\ batch'.items = batch.items
         /\ batch'.number = batch.number /\ batch'.took = batch.took /\ batch'.pc # "none"
         /\ batch.pc = "back" =>
              /\ Tail(batch.moves) # <<>> => /\ batch'.pc = "back" /\ batch'.kept = TRUE
                                            /\ batch'.moves = Tail(batch.moves)
              /\ Tail(batch.moves) = <<>> => batch'.pc = "incomplete"
         /\ batch.pc \in {"stage", "final"} =>
              /\ Rollback(batch) # <<>> => batch'.pc = "back" /\ batch'.moves = Rollback(batch)
              /\ Rollback(batch) = <<>> => batch'.pc \in {"incomplete", "rolled back"}
<1>1. batch \in BatchRecord /\ batch.pc # "none" /\ batch.pc \in {"stage", "final", "back"}
  BY DEF RenameInv, RenameTypes, Moving
<1>2. CASE batch.pc = "back"
  <2> DEFINE b == [batch EXCEPT !.moves = Tail(batch.moves), !.kept = TRUE]
  <2>1. /\ b \in BatchRecord /\ b.items = batch.items /\ b.number = batch.number
        /\ b.took = batch.took /\ b.kept = TRUE /\ b.moves = Tail(batch.moves) /\ b.pc = "back"
    BY <1>1, <1>2, NextMoveIs DEF BatchRecord
  <2>2. Goes(b)
    BY <1>2 DEF Failed
  <2> HIDE DEF b
  <2>3. /\ batch' \in BatchRecord /\ ~batch'.linked /\ batch'.items = b.items
        /\ batch'.number = b.number /\ batch'.took = b.took /\ batch'.kept = b.kept
        /\ b.moves # <<>> => batch'.pc = b.pc /\ batch'.moves = b.moves
        /\ b.moves = <<>> => batch'.pc = IF b.kept THEN "incomplete" ELSE "rolled back"
    BY <1>1, <2>1, <2>2, SettledIs
  <2> QED
    BY <1>2, <2>1, <2>3
<1>3. CASE batch.pc \in {"stage", "final"}
  <2> DEFINE b == [batch EXCEPT !.pc = "back", !.moves = Rollback(batch)]
  <2>1. Rollback(batch) \in Seq(Moves)
    BY <1>3, UndoStage, UndoFinal
  <2>2. /\ b \in BatchRecord /\ b.items = batch.items /\ b.number = batch.number
        /\ b.took = batch.took /\ b.kept = batch.kept /\ b.moves = Rollback(batch)
        /\ b.pc = "back"
    BY <1>1, <2>1 DEF BatchRecord, Pcs
  <2>3. Goes(b)
    BY <1>3 DEF Failed
  <2> HIDE DEF b
  <2>4. /\ batch' \in BatchRecord /\ ~batch'.linked /\ batch'.items = b.items
        /\ batch'.number = b.number /\ batch'.took = b.took /\ batch'.kept = b.kept
        /\ b.moves # <<>> => batch'.pc = b.pc /\ batch'.moves = b.moves
        /\ b.moves = <<>> => batch'.pc = IF b.kept THEN "incomplete" ELSE "rolled back"
    BY <1>1, <2>2, <2>3, SettledIs
  <2> QED
    BY <1>3, <2>2, <2>4
<1> QED
  BY <1>1, <1>2, <1>3

\* The first name of a linked file goes: the file is under the second.
LEMMA UnlinkKeeps ==
  ASSUME RenameInv, Moving, batch.linked, Taken(NextMove.from),
         folder' = [folder EXCEPT ![NextMove.from] = Vacant], Moved,
         UNCHANGED <<files, previews, batches, touched>>
  PROVE  RenameInv'
<1> DEFINE to == NextMove.to
           old == NextMove.from
           m == batch.moves
           t == Tail(batch.moves)
<1>1. /\ old \in AllNames /\ to \in AllNames /\ batch.pc # "none" /\ old # to
      /\ \A f \in 1..files : f \notin touched => (folder[old] = f <=> folder[to] = f)
  BY NextMoveIs DEF RenameInv, LinkedIsSafe
<1>2. /\ folder \in [AllNames -> Nat] /\ files \in Nat /\ batch \in BatchRecord
      /\ \A n \in AllNames : folder[n] <= files
  BY DEF RenameInv, RenameTypes
<1>3. /\ folder' \in [AllNames -> Nat] /\ folder'[old] = 0
      /\ \A n \in AllNames : n # old => folder'[n] = folder[n]
  BY <1>1, <1>2 DEF Vacant
<1>4. /\ batch' \in BatchRecord /\ ~batch'.linked /\ batch'.items = batch.items
      /\ batch'.number = batch.number /\ batch'.took = batch.took
      /\ batch'.kept = batch.kept /\ batch'.pc # "none"
      /\ t # <<>> => batch'.pc = batch.pc /\ batch'.moves = t
      /\ t = <<>> =>
           /\ batch.pc = "stage" => /\ batch'.pc = "final"
                                   /\ batch'.moves = Finalizing(batch.number, batch.items)
           /\ batch.pc = "final" => batch'.pc = "ok"
           /\ batch.pc = "back"  => batch'.pc = IF batch.kept THEN "incomplete" ELSE "rolled back"
  BY MovedIs
<1>5. /\ m \in Seq(Moves) /\ Len(m) \in Nat \ {0} /\ NextMove = m[1]
      /\ Len(t) = Len(m) - 1 /\ t \in Seq(Moves)
      /\ \A j \in 1..Len(t) : t[j] = m[j + 1]
  BY NextMoveIs
<1>6. /\ Under' = Under
      /\ \A i : /\ From(i)' = From(i) /\ To(i)' = To(i)
                /\ Temp(i)' = Temp(i) /\ Took(i)' = Took(i)
  BY <1>4, SameList
<1>7. RenameTypes'
  <2>1. \A n \in AllNames : folder'[n] <= files
    BY <1>1, <1>2, <1>3
  <2> QED
    BY <1>3, <1>4, <2>1 DEF RenameInv, RenameTypes
<1>8. BatchListed'
  BY <1>1, <1>4, <1>6 DEF RenameInv, BatchListed
<1>9. LinkedIsSafe'
  BY <1>4 DEF LinkedIsSafe
<1>10. NoFileLost'
  <2> SUFFICES ASSUME NEW f \in 1..files, f \notin touched
               PROVE  \E n \in AllNames : folder'[n] = f
    BY DEF NoFileLost, NamesOf
  <2>1. PICK n \in AllNames : folder[n] = f
    BY DEF RenameInv, NoFileLost, NamesOf
  <2>2. CASE n = old
    BY <1>1, <1>3, <2>1, <2>2
  <2> QED
    BY <1>3, <2>1, <2>2
<1> HIDE DEF to, old, m, t
<1>11. /\ Under \in Nat
       /\ \A i \in 1..Under :
            /\ From(i) \in AllNames /\ To(i) \in AllNames /\ Temp(i) \in AllNames
            /\ Temp(i) \notin FileNames /\ From(i) \in FileNames /\ To(i) \in FileNames
            /\ Took(i) \in 1..files /\ Took(i) # 0
       /\ \A i, j \in 1..Under :
            /\ To(i) # From(j)
            /\ i # j => From(i) # From(j) /\ To(i) # To(j) /\ Temp(i) # Temp(j)
  BY <1>1, <1>2, NamesAre, NameFacts
<1>12. \A i \in 1..Under : Took(i) \notin touched => FileIsThere(i)
  BY <1>1 DEF RenameInv, FilesAreThere
<1>13. ASSUME \A i \in 1..Under : Took(i) \notin touched => FileIsThere(i)'
       PROVE  FilesAreThere'
  BY <1>6, <1>13 DEF FilesAreThere
<1>14. CASE batch.pc = "stage"
  <2>1. /\ old = From(Done + 1) /\ to = Temp(Done + 1) /\ Done + 1 \in 1..Under
        /\ Done \in Nat /\ Len(m) = Under - Done
    BY <1>11, <1>14, PhaseIs DEF old, to, m
  <2>2. ASSUME NEW i \in 1..Under, Took(i) \notin touched
        PROVE  IF i <= Done + 1 THEN Staged(i)' ELSE folder'[From(i)] = Took(i)
    <3>1. IF i <= Done THEN Staged(i) ELSE folder[From(i)] = Took(i)
      BY <1>12, <1>14, <2>2 DEF FileIsThere
    <3>2. CASE i <= Done
      <4>1. From(i) # old /\ Temp(i) # old
        BY <1>11, <2>1, <3>2
      <4> QED
        BY <1>3, <1>6, <1>11, <2>1, <3>1, <3>2, <4>1 DEF Staged
    <3>3. CASE i = Done + 1
      <4>1. folder[old] = Took(i) /\ folder[to] = Took(i)
        BY <1>1, <1>11, <2>1, <2>2, <3>1, <3>3
      <4>2. folder'[to] = Took(i) /\ folder'[old] # Took(i)
        BY <1>1, <1>3, <1>11, <4>1
      <4> QED
        BY <1>6, <2>1, <3>3, <4>2 DEF Staged
    <3>4. CASE i > Done + 1
      <4>1. From(i) # old /\ ~(i <= Done) /\ ~(i <= Done + 1)
        BY <1>11, <2>1, <3>4
      <4> QED
        BY <1>3, <1>11, <3>1, <4>1
    <3> QED
      BY <2>1, <3>2, <3>3, <3>4
  <2>3. CASE t # <<>>
    <3>1. batch'.pc = "stage" /\ batch'.moves = t /\ Done' = Done + 1
      <4>1. batch'.pc = "stage" /\ batch'.moves = t
        BY <1>4, <1>14, <2>3
      <4>2. Done' = Under - Len(t)
        BY <1>6, <4>1 DEF Done
      <4>3. Under - Len(t) = Done + 1
        BY <1>5, <1>11, <2>1
      <4> QED
        BY <4>1, <4>2, <4>3
    <3>2. FilesAreThere'
      BY <1>6, <1>13, <2>2, <3>1 DEF FileIsThere
    <3>3. MovesInOrder'
      <4>1. Len(t) \in 1..Under
        BY <1>5, <1>11, <2>1, <2>3
      <4>2. ASSUME NEW j \in 1..Len(t), NEW i \in 1..Under, i = (Done + 1) + j
            PROVE  t[j] = [from |-> From(i), to |-> Temp(i)]
        <5>1. j + 1 \in 1..Len(m) /\ i = Done + (j + 1)
          BY <1>5, <2>1, <4>2
        <5> QED
          BY <1>5, <1>14, <5>1 DEF RenameInv, MovesInOrder, m
      <4> QED
        BY <1>6, <3>1, <4>1, <4>2 DEF MovesInOrder
    <3> QED
      BY <1>7, <1>8, <1>9, <1>10, <3>2, <3>3 DEF RenameInv
  <2>4. CASE t = <<>>
    <3>1. Done + 1 = Under
      BY <1>5, <1>11, <2>1, <2>4
    <3>2. /\ batch'.pc = "final" /\ batch'.moves = Finalizing(batch.number, batch.items)
          /\ Len(batch'.moves) = Under
          /\ \A i \in 1..Under : batch'.moves[i] = [from |-> Temp(i), to |-> To(i)]
      <4>1. PICK items \in ItemLists, n \in 1..MaxBatches :
              items = batch.items /\ n = batch.number
        BY <1>1, NamesAre
      <4>2. /\ Len(Finalizing(n, items)) = Len(items)
            /\ \A i \in 1..Len(items) :
                 Finalizing(n, items)[i] = [from |-> Temporary(n, i), to |-> items[i].to]
        BY PhasesAre
      <4>3. Len(items) = Under /\ \A i : Temporary(n, i) = Temp(i) /\ items[i].to = To(i)
        BY <4>1 DEF Under, Temp, To
      <4>4. batch'.pc = "final" /\ batch'.moves = Finalizing(n, items)
        BY <1>4, <1>14, <2>4, <4>1
      <4> QED
        BY <1>4, <1>14, <2>4, <4>2, <4>3, <4>4
    <3>3. Done' = 0
      BY <1>6, <1>11, <3>2 DEF Done
    <3>4. FilesAreThere'
      <4>1. \A i \in 1..Under : i <= Done + 1 /\ ~(i <= 0)
        BY <1>11, <3>1
      <4> QED
        BY <1>6, <1>13, <2>2, <3>2, <3>3, <4>1 DEF FileIsThere
    <3>5. MovesInOrder'
      <4>1. ASSUME NEW j \in 1..Under, NEW i \in 1..Under, i = 0 + j
            PROVE  batch'.moves[j] = [from |-> Temp(i), to |-> To(i)]
        <5>1. i = j
          BY <4>1
        <5> QED
          BY <3>2, <5>1
      <4>2. Under \in 1..Under
        BY <1>11, <2>1
      <4> QED
        BY <1>6, <3>2, <3>3, <4>1, <4>2 DEF MovesInOrder
    <3> QED
      BY <1>7, <1>8, <1>9, <1>10, <3>4, <3>5 DEF RenameInv
  <2> QED
    BY <2>3, <2>4
<1>15. CASE batch.pc = "final"
  <2>1. /\ old = Temp(Done + 1) /\ to = To(Done + 1) /\ Done + 1 \in 1..Under
        /\ Done \in Nat /\ Len(m) = Under - Done
    BY <1>11, <1>15, PhaseIs DEF old, to, m
  <2>2. ASSUME NEW i \in 1..Under, Took(i) \notin touched
        PROVE  IF i <= Done + 1 THEN Renamed(i)' ELSE Staged(i)'
    <3>1. IF i <= Done THEN Renamed(i) ELSE Staged(i)
      BY <1>12, <1>15, <2>2 DEF FileIsThere
    <3>2. From(i) # old /\ To(i) # old
      BY <1>11, <2>1
    <3>3. CASE i <= Done
      <4>1. Temp(i) # old
        BY <1>11, <2>1, <3>3
      <4> QED
        BY <1>3, <1>6, <1>11, <2>1, <3>1, <3>2, <3>3, <4>1 DEF Renamed
    <3>4. CASE i = Done + 1
      <4>1. folder[old] = Took(i) /\ folder[to] = Took(i) /\ folder[From(i)] # Took(i)
        BY <1>1, <1>11, <2>1, <2>2, <3>1, <3>4 DEF Staged
      <4>2. folder'[to] = Took(i) /\ folder'[old] # Took(i) /\ folder'[From(i)] # Took(i)
        BY <1>1, <1>3, <1>11, <3>2, <4>1
      <4> QED
        BY <1>6, <2>1, <3>4, <4>2 DEF Renamed
    <3>5. CASE i > Done + 1
      <4>1. Temp(i) # old /\ ~(i <= Done) /\ ~(i <= Done + 1)
        BY <1>11, <2>1, <3>5
      <4> QED
        BY <1>3, <1>6, <1>11, <3>1, <3>2, <4>1 DEF Staged
    <3> QED
      BY <2>1, <3>3, <3>4, <3>5
  <2>3. CASE t # <<>>
    <3>1. batch'.pc = "final" /\ batch'.moves = t /\ Done' = Done + 1
      <4>1. batch'.pc = "final" /\ batch'.moves = t
        BY <1>4, <1>15, <2>3
      <4>2. Done' = Under - Len(t)
        BY <1>6, <4>1 DEF Done
      <4>3. Under - Len(t) = Done + 1
        BY <1>5, <1>11, <2>1
      <4> QED
        BY <4>1, <4>2, <4>3
    <3>2. FilesAreThere'
      BY <1>6, <1>13, <2>2, <3>1 DEF FileIsThere
    <3>3. MovesInOrder'
      <4>1. Len(t) \in 1..Under
        BY <1>5, <1>11, <2>1, <2>3
      <4>2. ASSUME NEW j \in 1..Len(t), NEW i \in 1..Under, i = (Done + 1) + j
            PROVE  t[j] = [from |-> Temp(i), to |-> To(i)]
        <5>1. j + 1 \in 1..Len(m) /\ i = Done + (j + 1)
          BY <1>5, <2>1, <4>2
        <5> QED
          BY <1>5, <1>15, <5>1 DEF RenameInv, MovesInOrder, m
      <4> QED
        BY <1>6, <3>1, <4>1, <4>2 DEF MovesInOrder
    <3> QED
      BY <1>7, <1>8, <1>9, <1>10, <3>2, <3>3 DEF RenameInv
  <2>4. CASE t = <<>>
    <3>1. Done + 1 = Under
      BY <1>5, <1>11, <2>1, <2>4
    <3>2. batch'.pc = "ok"
      BY <1>4, <1>15, <2>4
    <3>3. \A i \in 1..Under : i <= Done + 1
      BY <1>11, <3>1
    <3>4. FilesAreThere'
      BY <1>13, <2>2, <3>2, <3>3 DEF FileIsThere
    <3>5. MovesInOrder'
      BY <3>2 DEF MovesInOrder
    <3> QED
      BY <1>7, <1>8, <1>9, <1>10, <3>4, <3>5 DEF RenameInv
  <2> QED
    BY <2>3, <2>4
<1>16. CASE batch.pc = "back"
  <2>1. \A j \in 1..Len(m) :
          /\ \E i \in 1..Under : m[j].to = From(i)
          /\ \A i \in 1..Under : m[j].from # From(i)
          /\ \A k \in 1..Len(m) : k # j => m[j].from # m[k].from
    BY <1>16 DEF RenameInv, MovesInOrder, m
  <2>2. 1 \in 1..Len(m) /\ old = m[1].from /\ to = m[1].to
    BY <1>5 DEF old, to
  <2>3. ASSUME NEW i \in 1..Under, Took(i) \notin touched, ~batch.kept,
               folder'[From(i)] # Took(i)
        PROVE  \E j \in 1..Len(t) : t[j].to = From(i) /\ folder'[t[j].from] = Took(i)
    <3>1. folder[From(i)] = Took(i) \/ Returns(i)
      BY <1>12, <1>16, <2>3 DEF FileIsThere
    <3>2. From(i) # old
      BY <2>1, <2>2
    <3>3. PICK j \in 1..Len(m) : m[j].to = From(i) /\ folder[m[j].from] = Took(i)
      BY <1>3, <1>11, <2>3, <3>1, <3>2 DEF Returns, m
    <3>4. j # 1
      <4> SUFFICES ASSUME j = 1 PROVE FALSE
        OBVIOUS
      <4>1. to = From(i) /\ folder[old] = Took(i)
        BY <2>2, <3>3
      <4>2. folder[to] = Took(i)
        BY <1>1, <1>11, <2>3, <4>1
      <4> QED
        BY <1>1, <1>3, <2>3, <4>1, <4>2
    <3>5. PICK k \in 1..Len(t) : t[k] = m[j]
      <4>1. j - 1 \in 1..Len(t) /\ (j - 1) + 1 = j
        BY <1>5, <3>4
      <4> QED
        BY <1>5, <4>1
    <3>6. m[j].from \in AllNames /\ m[j].from # old
      <4>1. m[j] \in Moves
        BY <1>5
      <4> QED
        BY <2>1, <2>2, <3>4, <4>1 DEF Moves
    <3> QED
      BY <1>3, <3>3, <3>5, <3>6
  <2>4. CASE t # <<>>
    <3>1. batch'.pc = "back" /\ batch'.moves = t
      BY <1>4, <1>16, <2>4
    <3>2. FilesAreThere'
      BY <1>4, <1>6, <1>13, <2>3, <3>1 DEF FileIsThere, Returns
    <3>3. MovesInOrder'
      BY <1>4, <1>16, <2>4, <3>1, TailBack DEF t
    <3> QED
      BY <1>7, <1>8, <1>9, <1>10, <3>2, <3>3 DEF RenameInv
  <2>5. CASE t = <<>>
    <3>1. Len(t) = 0
      BY <2>5
    <3>2. /\ batch'.pc \in {"incomplete", "rolled back"}
          /\ batch'.pc = "rolled back" => ~batch.kept
      BY <1>4, <1>16, <2>5
    <3>3. ASSUME NEW i \in 1..Under, Took(i) \notin touched, ~batch.kept
          PROVE  folder'[From(i)] = Took(i)
      <4>1. ~\E j \in 1..Len(t) : t[j].to = From(i) /\ folder'[t[j].from] = Took(i)
        BY <3>1
      <4> QED
        BY <2>3, <3>3, <4>1
    <3>4. FilesAreThere'
      BY <1>6, <1>13, <3>2, <3>3 DEF FileIsThere
    <3>5. MovesInOrder'
      BY <3>2 DEF MovesInOrder
    <3> QED
      BY <1>7, <1>8, <1>9, <1>10, <3>4, <3>5 DEF RenameInv
  <2> QED
    BY <2>4, <2>5
<1> QED
  BY <1>14, <1>15, <1>16 DEF Moving

\* A move fails: nothing has changed, or the second name of the file is gone again.
LEMMA FailKeeps ==
  ASSUME RenameInv, Moving, Failed,
         \/ folder' = folder
         \/ batch.linked /\ folder' = [folder EXCEPT ![NextMove.to] = Vacant],
         UNCHANGED <<files, previews, batches, touched>>
  PROVE  RenameInv'
<1> DEFINE to == NextMove.to
           old == NextMove.from
           m == batch.moves
           t == Tail(batch.moves)
           r == Rollback(batch)
<1>1. old \in AllNames /\ to \in AllNames /\ batch.pc # "none"
  BY NextMoveIs
<1>2. /\ folder \in [AllNames -> Nat] /\ files \in Nat /\ batch \in BatchRecord
      /\ \A n \in AllNames : folder[n] <= files
  BY DEF RenameInv, RenameTypes
<1>3. /\ folder' \in [AllNames -> Nat] /\ folder'[to] \in {folder[to], 0}
      /\ \A n \in AllNames : n # to => folder'[n] = folder[n]
  BY <1>1, <1>2 DEF Vacant
<1>4. /\ batch' \in BatchRecord /\ ~batch'.linked /\ batch'.items = batch.items
      /\ batch'.number = batch.number /\ batch'.took = batch.took /\ batch'.pc # "none"
      /\ batch.pc = "back" =>
           /\ t # <<>> => batch'.pc = "back" /\ batch'.kept = TRUE /\ batch'.moves = t
           /\ t = <<>> => batch'.pc = "incomplete"
      /\ batch.pc \in {"stage", "final"} =>
           /\ r # <<>> => batch'.pc = "back" /\ batch'.moves = r
           /\ r = <<>> => batch'.pc \in {"incomplete", "rolled back"}
  BY FailedIs
<1>5. /\ Under' = Under
      /\ \A i : /\ From(i)' = From(i) /\ To(i)' = To(i)
                /\ Temp(i)' = Temp(i) /\ Took(i)' = Took(i)
  BY <1>4, SameList
<1>6. RenameTypes'
  <2>1. \A n \in AllNames : folder'[n] <= files
    BY <1>1, <1>2, <1>3
  <2> QED
    BY <1>3, <1>4, <2>1 DEF RenameInv, RenameTypes
<1>7. BatchListed'
  BY <1>1, <1>4, <1>5 DEF RenameInv, BatchListed
<1>8. LinkedIsSafe'
  BY <1>4 DEF LinkedIsSafe
<1>9. NoFileLost'
  <2> SUFFICES ASSUME NEW f \in 1..files, f \notin touched
               PROVE  \E n \in AllNames : folder'[n] = f
    BY DEF NoFileLost, NamesOf
  <2>1. PICK n \in AllNames : folder[n] = f
    BY DEF RenameInv, NoFileLost, NamesOf
  <2>2. CASE folder' = folder
    BY <2>1, <2>2
  <2>3. CASE batch.linked /\ n = to
    <3>1. old # to /\ folder[old] = f
      BY <2>1, <2>3 DEF RenameInv, LinkedIsSafe
    <3> QED
      BY <1>1, <1>3, <3>1
  <2> QED
    BY <1>3, <2>1, <2>2, <2>3
<1> HIDE DEF to, old, m, t, r
<1>10. /\ Under \in Nat
       /\ \A i \in 1..Under :
            /\ From(i) \in AllNames /\ To(i) \in AllNames /\ Temp(i) \in AllNames
            /\ Temp(i) \notin FileNames /\ From(i) \in FileNames /\ To(i) \in FileNames
       /\ \A i, j \in 1..Under :
            /\ To(i) # From(j)
            /\ i # j => From(i) # From(j) /\ To(i) # To(j) /\ Temp(i) # Temp(j)
  BY <1>1, NamesAre, NameFacts
<1>11. \A i \in 1..Under : Took(i) \notin touched => FileIsThere(i)
  BY <1>1 DEF RenameInv, FilesAreThere
<1>12. ASSUME \A i \in 1..Under : Took(i) \notin touched => FileIsThere(i)'
       PROVE  FilesAreThere'
  BY <1>5, <1>12 DEF FilesAreThere
<1>13. CASE batch.pc = "stage"
  <2>1. /\ to = Temp(Done + 1) /\ Done + 1 \in 1..Under /\ Done \in Nat /\ Done <= Under
    BY <1>10, <1>13, PhaseIs DEF to
  <2>2. /\ r \in Seq(Moves) /\ Len(r) = Done
        /\ \A i, j \in 1..Done : i + j = Done + 1 => r[j].from = Temp(i) /\ r[j].to = From(i)
    BY <1>13, UndoStage DEF r
  <2>3. ASSUME NEW i \in 1..Under, Took(i) \notin touched
        PROVE  IF i <= Done THEN folder'[Temp(i)] = Took(i) ELSE folder'[From(i)] = Took(i)
    <3>1. IF i <= Done THEN folder[Temp(i)] = Took(i) ELSE folder[From(i)] = Took(i)
      BY <1>11, <1>13, <2>3 DEF FileIsThere, Staged
    <3>2. From(i) # to /\ (i <= Done => Temp(i) # to)
      BY <1>10, <2>1
    <3> QED
      BY <1>3, <1>10, <3>1, <3>2
  <2>4. CASE r # <<>>
    <3>1. batch'.pc = "back" /\ batch'.moves = r
      BY <1>4, <1>13, <2>4
    <3>2. ASSUME NEW i \in 1..Under, Took(i) \notin touched, folder'[From(i)] # Took(i)
          PROVE  \E j \in 1..Len(r) : r[j].to = From(i) /\ folder'[r[j].from] = Took(i)
      <4>1. i <= Done /\ folder'[Temp(i)] = Took(i)
        BY <2>3, <3>2
      <4>2. PICK j \in 1..Done : i \in 1..Done /\ i + j = Done + 1
        <5>1. (Done + 1) - i \in 1..Done /\ i \in 1..Done /\ i + ((Done + 1) - i) = Done + 1
          BY <2>1, <4>1
        <5> QED
          BY <5>1
      <4> QED
        BY <2>2, <4>1, <4>2
    <3>3. FilesAreThere'
      BY <1>5, <1>12, <3>1, <3>2 DEF FileIsThere, Returns
    <3>4. ASSUME NEW j \in 1..Len(r)
          PROVE  /\ \E i \in 1..Under : r[j].to = From(i)
                 /\ \A i \in 1..Under : r[j].from # From(i)
                 /\ \A k \in 1..Len(r) : k # j => r[j].from # r[k].from
      <4>1. ASSUME NEW k \in 1..Done
            PROVE  \E i \in 1..Done : i + k = Done + 1
        <5>1. (Done + 1) - k \in 1..Done /\ ((Done + 1) - k) + k = Done + 1
          BY <2>1
        <5> QED
          BY <5>1
      <4>2. PICK i \in 1..Done : i + j = Done + 1
        BY <2>2, <4>1
      <4>3. i \in 1..Under /\ r[j].from = Temp(i) /\ r[j].to = From(i)
        BY <1>10, <2>1, <2>2, <4>2
      <4>4. ASSUME NEW k \in 1..Len(r), k # j PROVE r[j].from # r[k].from
        <5>1. PICK h \in 1..Done : h + k = Done + 1
          BY <2>2, <4>1
        <5>2. h \in 1..Under /\ h # i /\ r[k].from = Temp(h)
          BY <1>10, <2>1, <2>2, <4>2, <4>4, <5>1
        <5> QED
          BY <1>10, <4>3, <5>2
      <4> QED
        BY <1>10, <4>3, <4>4
    <3>5. MovesInOrder'
      BY <1>5, <2>4, <3>1, <3>4 DEF MovesInOrder
    <3> QED
      BY <1>6, <1>7, <1>8, <1>9, <3>3, <3>5 DEF RenameInv
  <2>5. CASE r = <<>>
    <3>1. batch'.pc \in {"incomplete", "rolled back"}
      BY <1>4, <1>13, <2>5
    <3>2. \A i \in 1..Under : ~(i <= Done)
      BY <1>10, <2>1, <2>2, <2>5
    <3>3. FilesAreThere'
      BY <1>5, <1>12, <2>3, <3>1, <3>2 DEF FileIsThere
    <3>4. MovesInOrder'
      BY <3>1 DEF MovesInOrder
    <3> QED
      BY <1>6, <1>7, <1>8, <1>9, <3>3, <3>4 DEF RenameInv
  <2> QED
    BY <2>4, <2>5
<1>14. CASE batch.pc = "final"
  <2>1. /\ to = To(Done + 1) /\ Done + 1 \in 1..Under /\ Done \in Nat /\ Done <= Under
    BY <1>10, <1>14, PhaseIs DEF to
  <2>2. /\ r \in Seq(Moves) /\ Len(r) = Under
        /\ \A i, j \in 1..Done : i + j = Done + 1 => r[j].from = To(i) /\ r[j].to = From(i)
        /\ \A i, j \in (Done + 1)..Under : i + j = Under + Done + 1 =>
              r[j].from = Temp(i) /\ r[j].to = From(i)
    BY <1>14, UndoFinal DEF r
  <2>3. ASSUME NEW i \in 1..Under, Took(i) \notin touched
        PROVE  IF i <= Done THEN folder'[To(i)] = Took(i) ELSE folder'[Temp(i)] = Took(i)
    <3>1. IF i <= Done THEN folder[To(i)] = Took(i) ELSE folder[Temp(i)] = Took(i)
      BY <1>11, <1>14, <2>3 DEF FileIsThere, Staged, Renamed
    <3>2. Temp(i) # to /\ (i <= Done => To(i) # to)
      BY <1>10, <2>1
    <3> QED
      BY <1>3, <1>10, <3>1, <3>2
  <2>4. batch'.pc = "back" /\ batch'.moves = r /\ r # <<>>
    <3>1. r # <<>>
      BY <1>10, <2>1, <2>2
    <3> QED
      BY <1>4, <1>14, <3>1
  \* The move that takes an item back, and where it takes it from.
  <2> DEFINE back(i) == IF i <= Done THEN (Done + 1) - i ELSE (Under + Done + 1) - i
             at(i)   == IF i <= Done THEN To(i) ELSE Temp(i)
  <2>5. ASSUME NEW i \in 1..Under
        PROVE  back(i) \in 1..Under /\ r[back(i)].from = at(i) /\ r[back(i)].to = From(i)
    <3>1. CASE i <= Done
      <4>1. PICK j \in 1..Done : j = (Done + 1) - i /\ i \in 1..Done /\ i + j = Done + 1 /\ j \in 1..Under
        BY <1>10, <2>1, <3>1
      <4> QED
        BY <2>2, <3>1, <4>1
    <3>2. CASE ~(i <= Done)
      <4>1. PICK j \in (Done + 1)..Under :
              /\ j = (Under + Done + 1) - i /\ i \in (Done + 1)..Under
              /\ i + j = Under + Done + 1 /\ j \in 1..Under
        BY <1>10, <2>1, <3>2
      <4> QED
        BY <2>2, <3>2, <4>1
    <3> QED
      BY <3>1, <3>2
  <2>6. ASSUME NEW j \in 1..Under
        PROVE  \E i \in 1..Under : back(i) = j
    <3>1. CASE j <= Done
      <4>1. PICK i \in 1..Under : i = (Done + 1) - j /\ i <= Done /\ (Done + 1) - i = j
        BY <1>10, <2>1, <3>1
      <4> QED
        BY <4>1
    <3>2. CASE ~(j <= Done)
      <4>1. PICK i \in 1..Under :
              i = (Under + Done + 1) - j /\ ~(i <= Done) /\ (Under + Done + 1) - i = j
        BY <1>10, <2>1, <3>2
      <4> QED
        BY <4>1
    <3> QED
      BY <3>1, <3>2
  <2>7. \A i \in 1..Under :
          /\ \A h \in 1..Under : at(i) # From(h)
          /\ \A h \in 1..Under : h # i => at(i) # at(h)
    BY <1>10
  <2>8. \A i \in 1..Under : Took(i) \notin touched => folder'[at(i)] = Took(i)
    BY <2>3
  <2> HIDE DEF back, at
  <2>9. FilesAreThere'
    <3>1. ASSUME NEW i \in 1..Under, Took(i) \notin touched
          PROVE  \E j \in 1..Len(r) : r[j].to = From(i) /\ folder'[r[j].from] = Took(i)
      BY <2>2, <2>5, <2>8, <3>1
    <3> QED
      BY <1>5, <1>12, <2>4, <3>1 DEF FileIsThere, Returns
  <2>10. ASSUME NEW j \in 1..Len(r)
         PROVE  /\ \E i \in 1..Under : r[j].to = From(i)
                /\ \A i \in 1..Under : r[j].from # From(i)
                /\ \A k \in 1..Len(r) : k # j => r[j].from # r[k].from
    <3>1. PICK i \in 1..Under : back(i) = j
      BY <2>2, <2>6
    <3>2. r[j].from = at(i) /\ r[j].to = From(i)
      BY <2>5, <3>1
    <3>3. ASSUME NEW k \in 1..Len(r), k # j PROVE r[j].from # r[k].from
      <4>1. PICK h \in 1..Under : back(h) = k
        BY <2>2, <2>6
      <4>2. r[k].from = at(h) /\ h # i
        BY <2>5, <3>1, <3>3, <4>1
      <4> QED
        BY <2>7, <3>2, <4>2
    <3> QED
      BY <2>7, <3>2, <3>3
  <2>11. MovesInOrder'
    BY <1>5, <2>4, <2>10 DEF MovesInOrder
  <2> QED
    BY <1>6, <1>7, <1>8, <1>9, <2>9, <2>11 DEF RenameInv
<1>15. CASE batch.pc = "back"
  <2>1. CASE t # <<>>
    <3>1. batch'.pc = "back" /\ batch'.kept = TRUE /\ batch'.moves = t
      BY <1>4, <1>15, <2>1
    <3>2. FilesAreThere'
      BY <1>5, <1>12, <3>1 DEF FileIsThere
    <3>3. MovesInOrder'
      BY <1>4, <1>15, <2>1, <3>1, TailBack DEF t
    <3> QED
      BY <1>6, <1>7, <1>8, <1>9, <3>2, <3>3 DEF RenameInv
  <2>2. CASE t = <<>>
    <3>1. batch'.pc = "incomplete"
      BY <1>4, <1>15, <2>2
    <3>2. FilesAreThere' /\ MovesInOrder'
      BY <1>5, <1>12, <3>1 DEF FileIsThere, MovesInOrder
    <3> QED
      BY <1>6, <1>7, <1>8, <1>9, <3>2 DEF RenameInv
  <2> QED
    BY <2>1, <2>2
<1> QED
  BY <1>13, <1>14, <1>15 DEF Moving

-----------------------------------------------------------------------------
(* The other steps *)

\* What other programs do: a file they leave alone keeps its names.
LEMMA OthersKeep ==
  ASSUME RenameInv, UNCHANGED <<previews, batch, batches>>, files' \in Nat, files <= files',
         folder' \in [AllNames -> Nat], \A n \in AllNames : folder'[n] <= files',
         touched \subseteq touched',
         \A n \in AllNames, f \in 1..files :
            f \notin touched' => (folder'[n] = f <=> folder[n] = f)
  PROVE  /\ RenameTypes' /\ BatchListed' /\ MovesInOrder' /\ FilesAreThere'
         /\ Under' = Under /\ NextMove' = NextMove
<1>1. batch' = batch /\ files \in Nat
  BY DEF RenameInv, RenameTypes
<1>2. /\ Under' = Under /\ Done' = Done /\ NextMove' = NextMove
      /\ \A i : /\ From(i)' = From(i) /\ To(i)' = To(i)
                /\ Temp(i)' = Temp(i) /\ Took(i)' = Took(i)
  BY <1>1, SameList DEF Done, NextMove
<1>3. RenameTypes'
  BY <1>1 DEF RenameInv, RenameTypes
<1>4. BatchListed'
  <2>1. \A f \in 1..files : f \in 1..files'
    BY <1>1
  <2> QED
    BY <1>1, <1>2, <2>1 DEF RenameInv, BatchListed
<1>5. MovesInOrder'
  BY <1>1, <1>2 DEF RenameInv, MovesInOrder
<1>6. FilesAreThere'
  <2> SUFFICES ASSUME batch.pc # "none", NEW i \in 1..Under, Took(i) \notin touched'
               PROVE  FileIsThere(i)'
    BY <1>1, <1>2 DEF FilesAreThere
  <2>1. FileIsThere(i)
    BY DEF RenameInv, FilesAreThere
  <2>2. /\ From(i) \in AllNames /\ To(i) \in AllNames /\ Temp(i) \in AllNames
        /\ Took(i) \in 1..files
    BY NamesAre, NameFacts
  <2>3. /\ folder'[From(i)] = Took(i) <=> folder[From(i)] = Took(i)
        /\ folder'[To(i)] = Took(i) <=> folder[To(i)] = Took(i)
        /\ folder'[Temp(i)] = Took(i) <=> folder[Temp(i)] = Took(i)
    BY <2>2
  <2>4. (Staged(i) => Staged(i)') /\ (Renamed(i) => Renamed(i)')
    BY <1>2, <2>3 DEF Staged, Renamed
  <2>5. Returns(i) => Returns(i)'
    <3>1. \A j \in 1..Len(batch.moves) : batch.moves[j].from \in AllNames
      <4>1. \A j \in 1..Len(batch.moves) : batch.moves[j] \in Moves
        BY NamesAre
      <4> QED
        BY <4>1 DEF Moves
    <3> QED
      BY <1>1, <1>2, <2>2, <3>1 DEF Returns
  <2>6. folder[From(i)] = Took(i) => folder'[From(i)] = Took(i)
    BY <2>3
  <2> QED
    BY <1>1, <1>2, <2>1, <2>4, <2>5, <2>6 DEF FileIsThere
<1> QED
  BY <1>2, <1>3, <1>4, <1>5, <1>6

\* Another program makes a file: it is a new one, under a name that was free.
LEMMA OtherCreatesKeeps ==
  ASSUME RenameInv, OtherCreates
  PROVE  RenameInv'
<1>1. PICK n \in FileNames :
        /\ folder[n] = 0 /\ files' = files + 1 /\ folder' = [folder EXCEPT ![n] = files + 1]
        /\ touched' = touched \cup IF batch.linked /\ n \in {NextMove.from, NextMove.to}
                                  THEN {files + 1} ELSE {}
        /\ UNCHANGED <<previews, batch, batches, moveFaults>>
  BY DEF OtherCreates, Taken, Vacant
<1>2. /\ folder \in [AllNames -> Nat] /\ files \in Nat /\ n \in AllNames
      /\ \A x \in AllNames : folder[x] <= files
  BY NameFacts DEF RenameInv, RenameTypes
<1>3. /\ folder' \in [AllNames -> Nat] /\ folder'[n] = files + 1 /\ files' \in Nat
      /\ \A x \in AllNames : x # n => folder'[x] = folder[x]
  BY <1>1, <1>2
<1>4. \A x \in AllNames : folder'[x] <= files'
  BY <1>1, <1>2, <1>3
<1>5. \A x \in AllNames, f \in 1..files : folder'[x] = f <=> folder[x] = f
  BY <1>1, <1>2, <1>3
<1>6. touched \subseteq touched' /\ files <= files' /\ batch' = batch
  BY <1>1, <1>2
<1>7. /\ RenameTypes' /\ BatchListed' /\ MovesInOrder' /\ FilesAreThere'
      /\ NextMove' = NextMove
  BY <1>1, <1>3, <1>4, <1>5, <1>6, OthersKeep
<1>8. LinkedIsSafe'
  <2> SUFFICES ASSUME batch.linked
               PROVE  /\ batch.moves # <<>> /\ NextMove.from # NextMove.to
                      /\ \A f \in 1..files' : f \notin touched' =>
                            (folder'[NextMove.from] = f <=> folder'[NextMove.to] = f)
    BY <1>6, <1>7 DEF LinkedIsSafe
  <2>1. /\ batch.moves # <<>> /\ NextMove.from # NextMove.to
        /\ \A f \in 1..files :
              f \notin touched => (folder[NextMove.from] = f <=> folder[NextMove.to] = f)
    BY DEF RenameInv, LinkedIsSafe
  <2>2. NextMove.from \in AllNames /\ NextMove.to \in AllNames
    <3>1. batch.moves \in Seq(Moves)
      BY DEF RenameInv, RenameTypes, BatchRecord
    <3>2. NextMove \in Moves
      BY <2>1, <3>1 DEF NextMove
    <3> QED
      BY <3>2 DEF Moves
  <2>3. ASSUME NEW f \in 1..files', f \notin touched'
        PROVE  folder'[NextMove.from] = f <=> folder'[NextMove.to] = f
    <3>1. CASE f \in 1..files
      BY <1>5, <1>6, <2>1, <2>2, <2>3, <3>1
    <3>2. CASE f = files + 1
      <4>1. n # NextMove.from /\ n # NextMove.to
        BY <1>1, <2>3, <3>2
      <4>2. folder'[NextMove.from] <= files /\ folder'[NextMove.to] <= files
        BY <1>2, <1>3, <2>2, <4>1
      <4>3. folder'[NextMove.from] \in Nat /\ folder'[NextMove.to] \in Nat
        BY <1>3, <2>2
      <4> QED
        BY <1>2, <3>2, <4>2, <4>3
    <3> QED
      BY <1>1, <1>2, <3>1, <3>2
  <2> QED
    BY <2>1, <2>3
<1>9. NoFileLost'
  <2> SUFFICES ASSUME NEW f \in 1..files', f \notin touched'
               PROVE  \E x \in AllNames : folder'[x] = f
    BY DEF NoFileLost, NamesOf
  <2>1. CASE f \in 1..files
    <3>1. PICK x \in AllNames : folder[x] = f
      BY <1>6, <2>1 DEF RenameInv, NoFileLost, NamesOf
    <3> QED
      BY <1>5, <2>1, <3>1
  <2>2. CASE f = files + 1
    BY <1>2, <1>3, <2>2
  <2> QED
    BY <1>1, <1>2, <2>1, <2>2
<1> QED
  BY <1>7, <1>8, <1>9 DEF RenameInv

\* Another program removes a name: that it has is remembered.
LEMMA OtherRemovesKeeps ==
  ASSUME RenameInv, OtherRemoves
  PROVE  RenameInv'
<1>1. PICK n \in FileNames :
        /\ folder' = [folder EXCEPT ![n] = 0] /\ touched' = touched \cup {folder[n]}
        /\ UNCHANGED <<files, previews, batch, batches, moveFaults>>
  BY DEF OtherRemoves, Vacant
<1>2. /\ folder \in [AllNames -> Nat] /\ files \in Nat /\ n \in AllNames
      /\ \A x \in AllNames : folder[x] <= files
  BY NameFacts DEF RenameInv, RenameTypes
<1>3. /\ folder' \in [AllNames -> Nat] /\ folder'[n] = 0
      /\ \A x \in AllNames : x # n => folder'[x] = folder[x]
  BY <1>1, <1>2
<1>4. \A x \in AllNames : folder'[x] <= files'
  BY <1>1, <1>2, <1>3
<1>5. \A x \in AllNames, f \in 1..files :
        f \notin touched' => (folder'[x] = f <=> folder[x] = f)
  BY <1>1, <1>2, <1>3
<1>6. touched \subseteq touched' /\ files' = files /\ files <= files' /\ batch' = batch
  BY <1>1, <1>2
<1>7. /\ RenameTypes' /\ BatchListed' /\ MovesInOrder' /\ FilesAreThere'
      /\ NextMove' = NextMove
  BY <1>1, <1>2, <1>3, <1>4, <1>5, <1>6, OthersKeep
<1>8. LinkedIsSafe'
  <2> SUFFICES ASSUME batch.linked
               PROVE  /\ batch.moves # <<>> /\ NextMove.from # NextMove.to
                      /\ \A f \in 1..files : f \notin touched' =>
                            (folder'[NextMove.from] = f <=> folder'[NextMove.to] = f)
    BY <1>6, <1>7 DEF LinkedIsSafe
  <2>1. /\ batch.moves # <<>> /\ NextMove.from # NextMove.to
        /\ \A f \in 1..files :
              f \notin touched => (folder[NextMove.from] = f <=> folder[NextMove.to] = f)
    BY DEF RenameInv, LinkedIsSafe
  <2>2. NextMove.from \in AllNames /\ NextMove.to \in AllNames
    <3>1. batch.moves \in Seq(Moves)
      BY DEF RenameInv, RenameTypes, BatchRecord
    <3>2. NextMove \in Moves
      BY <2>1, <3>1 DEF NextMove
    <3> QED
      BY <3>2 DEF Moves
  <2> QED
    BY <1>5, <1>6, <2>1, <2>2
<1>9. NoFileLost'
  <2> SUFFICES ASSUME NEW f \in 1..files, f \notin touched'
               PROVE  \E x \in AllNames : folder'[x] = f
    BY <1>6 DEF NoFileLost, NamesOf
  <2>1. PICK x \in AllNames : folder[x] = f
    BY <1>6 DEF RenameInv, NoFileLost, NamesOf
  <2> QED
    BY <1>5, <2>1
<1> QED
  BY <1>7, <1>8, <1>9 DEF RenameInv

\* What only changes the previews.
LEMMA PreviewsKeep ==
  ASSUME RenameInv, previews' \in Seq(ItemLists),
         UNCHANGED <<folder, files, batch, batches, touched>>
  PROVE  RenameInv'
<1>1. /\ Under' = Under /\ Done' = Done /\ NextMove' = NextMove
      /\ \A i : /\ From(i)' = From(i) /\ To(i)' = To(i)
                /\ Temp(i)' = Temp(i) /\ Took(i)' = Took(i)
  BY SameList DEF Done, NextMove
<1>2. RenameTypes'
  BY DEF RenameInv, RenameTypes
<1>3. BatchListed'
  BY <1>1 DEF RenameInv, BatchListed
<1>4. LinkedIsSafe'
  BY <1>1 DEF RenameInv, LinkedIsSafe
<1>5. MovesInOrder'
  BY <1>1 DEF RenameInv, MovesInOrder
<1>6. FilesAreThere'
  BY <1>1
     DEF RenameInv, FilesAreThere, FileIsThere, Staged, Renamed, Returns
<1>7. NoFileLost'
  BY DEF RenameInv, NoFileLost, NamesOf
<1> QED
  BY <1>2, <1>3, <1>4, <1>5, <1>6, <1>7 DEF RenameInv

\* What a rule makes of the directory is a list.
LEMMA ListsAreLists == Lists \subseteq ItemLists
<1> SUFFICES ASSUME NEW items \in Lists PROVE items \in ItemLists
  OBVIOUS
<1>1. /\ \E k \in 1..MaxItems : items \in [1..k -> Renames]
      /\ \A i \in 1..Len(items) :
            /\ items[i].to # items[i].from
            /\ \A j \in 1..(i - 1) : items[j].from < items[i].from
  BY DEF Lists, Renames
<1>2. PICK k \in 1..MaxItems : items \in [1..k -> Renames]
  BY <1>1
<1>3. k \in Nat /\ MaxItems \in Nat
  BY RenameAssumption
<1>4. items \in Seq(Renames) /\ Len(items) = k
  BY <1>2, <1>3, TupleIs
<1>5. \A i, j \in 1..Len(items) : j < i => j \in 1..(i - 1)
  BY <1>3, <1>4
<1> QED
  BY <1>1, <1>4, <1>5 DEF ItemLists, Listed

\* A preview is shown, and one is kept if its list can be applied.
LEMMA PreviewKeeps ==
  ASSUME RenameInv, Preview \/ PreviewExpires
  PROVE  RenameInv'
<1>1. previews \in Seq(ItemLists)
  BY DEF RenameInv, RenameTypes
<1>2. previews' \in Seq(ItemLists)
  <2>1. CASE PreviewExpires
    <3>1. previews # <<>> /\ previews' = Tail(previews)
      BY <2>1 DEF PreviewExpires
    <3> QED
      BY <1>1, <3>1
  <2>2. CASE Preview
    <3> DEFINE Same(items)   == {i \in 1..Len(previews) : previews[i] = items}
               Others(items) == IF Same(items) = {} THEN previews
                                ELSE Seqs!RemoveAt(previews, CHOOSE i \in Same(items) : TRUE)
    <3>1. PICK items \in Lists :
            LET all == Append(Others(items), items)
            IN previews' = IF Len(all) > MaxPreviews THEN Tail(all) ELSE all
      BY <2>2 DEF Preview
    <3>2. Others(items) \in Seq(ItemLists)
      <4>1. CASE Same(items) = {}
        BY <1>1, <4>1
      <4>2. CASE Same(items) # {}
        <5>1. (CHOOSE i \in Same(items) : TRUE) \in 1..Len(previews)
          BY <4>2
        <5> HIDE DEF Same
        <5>2. Others(items) = Seqs!RemoveAt(previews, CHOOSE i \in Same(items) : TRUE)
          BY <4>2
        <5> QED
          BY <1>1, <5>1, <5>2, RemoveAtIs
      <4> QED
        BY <4>1, <4>2
    <3> HIDE DEF Others
    <3> DEFINE all == Append(Others(items), items)
    <3>3. all \in Seq(ItemLists) /\ all # <<>>
      BY <3>2, ListsAreLists
    <3>4. previews' = IF Len(all) > MaxPreviews THEN Tail(all) ELSE all
      BY <3>1
    <3> HIDE DEF all
    <3>5. Tail(all) \in Seq(ItemLists)
      BY <3>3
    <3> QED
      BY <3>3, <3>4, <3>5
  <2> QED
    BY <2>1, <2>2
<1>3. UNCHANGED <<folder, files, batch, batches, touched>>
  BY DEF Preview, PreviewExpires
<1> QED
  BY <1>2, <1>3, PreviewsKeep

\* The new names of a list that can be applied are different.
LEMMA ApplicableIs ==
  ASSUME RenameInv, NEW items \in ItemLists, Applicable(items)
  PROVE  /\ \A i \in 1..Len(items) : folder[items[i].from] # 0 /\ folder[items[i].to] = 0
         /\ \A i, j \in 1..Len(items) : i # j => items[i].to # items[j].to
<1>1. /\ \A i \in 1..Len(items) : folder[items[i].from] # 0 /\ folder[items[i].to] = 0
      /\ Cardinality({items[i].to : i \in 1..Len(items)}) = Len(items)
  BY DEF Applicable, Taken, Vacant
<1>2. Len(items) \in Nat
  BY DEF ItemLists
<1> DEFINE S == 1..Len(items)
           T == {items[i].to : i \in S}
           f == [i \in S |-> items[i].to]
<1>3. IsFiniteSet(S) /\ Cardinality(S) = Len(items)
  <2>1. PICK a \in Int, b \in Int : a = 1 /\ b = Len(items) /\ ~(a > b + 1)
    BY <1>2
  <2>2. IsFiniteSet(a..b) /\ Cardinality(a..b) = IF a > b THEN 0 ELSE b - a + 1
    BY FS_Interval
  <2> QED
    BY <1>2, <2>1, <2>2
<1>4. f \in Surjection(S, T)
  BY DEF Surjection
<1>5. Cardinality(T) = Cardinality(S)
  BY <1>1, <1>3
<1> HIDE DEF T
<1>6. f \in Injection(S, T)
  BY <1>3, <1>4, <1>5, FS_Surjection
<1>7. \A i, j \in S : i # j => f[i] # f[j]
  BY <1>6 DEF Injection, IsInjective
<1> QED
  BY <1>1, <1>7

\* A list that is applied begins with the first of its moves.
LEMMA ApplyKeeps ==
  ASSUME RenameInv, ApplyList
  PROVE  RenameInv'
<1>1. PICK p \in 1..Len(previews) :
        /\ previews' = Seqs!RemoveAt(previews, p)
        /\ IF Applicable(previews[p])
           THEN /\ batches' = batches + 1
                /\ batch' = [NoBatch EXCEPT
                               !.pc = "stage", !.number = batches', !.items = previews[p],
                               !.moves = Staging(batches', previews[p]),
                               !.took = [j \in 1..Len(previews[p]) |->
                                            folder[previews[p][j].from]]]
           ELSE UNCHANGED <<batch, batches>>
  BY DEF ApplyList
<1>2. /\ batch.pc = "none" /\ batches < MaxBatches
      /\ UNCHANGED <<folder, files, moveFaults, touched>>
  BY DEF ApplyList
<1>3. /\ previews \in Seq(ItemLists) /\ folder \in [AllNames -> Nat] /\ files \in Nat
      /\ batches \in Nat /\ \A n \in AllNames : folder[n] <= files
  BY DEF RenameInv, RenameTypes
<1>4. previews' \in Seq(ItemLists) /\ previews[p] \in ItemLists
  BY <1>1, <1>3, RemoveAtIs
<1>5. CASE ~Applicable(previews[p])
  BY <1>1, <1>2, <1>4, <1>5, PreviewsKeep
<1>6. CASE Applicable(previews[p])
  <2>1. PICK items \in ItemLists : items = previews[p]
    BY <1>4
  <2>2. MaxBatches \in Nat /\ MaxItems \in Nat
    BY RenameAssumption
  <2>3. PICK n \in 1..MaxBatches : n = batches'
    BY <1>1, <1>2, <1>3, <1>6, <2>2
  <2>4. /\ items \in Seq(Renames) /\ Len(items) \in 1..MaxItems /\ Len(items) \in Nat
    BY <2>2 DEF ItemLists, Listed
  <2>5. /\ \A i \in 1..Len(items) : folder[items[i].from] # 0 /\ folder[items[i].to] = 0
        /\ \A i, j \in 1..Len(items) : i # j => items[i].to # items[j].to
    BY <1>6, <2>1, ApplicableIs
  <2> DEFINE took == [j \in 1..Len(items) |-> folder[items[j].from]]
             moves == Staging(n, items)
  <2>6. ASSUME NEW i \in 1..Len(items)
        PROVE  items[i].from \in AllNames /\ took[i] \in 1..files /\ took[i] = folder[items[i].from]
    <3>1. items[i] \in Renames
      BY <2>4
    <3>2. items[i].from \in AllNames
      BY <3>1, NameFacts DEF Renames
    <3> QED
      BY <1>3, <2>5, <3>2
  <2>7. /\ moves \in Seq(Moves) /\ Len(moves) = Len(items)
        /\ \A i \in 1..Len(items) : moves[i] = [from |-> items[i].from, to |-> Temporary(n, i)]
    BY PhasesAre
  <2>8. took \in [1..Len(items) -> Nat]
    BY <1>3, <2>6
  <2>9. took \in Seq(Nat) /\ Len(took) = Len(items)
    BY <2>4, <2>8, TupleIs
  <2>10. batch' = [pc |-> "stage", number |-> n, items |-> items, moves |-> moves,
                   linked |-> FALSE, kept |-> FALSE, took |-> took]
    <3>1. batch' = [NoBatch EXCEPT !.pc = "stage", !.number = n, !.items = items,
                                   !.moves = moves, !.took = took]
      BY <1>1, <1>6, <2>1, <2>3
    <3> HIDE DEF moves, took
    <3> QED
      BY <3>1 DEF NoBatch
  <2> HIDE DEF took, moves
  <2>11. /\ batch'.pc = "stage" /\ batch'.number = n /\ batch'.items = items
         /\ batch'.moves = moves /\ ~batch'.linked /\ batch'.took = took
         /\ batch' \in BatchRecord
    BY <2>2, <2>4, <2>7, <2>9, <2>10 DEF BatchRecord, Pcs
  <2>12. /\ Under' = Len(items) /\ Done' = 0
         /\ \A i : /\ From(i)' = items[i].from /\ To(i)' = items[i].to
                   /\ Temp(i)' = Temporary(n, i) /\ Took(i)' = took[i]
    BY <2>4, <2>7, <2>11 DEF Under, Done, From, To, Temp, Took
  <2>13. RenameTypes'
    <3>1. batches' \in Nat /\ batches' <= MaxBatches
      BY <2>2, <2>3
    <3> QED
      BY <1>2, <1>3, <1>4, <2>11, <3>1 DEF RenameTypes
  <2>14. BatchListed'
    <3>1. \A i, j \in 1..Len(items) : items[i].to # items[j].from
      BY <2>5
    <3>2. \A i, j \in 1..Under' : To(i)' # From(j)' /\ (i # j => To(i)' # To(j)')
      BY <2>5, <2>12, <3>1
    <3>3. Len(batch'.took) = Under' /\ \A i \in 1..Under' : Took(i)' \in 1..files
      BY <2>6, <2>9, <2>11, <2>12
    <3> QED
      BY <1>2, <2>11, <3>2, <3>3 DEF BatchListed
  <2>15. LinkedIsSafe'
    BY <2>11 DEF LinkedIsSafe
  <2>16. MovesInOrder'
    <3>1. ASSUME NEW j \in 1..Len(items), NEW i \in 1..Len(items), i = 0 + j
          PROVE  moves[j] = [from |-> items[i].from, to |-> Temporary(n, i)]
      <4>1. i = j
        BY <3>1
      <4> QED
        BY <2>7, <4>1
    <3>2. Len(moves) \in 1..Len(items)
      BY <2>4, <2>7
    <3> QED
      BY <2>7, <2>11, <2>12, <3>1, <3>2 DEF MovesInOrder
  <2>17. FilesAreThere'
    <3>1. \A i \in 1..Len(items) : ~(i <= 0) /\ folder'[items[i].from] = took[i]
      BY <1>2, <2>4, <2>6
    <3> QED
      BY <2>11, <2>12, <3>1 DEF FilesAreThere, FileIsThere
  <2>18. NoFileLost'
    BY <1>2 DEF RenameInv, NoFileLost, NamesOf
  <2> QED
    BY <2>13, <2>14, <2>15, <2>16, <2>17, <2>18 DEF RenameInv
<1> QED
  BY <1>5, <1>6

\* An application that is given up stays as far as it is.
LEMMA NoTemporaryKeeps ==
  ASSUME RenameInv, NoTemporary
  PROVE  RenameInv'
<1>1. /\ batch.pc = "stage" /\ ~batch.linked /\ batch' = [batch EXCEPT !.pc = "abandoned"]
      /\ UNCHANGED <<folder, files, previews, batches, touched>>
  BY DEF NoTemporary
<1>2. /\ batch' \in BatchRecord /\ batch'.pc = "abandoned" /\ ~batch'.linked
      /\ batch'.items = batch.items /\ batch'.number = batch.number
      /\ batch'.took = batch.took /\ batch'.moves = batch.moves
  BY <1>1 DEF RenameInv, RenameTypes, BatchRecord, Pcs
<1>3. /\ Under' = Under /\ Done' = Done
      /\ \A i : /\ From(i)' = From(i) /\ To(i)' = To(i)
                /\ Temp(i)' = Temp(i) /\ Took(i)' = Took(i)
  BY <1>2, SameList DEF Done
<1>4. RenameTypes'
  BY <1>1, <1>2 DEF RenameInv, RenameTypes
<1>5. BatchListed'
  BY <1>1, <1>2, <1>3 DEF RenameInv, BatchListed
<1>6. LinkedIsSafe' /\ MovesInOrder'
  BY <1>2 DEF LinkedIsSafe, MovesInOrder
<1>7. FilesAreThere'
  BY <1>1, <1>2, <1>3 DEF RenameInv, FilesAreThere, FileIsThere, Staged
<1>8. NoFileLost'
  BY <1>1 DEF RenameInv, NoFileLost, NamesOf
<1> QED
  BY <1>4, <1>5, <1>6, <1>7, <1>8 DEF RenameInv

\* An application ends with its answer, or with the process.
LEMMA EndKeeps ==
  ASSUME RenameInv, Answer \/ RenameCrash
  PROVE  RenameInv'
<1>1. /\ batch' = NoBatch /\ UNCHANGED <<folder, files, batches, touched>>
      /\ previews' = previews \/ previews' = <<>>
  BY DEF Answer, RenameCrash
<1>2. NoBatch \in BatchRecord /\ NoBatch.pc = "none" /\ ~NoBatch.linked
  BY DEF NoBatch, BatchRecord, Pcs
<1>3. RenameTypes'
  <2>1. previews' \in Seq(ItemLists)
    <3>1. previews \in Seq(ItemLists) /\ <<>> \in Seq(ItemLists)
      BY DEF RenameInv, RenameTypes
    <3> QED
      BY <1>1, <3>1
  <2>2. batch' \in BatchRecord /\ ~batch'.linked
    BY <1>1, <1>2
  <2> QED
    BY <1>1, <2>1, <2>2 DEF RenameInv, RenameTypes
<1>4. BatchListed' /\ LinkedIsSafe' /\ MovesInOrder' /\ FilesAreThere'
  BY <1>1, <1>2 DEF BatchListed, LinkedIsSafe, MovesInOrder, FilesAreThere
<1>5. NoFileLost'
  BY <1>1 DEF RenameInv, NoFileLost, NamesOf
<1> QED
  BY <1>3, <1>4, <1>5 DEF RenameInv

-----------------------------------------------------------------------------
(* The invariant *)

\* It holds of a directory nothing has been renamed in.
LEMMA RenameStarts == RenameInit => RenameInv
<1> SUFFICES ASSUME RenameInit PROVE RenameInv
  OBVIOUS
<1>1. /\ files = LastName - 1 /\ folder = [n \in AllNames |-> IF n \in 1..files THEN n ELSE 0]
      /\ previews = <<>> /\ batch = NoBatch /\ batches = 0
  BY DEF RenameInit, Vacant
<1>2. LastName \in Nat \ {0} /\ MaxBatches \in Nat
  BY RenameAssumption
<1>3. NoBatch \in BatchRecord /\ NoBatch.pc = "none" /\ ~NoBatch.linked
  BY DEF NoBatch, BatchRecord, Pcs
<1>4. files \in Nat /\ \A n \in 1..files : n \in Nat /\ n \in FileNames
  BY <1>1, <1>2 DEF FileNames
<1>5. /\ folder \in [AllNames -> Nat] /\ \A n \in AllNames : folder[n] <= files
      /\ \A n \in 1..files : n \in AllNames /\ folder[n] = n
  BY <1>1, <1>4, NameFacts
<1>6. RenameTypes
  BY <1>1, <1>2, <1>3, <1>4, <1>5 DEF RenameTypes
<1>7. BatchListed /\ LinkedIsSafe /\ MovesInOrder /\ FilesAreThere
  BY <1>1, <1>3 DEF BatchListed, LinkedIsSafe, MovesInOrder, FilesAreThere
<1>8. NoFileLost
  BY <1>5 DEF NoFileLost, NamesOf
<1> QED
  BY <1>6, <1>7, <1>8 DEF RenameInv

\* Every step keeps it.
LEMMA RenameStep == RenameInv /\ [RenameNext]_renameVars => RenameInv'
<1> SUFFICES ASSUME RenameInv, [RenameNext]_renameVars PROVE RenameInv'
  OBVIOUS
<1>1. CASE Preview \/ PreviewExpires
  BY <1>1, PreviewKeeps
<1>2. CASE ApplyList
  BY <1>2, ApplyKeeps
<1>3. CASE LinkMove
  <2>1. Moving /\ UNCHANGED <<files, previews, batches, touched>>
    BY <1>3 DEF LinkMove
  <2>2. CASE Failed /\ folder' = folder
    BY <2>1, <2>2, FailKeeps
  <2>3. CASE /\ Taken(NextMove.from) /\ ~Taken(NextMove.to)
             /\ folder' = [folder EXCEPT ![NextMove.to] = folder[NextMove.from]]
             /\ batch' = [batch EXCEPT !.linked = TRUE]
    BY <2>1, <2>3, LinkKeeps
  <2> QED
    BY <1>3, <2>2, <2>3 DEF LinkMove
<1>4. CASE UnlinkMove
  <2>1. Moving /\ batch.linked /\ UNCHANGED <<files, previews, batches, touched>>
    BY <1>4 DEF UnlinkMove
  <2>2. CASE Failed /\ folder' \in {folder, [folder EXCEPT ![NextMove.to] = Vacant]}
    BY <2>1, <2>2, FailKeeps
  <2>3. CASE /\ Taken(NextMove.from) /\ Moved
             /\ folder' = [folder EXCEPT ![NextMove.from] = Vacant]
    BY <2>1, <2>3, UnlinkKeeps
  <2> QED
    BY <1>4, <2>2, <2>3 DEF UnlinkMove
<1>5. CASE Answer \/ RenameCrash
  BY <1>5, EndKeeps
<1>9. CASE NoTemporary
  BY <1>9, NoTemporaryKeeps
<1>6. CASE OtherCreates
  BY <1>6, OtherCreatesKeeps
<1>7. CASE OtherRemoves
  BY <1>7, OtherRemovesKeeps
<1>8. CASE UNCHANGED renameVars
  <2>1. previews' \in Seq(ItemLists)
    BY <1>8 DEF renameVars, RenameInv, RenameTypes
  <2> QED
    BY <1>8, <2>1, PreviewsKeep DEF renameVars
<1> QED
  BY <1>1, <1>2, <1>3, <1>4, <1>5, <1>6, <1>7, <1>8, <1>9 DEF RenameNext

\* No file of the directory is lost, however many lists are applied, whichever calls
\* fail, and wherever the process ends (apply_batch_rename).
THEOREM NoFileIsLost == RenameSpec => []NoFileLost
<1>1. RenameInv => NoFileLost
  BY DEF RenameInv
<1> QED
  BY RenameStarts, RenameStep, <1>1, PTL DEF RenameSpec

\* What an application answers of its files is so.
THEOREM AnswersAreTrue == RenameSpec => []AnswerIsTrue
<1>1. RenameInv => AnswerIsTrue
  <2> SUFFICES ASSUME RenameInv, batch.pc \in {"ok", "rolled back", "abandoned"},
                      NEW i \in 1..Len(batch.items), batch.took[i] \notin touched
               PROVE  /\ batch.pc = "ok" =>
                           NamesOf(batch.took[i])
                             \cap {batch.items[i].from, batch.items[i].to,
                                   Temporary(batch.number, i)} = {batch.items[i].to}
                      /\ batch.pc = "rolled back" =>
                           batch.items[i].from \in NamesOf(batch.took[i])
                      /\ batch.pc = "abandoned" =>
                           IF i <= Len(batch.items) - Len(batch.moves)
                           THEN NamesOf(batch.took[i])
                                  \cap {batch.items[i].from, Temporary(batch.number, i)}
                                    = {Temporary(batch.number, i)}
                           ELSE batch.items[i].from \in NamesOf(batch.took[i])
    BY DEF AnswerIsTrue
  <2>1. FileIsThere(i)
    BY DEF RenameInv, FilesAreThere, Under, Took
  <2>2. From(i) \in AllNames /\ To(i) \in AllNames /\ Temp(i) \in AllNames
    <3>1. i \in 1..Under
      BY DEF Under
    <3> QED
      BY <3>1, NamesAre, NameFacts
  <2>3. batch.pc = "ok" => NamesOf(Took(i)) \cap {From(i), To(i), Temp(i)} = {To(i)}
    <3> SUFFICES ASSUME batch.pc = "ok" 
                 PROVE  NamesOf(Took(i)) \cap {From(i), To(i), Temp(i)} = {To(i)}
      OBVIOUS
    <3>1. Renamed(i)
      BY <2>1 DEF FileIsThere
    <3> QED
      BY <2>2, <3>1 DEF Renamed, NamesOf
  <2>4. batch.pc = "rolled back" => From(i) \in NamesOf(Took(i))
    BY <2>1, <2>2 DEF FileIsThere, NamesOf
  <2>5. batch.pc = "abandoned" =>
          IF i <= Done THEN NamesOf(Took(i)) \cap {From(i), Temp(i)} = {Temp(i)}
                       ELSE From(i) \in NamesOf(Took(i))
    BY <2>1, <2>2 DEF FileIsThere, Staged, NamesOf
  <2> QED
    BY <2>3, <2>4, <2>5 DEF From, To, Temp, Took, Done, Under
<1> QED
  BY RenameStarts, RenameStep, <1>1, PTL DEF RenameSpec
===============================================================================
