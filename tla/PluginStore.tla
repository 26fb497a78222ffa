---------------------------- MODULE PluginStore ----------------------------
(***************************************************************************)
(* The plugin store of plugins.rs: one directory per plugin, the record of *)
(* which plugins are switched off, and the record of development links.    *)
(* install_lock lets one operation at a time change them; each is a        *)
(* sequence of renames, any of which may fail, and the process may end     *)
(* between two of them.                                                    *)
(***************************************************************************)
EXTENDS Naturals, FiniteSets

CONSTANTS
    Plugins, NoPlugin,
    MaxVersion,     \* versions a source has
    MaxFaults       \* failing calls within one operation

ASSUME StoreAssumption ==
    /\ NoPlugin \notin Plugins
    /\ MaxVersion \in Nat \ {0} /\ MaxFaults \in Nat

VARIABLES
    dir,        \* the directory of each plugin
    file,       \* the two records
    op,         \* the operation that holds install_lock
    life        \* the process: the other number when it has started again

storeVars == <<dir, file, op, life>>

-----------------------------------------------------------------------------
(* Directories and records *)

\* A directory may have lost some files ("broken"), its source lock with them
\* ("unlocked"), or its manifest ("bare").
DirStates == {"none", "whole", "broken", "unlocked", "bare"}
Dirs      == [state : DirStates, ver : 0..MaxVersion]
NoDir     == [state |-> "none", ver |-> 0]
Pieces(d) == {[d EXCEPT !.state = s] : s \in {"broken", "unlocked", "bare"}} \cup {d}

\* A record that is missing reads like an empty one.
NoFile     == [there |-> FALSE, of |-> {}]
Written(S) == [there |-> TRUE, of |-> S]
Off        == file["lifecycle"].of
Linked     == file["links"].of

\* What may run for p: the linked project, or the snapshot, whose integrity is
\* checked where there is a lock to check it against.
Resolves(p) == p \in Linked \/ dir[p].state \in {"whole", "unlocked"}

NoOp == [kind |-> "none", pc |-> "idle", plugin |-> NoPlugin, ver |-> 0, faults |-> 0,
         aside |-> NoDir, which |-> "lifecycle", new |-> {}, backup |-> NoFile, then |-> "end",
         dir |-> NoDir, off |-> {}, linked |-> {}]

-----------------------------------------------------------------------------
(* Operations begin under the lock, after every check that can refuse them *)

Begin(kind, pc, p, v, which, new) ==
    /\ op = NoOp
    /\ op' = [NoOp EXCEPT !.kind = kind, !.pc = pc, !.plugin = p, !.ver = v,
                          !.which = which, !.new = new,
                          !.then = IF kind = "uninstall" THEN "remove" ELSE "end",
                          !.dir = dir[p], !.off = Off, !.linked = Linked]
    /\ UNCHANGED <<dir, file>>

Install(p, v) ==
    /\ p \notin Linked /\ dir[p] = NoDir
    /\ Begin("install", "swap", p, v, "lifecycle", Off \ {p})

Update(p, v) ==
    /\ p \notin Linked /\ dir[p].state = "whole" /\ v # dir[p].ver
    /\ Begin("update", "aside", p, v, "lifecycle", {})

Uninstall(p) ==
    /\ p \notin Linked /\ dir[p].state \in {"whole", "broken"}
    /\ Begin("uninstall", "aside", p, 0, "lifecycle", Off \ {p})

SetEnabled(p) ==
    /\ Resolves(p)
    /\ \E S \in {Off \ {p}, Off \cup {p}} : Begin("enable", "write", p, 0, "lifecycle", S)

Link(p) == Begin("link", "write", p, 0, "links", Linked \cup {p})

Unlink(p) ==
    /\ p \in Linked
    /\ Begin("link", "write", p, 0, "links", Linked \ {p})

-----------------------------------------------------------------------------
(* Their steps *)

OpAt(pc) == op.pc = pc
Goto(pc) == op' = [op EXCEPT !.pc = pc]
Fails(n) == op.faults + n <= MaxFaults
Placed(d) == dir' = [dir EXCEPT ![op.plugin] = d]

\* Putting a directory back may fail as well.
Restored(faults) ==
    \/ Fails(faults) /\ Placed(op.aside)
    \/ Fails(faults + 1) /\ UNCHANGED dir

Ends == op' = NoOp

MoveAside ==
    /\ OpAt("aside")
    /\ \/ /\ Placed(NoDir)
          /\ op' = [op EXCEPT !.aside = dir[op.plugin],
                              !.pc = IF op.kind = "update" THEN "swap" ELSE "write"]
       \/ Fails(1) /\ Ends /\ UNCHANGED dir
    /\ UNCHANGED file

\* Mutant: an update that fails does not put the old snapshot back.
SwapForgetful ==
    /\ OpAt("swap")
    /\ \/ /\ Placed([state |-> "whole", ver |-> op.ver])
          /\ IF op.kind = "install" THEN Goto("write") ELSE Ends
       \/ Fails(1) /\ Ends /\ UNCHANGED dir
    /\ UNCHANGED file

\* The staged snapshot takes its place; an import goes on to the record.
Swap ==
    /\ OpAt("swap")
    /\ \/ /\ Placed([state |-> "whole", ver |-> op.ver])
          /\ IF op.kind = "install" THEN Goto("write") ELSE Ends
       \/ /\ IF op.kind = "update" THEN Restored(1) ELSE Fails(1) /\ UNCHANGED dir
          /\ Ends
    /\ UNCHANGED file

\* What follows a record that could not be written.  A removal puts the plugin
\* back; one that was undoing itself goes on.
WriteFails(faults) ==
    \/ op.then = "end" /\ Fails(faults) /\ Ends /\ UNCHANGED dir
    \/ op.then = "remove" /\ Restored(faults) /\ Ends
    \/ /\ op.then = "putback" /\ Fails(faults)
       /\ op' = [op EXCEPT !.pc = "putback", !.faults = @ + faults]
       /\ UNCHANGED dir

\* write_lifecycle_store and write_local_links: the old record is moved to a
\* backup first, if there is one.
WriteRecord ==
    /\ OpAt("write")
    /\ \/ /\ file' = [file EXCEPT ![op.which] = NoFile]
          /\ op' = [op EXCEPT !.pc = "promote", !.backup = file[op.which]]
          /\ UNCHANGED dir
       \/ WriteFails(1) /\ UNCHANGED file

\* Then the staged one takes its place, or the backup goes back.
PromoteRecord ==
    /\ OpAt("promote")
    /\ \/ /\ file' = [file EXCEPT ![op.which] = Written(op.new)]
          /\ IF op.then = "end" THEN Ends ELSE Goto(op.then)
          /\ UNCHANGED dir
       \/ /\ file' = [file EXCEPT ![op.which] = op.backup]
          /\ WriteFails(1)
       \/ WriteFails(2) /\ UNCHANGED file

\* A removal that fails may have removed a part; the record is written back.
RemoveAside ==
    /\ OpAt("remove")
    /\ \/ Ends
       \/ /\ Fails(1)
          /\ \E d \in Pieces(op.aside) :
               op' = [op EXCEPT !.pc = "write", !.aside = d, !.new = op.off,
                                !.then = "putback", !.faults = @ + 1]
    /\ UNCHANGED <<dir, file>>

PutBack ==
    /\ OpAt("putback")
    /\ Restored(0) /\ Ends
    /\ UNCHANGED file

OpStep == MoveAside \/ Swap \/ WriteRecord \/ PromoteRecord \/ RemoveAside \/ PutBack

-----------------------------------------------------------------------------
(* The end of the process *)

\* Nothing that is left behind is looked at when the process starts again.
Crash ==
    /\ op # NoOp
    /\ op' = NoOp /\ life' = 1 - life
    /\ UNCHANGED <<dir, file>>

StoreInit ==
    /\ dir = [p \in Plugins |-> NoDir]
    /\ file = [w \in {"lifecycle", "links"} |-> NoFile]
    /\ op = NoOp /\ life = 0

OpBegins(p) ==
    \/ Uninstall(p) \/ SetEnabled(p) \/ Link(p) \/ Unlink(p)
    \/ \E v \in 1..MaxVersion : Install(p, v) \/ Update(p, v)

StoreNext ==
    \/ Crash
    \/ OpStep /\ UNCHANGED life
    \/ (\E p \in Plugins : OpBegins(p)) /\ UNCHANGED life

StoreSpec == StoreInit /\ [][StoreNext]_storeVars

-----------------------------------------------------------------------------
(* Properties *)

OpType ==
    [kind : {"none", "install", "update", "uninstall", "enable", "link"},
     pc : {"idle", "aside", "swap", "write", "promote", "remove", "putback"},
     plugin : Plugins \cup {NoPlugin}, ver : 0..MaxVersion, faults : Nat,
     aside : Dirs, which : {"lifecycle", "links"}, new : SUBSET Plugins,
     backup : [there : BOOLEAN, of : SUBSET Plugins], then : {"end", "remove", "putback"},
     dir : Dirs, off : SUBSET Plugins, linked : SUBSET Plugins]

\* While an operation holds a snapshot aside (plugins.rs:1328 and 1678) nothing
\* is in its place, so that it can be put back, whatever has failed before.
StoreTypeOK ==
    /\ dir \in [Plugins -> Dirs] /\ life \in {0, 1}
    /\ file \in [{"lifecycle", "links"} -> [there : BOOLEAN, of : SUBSET Plugins]]
    /\ op \in OpType /\ op.faults <= MaxFaults
    /\ op.aside # NoDir => dir[op.plugin] = NoDir

\* To its callers an operation takes place when it ends.
Before(p)  == IF op.plugin = p /\ op # NoOp THEN op.dir ELSE dir[p]
Versions   == [p \in Plugins |-> Before(p).ver]
Damaged    == {p \in Plugins : Before(p).state \in {"broken", "unlocked", "bare"}}
OffNow     == IF op # NoOp THEN op.off ELSE Off
LinkedNow  == IF op # NoOp THEN op.linked ELSE Linked
Registry   == INSTANCE PluginRegistry WITH
    version <- Versions, damaged <- Damaged, disabled <- OffNow, linked <- LinkedNow

\* install, update, uninstall, link and the lifecycle switch (plugins.rs) are
\* all-or-nothing: with one failing call in each they come out as the operation
\* asked for or as if it had not been asked, except where the registry says so.
ImplementsRegistry == Registry!RegistrySpec
=============================================================================
