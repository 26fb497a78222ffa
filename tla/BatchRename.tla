----------------------------- MODULE BatchRename -----------------------------
(***************************************************************************)
(* The batch rename of the host (builtin_tools.rs): a preview is kept for  *)
(* a while, and the same list can be applied once.  Every file is moved to *)
(* a temporary name and from there to its new one; a move makes a second   *)
(* name and removes the first, so that it never replaces a file.  When one *)
(* fails, those before it are taken back; when no temporary name can be    *)
(* had, they are not.  One list is applied at a time.                      *)
(***************************************************************************)
EXTENDS Naturals, Sequences, FiniteSets

CONSTANTS
    LastName,       \* names in the directory, numbers in their order
    MaxFiles,       \* files that ever exist
    MaxBatches,     \* lists applied altogether
    MaxItems,       \* MAX_BATCH_RENAME_ITEMS
    MaxPreviews,    \* previews kept (24)
    MaxMoveFaults   \* calls of the file system that fail by themselves

ASSUME RenameAssumption ==
    /\ LastName \in Nat \ {0}
    /\ {MaxFiles, MaxBatches, MaxItems, MaxPreviews, MaxMoveFaults} \subseteq Nat

Seqs == INSTANCE SequencesExt

VARIABLES
    folder,         \* the file each name leads to
    files,          \* files so far
    previews,       \* the previews kept, the oldest first
    batch,          \* the application in progress
    batches,        \* lists applied so far
    moveFaults,     \* calls that have failed by themselves
    touched         \* history: files other programs have removed, or have put under
                    \* a name that a move has linked and is about to remove

renameVars == <<folder, files, previews, batch, batches, moveFaults, touched>>

Vacant == 0

FileNames == 1..LastName

\* .ihub-rename-<operation>-<index>.tmp: no operation uses the names of another.
Temporary(n, i) == LastName + (n - 1) * MaxItems + i
TemporaryNames == {Temporary(n, i) : n \in 1..MaxBatches, i \in 1..MaxItems}
AllNames == FileNames \cup TemporaryNames
Taken(n) == folder[n] # Vacant
NamesOf(f) == {n \in AllNames : folder[n] = f}

\* moves: what is still to do, each from one name to another; linked: the first of
\* them has made its second name.  took: history, the file of each item.
NoBatch == [pc |-> "none", number |-> 0, items |-> <<>>, moves |-> <<>>, linked |-> FALSE,
            kept |-> FALSE, took |-> <<>>]

-----------------------------------------------------------------------------
(* Previews *)

\* What a rule makes of the directory: the files it changes, in the order of
\* their names.
Lists ==
    {items \in UNION {[1..k -> [from : FileNames, to : FileNames]] : k \in 1..MaxItems} :
        \A i \in 1..Len(items) :
            /\ Taken(items[i].from) /\ items[i].to # items[i].from
            /\ \A j \in 1..(i - 1) : items[j].from < items[i].from}

\* validate_preview_destinations, validate_batch_for_apply
Applicable(items) ==
    /\ Cardinality({items[i].to : i \in 1..Len(items)}) = Len(items)
    /\ \A i \in 1..Len(items) : Taken(items[i].from) /\ ~Taken(items[i].to)

\* A list that cannot be applied is shown and not kept; one that can is kept once.
Preview ==
    \E items \in Lists :
        /\ Applicable(items)
        /\ LET same   == {i \in 1..Len(previews) : previews[i] = items}
               others == IF same = {} THEN previews
                         ELSE Seqs!RemoveAt(previews, CHOOSE i \in same : TRUE)
               all    == Append(others, items)
           IN previews' = IF Len(all) > MaxPreviews THEN Tail(all) ELSE all
        /\ UNCHANGED <<folder, files, batch, batches, moveFaults, touched>>

PreviewExpires ==
    /\ previews # <<>> /\ previews' = Tail(previews)
    /\ UNCHANGED <<folder, files, batch, batches, moveFaults, touched>>

-----------------------------------------------------------------------------
(* apply_batch_rename *)

Staging(n, items)    == [i \in 1..Len(items) |-> [from |-> items[i].from, to |-> Temporary(n, i)]]
Finalizing(n, items) == [i \in 1..Len(items) |-> [from |-> Temporary(n, i), to |-> items[i].to]]
Undo(moves) == Seqs!Reverse([i \in 1..Len(moves) |-> [from |-> moves[i].to, to |-> moves[i].from]])

\* The preview is used up, whatever becomes of the list.
ApplyList ==
    /\ batch.pc = "none" /\ batches < MaxBatches
    /\ \E i \in 1..Len(previews) :
         LET items == previews[i]
         IN /\ previews' = Seqs!RemoveAt(previews, i)
            /\ IF Applicable(items)
               THEN /\ batches' = batches + 1
                    /\ batch' = [NoBatch EXCEPT
                                    !.pc = "stage", !.number = batches', !.items = items,
                                    !.moves = Staging(batches', items),
                                    !.took = [j \in 1..Len(items) |-> folder[items[j].from]]]
               ELSE UNCHANGED <<batch, batches>>
    /\ UNCHANGED <<folder, files, moveFaults, touched>>

\* Mutant: the files that still have temporary names are forgotten.
RollbackFinal(b) ==
    LET done == Len(b.items) - Len(b.moves)
    IN IF b.pc = "stage"
       THEN Undo(SubSeq(Staging(b.number, b.items), 1, done))
       ELSE Seqs!Reverse([i \in 1..done |-> [from |-> b.items[i].to, to |-> b.items[i].from]])

\* rollback_staging and rollback_finalizing go through the moves made so far from
\* the last to the first; of the second phase, those to the new names come first.
Rollback(b) ==
    LET staging == Staging(b.number, b.items)
        done    == Len(b.items) - Len(b.moves)
    IN IF b.pc = "stage"
       THEN Undo(SubSeq(staging, 1, done))
       ELSE Seqs!Reverse([i \in 1..done |-> [from |-> b.items[i].to, to |-> b.items[i].from]])
            \o Undo(SubSeq(staging, done + 1, Len(staging)))

\* The moves of a phase are over, or one of them has failed: a failed move of the
\* rollback is noted, and the next one is made.
Settled(b) ==
    IF b.moves # <<>> THEN b
    ELSE CASE b.pc = "stage" -> [b EXCEPT !.pc = "final", !.moves = Finalizing(b.number, b.items)]
           [] b.pc = "final" -> [b EXCEPT !.pc = "ok"]
           [] b.pc = "back"  -> [b EXCEPT !.pc = IF b.kept THEN "incomplete" ELSE "rolled back"]

Goes(b) == batch' = Settled([b EXCEPT !.linked = FALSE])
Moved  == Goes([batch EXCEPT !.moves = Tail(@)])
Failed ==
    IF batch.pc = "back"
    THEN Goes([batch EXCEPT !.moves = Tail(@), !.kept = TRUE])
    ELSE Goes([batch EXCEPT !.pc = "back", !.moves = Rollback(batch)])

MoveFault == moveFaults < MaxMoveFaults /\ moveFaults' = moveFaults + 1
Moving == batch.pc \in {"stage", "final", "back"}
NextMove == Head(batch.moves)

\* temporary_path, before each move of the first phase: a name cannot be looked at, or
\* a hundred are taken.  The error leaves rename_batch at once: nothing is taken back,
\* and the files moved so far keep their temporary names.
NoTemporary ==
    /\ batch.pc = "stage" /\ ~batch.linked /\ MoveFault
    /\ batch' = [batch EXCEPT !.pc = "abandoned"]
    /\ UNCHANGED <<folder, files, previews, batches, touched>>

\* Mutant: fs::rename, which replaces a file that has the new name by now.
LinkOver ==
    /\ Moving /\ ~batch.linked
    /\ LET m == NextMove
       IN \/ /\ Taken(m.from)
             /\ folder' = [folder EXCEPT ![m.to] = folder[m.from]]
             /\ batch' = [batch EXCEPT !.linked = TRUE]
             /\ UNCHANGED moveFaults
          \/ /\ Failed /\ UNCHANGED folder
             /\ IF Taken(m.from) THEN MoveFault ELSE UNCHANGED moveFaults
    /\ UNCHANGED <<files, previews, batches, touched>>

\* fs::hard_link fails when there is no source or the destination exists.
LinkMove ==
    /\ Moving /\ ~batch.linked
    /\ LET m == NextMove
       IN \/ /\ Taken(m.from) /\ ~Taken(m.to)
             /\ folder' = [folder EXCEPT ![m.to] = folder[m.from]]
             /\ batch' = [batch EXCEPT !.linked = TRUE]
             /\ UNCHANGED moveFaults
          \/ /\ Failed /\ UNCHANGED folder
             /\ IF Taken(m.from) /\ ~Taken(m.to) THEN MoveFault ELSE UNCHANGED moveFaults
    /\ UNCHANGED <<files, previews, batches, touched>>

\* fs::remove_file of the source; when it fails, of the second name again, and
\* that may fail too.
UnlinkMove ==
    /\ Moving /\ batch.linked
    /\ LET m == NextMove
       IN \/ /\ Taken(m.from)
             /\ folder' = [folder EXCEPT ![m.from] = Vacant]
             /\ Moved /\ UNCHANGED moveFaults
          \/ /\ IF Taken(m.from) THEN MoveFault ELSE UNCHANGED moveFaults
             /\ folder' \in {folder, [folder EXCEPT ![m.to] = Vacant]}
             /\ Failed
    /\ UNCHANGED <<files, previews, batches, touched>>

Answer ==
    /\ batch.pc \in {"ok", "rolled back", "incomplete", "abandoned"}
    /\ batch' = NoBatch
    /\ UNCHANGED <<folder, files, previews, batches, moveFaults, touched>>

-----------------------------------------------------------------------------
(* The end of the process, and other programs *)

RenameCrash ==
    /\ batch.pc # "none"
    /\ batch' = NoBatch /\ previews' = <<>>
    /\ UNCHANGED <<folder, files, batches, moveFaults, touched>>

OtherCreates ==
    \E n \in FileNames :
        /\ ~Taken(n) /\ files < MaxFiles
        /\ files' = files + 1 /\ folder' = [folder EXCEPT ![n] = files']
        /\ touched' = touched \cup IF batch.linked /\ n \in {NextMove.from, NextMove.to}
                                  THEN {files'} ELSE {}
        /\ UNCHANGED <<previews, batch, batches, moveFaults>>

OtherRemoves ==
    \E n \in FileNames :
        /\ Taken(n) /\ folder' = [folder EXCEPT ![n] = Vacant]
        /\ touched' = touched \cup {folder[n]}
        /\ UNCHANGED <<files, previews, batch, batches, moveFaults>>

-----------------------------------------------------------------------------

\* A file under each name but the last.
RenameInit ==
    /\ files = LastName - 1
    /\ folder = [n \in AllNames |-> IF n \in 1..files THEN n ELSE Vacant]
    /\ previews = <<>> /\ batch = NoBatch /\ batches = 0
    /\ moveFaults = 0 /\ touched = {}

RenameNext ==
    \/ Preview \/ PreviewExpires
    \/ ApplyList \/ NoTemporary \/ LinkMove \/ UnlinkMove \/ Answer
    \/ RenameCrash \/ OtherCreates \/ OtherRemoves

RenameSpec == RenameInit /\ [][RenameNext]_renameVars

-----------------------------------------------------------------------------

\* No file of the directory is lost, whichever call fails and wherever the process
\* ends: it has a name, unless other programs have removed it, or have put it under
\* a name that a move has linked (the move removes whatever has the name then,
\* builtin_tools.rs:932).
NoFileLost ==
    \A f \in 1..files : NamesOf(f) # {} \/ f \in touched

\* What an application answers is so, as far as no other program has removed the file:
\* "ok" has moved every file to its new name, and "The completed changes were rolled
\* back" (builtin_tools.rs:957) leaves each under its old one.  The error of a temporary
\* name that cannot be had speaks of no rollback, and there is none: the files before
\* it have their temporary names only, those after it their old ones.
AnswerIsTrue ==
    \A i \in 1..Len(batch.items) :
        LET f == batch.took[i]  item == batch.items[i]
        IN f \notin touched =>
             /\ batch.pc = "ok" =>
                  NamesOf(f) \cap {item.from, item.to, Temporary(batch.number, i)} = {item.to}
             /\ batch.pc = "rolled back" => item.from \in NamesOf(f)
             /\ batch.pc = "abandoned" =>
                  IF i <= Len(batch.items) - Len(batch.moves)
                  THEN NamesOf(f) \cap {item.from, Temporary(batch.number, i)}
                         = {Temporary(batch.number, i)}
                  ELSE item.from \in NamesOf(f)
=============================================================================
