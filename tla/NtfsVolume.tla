------------------------------ MODULE NtfsVolume ------------------------------
(***************************************************************************)
(* An NTFS volume as ntfs_usn.rs depends on it: a tree of named links, the *)
(* version of each file's content, and the change journal.  The volume is  *)
(* not part of the repository; what is written here is what the readers of *)
(* the journal in ntfs_usn.rs take for granted or guard against.           *)
(*                                                                         *)
(* The reasons of a file accumulate until it is closed: each record of a   *)
(* file carries every reason since its last close, and a reason that is    *)
(* already there writes no second record.  A position of the journal is the *)
(* number of records before it.                                            *)
(***************************************************************************)
EXTENDS Naturals, FiniteSets, Sequences

CONSTANTS Root,        \* the file reference of the drive root
          Refs,        \* the other file references: numbers, in enumeration order
          Names,       \* spellings of names
          Fold,        \* the case-insensitive form of each spelling
          StartTrees,  \* the trees to begin with, as sets of links
          MaxRecords,  \* bound: records the volume writes
          MaxStamp     \* bound: versions of one file

\* No file has the reference 0.
ASSUME VolumeAssumption ==
    /\ Refs \subseteq Nat \ {0} /\ IsFiniteSet(Refs) /\ Root \notin Refs
    /\ DOMAIN Fold = Names
    /\ MaxRecords \in Nat /\ MaxStamp \in Nat

VARIABLES links,      \* the tree: [ref, parent, name, dir], several for a hard link
          stamp,      \* reference -> version of its content; 0: never existed
          reasons,    \* reference -> reasons since its last close
          journal,    \* the records, oldest first
          journalId,  \* which journal: one that is deleted and made anew has another
          lowest,     \* the first position that can still be read
          renaming    \* links whose rename logged the old name and not yet the new one

volume == <<links, stamp, reasons, journal, journalId, lowest, renaming>>

LinkTo(r, p, n, d) == [ref |-> r, parent |-> p, name |-> n, dir |-> d]

LinksOf(ls, r) == {l \in ls : l.ref = r}

Directories(ls) == {Root} \cup {l.ref : l \in {k \in ls : k.dir}}

\* The directories at or above one: those in every set that has it and, with a
\* directory, the directory's parent.
Upward(ls) ==
    {D \in SUBSET Directories(ls) : \A l \in ls : l.dir /\ l.ref \in D => l.parent \in D}

AtOrAbove(ls, r) == {d \in Directories(ls) : \A D \in Upward(ls) : r \in D => d \in D}

\* The path of a directory: the names of the directories at or above it, by depth.
Depth(ls, r) == Cardinality(AtOrAbove(ls, r) \ {Root})

Ancestor(ls, r, i) == CHOOSE d \in AtOrAbove(ls, r) \ {Root} : Depth(ls, d) = i

NameOf(ls, d) == (CHOOSE l \in ls : l.ref = d).name

DirPath(ls, r) == [i \in 1..Depth(ls, r) |-> NameOf(ls, Ancestor(ls, r, i))]

PathOf(ls, l) == Append(DirPath(ls, l.parent), l.name)

NameFree(ls, p, n) == \A l \in ls : l.parent = p => Fold[l.name] # Fold[n]

Links == [ref : Refs, parent : Refs \cup {Root}, name : Names, dir : BOOLEAN]

\* A directory has one name; names in one directory differ by more than their case.
IsTree(ls) ==
    /\ ls \subseteq Links /\ IsFiniteSet(ls)
    /\ \A l \in ls : /\ l.parent \in Directories(ls)
                     /\ l.dir => LinksOf(ls, l.ref) = {l}
                     /\ NameFree(ls \ {l}, l.parent, l.name)
    /\ \A d \in Directories(ls) : Root \in AtOrAbove(ls, d)

ASSUME TreesAssumption == \A ls \in StartTrees : IsTree(ls)

Records(l, whys) ==
    [i \in DOMAIN whys |-> [ref |-> l.ref, parent |-> l.parent, name |-> l.name,
                            dir |-> l.dir, why |-> whys[i]]]

Write(recs) ==
    /\ Len(journal) + Len(recs) <= MaxRecords
    /\ journal' = journal \o recs

VolumeInit ==
    /\ links \in StartTrees
    /\ stamp = [r \in Refs |-> IF LinksOf(links, r) # {} THEN 1 ELSE 0]
    /\ reasons = [r \in Refs |-> {}]
    /\ journal = <<>> /\ journalId = 1 /\ lowest = 0
    /\ renaming = {}

\* A reference includes a sequence number: none is ever used for a second file.
CreateFile(r, p, n, d) ==
    /\ stamp[r] = 0 /\ p \in Directories(links) /\ NameFree(links, p, n)
    /\ links' = links \cup {LinkTo(r, p, n, d)}
    /\ stamp' = [stamp EXCEPT ![r] = 1]
    /\ reasons' = [reasons EXCEPT ![r] = {"create"}]
    /\ Write(Records(LinkTo(r, p, n, d), <<{"create"}>>))
    /\ UNCHANGED <<journalId, lowest, renaming>>

\* A write to a file; while that reason stands it leaves no further record.
Modify(l) ==
    /\ ~l.dir /\ stamp[l.ref] < MaxStamp
    /\ stamp' = [stamp EXCEPT ![l.ref] = @ + 1]
    /\ reasons' = [reasons EXCEPT ![l.ref] = @ \cup {"data"}]
    /\ IF "data" \in reasons[l.ref]
       THEN UNCHANGED journal
       ELSE Write(Records(l, <<reasons[l.ref] \cup {"data"}>>))
    /\ UNCHANGED <<links, journalId, lowest, renaming>>

CloseFile(l) ==
    /\ reasons[l.ref] # {} /\ l \notin renaming
    /\ Write(Records(l, <<reasons[l.ref] \cup {"close"}>>))
    /\ reasons' = [reasons EXCEPT ![l.ref] = {}]
    /\ UNCHANGED <<links, stamp, journalId, lowest, renaming>>

\* The last link of a file, or an empty directory; in one record or in two.
DeleteFile(l) ==
    /\ LinksOf(links, l.ref) = {l} /\ \A k \in links : k.parent # l.ref
    /\ l \notin renaming
    /\ links' = links \ {l}
    /\ \E again \in BOOLEAN :
         LET whole == reasons[l.ref] \cup {"delete", "close"}
         IN Write(Records(l, IF again THEN <<reasons[l.ref] \cup {"delete"}, whole>>
                                      ELSE <<whole>>))
    /\ reasons' = [reasons EXCEPT ![l.ref] = {}]
    /\ UNCHANGED <<stamp, journalId, lowest, renaming>>

\* A further name for a file.
AddLink(l, p, n) ==
    /\ ~l.dir /\ p \in Directories(links) /\ NameFree(links, p, n)
    /\ links' = links \cup {LinkTo(l.ref, p, n, FALSE)}
    /\ Write(Records(l, <<reasons[l.ref] \cup {"link"}>>))
    /\ reasons' = [reasons EXCEPT ![l.ref] = @ \cup {"link"}]
    /\ UNCHANGED <<stamp, journalId, lowest, renaming>>

\* A directory stays where it is while a file below it is open, as a file is that
\* is being renamed.
CanMove(l, p, n) ==
    /\ p \in Directories(links)
    /\ <<p, n>> # <<l.parent, l.name>>
    /\ NameFree(links \ {l}, p, n)
    /\ l.dir => /\ l.ref \notin AtOrAbove(links, p)
                /\ \A k \in renaming \ {l} : l.ref \notin AtOrAbove(links, k.parent)

RenamedReasons(r) == reasons[r] \ {"old", "new"}

\* A rename writes a record of the old name and one of the new name.
RenameFile(l, p, n) ==
    /\ CanMove(l, p, n)
    /\ links' = (links \ {l}) \cup {LinkTo(l.ref, p, n, l.dir)}
    /\ Write(Records(l, <<RenamedReasons(l.ref) \cup {"old"}>>)
             \o Records(LinkTo(l.ref, p, n, l.dir), <<RenamedReasons(l.ref) \cup {"new"}>>))
    /\ reasons' = [reasons EXCEPT ![l.ref] = RenamedReasons(l.ref) \cup {"new"}]
    /\ UNCHANGED <<stamp, journalId, lowest, renaming>>

\* The same with other writers between the two records; of one file one name
\* is changed at a time.
RenameLogsOld(l) ==
    /\ \A k \in renaming : k.ref # l.ref
    /\ renaming' = renaming \cup {l}
    /\ Write(Records(l, <<RenamedReasons(l.ref) \cup {"old"}>>))
    /\ UNCHANGED <<links, stamp, reasons, journalId, lowest>>

RenameLogsNew(l, p, n) ==
    /\ l \in links /\ CanMove(l, p, n)
    /\ renaming' = renaming \ {l}
    /\ links' = (links \ {l}) \cup {LinkTo(l.ref, p, n, l.dir)}
    /\ Write(Records(LinkTo(l.ref, p, n, l.dir), <<RenamedReasons(l.ref) \cup {"new"}>>))
    /\ reasons' = [reasons EXCEPT ![l.ref] = RenamedReasons(l.ref) \cup {"new"}]
    /\ UNCHANGED <<stamp, journalId, lowest>>

\* The oldest records are dropped to make room.
TrimJournal ==
    /\ lowest < Len(journal)
    /\ lowest' = Len(journal)
    /\ UNCHANGED <<links, stamp, reasons, journal, journalId, renaming>>

\* The journal is deleted and made anew: positions start over.
RecreateJournal ==
    /\ journalId = 1 /\ renaming = {}
    /\ journalId' = 2 /\ journal' = <<>> /\ lowest' = 0
    /\ reasons' = [r \in Refs |-> {}]
    /\ UNCHANGED <<links, stamp, renaming>>

\* What any program may do to the volume, renames in one piece or in two.
Touch ==
    \/ \E r \in Refs, p \in Refs \cup {Root}, n \in Names, d \in BOOLEAN :
          CreateFile(r, p, n, d)
    \/ \E l \in links : Modify(l) \/ CloseFile(l) \/ DeleteFile(l)
    \/ \E l \in links, p \in Refs \cup {Root}, n \in Names : AddLink(l, p, n)
    \/ TrimJournal \/ RecreateJournal

MoveWhole ==
    \E l \in links, p \in Refs \cup {Root}, n \in Names : RenameFile(l, p, n)

MoveInTwo ==
    \/ \E l \in links : RenameLogsOld(l)
    \/ \E l \in renaming, p \in Refs \cup {Root}, n \in Names : RenameLogsNew(l, p, n)
===============================================================================
