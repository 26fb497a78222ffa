--------------------------- MODULE DocumentStore ---------------------------
(***************************************************************************)
(* The document database of one plugin, utools_db.rs: documents with       *)
(* revisions, attachments in files of their own, a cache of what the disk  *)
(* holds.  One lock covers a whole call, so what interleaves with a call   *)
(* is the end of the process; what interleaves between calls is the other  *)
(* surfaces of the plugin, each with a revision it read some time ago.     *)
(***************************************************************************)
EXTENDS Naturals

CONSTANTS
    DocIds, Surfaces,
    NoDoc,          \* no document
    MaxRevisions    \* revisions that are given out

ASSUME DocumentAssumption ==
    /\ MaxRevisions \in Nat
    /\ NoDoc \notin [gen : Nat, rev : Nat, edits : SUBSET Nat, file : BOOLEAN]

VARIABLES
    onDisk,     \* the saved database
    intact,     \* whether its file is there
    cache,      \* the loaded database, if loaded
    attached,   \* documents whose attachment file is there
    seen,       \* what each surface has last read of a document
    issued,     \* revisions given out
    written,    \* history: the edits acknowledged since a document was created
    wiped       \* history: a removal of the plugin's data was cut short

docVars == <<onDisk, intact, cache, attached, seen, issued, written, wiped>>

-----------------------------------------------------------------------------
(* Documents *)

\* A revision is a number of its own; its generation is what users see of it.
\* The content of a document is the edits that are in it.
Doc(gen, rev, edits, file) == [gen |-> gen, rev |-> rev, edits |-> edits, file |-> file]
Empty     == [d \in DocIds |-> NoDoc]
NotLoaded == [loaded |-> FALSE, docs |-> Empty]
Loaded(db) == [loaded |-> TRUE, docs |-> db]

\* A database whose attachments do not have their files does not load.
FilesThere == \A d \in DocIds : onDisk[d] # NoDoc /\ onDisk[d].file => d \in attached
Loadable == cache.loaded \/ ~intact \/ FilesThere
Database == IF cache.loaded THEN cache.docs ELSE IF intact THEN onDisk ELSE Empty

NeverRead == [s \in Surfaces |-> [d \in DocIds |-> NoDoc]]

-----------------------------------------------------------------------------
(* How a call ends.  The file is replaced as a whole (SettingsFile.tla). *)

\* It is saved and cached, or not saved and not cached.
Saved(db)  == onDisk' = db /\ intact' = TRUE /\ cache' = Loaded(db)
NotSaved   == cache' = Loaded(Database) /\ UNCHANGED <<onDisk, intact>>
\* The process ends before or after the file is replaced; surfaces end with it.
DocEnds(db) ==
    /\ \/ onDisk' = db /\ intact' = TRUE
       \/ UNCHANGED <<onDisk, intact>>
    /\ cache' = NotLoaded /\ seen' = NeverRead

\* Mutant: only generations are compared, and a new document starts at one.
SameGeneration(doc, held) ==
    IF NoDoc \in {doc, held} THEN doc = held ELSE doc.gen = held.gen

\* A document is replaced only under its current revision, a new one has none.
SameRevision(doc, held) ==
    IF NoDoc \in {doc, held} THEN doc = held ELSE doc.rev = held.rev

Put(s, d) ==
    LET old == Database[d]
        db  == [Database EXCEPT ![d] =
                  Doc(IF old = NoDoc THEN 1 ELSE old.gen + 1, issued + 1,
                      (IF seen[s][d] = NoDoc THEN {} ELSE seen[s][d].edits) \cup {issued + 1},
                      FALSE)]
    IN /\ Loadable /\ issued < MaxRevisions
       /\ SameRevision(old, seen[s][d])
       /\ old # NoDoc => ~old.file
       /\ issued' = issued + 1
       /\ \/ Saved(db) /\ written' = [written EXCEPT ![d] = @ \cup {issued + 1}]
             /\ seen' = [seen EXCEPT ![s][d] = db[d]]
          \/ NotSaved /\ UNCHANGED <<written, seen>>
          \/ DocEnds(db) /\ UNCHANGED written
       /\ UNCHANGED <<attached, wiped>>

Get(s, d) ==
    /\ Loadable
    /\ cache' = Loaded(Database)
    /\ seen' = [seen EXCEPT ![s][d] = Database[d]]
    /\ UNCHANGED <<onDisk, intact, attached, issued, written, wiped>>

\* By its id, whatever the revision, or under the revision that was read.  The
\* attachment's file goes last, and may stay behind.
Remove(d) ==
    LET db == [Database EXCEPT ![d] = NoDoc]
    IN /\ Loadable /\ Database[d] # NoDoc
       /\ \/ Saved(db) /\ written' = [written EXCEPT ![d] = {}]
             /\ attached' \in {attached \ {d}, attached} /\ UNCHANGED seen
          \/ NotSaved /\ UNCHANGED <<written, attached, seen>>
          \/ DocEnds(db) /\ UNCHANGED attached /\ written' = [written EXCEPT ![d] = {}]
       /\ UNCHANGED <<issued, wiped>>

\* Mutant: the database is saved before the file is written.
PostAttachmentEarly(d) ==
    LET db == [Database EXCEPT ![d] = Doc(1, issued + 1, {issued + 1}, TRUE)]
    IN /\ Loadable /\ issued < MaxRevisions /\ Database[d] = NoDoc
       /\ issued' = issued + 1
       /\ \/ Saved(db) /\ attached' = attached \cup {d}
             /\ written' = [written EXCEPT ![d] = {issued + 1}] /\ UNCHANGED seen
          \/ DocEnds(db) /\ attached' = attached \ {d} /\ UNCHANGED written
       /\ UNCHANGED wiped

\* The file is written first, over one that was left behind.
PostAttachment(d) ==
    LET db == [Database EXCEPT ![d] = Doc(1, issued + 1, {issued + 1}, TRUE)]
    IN /\ Loadable /\ issued < MaxRevisions /\ Database[d] = NoDoc
       /\ issued' = issued + 1
       /\ \/ Saved(db) /\ attached' = attached \cup {d}
             /\ written' = [written EXCEPT ![d] = {issued + 1}] /\ UNCHANGED seen
          \/ NotSaved /\ attached' \in {attached \cup {d}, attached \ {d}}
             /\ UNCHANGED <<written, seen>>
          \/ /\ cache' = NotLoaded /\ seen' = NeverRead /\ UNCHANGED written
             /\ \/ attached' = attached \ {d} /\ UNCHANGED <<onDisk, intact>>
                \/ attached' = attached \cup {d} /\ DocEnds(db)
       /\ UNCHANGED wiped

\* remove_plugin, after an uninstall, removes the files in the order of the
\* directory and stops at the first it cannot remove, or with the process.
RemovePlugin ==
    /\ issued' = issued /\ seen' = NeverRead /\ cache' = NotLoaded
    /\ \/ /\ attached' = {} /\ intact' = FALSE /\ onDisk' = Empty
          /\ UNCHANGED wiped
       \/ /\ attached' \in SUBSET attached
          /\ \/ UNCHANGED <<onDisk, intact>>
             \/ intact' = FALSE /\ onDisk' = Empty
          /\ wiped' = TRUE
    /\ written' = [d \in DocIds |-> {}]

\* The process ends between two calls.
DocumentsEnd ==
    /\ cache' = NotLoaded /\ seen' = NeverRead
    /\ UNCHANGED <<onDisk, intact, attached, issued, written, wiped>>

DocInit ==
    /\ onDisk = Empty /\ intact = FALSE /\ cache = NotLoaded /\ attached = {}
    /\ seen = NeverRead /\ issued = 0
    /\ written = [d \in DocIds |-> {}] /\ wiped = FALSE

DocNext ==
    \/ RemovePlugin \/ DocumentsEnd
    \/ \E d \in DocIds :
          \/ PostAttachment(d) \/ Remove(d)
          \/ \E s \in Surfaces : Put(s, d) \/ Get(s, d)

DocSpec == DocInit /\ [][DocNext]_docVars

-----------------------------------------------------------------------------
(* Properties *)

\* Two surfaces of a plugin may edit one document (utools_db.rs, apply_put): an
\* edit that was acknowledged stays in the document, on the disk as well, until
\* the document is removed, although each edit replaces it whole.
NoLostEdit ==
    \A d \in DocIds : written[d] # {} =>
        /\ onDisk[d] # NoDoc /\ written[d] \subseteq onDisk[d].edits
        /\ cache.loaded => cache.docs[d] = onDisk[d]

\* Wherever a call fails or the process ends, the saved database loads: an
\* attachment it names has its file.  Only a removal of the plugin's data that
\* was cut short can break that.
DatabaseLoads == intact /\ ~wiped => FilesThere
=============================================================================
