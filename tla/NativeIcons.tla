----------------------------- MODULE NativeIcons -----------------------------
(***************************************************************************)
(* Icons of the operating system for launcher results (native_icons.rs).   *)
(* A caller has the file held open, so that nobody writes or moves it      *)
(* (system_open.rs), puts the request in a bounded queue and waits for a   *)
(* bounded time.  One thread answers, from a cache or from the shell.  A   *)
(* caller that gives up on a worker which hangs closes the service, and    *)
(* the worker opens it again with its next answer.                         *)
(***************************************************************************)
EXTENDS Naturals, Sequences, Selection

CONSTANTS
    IconFiles,      \* files whose icons are asked for
    IconCallers,    \* requests in progress at a time
    QueueRoom,      \* WORK_QUEUE_CAPACITY
    CacheRoom,      \* MAX_ICON_CACHE_ENTRIES
    MaxIcons,       \* requests altogether
    MaxFileVersion  \* versions of a file

ASSUME IconAssumption == {QueueRoom, CacheRoom, MaxIcons, MaxFileVersion} \subseteq Nat

VARIABLES
    fileVersion,    \* the version of each file on the disk
    asker,          \* each caller
    iconQueue,      \* requests on their way to the worker
    worker,         \* the worker thread
    icons,          \* its cache, the entry used last at the end
    stalled,        \* the service takes no requests
    lastDone,       \* last_completed_id
    lastIcon        \* next_id

iconVars == <<fileVersion, asker, iconQueue, worker, icons, stalled, lastDone, lastIcon>>

\* An answer is the version of the file an icon was taken from, or that there is none.
\* held: history, the version of the file while it is held for the request.
NoIcon   == 0
NoAnswer == MaxFileVersion + 1
Dropped  == MaxFileVersion + 2
NoAsker  == [pc |-> "none", id |-> 0, file |-> "none", held |-> 0, answer |-> NoAnswer]
Resting  == [pc |-> "idle", id |-> 0, file |-> "none", key |-> 0, value |-> NoIcon, guard |-> FALSE]

AskerAt(c, pc) == asker[c].pc = pc
AskerSays(c, pc) == asker' = [asker EXCEPT ![c].pc = pc]
Forget(c) == asker' = [asker EXCEPT ![c] = NoAsker]
sameWorker == UNCHANGED <<worker, icons, lastDone>>

\* prepare_local_open shares the file neither for writing nor for deletion.
Guarded(f) ==
    \/ \E c \in IconCallers : asker[c].file = f /\ asker[c].pc \in {"asks", "sends"}
    \/ \E i \in 1..Len(iconQueue) : iconQueue[i].file = f
    \/ worker.file = f /\ worker.guard

-----------------------------------------------------------------------------
(* Callers *)

Prepare(c, f) ==
    /\ AskerAt(c, "none") /\ lastIcon < MaxIcons
    /\ asker' = [asker EXCEPT ![c] = [NoAsker EXCEPT !.pc = "asks", !.file = f,
                                                    !.held = fileVersion[f]]]
    /\ UNCHANGED <<fileVersion, iconQueue, stalled, lastIcon>> /\ sameWorker

\* try_request_inner; a refusal drops what was prepared.
AskIcon(c) ==
    /\ AskerAt(c, "asks")
    /\ IF stalled \/ lastIcon >= MaxIcons
       THEN Forget(c) /\ UNCHANGED lastIcon
       ELSE /\ lastIcon' = lastIcon + 1
            /\ asker' = [asker EXCEPT ![c].pc = "sends", ![c].id = lastIcon']
    /\ UNCHANGED <<fileVersion, iconQueue, stalled>> /\ sameWorker

SendIcon(c) ==
    /\ AskerAt(c, "sends")
    /\ CASE worker.pc = "gone" ->
              Forget(c) /\ stalled' = TRUE /\ UNCHANGED iconQueue
         [] worker.pc # "gone" /\ Len(iconQueue) >= QueueRoom ->
              Forget(c) /\ UNCHANGED <<iconQueue, stalled>>
         [] OTHER ->
              /\ iconQueue' = Append(iconQueue, [id |-> asker[c].id, file |-> asker[c].file])
              /\ AskerSays(c, "waits") /\ UNCHANGED stalled
    /\ UNCHANGED <<fileVersion, lastIcon>> /\ sameWorker

\* wait_timeout
TakeIcon(c) ==
    /\ AskerAt(c, "waits") /\ asker[c].answer # NoAnswer
    /\ Forget(c)
    /\ stalled' = (stalled \/ asker[c].answer = Dropped)
    /\ UNCHANGED <<fileVersion, iconQueue, lastIcon>> /\ sameWorker

IconTimeout(c) ==
    /\ AskerAt(c, "waits") /\ asker[c].answer = NoAnswer
    /\ IF lastDone < asker[c].id THEN AskerSays(c, "closes") ELSE Forget(c)
    /\ UNCHANGED <<fileVersion, iconQueue, stalled, lastIcon>> /\ sameWorker

CloseService(c) ==
    /\ AskerAt(c, "closes") /\ Forget(c)
    /\ stalled' = TRUE
    /\ UNCHANGED <<fileVersion, iconQueue, lastIcon>> /\ sameWorker

\* get_system_icons has used up the time of the whole batch.
LeaveIcon(c) ==
    /\ AskerAt(c, "waits") /\ Forget(c)
    /\ UNCHANGED <<fileVersion, iconQueue, stalled, lastIcon>> /\ sameWorker

-----------------------------------------------------------------------------
(* The cache *)

IconEntries == {icons[i] : i \in 1..Len(icons)}
FreshIcons  == {e \in IconEntries : e.fresh}
IconsFor(f, v) == {e \in IconEntries : e.file = f /\ e.key = v}
Cached(f, v)   == IconsFor(f, v) \cap FreshIcons

\* get: an entry that was used goes to the end, one that is too old goes away.
Touched(f, v) == Selected(icons, IconEntries \ IconsFor(f, v)) \o Selected(icons, Cached(f, v))

\* insert: without what is too old, and without the entries used longest ago, as
\* many as the numbers of entries and of bytes ask for; a large image is not kept.
Inserted(f, v, value) ==
    LET kept    == Selected(icons, FreshIcons \ IconsFor(f, v))
        newest  == {n \in 0..Len(kept) : n < CacheRoom}
    IN {kept} \cup {Append(SubSeq(kept, Len(kept) - n + 1, Len(kept)),
                           [file |-> f, key |-> v, value |-> value, fresh |-> TRUE]) : n \in newest}

EntryAges ==
    \E i \in 1..Len(icons) :
        /\ icons[i].fresh /\ icons' = [icons EXCEPT ![i].fresh = FALSE]
        /\ UNCHANGED <<fileVersion, asker, iconQueue, worker, stalled, lastDone, lastIcon>>

-----------------------------------------------------------------------------
(* The worker *)

WorkerGoto(pc) == worker' = [worker EXCEPT !.pc = pc]
\* The answer has no reader any more when the caller has given up.
Replies(ids, a) ==
    asker' = [c \in IconCallers |-> IF AskerAt(c, "waits") /\ asker[c].id \in ids
                                    THEN [asker[c] EXCEPT !.answer = a] ELSE asker[c]]
sameAskers == UNCHANGED <<fileVersion, asker, lastIcon>>

\* The thread needs its COM apartment.  Without it the requests sent so far are
\* dropped with the channel.
StartWorker ==
    /\ worker.pc = "starts"
    /\ \/ WorkerGoto("idle") /\ UNCHANGED <<asker, iconQueue, stalled>>
       \/ /\ WorkerGoto("gone") /\ stalled' = TRUE
          /\ iconQueue' = <<>> /\ Replies({iconQueue[i].id : i \in 1..Len(iconQueue)}, Dropped)
    /\ UNCHANGED <<fileVersion, icons, lastDone, lastIcon>>

ReceiveIcon ==
    /\ worker.pc = "idle" /\ iconQueue # <<>>
    /\ worker' = [Resting EXCEPT !.pc = "looks", !.id = Head(iconQueue).id,
                                 !.file = Head(iconQueue).file, !.guard = TRUE]
    /\ iconQueue' = Tail(iconQueue)
    /\ UNCHANGED <<icons, stalled, lastDone>> /\ sameAskers

\* Mutant: the key is the path alone.
LookUpByPath ==
    /\ worker.pc = "looks"
    /\ LET hit == Cached(worker.file, 1)
       IN /\ icons' = Touched(worker.file, 1)
          /\ \/ /\ hit = {}
                /\ worker' = [worker EXCEPT !.pc = "extracts", !.key = 1]
             \/ \E e \in hit :
                worker' = [worker EXCEPT !.pc = "releases", !.key = 1, !.value = e.value]
    /\ UNCHANGED <<iconQueue, stalled, lastDone>> /\ sameAskers

\* The metadata makes the key, and the cache is asked for it.
LookUp ==
    /\ worker.pc = "looks"
    /\ LET v == fileVersion[worker.file]  hit == Cached(worker.file, v)
       IN /\ icons' = Touched(worker.file, v)
          /\ \/ /\ hit = {}
                /\ worker' = [worker EXCEPT !.pc = "extracts", !.key = v]
             \/ \E e \in hit :
                worker' = [worker EXCEPT !.pc = "releases", !.key = v, !.value = e.value]
    /\ UNCHANGED <<iconQueue, stalled, lastDone>> /\ sameAskers

\* The shell may hang for any time here, and find an icon or none.
Extract ==
    /\ worker.pc = "extracts"
    /\ \E value \in {NoIcon, fileVersion[worker.file]} :
          /\ icons' \in Inserted(worker.file, worker.key, value)
          /\ worker' = [worker EXCEPT !.pc = "releases", !.value = value]
    /\ UNCHANGED <<iconQueue, stalled, lastDone>> /\ sameAskers

ReleaseFile ==
    /\ worker.pc = "releases"
    /\ worker' = [worker EXCEPT !.pc = "stamps", !.guard = FALSE]
    /\ UNCHANGED <<iconQueue, icons, stalled, lastDone>> /\ sameAskers

StampDone ==
    /\ worker.pc = "stamps" /\ lastDone' = worker.id /\ WorkerGoto("opens")
    /\ UNCHANGED <<iconQueue, icons, stalled>> /\ sameAskers

OpenService ==
    /\ worker.pc = "opens" /\ stalled' = FALSE /\ WorkerGoto("replies")
    /\ UNCHANGED <<iconQueue, icons, lastDone>> /\ sameAskers

ReplyIcon ==
    /\ worker.pc = "replies" /\ worker' = Resting
    /\ Replies({worker.id}, worker.value)
    /\ UNCHANGED <<fileVersion, iconQueue, icons, stalled, lastDone, lastIcon>>

-----------------------------------------------------------------------------
(* Other programs *)

ChangeFile(f) ==
    /\ ~Guarded(f) /\ fileVersion[f] < MaxFileVersion
    /\ fileVersion' = [fileVersion EXCEPT ![f] = @ + 1]
    /\ UNCHANGED <<asker, iconQueue, worker, icons, stalled, lastDone, lastIcon>>

-----------------------------------------------------------------------------

\* The thread itself may fail to start: then there is no sender either.
IconInit ==
    /\ fileVersion = [f \in IconFiles |-> 1]
    /\ asker = [c \in IconCallers |-> NoAsker]
    /\ iconQueue = <<>> /\ icons = <<>>
    /\ \/ worker = [Resting EXCEPT !.pc = "starts"] /\ stalled = FALSE
       \/ worker = [Resting EXCEPT !.pc = "gone"] /\ stalled = TRUE
    /\ lastDone = 0 /\ lastIcon = 0

AskerStep(c) ==
    \/ \E f \in IconFiles : Prepare(c, f)
    \/ AskIcon(c) \/ SendIcon(c) \/ TakeIcon(c)
    \/ IconTimeout(c) \/ CloseService(c) \/ LeaveIcon(c)

IconNext ==
    \/ \E c \in IconCallers : AskerStep(c)
    \/ StartWorker \/ ReceiveIcon \/ LookUp \/ Extract
    \/ ReleaseFile \/ StampDone \/ OpenService \/ ReplyIcon
    \/ EntryAges
    \/ \E f \in IconFiles : ChangeFile(f)

IconSpec == IconInit /\ [][IconNext]_iconVars

-----------------------------------------------------------------------------

\* An answer from the cache is as good as one from the shell: the icon is the one
\* of the version the file had while it was held for this request, because an
\* entry's file was held as well from the reading of its key to the icon.
IconIsCurrent ==
    \A c \in IconCallers : asker[c].answer \in {NoAnswer, Dropped, NoIcon, asker[c].held}

\* The service is closed only until its worker finishes the outstanding request
\* (native_icons.rs:184): as long as it is, the worker has one.
StallIsTemporary ==
    stalled /\ worker.pc \notin {"starts", "gone"} =>
        iconQueue # <<>> \/ worker.pc # "idle"
=============================================================================
