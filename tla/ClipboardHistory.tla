---------------------------- MODULE ClipboardHistory ----------------------------
(***************************************************************************)
(* The clipboard history: clipboard_history.rs, the commands of app.rs     *)
(* that use it and the thread that polls the clipboard.                    *)
(*                                                                         *)
(* The items are kept in memory under one lock and saved, under that lock, *)
(* before a change counts: a save that fails puts the old items back, so   *)
(* the memory and the file are one variable here.  The pictures are files  *)
(* of their own.  A second lock guards what the poll saw last.  Commands   *)
(* run one after another on the main thread.                               *)
(***************************************************************************)
EXTENDS Naturals, FiniteSets, Sequences, Selection

ListOps == INSTANCE SequencesExt
SetOps  == INSTANCE FiniteSetsExt

CONSTANTS KindOf,        \* what may be copied -> "text", "image" or "files"
          NoClip,        \* an empty clipboard
          ImageLimit, FileLimit, ItemLimit,
          MaxPngs,       \* bound: pictures written
          MaxClipFaults  \* bound: saves and removals that fail, and crashes

Clips == DOMAIN KindOf
AllKinds == {"text", "image", "files"}
Kinds    == {"text"} \cup {KindOf[c] : c \in Clips}   \* bound: the kinds that occur

ASSUME ClipAssumption ==
    /\ \A c \in Clips : KindOf[c] \in AllKinds
    /\ NoClip \notin Clips
    /\ ImageLimit \in Nat \ {0} /\ FileLimit \in Nat \ {0} /\ ItemLimit \in Nat \ {0}
    /\ MaxPngs \in Nat /\ MaxClipFaults \in Nat

VARIABLES items,       \* newest first: [clip, pinned, png], png 0 for no picture
          consent,     \* kind -> may it be recorded?
          pngs,        \* the picture files, as numbers
          pngCount,    \* pictures written so far
          prints,      \* kind -> the clip the poll saw last; NoClip: none, or nothing yet
          poll,        \* the polling thread
          clipCommand, \* the main thread
          removed,     \* history variable: clips removed since "prints" was reset
          untidy,      \* history variable: has a removal failed, or a crash come first?
          clipFaults

clipVars == <<items, consent, pngs, pngCount, prints, poll, clipCommand, removed,
              untidy, clipFaults>>

NotAsked    == [pc |-> "idle"]
NotPolling  == [pc |-> "idle"]
NoPrints    == [k \in Kinds |-> NoClip]
ClipFault   == clipFaults < MaxClipFaults /\ clipFaults' = clipFaults + 1

ClipsOf(list)    == {list[i].clip : i \in DOMAIN list}
PicturesOf(list) == {list[i].png : i \in DOMAIN list} \ {0}

ClipInit ==
    /\ items = <<>> /\ consent = [k \in Kinds |-> FALSE]
    /\ pngs = {} /\ pngCount = 0 /\ prints = NoPrints
    /\ poll = NotPolling /\ clipCommand = NotAsked
    /\ removed = {} /\ untidy = FALSE /\ clipFaults = 0

--------------------------------------------------------------------------------
(* The list *)

\* One entry too many: the oldest that is not pinned goes, or the oldest.
TrimTo(list, ks, limit) ==
    LET those == {i \in DOMAIN list : KindOf[list[i].clip] \in ks}
        loose == {i \in those : ~list[i].pinned}
    IN IF Cardinality(those) <= limit THEN list
       ELSE ListOps!RemoveAt(list, SetOps!Max(IF loose = {} THEN those ELSE loose))

Trimmed(list) ==
    TrimTo(TrimTo(TrimTo(list, {"image"}, ImageLimit), {"files"}, FileLimit), Kinds, ItemLimit)

\* A clip that is recorded again moves to the front with its pin and picture.
WithClip(c, png) ==
    LET at == {i \in DOMAIN items : items[i].clip = c}
    IN IF at = {} THEN Trimmed(<<[clip |-> c, pinned |-> FALSE, png |-> png]>> \o items)
       ELSE LET i == CHOOSE i \in at : TRUE
            IN Trimmed(<<items[i]>> \o ListOps!RemoveAt(items, i))

Becomes(list, c) ==
    /\ items' = list
    /\ removed' = (removed \cup ClipsOf(items) \cup c) \ ClipsOf(list)

\* cleanup_unreferenced_images: with no lock held, and no matter if it fails.
Cleaned(files) ==
    \E stay \in SUBSET (files \ PicturesOf(items)) :
       /\ pngs' = pngs \ (files \ (PicturesOf(items) \cup stay))
       /\ untidy' = (untidy \/ stay # {})
       /\ IF stay = {} THEN UNCHANGED clipFaults ELSE ClipFault

--------------------------------------------------------------------------------
(* Commands; one whose save fails changes nothing. *)

\* Mutant: only switching off makes the poll forget.
SetConsentKeeps(new) ==
    /\ clipCommand = NotAsked
    /\ consent' = new
    /\ clipCommand' = IF new["text"] THEN NotAsked ELSE [pc |-> "reset"]
    /\ UNCHANGED <<items, pngs, pngCount, prints, poll, removed, untidy, clipFaults>>

\* set_enabled and set_capture_options: switching off revokes all of it.  What
\* the poll saw is forgotten in a second step, when a choice has changed.
SetConsent(new) ==
    /\ clipCommand = NotAsked
    /\ consent' = new
    /\ clipCommand' = IF new = consent THEN NotAsked ELSE [pc |-> "reset"]
    /\ UNCHANGED <<items, pngs, pngCount, prints, poll, removed, untidy, clipFaults>>

SetHistoryEnabled ==
    \E b \in BOOLEAN :
       SetConsent(IF b THEN [consent EXCEPT !["text"] = TRUE] ELSE [k \in Kinds |-> FALSE])

SetCaptureOptions ==
    /\ consent["text"]
    /\ \E more \in SUBSET (Kinds \ {"text"}) :
          SetConsent([k \in Kinds |-> k = "text" \/ k \in more])

PollLockFree == poll.pc \notin {"write", "insert", "clean"}

ResetPollState ==
    /\ clipCommand.pc = "reset" /\ PollLockFree
    /\ prints' = NoPrints /\ removed' = {}
    /\ clipCommand' = NotAsked
    /\ UNCHANGED <<items, consent, pngs, pngCount, poll, untidy, clipFaults>>

SetPinned ==
    /\ clipCommand = NotAsked
    /\ \E i \in DOMAIN items, b \in BOOLEAN : items' = [items EXCEPT ![i].pinned = b]
    /\ UNCHANGED <<consent, pngs, pngCount, prints, poll, clipCommand, removed, untidy,
                   clipFaults>>

\* The pictures of removed entries go after the list was saved without them.
RemoveTo(list) ==
    /\ clipCommand = NotAsked
    /\ Becomes(list, {})
    /\ clipCommand' = [pc |-> "clean", files |-> PicturesOf(items) \ PicturesOf(list),
                       then |-> NotAsked]
    /\ UNCHANGED <<consent, pngs, pngCount, prints, poll, untidy, clipFaults>>

DeleteItem    == \E i \in DOMAIN items : RemoveTo(ListOps!RemoveAt(items, i))
ClearUnpinned == RemoveTo(Selected(items, {e \in {items[i] : i \in DOMAIN items} : e.pinned}))

CommandCleans ==
    /\ clipCommand.pc = "clean"
    /\ Cleaned(clipCommand.files)
    /\ clipCommand' = clipCommand.then
    /\ UNCHANGED <<items, consent, pngCount, prints, poll, removed>>

\* An entry is copied back: the clipboard first, which anyone may change again at
\* once, then the history, then what the poll is to take for seen.
CopyItem ==
    /\ clipCommand = NotAsked
    /\ \E i \in DOMAIN items :
         /\ items[i].png \in pngs \cup {0}
         /\ clipCommand' = [pc |-> IF KindOf[items[i].clip] = "text" THEN "capture" ELSE "record",
                            clip |-> items[i].clip]
    /\ UNCHANGED <<items, consent, pngs, pngCount, prints, poll, removed, untidy, clipFaults>>

CopyCaptures ==
    /\ clipCommand.pc = "capture"
    /\ LET record == [pc |-> "record", clip |-> clipCommand.clip]
           new    == WithClip(clipCommand.clip, 0)
       IN \/ /\ consent["text"] /\ Becomes(new, {clipCommand.clip})
             /\ clipCommand' = [pc |-> "clean", files |-> PicturesOf(items) \ PicturesOf(new),
                                then |-> record]
             /\ UNCHANGED clipFaults
          \/ /\ consent["text"] => ClipFault
             /\ ~consent["text"] => UNCHANGED clipFaults
             /\ clipCommand' = record /\ UNCHANGED <<items, removed>>
    /\ UNCHANGED <<consent, pngs, pngCount, prints, poll, untidy>>

CopyRecords ==
    /\ clipCommand.pc = "record" /\ PollLockFree
    /\ prints' = [k \in Kinds |-> IF k = KindOf[clipCommand.clip] THEN clipCommand.clip
                                  ELSE NoClip]
    /\ clipCommand' = NotAsked
    /\ UNCHANGED <<items, consent, pngs, pngCount, poll, removed, untidy, clipFaults>>

--------------------------------------------------------------------------------
(* The poll: text, image and files of one sample in turn, each only when it  *)
(* differs from what was seen last; the difference counts as seen once it is *)
(* recorded or deliberately not recorded, not when that failed.              *)

PollSamples ==
    /\ poll = NotPolling /\ consent["text"]
    /\ \E c \in Clips \cup {NoClip} :
         poll' = [pc |-> "text", clip |-> c, kinds |-> {k \in Kinds : consent[k]}]
    /\ UNCHANGED <<items, consent, pngs, pngCount, prints, clipCommand, removed, untidy,
                   clipFaults>>

AfterKind(k) ==
    CASE k = "text"  -> [poll EXCEPT !.pc = "image"]
      [] k = "image" -> [pc |-> "files", clip |-> poll.clip, kinds |-> poll.kinds]
      [] k = "files" -> NotPolling

\* What the sample says of a kind; a kind that could not be read says nothing.
Sampled(k) == IF poll.clip \in Clips /\ KindOf[poll.clip] = k THEN poll.clip ELSE NoClip

Seen(k, ok) == prints' = IF ok THEN [prints EXCEPT ![k] = Sampled(k)] ELSE prints

\* Nothing to record: not asked for, not readable, seen before, absent, or no
\* consent any more.
PollPasses(k) ==
    /\ poll.pc = k
    /\ \/ UNCHANGED prints
       \/ /\ k \in poll.kinds
          /\ Sampled(k) # NoClip => ~consent[k]
          /\ Seen(k, TRUE)
    /\ poll' = AfterKind(k)
    /\ UNCHANGED <<items, consent, pngs, pngCount, clipCommand, removed, untidy, clipFaults>>

MayRecord(k) ==
    /\ poll.pc = k /\ k \in poll.kinds
    /\ Sampled(k) \in Clips /\ Sampled(k) # prints[k]

\* Mutant: a picture that is itself one too many is not looked at.
PollRecordsOnly(k, png) ==
    LET new == WithClip(poll.clip, png)
    IN /\ consent[k]
       /\ Becomes(new, {poll.clip})
       /\ poll' = [pc |-> "clean", clip |-> poll.clip, kinds |-> poll.kinds, kind |-> k,
                   files |-> PicturesOf(items) \ PicturesOf(new)]

\* The entry is saved; pictures it pushed out are removed, then it counts as seen.
PollRecords(k, png) ==
    LET new == WithClip(poll.clip, png)
        out == (PicturesOf(items) \cup ({png} \ {0})) \ PicturesOf(new)
    IN /\ consent[k]
       /\ Becomes(new, {poll.clip})
       /\ poll' = [pc |-> "clean", clip |-> poll.clip, kinds |-> poll.kinds, kind |-> k,
                   files |-> out]

PollCaptures(k) ==
    /\ MayRecord(k) /\ (k = "image" => poll.clip \in ClipsOf(items))
    /\ \/ PollRecords(k, 0) /\ UNCHANGED clipFaults
       \/ consent[k] /\ ClipFault /\ poll' = AfterKind(k) /\ UNCHANGED <<items, removed>>
    /\ UNCHANGED <<consent, pngs, pngCount, prints, clipCommand, untidy>>

PollCleans ==
    /\ poll.pc = "clean"
    /\ Cleaned(poll.files)
    /\ Seen(poll.kind, TRUE)
    /\ poll' = AfterKind(poll.kind)
    /\ UNCHANGED <<items, consent, pngCount, clipCommand, removed>>

\* A new picture is encoded and written with no lock of the items held ...
PollEncodes ==
    /\ MayRecord("image") /\ consent["image"] /\ poll.clip \notin ClipsOf(items)
    /\ poll' = [poll EXCEPT !.pc = "write"]
    /\ UNCHANGED <<items, consent, pngs, pngCount, prints, clipCommand, removed, untidy,
                   clipFaults>>

PollWrites ==
    /\ poll.pc = "write"
    /\ \/ /\ pngCount < MaxPngs
          /\ pngCount' = pngCount + 1 /\ pngs' = pngs \cup {pngCount + 1}
          /\ poll' = [poll EXCEPT !.pc = "insert"] /\ UNCHANGED clipFaults
       \/ ClipFault /\ poll' = AfterKind("image") /\ UNCHANGED <<pngs, pngCount>>
    /\ UNCHANGED <<items, consent, prints, clipCommand, removed, untidy>>

\* ... and the consent is read again before it becomes an entry.
StillConsents == consent["image"]

PollInserts ==
    /\ poll.pc = "insert"
    /\ \/ /\ StillConsents /\ PollRecords("image", pngCount)
          /\ UNCHANGED <<pngs, prints, untidy, clipFaults>>
       \/ /\ StillConsents => ClipFault
          /\ ~StillConsents => UNCHANGED clipFaults
          /\ \/ pngs' = pngs \ {pngCount} /\ UNCHANGED untidy
             \/ untidy' = TRUE /\ UNCHANGED pngs
          /\ Seen("image", ~StillConsents)
          /\ poll' = AfterKind("image") /\ UNCHANGED <<items, removed>>
    /\ UNCHANGED <<consent, pngCount, clipCommand>>

\* The process ends at any moment; what the poll saw is only in memory.
ClipCrash ==
    /\ ClipFault
    /\ prints' = NoPrints /\ removed' = {}
    /\ poll' = NotPolling /\ clipCommand' = NotAsked
    /\ untidy' = TRUE
    /\ UNCHANGED <<items, consent, pngs, pngCount>>

ClipNext ==
    \/ SetHistoryEnabled \/ SetCaptureOptions \/ ResetPollState
    \/ SetPinned \/ DeleteItem \/ ClearUnpinned \/ CommandCleans
    \/ CopyItem \/ CopyCaptures \/ CopyRecords
    \/ PollSamples \/ PollCleans \/ PollEncodes \/ PollWrites \/ PollInserts
    \/ \E k \in AllKinds : PollPasses(k) \/ PollCaptures(k)
    \/ ClipCrash

ClipSpec == ClipInit /\ [][ClipNext]_clipVars

--------------------------------------------------------------------------------
(* Every picture in the list can be shown, whatever was recorded, removed or   *)
(* interrupted meanwhile; and once nobody is at work no picture outlives its   *)
(* entry, unless a removal failed or a crash came before it.                   *)
PicturesMatchItems ==
    /\ PicturesOf(items) \subseteq pngs
    /\ poll = NotPolling /\ clipCommand = NotAsked =>
         pngs = PicturesOf(items) \/ untidy

(* What the poll takes for seen, and so never records again while it stays on  *)
(* the clipboard, is in the list or was removed from it since: a change of the *)
(* consent in the middle of a poll, or a save that failed, hides nothing.      *)
NothingHidden ==
    clipCommand.pc # "reset" =>
      \A k \in Kinds :
         consent[k] /\ prints[k] \in Clips => prints[k] \in ClipsOf(items) \cup removed
================================================================================
