----------------------------- MODULE HostsFile -----------------------------
(***************************************************************************)
(* The hosts file of the system, of which hosts_manager.rs owns the lines  *)
(* between two markers.  A change is computed from the file the user has   *)
(* seen and carried out by an elevated helper, which checks that the file  *)
(* is still the same; other programs edit it at any time.  The host waits  *)
(* 120 seconds for a helper that may go on afterwards.                     *)
(***************************************************************************)
EXTENDS Naturals, Sequences

CONSTANTS
    Domains,
    FirstHosts,     \* contents the file may have at first
    Helpers,        \* helper processes at once
    MaxLines        \* length up to which other programs add lines

VARIABLES
    hosts, backup,  \* the file, and the one it replaced; <<>> when there is none
    viewed,         \* what the user has seen, by its fingerprint
    applying,       \* the helper the host waits for
    helper          \* each helper process

hostsVars == <<hosts, backup, viewed, applying, helper>>

-----------------------------------------------------------------------------
(* Lines.  A marker may have blanks around it. *)

Line(kind, d, on) == [kind |-> kind, domain |-> d, on |-> on]
NoDomain == "none"
Marks(kind)  == Line(kind, NoDomain, FALSE)
Comment      == Marks("comment")
Mappings     == {Line("map", d, on) : d \in Domains, on \in BOOLEAN}
Markers      == {"start", "end", "blank start", "blank end"}
Lines        == [kind : Markers \cup {"map", "comment"}, domain : Domains \cup {NoDomain}, on : BOOLEAN]

ASSUME HostsAssumption == MaxLines \in Nat /\ FirstHosts \subseteq Seq(Lines)

IsStart(l)   == l.kind \in {"start", "blank start"}
IsEnd(l)     == l.kind \in {"end", "blank end"}
Positions(h, kind) == {i \in 1..Len(h) : h[i].kind = kind}

\* managed_block_range looks for the exact markers: none, or one of each in order.
Unmarked(h)  == Positions(h, "start") = {} /\ Positions(h, "end") = {}
OneBlock(h)  == \E i, j \in 1..Len(h) :
    i < j /\ Positions(h, "start") = {i} /\ Positions(h, "end") = {j}
WellMarked(h) == Unmarked(h) \/ OneBlock(h)
First(h) == CHOOSE i \in Positions(h, "start") : TRUE
Last(h)  == CHOOSE i \in Positions(h, "end") : TRUE

\* The lines outside the block are kept byte for byte.
LinesBefore(h) == IF Unmarked(h) THEN h ELSE SubSeq(h, 1, First(h) - 1)
LinesAfter(h)  == IF Unmarked(h) THEN <<>> ELSE SubSeq(h, Last(h) + 1, Len(h))
Block(entries) == <<Marks("start")>> \o entries \o <<Marks("end")>>

ReplaceBlock(h, entries) == LinesBefore(h) \o Block(entries) \o LinesAfter(h)

\* Parsing trims the lines first, so it sees more markers.
Inside(h, i) ==
    \E s \in 1..(i - 1) : IsStart(h[s]) /\ \A e \in s..(i - 1) : ~IsEnd(h[e])
External(h)  == {h[i].domain : i \in {j \in Positions(h, "map") : ~Inside(h, j) /\ h[j].on}}
Conflict(h, entries) == \E i \in 1..Len(entries) : entries[i].on /\ entries[i].domain \in External(h)

\* Within a request a domain is given once.
EntryLists  == {<<>>} \cup {<<a>> : a \in Mappings}
            \cup {e \in {<<a, b>> : a, b \in Mappings} : e[1].domain # e[2].domain}

-----------------------------------------------------------------------------
(* The host and its helpers.  What a helper is asked for is in a file the   *)
(* host removes when it stops waiting.                                      *)

NoHelper   == "nobody"
Restore    == [restore |-> TRUE, entries |-> <<>>, content |-> <<>>]
Apply(e)   == [restore |-> FALSE, entries |-> e, content |-> ReplaceBlock(viewed, e)]
NotStarted == [pc |-> "off", seen |-> <<>>, checked |-> <<>>, action |-> Restore]

HelperAt(n, pc) == helper[n].pc = pc
HelperGoto(n, pc) == helper' = [helper EXCEPT ![n].pc = pc]
HelperEnds(n, pc) == helper' = [helper EXCEPT ![n] = [NotStarted EXCEPT !.pc = pc]]
CanStart(n) == applying = NoHelper /\ helper[n].pc \in {"off", "failed", "done"}

\* get_hosts_snapshot refuses a file whose markers are damaged.
View ==
    /\ WellMarked(hosts) /\ viewed' = hosts
    /\ UNCHANGED <<hosts, backup, applying, helper>>

\* Mutant: the host does not look at the lines outside its block.
AskUnchecked(n) ==
    /\ CanStart(n) /\ hosts = viewed
    /\ \E a \in {Apply(e) : e \in EntryLists} :
         helper' = [helper EXCEPT ![n] = [NotStarted EXCEPT !.pc = "asked", !.seen = viewed, !.action = a]]
    /\ applying' = n /\ UNCHANGED <<hosts, backup, viewed>>

\* apply_hosts_entries and restore_hosts_backup: one request at a time, for the
\* file the user has seen.
Ask(n) ==
    /\ CanStart(n) /\ hosts = viewed
    /\ \E a \in {Apply(e) : e \in EntryLists} \cup {Restore} :
         /\ IF a.restore THEN backup # <<>> ELSE WellMarked(hosts) /\ ~Conflict(hosts, a.entries)
         /\ helper' = [helper EXCEPT ![n] = [NotStarted EXCEPT !.pc = "asked", !.seen = viewed, !.action = a]]
    /\ applying' = n /\ UNCHANGED <<hosts, backup, viewed>>

\* Mutant: the helper trusts the check of the host.
CheckTrusting(n) ==
    /\ HelperAt(n, "asked")
    /\ helper' = [helper EXCEPT ![n].pc = "checked", ![n].checked = hosts,
                                ![n].action.content = IF @ = <<>> THEN backup ELSE @]
    /\ UNCHANGED <<hosts, backup, viewed, applying>>

\* The helper reads its request, if it is still there and young enough, compares
\* the fingerprint and takes the content from the request or from the backup.
Check(n) ==
    /\ HelperAt(n, "asked")
    /\ \/ /\ applying = n /\ hosts = helper[n].seen
          /\ helper[n].action.restore => backup # <<>>
          /\ helper' = [helper EXCEPT ![n].pc = "checked", ![n].checked = hosts, ![n].seen = <<>>,
                            ![n].action.content = IF helper[n].action.restore THEN backup ELSE @]
       \/ HelperEnds(n, "failed")
    /\ UNCHANGED <<hosts, backup, viewed, applying>>

\* The old backup makes room.
DropBackup(n) ==
    /\ HelperAt(n, "checked")
    /\ \/ backup' = <<>> /\ HelperGoto(n, "cleared")
       \/ HelperEnds(n, "failed") /\ UNCHANGED backup
    /\ UNCHANGED <<hosts, viewed, applying>>

\* ReplaceFileW swaps the files whole, whatever the file holds by now.
Replace(n) ==
    /\ HelperAt(n, "cleared")
    /\ \/ /\ hosts' = helper[n].action.content /\ backup' = hosts
          /\ HelperEnds(n, "done")
       \/ HelperEnds(n, "failed") /\ UNCHANGED <<hosts, backup>>
    /\ UNCHANGED <<viewed, applying>>

\* The helper has ended, UAC was refused, or 120 seconds are over; in the first
\* case the host shows what is there.
StopWaiting(n) ==
    /\ applying = n /\ applying' = NoHelper
    /\ viewed' = IF HelperAt(n, "done") /\ WellMarked(hosts) THEN hosts ELSE viewed
    /\ UNCHANGED <<hosts, backup, helper>>

\* Another program adds a line at either end, or removes one.
Edit ==
    /\ \/ /\ Len(hosts) < MaxLines
          /\ \E d \in Domains :
               \/ hosts' = <<Line("map", d, TRUE)>> \o hosts
               \/ hosts' = Append(hosts, Line("map", d, TRUE))
       \/ Len(hosts) > 1 /\ hosts' = Tail(hosts)
    /\ UNCHANGED <<backup, viewed, applying, helper>>

HostsInit ==
    /\ hosts \in FirstHosts /\ backup = <<>> /\ viewed = <<>> /\ applying = NoHelper
    /\ helper = [n \in Helpers |-> NotStarted]

HelperStep(n) == Check(n) \/ DropBackup(n) \/ Replace(n)

HostsNext ==
    \/ View \/ Edit
    \/ \E n \in Helpers : Ask(n) \/ StopWaiting(n) \/ HelperStep(n)

HostsSpec == HostsInit /\ [][HostsNext]_hostsVars

-----------------------------------------------------------------------------
(* Properties *)

Applies(n) ==
    helper[n].pc = "cleared" /\ helper'[n].pc = "done" /\ ~helper[n].action.restore

\* An apply changes the lines between the markers and no others, for a file that
\* is still what the helper checked (docs/HOSTS_MANAGER.md:17): what other
\* programs wrote while the user looked at an older file is not overwritten.
OthersLinesStay ==
    [][\A n \in Helpers : Applies(n) /\ hosts = helper[n].checked =>
          LinesBefore(hosts') = LinesBefore(hosts) /\ LinesAfter(hosts') = LinesAfter(hosts)]_hostsVars
=============================================================================
