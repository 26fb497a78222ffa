------------------------ MODULE PluginLeases_proofs ------------------------
(* What holds of PluginLeases for any plugins, leases and bounds. *)
EXTENDS PluginLeases, FiniteSetTheorems, TLAPS

LeaseRecords == [state : {"unused", "live", "stale", "gone", "expired"},
                 plugin : Plugins \cup {None}, version : 0..MaxVersion,
                 window : {"main", "detached"}]

\* A lease that was issued has a plugin, a call under way a plugin and a lease,
\* a request under way a plugin and then a lease, an update under way a plugin.
LeasesWired   == \A l \in Leases : lease[l].state # "unused" => lease[l].plugin \in Plugins
CallsWired    == \A c \in Calls : calls[c].pc # "idle" =>
                    calls[c].plugin \in Plugins /\ calls[c].lease \in Leases
RequestsWired == \A r \in Requests : /\ requests[r].pc # "idle" => requests[r].plugin \in Plugins
                                     /\ requests[r].pc = "issued" => requests[r].lease \in Leases
UpdatesWired  == \A u \in Updates : updates[u].plugin \in Plugins <=>
                    updates[u].pc \notin {"idle", "done"}

TypeInv == LeaseTypes /\ LeasesWired /\ CallsWired /\ RequestsWired /\ UpdatesWired

-----------------------------------------------------------------------------
(* What a step can do to the leases *)

\* Removal changes the state of the removed leases and nothing else.
LEMMA WithoutFacts ==
  ASSUME lease \in [Leases -> LeaseRecords], NEW S
  PROVE  /\ Without(S) \in [Leases -> LeaseRecords]
         /\ \A l \in Leases :
              /\ Without(S)[l].plugin = lease[l].plugin
              /\ Without(S)[l].version = lease[l].version
              /\ Without(S)[l].window = lease[l].window
              /\ l \in S /\ lease[l].state = "live" => Without(S)[l].state = "gone"
              /\ l \in S /\ lease[l].state = "stale" => Without(S)[l].state = "expired"
              /\ l \notin S \/ ~InMap(l) => Without(S)[l].state = lease[l].state
<1>1. ASSUME NEW l \in Leases
      PROVE  Without(S)[l] = IF l \in S /\ InMap(l)
                THEN [lease[l] EXCEPT !.state = IF @ = "live" THEN "gone" ELSE "expired"]
                ELSE lease[l]
  BY DEF Without
<1>2. ASSUME NEW l \in Leases
      PROVE  /\ Without(S)[l] \in LeaseRecords
             /\ Without(S)[l].plugin = lease[l].plugin
             /\ Without(S)[l].version = lease[l].version
             /\ Without(S)[l].window = lease[l].window
             /\ l \in S /\ lease[l].state = "live" => Without(S)[l].state = "gone"
             /\ l \in S /\ lease[l].state = "stale" => Without(S)[l].state = "expired"
             /\ l \notin S \/ ~InMap(l) => Without(S)[l].state = lease[l].state
  <2>1. lease[l] \in LeaseRecords
    OBVIOUS
  <2>2. CASE l \in S /\ InMap(l)
    BY <1>1, <2>1, <2>2 DEF LeaseRecords, InMap
  <2>3. CASE ~(l \in S /\ InMap(l))
    BY <1>1, <2>1, <2>3 DEF InMap
  <2> QED
    BY <2>2, <2>3
<1>3. Without(S) = [l \in Leases |-> Without(S)[l]]
  BY DEF Without
<1> QED
  BY <1>2, <1>3

\* The new lease of a request.
Granted(r, l) ==
    /\ lease[l].state = "unused"
    /\ lease' = [Without(Replaced(requests[r].plugin)) EXCEPT ![l] =
                    [state |-> "live", plugin |-> requests[r].plugin,
                     version |-> source[requests[r].plugin].version,
                     window |-> requests[r].window]]

\* The actions that change each variable.
FrameSource ==
    \/ UNCHANGED source
    \/ \E p \in Changing : Install(p) \/ Withdraw(p) \/ Enable(p)
    \/ \E u \in Updates : UpdateSwap(u)
FrameUnrevoked ==
    \/ UNCHANGED unrevoked
    \/ \E p : Revoke(p)
    \/ \E r \in Requests : Issue(r)
    \/ \E p \in Changing : Install(p) \/ Withdraw(p)
    \/ \E u \in Updates : UpdateSwap(u)
FrameLease ==
    \/ UNCHANGED lease
    \/ \E l \in Leases : Lapse(l) \/ Touch(l) \/ Release(l)
    \/ \E r \in Requests : \/ Refuse(r)
                           \/ \E l \in Leases : Issue(r) /\ Granted(r, l)
    \/ \E p : Writable /\ Revoke(p)
FrameOwner ==
    \/ UNCHANGED owner
    \/ \E p : ClearRuntime(p)
    \/ \E c \in Calls : CallRegister(c)
FrameCalls ==
    \/ UNCHANGED calls
    \/ \E c \in Calls : \/ CallEnter(c) \/ CallRegister(c) \/ CallNative(c)
                        \/ \E l \in Leases : CallBegin(c, l)
FrameCommands ==
    \/ UNCHANGED commands
    \/ \E c \in Calls : CallNative(c)
    \/ \E p \in Plugins : RunPluginCommand(p) \/ CommandEnds(p)
FrameUpdating ==
    \/ UNCHANGED updating
    \/ \E u \in Updates : \/ \E p \in Changing : UpdateBegin(u, p)
                          \/ UpdateGit(u) \/ UpdateSwap(u) \/ UpdateKeep(u) \/ UpdateFinish(u)
FrameRequests ==
    \/ UNCHANGED requests
    \/ \E r \in Requests : \/ Issue(r) \/ Refuse(r) \/ Bind(r)
                           \/ \E p \in Plugins : MainRequest(r, p) \/ DetachedRequest(r, p)
FrameWindows ==
    \/ UNCHANGED <<detached, releasing>>
    \/ \E r \in Requests : Bind(r)
    \/ \E p \in Changing : OpenWindow(p) \/ CloseWindow(p)
    \/ \E l \in Leases : GiveBack(l) \/ Release(l)

Frames == /\ FrameSource /\ FrameUnrevoked /\ FrameLease /\ FrameOwner /\ FrameCalls
          /\ FrameCommands /\ FrameUpdating /\ FrameRequests /\ FrameWindows

\* Nothing else changes them.
LEMMA NextFrames == [Next]_vars => Frames
<1> SUFFICES ASSUME [Next]_vars PROVE Frames
  OBVIOUS
<1> USE DEF Frames, FrameSource, FrameUnrevoked, FrameLease, FrameOwner, FrameCalls,
            FrameCommands, FrameUpdating, FrameRequests, FrameWindows
<1> USE DEF documents, plugin, bridge, updating, windows
<1>1. ASSUME NEW r \in Requests, Issue(r) PROVE Frames
  BY <1>1 DEF Issue, Granted
<1>2. ASSUME NEW r \in Requests, Refuse(r) PROVE Frames
  BY <1>2 DEF Refuse
<1>3. ASSUME NEW r \in Requests, Bind(r) PROVE Frames
  BY <1>3 DEF Bind
<1>4. ASSUME NEW r \in Requests, NEW p \in Plugins, MainRequest(r, p) PROVE Frames
  BY <1>4 DEF MainRequest
<1>5. ASSUME NEW r \in Requests, NEW p \in Plugins, DetachedRequest(r, p) PROVE Frames
  BY <1>5 DEF DetachedRequest
<1>6. ASSUME NEW p \in Changing, OpenWindow(p) PROVE Frames
  BY <1>6 DEF OpenWindow
<1>7. ASSUME NEW p \in Changing, CloseWindow(p) PROVE Frames
  BY <1>7 DEF CloseWindow
<1>8. ASSUME NEW l \in Leases, GiveBack(l) PROVE Frames
  BY <1>8 DEF GiveBack
<1>9. ASSUME NEW l \in Leases, Release(l) PROVE Frames
  BY <1>9 DEF Release
<1>10. ASSUME NEW l \in Leases, Lapse(l) PROVE Frames
  BY <1>10 DEF Lapse
<1>11. ASSUME NEW l \in Leases, Touch(l) PROVE Frames
  BY <1>11 DEF Touch
<1>12. ASSUME NEW c \in Calls, NEW l \in Leases, CallBegin(c, l) PROVE Frames
  BY <1>12 DEF CallBegin
<1>13. ASSUME NEW c \in Calls, CallEnter(c) PROVE Frames
  BY <1>13 DEF CallEnter
<1>14. ASSUME NEW c \in Calls, CallRegister(c) PROVE Frames
  BY <1>14 DEF CallRegister
<1>15. ASSUME NEW c \in Calls, CallNative(c) PROVE Frames
  BY <1>15 DEF CallNative
<1>16. ASSUME NEW p \in Plugins, RunPluginCommand(p) PROVE Frames
  BY <1>16 DEF RunPluginCommand
<1>17. ASSUME NEW p \in Plugins, CommandEnds(p) PROVE Frames
  BY <1>17 DEF CommandEnds
<1>18. ASSUME NEW p \in Changing, Install(p) PROVE Frames
  BY <1>18 DEF Install, SourceOperation, RevokeOrFail, Revoke
<1>19. ASSUME NEW p \in Changing, Withdraw(p) PROVE Frames
  BY <1>19 DEF Withdraw, SourceOperation, RevokeOrFail, Revoke
<1>20. ASSUME NEW p \in Changing, Enable(p) PROVE Frames
  BY <1>20 DEF Enable, SourceOperation
<1>21. ASSUME NEW u \in Updates, NEW p \in Changing, UpdateBegin(u, p) PROVE Frames
  BY <1>21 DEF UpdateBegin
<1>22. ASSUME NEW u \in Updates, UpdateGit(u) PROVE Frames
  BY <1>22 DEF UpdateGit
<1>23. ASSUME NEW u \in Updates, UpdateSwap(u) PROVE Frames
  BY <1>23 DEF UpdateSwap
<1>24. ASSUME NEW u \in Updates, UpdateKeep(u) PROVE Frames
  BY <1>24 DEF UpdateKeep
<1>25. ASSUME NEW u \in Updates, UpdateFinish(u) PROVE Frames
  BY <1>25 DEF UpdateFinish, Revoke
<1>26. CASE UNCHANGED vars
  BY <1>26 DEF vars
<1>27. CASE \E r \in Requests : Issue(r) \/ Refuse(r) \/ Bind(r)
  BY <1>27, <1>1, <1>2, <1>3
<1>28. CASE \E r \in Requests, p \in Plugins : MainRequest(r, p) \/ DetachedRequest(r, p)
  BY <1>28, <1>4, <1>5
<1>29. CASE \E p \in Changing : OpenWindow(p) \/ CloseWindow(p)
  BY <1>29, <1>6, <1>7
<1>30. CASE \E l \in Leases : GiveBack(l) \/ Release(l) \/ Lapse(l) \/ Touch(l)
  BY <1>30, <1>8, <1>9, <1>10, <1>11
<1>31. CASE \E c \in Calls, l \in Leases : CallBegin(c, l)
  BY <1>31, <1>12
<1>32. CASE \E c \in Calls : CallEnter(c) \/ CallRegister(c) \/ CallNative(c)
  BY <1>32, <1>13, <1>14, <1>15
<1>33. CASE \E p \in Plugins : RunPluginCommand(p) \/ CommandEnds(p)
  BY <1>33, <1>16, <1>17
<1>34. CASE \E p \in Changing : Install(p) \/ Withdraw(p) \/ Enable(p)
  BY <1>34, <1>18, <1>19, <1>20
<1>35. CASE \E u \in Updates, p \in Changing : UpdateBegin(u, p)
  BY <1>35, <1>21
<1>36. CASE \E u \in Updates : UpdateGit(u) \/ UpdateSwap(u) \/ UpdateKeep(u) \/ UpdateFinish(u)
  BY <1>36, <1>22, <1>23, <1>24, <1>25
<1> QED
  BY <1>26, <1>27, <1>28, <1>29, <1>30, <1>31, <1>32, <1>33, <1>34, <1>35, <1>36 DEF Next

-----------------------------------------------------------------------------
(* Types *)

\* The types hold at the start.
LEMMA TypeInit == Init => TypeInv
<1> SUFFICES ASSUME Init PROVE TypeInv
  OBVIOUS
<1>1. 1 \in Versions /\ 0 \in 0..MaxVersion
  BY LeaseAssumption DEF Versions
<1>2. LeaseTypes
  BY <1>1 DEF Init, LeaseTypes, NoLease, NoCall, NoRequest, NoUpdate, Closed, Phases, Quiet
<1>3. LeasesWired /\ CallsWired /\ RequestsWired
  BY DEF Init, LeasesWired, CallsWired, RequestsWired, NoLease, NoCall, NoRequest
<1>4. UpdatesWired
  BY LeaseAssumption DEF Init, UpdatesWired, NoUpdate
<1> QED
  BY <1>2, <1>3, <1>4 DEF TypeInv

SourceRecords == [version : Versions, enabled : BOOLEAN]

\* A source is replaced below the bound only.
LEMMA SourceStep ==
  ASSUME TypeInv, FrameSource
  PROVE  source' \in [Plugins -> SourceRecords]
<1>1. source \in [Plugins -> SourceRecords]
  BY DEF TypeInv, LeaseTypes, SourceRecords
<1>2. ASSUME NEW p \in Plugins, source[p].version < MaxVersion
      PROVE  NextVersion(p) \in Versions
  BY <1>1, <1>2, LeaseAssumption DEF Versions, NextVersion, SourceRecords
<1>3. ASSUME NEW p \in Plugins, NEW e \in BOOLEAN, source[p].version < MaxVersion
      PROVE  [version |-> NextVersion(p), enabled |-> e] \in SourceRecords
  BY <1>2, <1>3 DEF SourceRecords
<1>4. ASSUME NEW p \in Plugins, NEW to \in SourceRecords, SourceOperation(p, to)
      PROVE  source' \in [Plugins -> SourceRecords]
  BY <1>1, <1>4 DEF SourceOperation
<1>5. ASSUME NEW p \in Changing, Install(p) PROVE source' \in [Plugins -> SourceRecords]
  <2>1. p \in Plugins /\ source[p].version < MaxVersion
    BY <1>5, LeaseAssumption DEF Install
  <2>2. source[p].enabled \in BOOLEAN
    BY <1>1, <2>1 DEF SourceRecords
  <2>3. PICK e \in {TRUE, source[p].enabled} :
           SourceOperation(p, [version |-> NextVersion(p), enabled |-> e])
    BY <1>5 DEF Install
  <2>4. e \in BOOLEAN
    BY <2>2
  <2> QED
    BY <1>3, <1>4, <2>1, <2>3, <2>4
<1>6. ASSUME NEW p \in Changing, Withdraw(p) \/ Enable(p)
      PROVE  source' \in [Plugins -> SourceRecords]
  <2>1. p \in Plugins
    BY LeaseAssumption
  <2>2. \A b \in BOOLEAN : [source[p] EXCEPT !.enabled = b] \in SourceRecords
    BY <1>1, <2>1 DEF SourceRecords
  <2>3. PICK b \in BOOLEAN : SourceOperation(p, [source[p] EXCEPT !.enabled = b])
    BY <1>6 DEF Withdraw, Enable
  <2> QED
    BY <1>4, <2>1, <2>2, <2>3
<1>7. ASSUME NEW u \in Updates, UpdateSwap(u) PROVE source' \in [Plugins -> SourceRecords]
  <2>1. updates[u].plugin \in Plugins /\ source[updates[u].plugin].version < MaxVersion
    BY <1>7 DEF TypeInv, UpdatesWired, UpdateSwap
  <2>2. NextVersion(updates[u].plugin) \in Versions
    BY <1>2, <2>1
  <2>3. source' = [source EXCEPT ![updates[u].plugin].version = NextVersion(updates[u].plugin)]
    BY <1>7 DEF UpdateSwap
  <2> QED
    BY <1>1, <2>1, <2>2, <2>3 DEF SourceRecords
<1> QED
  BY <1>1, <1>5, <1>6, <1>7 DEF FrameSource

\* Only plugins whose source changed are left unrevoked.
LEMMA UnrevokedStep ==
  ASSUME TypeInv, FrameUnrevoked
  PROVE  unrevoked' \subseteq Plugins
<1>1. unrevoked \subseteq Plugins /\ Changing \subseteq Plugins
  BY LeaseAssumption DEF TypeInv, LeaseTypes
<1>2. ASSUME NEW p \in Changing, Install(p) \/ Withdraw(p) PROVE unrevoked' \subseteq Plugins
  BY <1>1, <1>2 DEF Install, Withdraw, RevokeOrFail, Revoke
<1>3. ASSUME NEW u \in Updates, UpdateSwap(u) PROVE unrevoked' \subseteq Plugins
  <2>1. updates[u].plugin \in Plugins
    BY <1>3 DEF TypeInv, UpdatesWired, UpdateSwap
  <2> QED
    BY <1>1, <1>3, <2>1 DEF UpdateSwap
<1>4. ASSUME NEW p, Revoke(p) PROVE unrevoked' \subseteq Plugins
  BY <1>1, <1>4 DEF Revoke
<1>5. ASSUME NEW r \in Requests, Issue(r) PROVE unrevoked' \subseteq Plugins
  BY <1>1, <1>5 DEF Issue
<1> QED
  BY <1>1, <1>2, <1>3, <1>4, <1>5 DEF FrameUnrevoked

\* The lease of a request records its plugin and the version served.
LEMMA LeaseStep ==
  ASSUME TypeInv, FrameLease
  PROVE  lease' \in [Leases -> LeaseRecords] /\ LeasesWired'
<1>1. lease \in [Leases -> LeaseRecords] /\ LeasesWired
  BY DEF TypeInv, LeaseTypes, LeaseRecords
<1>2. CASE UNCHANGED lease
  BY <1>1, <1>2 DEF LeasesWired
<1>3. ASSUME NEW S, lease' = Without(S)
      PROVE  lease' \in [Leases -> LeaseRecords] /\ LeasesWired'
  BY <1>1, <1>3, WithoutFacts DEF LeasesWired, InMap
<1>4. ASSUME NEW l \in Leases, Lapse(l)
      PROVE  lease' \in [Leases -> LeaseRecords] /\ LeasesWired'
  BY <1>1, <1>4 DEF LeasesWired, Lapse, LeaseRecords
<1>5. ASSUME NEW r \in Requests, NEW l \in Leases, Issue(r), Granted(r, l)
      PROVE  lease' \in [Leases -> LeaseRecords] /\ LeasesWired'
  <2>1. requests[r].plugin \in Plugins
    BY <1>5 DEF Issue, TypeInv, RequestsWired
  <2>2. /\ source[requests[r].plugin].version \in 0..MaxVersion
        /\ requests[r].window \in {"main", "detached"}
    BY <2>1, LeaseAssumption DEF TypeInv, LeaseTypes, Versions
  <2> DEFINE new == [state |-> "live", plugin |-> requests[r].plugin,
                     version |-> source[requests[r].plugin].version,
                     window |-> requests[r].window]
             W == Without(Replaced(requests[r].plugin))
  <2>3. new \in LeaseRecords /\ new.plugin \in Plugins
    BY <2>1, <2>2 DEF LeaseRecords
  <2>4. /\ W \in [Leases -> LeaseRecords]
        /\ \A k \in Leases : W[k].state # "unused" => W[k].plugin \in Plugins
    BY <1>1, WithoutFacts DEF LeasesWired, InMap
  <2>5. lease' = [W EXCEPT ![l] = new]
    BY <1>5 DEF Granted
  <2> HIDE DEF new, W
  <2> QED
    BY <2>3, <2>4, <2>5 DEF LeasesWired
<1>6. ASSUME NEW l \in Leases, Touch(l) \/ Release(l)
      PROVE  lease' \in [Leases -> LeaseRecords] /\ LeasesWired'
  BY <1>3, <1>6 DEF Touch, Release
<1>7. ASSUME NEW r \in Requests, Refuse(r)
      PROVE  lease' \in [Leases -> LeaseRecords] /\ LeasesWired'
  BY <1>2, <1>3, <1>7 DEF Refuse
<1>8. ASSUME NEW p, Revoke(p) PROVE lease' \in [Leases -> LeaseRecords] /\ LeasesWired'
  BY <1>3, <1>8 DEF Revoke
<1> QED
  BY <1>2, <1>4, <1>5, <1>6, <1>7, <1>8 DEF FrameLease

\* Registrations come from leases.
LEMMA OwnerStep ==
  ASSUME TypeInv, FrameOwner
  PROVE  owner' \in [Plugins -> Leases \cup {None}]
<1>1. owner \in [Plugins -> Leases \cup {None}]
  BY DEF TypeInv, LeaseTypes
<1>2. \A c \in Calls : CallRegister(c) => calls[c].lease \in Leases
  BY DEF TypeInv, CallsWired, CallRegister
<1> QED
  BY <1>1, <1>2 DEF FrameOwner, ClearRuntime, CallRegister

CallRecords == [pc : {"idle", "checked", "entered"},
                plugin : Plugins \cup {None}, lease : Leases \cup {None}]
CallTypes == calls \in [Calls -> CallRecords] /\ CallsWired

\* A call belongs to a lease in the map when it begins.
LEMMA CallStep ==
  ASSUME TypeInv, FrameCalls
  PROVE  CallTypes'
<1>1. /\ calls \in [Calls -> [pc : {"idle", "checked", "entered"},
                            plugin : Plugins \cup {None}, lease : Leases \cup {None}]]
      /\ CallsWired
  BY DEF TypeInv, LeaseTypes
<1>2. \A l \in Leases : InMap(l) => lease[l].plugin \in Plugins
  BY DEF CallTypes, CallRecords, TypeInv, LeasesWired, InMap
<1>3. ASSUME NEW c \in Calls, CallEnter(c) PROVE CallTypes'
  BY <1>1, <1>3 DEF CallTypes, CallRecords, CallsWired, CallEnter, NoCall
<1>4. ASSUME NEW c \in Calls, CallRegister(c) \/ CallNative(c) PROVE CallTypes'
  BY <1>1, <1>4 DEF CallTypes, CallRecords, CallsWired, CallRegister, CallNative, NoCall
<1>5. ASSUME NEW c \in Calls, NEW l \in Leases, CallBegin(c, l) PROVE CallTypes'
  BY <1>1, <1>2, <1>5 DEF CallTypes, CallRecords, CallsWired, CallBegin
<1>6. CASE UNCHANGED calls
  BY <1>1, <1>6 DEF CallTypes, CallRecords, CallsWired
<1>7. CASE \E c \in Calls : \/ CallEnter(c) \/ CallRegister(c) \/ CallNative(c)
                           \/ \E l \in Leases : CallBegin(c, l)
  BY <1>3, <1>4, <1>5, <1>7
<1> QED
  BY <1>6, <1>7 DEF FrameCalls

\* A command runs from a version that is installed.
LEMMA CommandStep ==
  ASSUME TypeInv, FrameCommands
  PROVE  commands' \in [Plugins -> 0..MaxVersion]
<1>1. /\ commands \in [Plugins -> 0..MaxVersion]
      /\ \A p \in Plugins : source[p].version \in 0..MaxVersion
      /\ Quiet \in 0..MaxVersion
  BY LeaseAssumption DEF TypeInv, LeaseTypes, Versions, Quiet
<1>2. \A c \in Calls : CallNative(c) => calls[c].plugin \in Plugins
  BY DEF TypeInv, CallsWired, CallNative
<1> QED
  BY <1>1, <1>2 DEF FrameCommands, CallNative, RunPluginCommand, StartCommand, CommandEnds

UpdateRecords == [pc : Phases, plugin : Plugins \cup {None}]
UpdateTypes == /\ transitions \in [Plugins -> Nat]
               /\ updates \in [Updates -> UpdateRecords]
               /\ UpdatesWired

\* An update counts its plugin in and out.
LEMMA UpdateStep ==
  ASSUME TypeInv, FrameUpdating
  PROVE  UpdateTypes'
<1>1. /\ transitions \in [Plugins -> Nat]
      /\ updates \in [Updates -> [pc : Phases, plugin : Plugins \cup {None}]]
      /\ UpdatesWired
  BY DEF TypeInv, LeaseTypes
<1>2. ASSUME NEW u \in Updates, NEW p \in Changing, UpdateBegin(u, p) PROVE UpdateTypes'
  BY <1>1, <1>2, LeaseAssumption DEF UpdateTypes, UpdateRecords, UpdateBegin, UpdatesWired, Phases
<1>3. ASSUME NEW u \in Updates, UpdateGit(u) \/ UpdateSwap(u) \/ UpdateKeep(u) PROVE UpdateTypes'
  BY <1>1, <1>3 DEF UpdateTypes, UpdateRecords, UpdateGit, UpdateSwap, UpdateKeep, UpdatesWired, Phases
<1>4. ASSUME NEW u \in Updates, UpdateFinish(u) PROVE UpdateTypes'
  BY <1>1, <1>4, LeaseAssumption DEF UpdateTypes, UpdateRecords, UpdateFinish, EndTransition, UpdatesWired, Phases
<1>5. CASE UNCHANGED updating
  BY <1>1, <1>5 DEF UpdateTypes, UpdateRecords, updating, UpdatesWired
<1>6. CASE \E u \in Updates : \/ \E p \in Changing : UpdateBegin(u, p)
                             \/ UpdateGit(u) \/ UpdateSwap(u) \/ UpdateKeep(u) \/ UpdateFinish(u)
  BY <1>2, <1>3, <1>4, <1>6
<1> QED
  BY <1>5, <1>6 DEF FrameUpdating

RequestRecords == [pc : {"idle", "waiting", "issued"}, plugin : Plugins \cup {None},
                   window : {"main", "detached"}, lease : Leases \cup {None}]

RequestTypes == requests \in [Requests -> RequestRecords] /\ RequestsWired

\* A request waits for a plugin, then holds a lease until it is bound.
LEMMA RequestStep ==
  ASSUME TypeInv, FrameRequests
  PROVE  RequestTypes'
<1>1. requests \in [Requests -> RequestRecords] /\ RequestsWired
  BY DEF TypeInv, LeaseTypes, RequestRecords
<1>2. NoRequest \in RequestRecords /\ NoRequest.pc = "idle"
  BY DEF RequestTypes, NoRequest, RequestRecords
<1>3. ASSUME NEW r \in Requests, Issue(r) PROVE RequestTypes'
  <2>1. requests[r] \in RequestRecords /\ requests[r].plugin \in Plugins
    BY <1>1, <1>3 DEF RequestTypes, Issue, RequestsWired
  <2>2. PICK l \in Leases :
           requests' = [requests EXCEPT ![r] = IF @.window = "main" THEN NoRequest
                                               ELSE [@ EXCEPT !.pc = "issued", !.lease = l]]
    BY <1>3 DEF RequestTypes, Issue
  <2> DEFINE to == IF requests[r].window = "main" THEN NoRequest
                   ELSE [requests[r] EXCEPT !.pc = "issued", !.lease = l]
  <2>3. /\ to \in RequestRecords
        /\ to.pc # "idle" => to.plugin \in Plugins /\ to.lease \in Leases
    BY <1>2, <2>1 DEF RequestTypes, RequestRecords
  <2>4. requests' = [requests EXCEPT ![r] = to]
    BY <2>2
  <2> HIDE DEF RequestTypes, to
  <2> QED
    BY <1>1, <2>3, <2>4 DEF RequestTypes, RequestsWired
<1>4. ASSUME NEW r \in Requests, Refuse(r) \/ Bind(r) PROVE RequestTypes'
  BY <1>1, <1>2, <1>4 DEF RequestTypes, Refuse, Bind, RequestsWired
<1>5. ASSUME NEW r \in Requests, NEW p \in Plugins, MainRequest(r, p) \/ DetachedRequest(r, p)
      PROVE RequestTypes'
  <2>1. requests[r] \in RequestRecords
    BY <1>1
  <2>2. PICK w \in {"main", "detached"} :
           requests' = [requests EXCEPT ![r] = [@ EXCEPT !.pc = "waiting", !.plugin = p, !.window = w]]
    BY <1>5 DEF RequestTypes, MainRequest, DetachedRequest
  <2> DEFINE to == [requests[r] EXCEPT !.pc = "waiting", !.plugin = p, !.window = w]
  <2>3. to \in RequestRecords /\ to.pc = "waiting" /\ to.plugin = p
    BY <2>1 DEF RequestTypes, RequestRecords
  <2>4. requests' = [requests EXCEPT ![r] = to]
    BY <2>2
  <2> HIDE DEF RequestTypes, to
  <2> QED
    BY <1>1, <2>3, <2>4 DEF RequestTypes, RequestsWired
<1>6. CASE UNCHANGED requests
  BY <1>1, <1>6 DEF RequestTypes, RequestsWired
<1>7. CASE \E r \in Requests : \/ Issue(r) \/ Refuse(r) \/ Bind(r)
                              \/ \E p \in Plugins : MainRequest(r, p) \/ DetachedRequest(r, p)
  BY <1>3, <1>4, <1>5, <1>7
<1> QED
  BY <1>6, <1>7 DEF FrameRequests

WindowRecords == [open : BOOLEAN, lease : Leases \cup {None}]

WindowTypes == detached \in [Plugins -> WindowRecords] /\ releasing \subseteq Leases

\* Windows and releases name leases.
LEMMA WindowStep ==
  ASSUME TypeInv, FrameWindows
  PROVE  WindowTypes'
<1>1. /\ detached \in [Plugins -> WindowRecords]
      /\ releasing \subseteq Leases
      /\ Changing \subseteq Plugins
      /\ Closed \in WindowRecords
  BY LeaseAssumption DEF TypeInv, LeaseTypes, WindowRecords, Closed
<1>2. \A p \in Plugins : detached[p].lease \in Leases \cup {None}
  BY <1>1 DEF WindowTypes, WindowRecords
<1>3. ASSUME NEW p, NEW l \in Leases \cup {None}, detached' = [detached EXCEPT ![p].lease = l]
      PROVE  detached' \in [Plugins -> WindowRecords]
  BY <1>1, <1>3 DEF WindowTypes, WindowRecords
<1>4. ASSUME NEW r \in Requests, Bind(r) PROVE WindowTypes'
  <2>1. requests[r].lease \in Leases
    BY <1>4 DEF WindowTypes, Bind, TypeInv, RequestsWired
  <2> QED
    BY <1>1, <1>3, <1>4, <2>1 DEF WindowTypes, Bind
<1>5. ASSUME NEW p \in Changing, OpenWindow(p) PROVE WindowTypes'
  BY <1>1, <1>5 DEF WindowTypes, OpenWindow, WindowRecords
<1>6. ASSUME NEW p \in Changing, CloseWindow(p) PROVE WindowTypes'
  BY <1>1, <1>2, <1>6 DEF WindowTypes, CloseWindow
<1>7. ASSUME NEW l \in Leases, GiveBack(l) \/ Release(l) PROVE WindowTypes'
  BY <1>1, <1>3, <1>7 DEF WindowTypes, GiveBack, Release
<1>8. CASE UNCHANGED <<detached, releasing>>
  BY <1>1, <1>8 DEF WindowTypes
<1> QED
  BY <1>4, <1>5, <1>6, <1>7, <1>8 DEF FrameWindows

\* Every step keeps the types.
LEMMA TypeStep == TypeInv /\ [Next]_vars => TypeInv'
<1> SUFFICES ASSUME TypeInv, [Next]_vars PROVE TypeInv'
  OBVIOUS
<1>1. Frames
  BY NextFrames
<1> QED
  BY <1>1, SourceStep, UnrevokedStep, LeaseStep, OwnerStep, CallStep, CommandStep, UpdateStep,
     RequestStep, WindowStep
  DEF Frames, TypeInv, LeaseTypes, SourceRecords, LeaseRecords, CallTypes, CallRecords,
      UpdateTypes, UpdateRecords, RequestTypes, RequestRecords, WindowTypes, WindowRecords

\* Every variable has its type in every reachable state.
THEOREM Types == Spec => []LeaseTypes
<1>1. TypeInv => LeaseTypes
  BY DEF TypeInv
<1> QED
  BY <1>1, TypeInit, TypeStep, PTL DEF Spec

-----------------------------------------------------------------------------
(* The limits, and what a refusal costs *)

\* The documents in the map and the running commands are finitely many.
LEMMA Finite ==
  ASSUME TypeInv
  PROVE  /\ IsFiniteSet(Held) /\ Cardinality(Held) \in Nat
         /\ IsFiniteSet(Running) /\ Cardinality(Running) \in Nat
<1>1. Held \in SUBSET Leases /\ Running \in SUBSET Plugins
  BY DEF Held, Running
<1> QED
  BY <1>1, FS_Subset, FS_CardinalityType, LeaseAssumption

\* Within the limit, a map that is full has nothing that could make room.
LEMMA FullFacts ==
  ASSUME TypeInv, Cardinality(Held) <= MaxLeases, NEW p, Full(p)
  PROVE  Replaced(p) = {}
<1>1. Held \ Replaced(p) \in SUBSET Held
  OBVIOUS
<1>2. /\ Cardinality(Held \ Replaced(p)) <= Cardinality(Held)
      /\ Cardinality(Held) = Cardinality(Held \ Replaced(p)) => Held = Held \ Replaced(p)
      /\ Cardinality(Held \ Replaced(p)) \in Nat
  BY <1>1, Finite, FS_Subset, FS_CardinalityType
<1>3. Held = Held \ Replaced(p)
  BY <1>2, Finite, LeaseAssumption DEF Full
<1>4. Replaced(p) \subseteq Held
  BY DEF Replaced, Expired, HeldBy, Held, InMap
<1> QED
  BY <1>3, <1>4

\* A refusal leaves the map as it is.
LEMMA RefuseKeeps ==
  ASSUME TypeInv, Limits, NEW r \in Requests, Refuse(r)
  PROVE  lease' = lease
<1>1. CASE Servable(requests[r].plugin)
  <2>1. Replaced(requests[r].plugin) = {} /\ lease' = Without(Replaced(requests[r].plugin))
    BY <1>1, FullFacts DEF Refuse, Limits
  <2>2. Without({}) = lease
    BY DEF Without, TypeInv, LeaseTypes
  <2> QED
    BY <2>1, <2>2
<1>2. CASE ~Servable(requests[r].plugin)
  BY <1>2 DEF Refuse
<1> QED
  BY <1>1, <1>2

\* What a step leaves in the map was there before, or is the lease it grants.
LEMMA HeldStep ==
  ASSUME TypeInv, FrameLease, NEW l \in Leases, InMap(l)'
  PROVE  \/ /\ InMap(l)
            /\ lease'[l].plugin = lease[l].plugin /\ lease'[l].version = lease[l].version
         \/ \E r \in Requests : Issue(r) /\ Granted(r, l)
<1>1. lease \in [Leases -> LeaseRecords]
  BY DEF TypeInv, LeaseTypes, LeaseRecords
<1>2. ASSUME NEW S, lease' = Without(S)
      PROVE  /\ InMap(l) /\ l \notin S
             /\ lease'[l].plugin = lease[l].plugin /\ lease'[l].version = lease[l].version
  BY <1>1, <1>2, WithoutFacts DEF InMap
<1>3. ASSUME NEW k \in Leases, Lapse(k)
      PROVE  /\ InMap(l)
             /\ lease'[l].plugin = lease[l].plugin /\ lease'[l].version = lease[l].version
  BY <1>1, <1>3 DEF Lapse, InMap, LeaseRecords
<1>4. ASSUME NEW r \in Requests, NEW k \in Leases, k # l, Granted(r, k)
      PROVE  /\ InMap(l)
             /\ lease'[l].plugin = lease[l].plugin /\ lease'[l].version = lease[l].version
  <2>1. lease'[l] = Without(Replaced(requests[r].plugin))[l]
    BY <1>1, <1>4, WithoutFacts DEF Granted
  <2> QED
    BY <1>1, <2>1, WithoutFacts DEF InMap
<1>5. CASE UNCHANGED lease
  BY <1>5 DEF InMap
<1>6. ASSUME NEW k \in Leases, Touch(k) \/ Release(k)
      PROVE  /\ InMap(l)
             /\ lease'[l].plugin = lease[l].plugin /\ lease'[l].version = lease[l].version
  BY <1>2, <1>6 DEF Touch, Release
<1>7. ASSUME NEW r \in Requests, Refuse(r)
      PROVE  /\ InMap(l)
             /\ lease'[l].plugin = lease[l].plugin /\ lease'[l].version = lease[l].version
  BY <1>2, <1>5, <1>7 DEF Refuse, InMap
<1>8. ASSUME NEW p, Revoke(p)
      PROVE  /\ InMap(l)
             /\ lease'[l].plugin = lease[l].plugin /\ lease'[l].version = lease[l].version
  BY <1>2, <1>8 DEF Revoke
<1> QED
  BY <1>3, <1>4, <1>5, <1>6, <1>7, <1>8 DEF FrameLease

\* A grant that finds room keeps to the limit.
LEMMA LeaseLimitStep ==
  ASSUME TypeInv, Limits, FrameLease, TypeInv'
  PROVE  Cardinality(Held') <= MaxLeases
<1>1. ASSUME NEW r \in Requests, NEW l \in Leases, Issue(r), Granted(r, l)
      PROVE  Cardinality(Held') <= MaxLeases
  <2> DEFINE p == requests[r].plugin
             K == Held \ Replaced(p)
  <2>1. K \in SUBSET Held /\ IsFiniteSet(K) /\ Cardinality(K) \in Nat
    BY Finite, FS_Subset, FS_CardinalityType
  <2>2. Cardinality(K) < MaxLeases
    BY <1>1, <2>1, LeaseAssumption DEF Issue, Full
  <2>3. lease \in [Leases -> LeaseRecords]
    BY DEF TypeInv, LeaseTypes, LeaseRecords
  <2>4. ASSUME NEW k \in Held', k # l PROVE k \in K
    <3>1. k \in Leases /\ lease'[k] = Without(Replaced(p))[k]
      BY <1>1, <2>3, <2>4, WithoutFacts DEF Granted, Held
    <3>2. lease'[k].state \in {"live", "stale"}
      BY <2>4 DEF Held, InMap
    <3> QED
      BY <2>3, <3>1, <3>2, WithoutFacts DEF Held, InMap
  <2>5. Held' \subseteq K \cup {l}
    BY <2>4
  <2>6. IsFiniteSet(K \cup {l}) /\ Cardinality(K \cup {l}) <= Cardinality(K) + 1
    <3>1. /\ IsFiniteSet(K \cup {l})
          /\ Cardinality(K \cup {l}) = IF l \in K THEN Cardinality(K) ELSE Cardinality(K) + 1
      BY <2>1, FS_AddElement
    <3> QED
      BY <2>1, <3>1
  <2>7. Cardinality(Held') <= Cardinality(K \cup {l})
    BY <2>5, <2>6, FS_Subset
  <2>8. Cardinality(Held') \in Nat /\ Cardinality(K \cup {l}) \in Nat
    BY <2>5, <2>6, FS_Subset, FS_CardinalityType
  <2> QED
    BY <2>1, <2>2, <2>6, <2>7, <2>8, LeaseAssumption
<1>2. CASE ~\E r \in Requests, l \in Leases : Issue(r) /\ Granted(r, l)
  <2>1. Held' \in SUBSET Held
    BY <1>2, HeldStep DEF Held
  <2>2. /\ Cardinality(Held') <= Cardinality(Held)
        /\ Cardinality(Held') \in Nat
    BY <2>1, Finite, FS_Subset, FS_CardinalityType
  <2> QED
    BY <2>2, Finite, LeaseAssumption DEF Limits
<1> QED
  BY <1>1, <1>2

\* A command is started only below the limit.
LEMMA CommandLimitStep ==
  ASSUME TypeInv, Limits, FrameCommands
  PROVE  Cardinality(Running') <= MaxCommands
<1>1. commands \in [Plugins -> 0..MaxVersion]
  BY DEF TypeInv, LeaseTypes
<1>2. ASSUME NEW p \in Plugins, StartCommand(p) PROVE Cardinality(Running') <= MaxCommands
  <2>1. CASE MayRun(p)
    <3>1. Running' \in SUBSET (Running \cup {p})
      BY <1>1, <1>2, <2>1 DEF StartCommand, Running
    <3>2. IsFiniteSet(Running \cup {p}) /\ Cardinality(Running \cup {p}) <= Cardinality(Running) + 1
      <4>1. /\ IsFiniteSet(Running \cup {p})
            /\ Cardinality(Running \cup {p}) =
                 IF p \in Running THEN Cardinality(Running) ELSE Cardinality(Running) + 1
        BY Finite, FS_AddElement
      <4> QED
        BY <4>1, Finite
    <3>3. /\ Cardinality(Running') <= Cardinality(Running \cup {p})
          /\ Cardinality(Running') \in Nat /\ Cardinality(Running \cup {p}) \in Nat
      BY <3>1, <3>2, FS_Subset, FS_CardinalityType
    <3> QED
      BY <2>1, <3>2, <3>3, Finite, LeaseAssumption DEF MayRun
  <2>2. CASE ~MayRun(p)
    BY <1>2, <2>2 DEF StartCommand, Running, Limits
  <2> QED
    BY <2>1, <2>2
<1>3. ASSUME NEW p \in Plugins, CommandEnds(p) PROVE Cardinality(Running') <= MaxCommands
  <2>1. Running' \in SUBSET Running
    BY <1>1, <1>3 DEF CommandEnds, Running
  <2>2. /\ Cardinality(Running') <= Cardinality(Running)
        /\ Cardinality(Running') \in Nat
    BY <2>1, Finite, FS_Subset, FS_CardinalityType
  <2> QED
    BY <2>2, Finite, LeaseAssumption DEF Limits
<1>4. CASE UNCHANGED commands
  BY <1>4 DEF Running, Limits
<1>5. \A c \in Calls : CallNative(c) => calls[c].plugin \in Plugins
  BY DEF TypeInv, CallsWired, CallNative
<1> QED
  BY <1>2, <1>3, <1>4, <1>5 DEF FrameCommands, CallNative, RunPluginCommand

\* The limits hold at the start.
LEMMA LimitInit == Init => Limits
<1> SUFFICES ASSUME Init PROVE Limits
  OBVIOUS
<1>1. Held = {} /\ Running = {}
  BY DEF Init, Held, Running, InMap, NoLease
<1> QED
  BY <1>1, FS_EmptySet, LeaseAssumption DEF Limits

\* Every step keeps them.
LEMMA LimitStep == TypeInv /\ Limits /\ [Next]_vars => Limits'
<1> SUFFICES ASSUME TypeInv, Limits, [Next]_vars PROVE Limits'
  OBVIOUS
<1>1. FrameLease /\ FrameCommands /\ TypeInv'
  BY NextFrames, TypeStep DEF Frames
<1> QED
  BY <1>1, LeaseLimitStep, CommandLimitStep DEF Limits

\* Every variable has its type, and documents and native commands keep to
\* their limits, in every reachable state.
THEOREM LeaseTyping == Spec => []LeaseTypeOK
<1>1. TypeInv /\ Limits => LeaseTypeOK
  BY DEF TypeInv, LeaseTypeOK
<1> QED
  BY <1>1, TypeInit, TypeStep, LimitInit, LimitStep, PTL DEF Spec

\* A request ends where it waited only by a grant or a refusal.
LEMMA RequestEnds ==
  ASSUME TypeInv, FrameRequests, NEW r \in Requests,
         requests[r].pc = "waiting", requests'[r].pc = "idle"
  PROVE  Issue(r) \/ Refuse(r)
<1>1. requests \in [Requests -> RequestRecords]
  BY DEF TypeInv, LeaseTypes, RequestRecords
<1>2. requests' # requests
  OBVIOUS
<1>3. PICK s \in Requests : \/ Issue(s) \/ Refuse(s) \/ Bind(s)
                            \/ \E p \in Plugins : MainRequest(s, p) \/ DetachedRequest(s, p)
  BY <1>2 DEF FrameRequests
<1>4. ASSUME s # r PROVE requests'[r] = requests[r]
  BY <1>1, <1>3, <1>4 DEF Issue, Refuse, Bind, MainRequest, DetachedRequest
<1>5. s = r
  BY <1>4
<1> QED
  BY <1>3, <1>5 DEF Bind, MainRequest, DetachedRequest

\* A request that is turned away costs nobody an open document, in any run.
THEOREM RefusalsAreFree == Spec => RefusalIsFree
<1>1. ASSUME TypeInv, Limits, [Next]_vars,
             NEW r \in Requests, requests[r].pc = "waiting", requests'[r].pc = "idle",
             Unissued' = Unissued
      PROVE  \A l \in Leases : lease[l].state = "live" => lease'[l] = lease[l]
  <2>1. Issue(r) \/ Refuse(r)
    BY <1>1, NextFrames, RequestEnds DEF Frames
  <2>2. CASE Refuse(r)
    BY <1>1, <2>2, RefuseKeeps
  <2>3. ASSUME Issue(r) PROVE FALSE
    <3>1. PICK l \in Leases : Granted(r, l)
      BY <2>3 DEF Issue, Granted
    <3>2. lease'[l].state = "live"
      BY <1>1, <3>1, WithoutFacts DEF Granted, TypeInv, LeaseTypes, LeaseRecords
    <3>3. l \in Unissued /\ l \notin Unissued'
      BY <3>1, <3>2 DEF Granted, Unissued
    <3> QED
      BY <1>1, <3>3
  <2> QED
    BY <2>1, <2>2, <2>3
<1>2. TypeInv /\ Limits /\ [Next]_vars =>
        [\A r \in Requests :
           requests[r].pc = "waiting" /\ requests'[r].pc = "idle" /\ Unissued' = Unissued
             => \A l \in Leases : lease[l].state = "live" => lease'[l] = lease[l]]_vars
  BY <1>1
<1> QED
  BY <1>2, TypeInit, TypeStep, LimitInit, LimitStep, PTL DEF Spec, RefusalIsFree

-----------------------------------------------------------------------------
(* Registrations of documents that were taken away *)

Present == {"live", "stale", "expired"}

\* The lease of a call belongs to the plugin the call was checked for.
CallsLeased == \A c \in Calls : calls[c].pc # "idle" =>
    lease[calls[c].lease].plugin = calls[c].plugin /\ lease[calls[c].lease].state # "unused"

\* The lock: no document is taken away under a call.
EnteredHold == \A c \in Calls : calls[c].pc = "entered" => lease[calls[c].lease].state \in Present

OwnerInv == TypeInv /\ Limits /\ CallsLeased /\ EnteredHold /\ OwnerNotRevoked

\* A lease once issued keeps its plugin.
LEMMA PluginKept ==
  ASSUME TypeInv, FrameLease, NEW l \in Leases, lease[l].state # "unused"
  PROVE  lease'[l].plugin = lease[l].plugin /\ lease'[l].state # "unused"
<1>1. lease \in [Leases -> LeaseRecords]
  BY DEF TypeInv, LeaseTypes, LeaseRecords
<1>2. ASSUME NEW S
      PROVE  Without(S)[l].plugin = lease[l].plugin /\ Without(S)[l].state # "unused"
  BY <1>1, WithoutFacts DEF InMap, LeaseRecords
<1>3. ASSUME NEW k \in Leases, Lapse(k) \/ Touch(k) \/ Release(k)
      PROVE  lease'[l].plugin = lease[l].plugin /\ lease'[l].state # "unused"
  BY <1>1, <1>2, <1>3 DEF Lapse, Touch, Release, LeaseRecords
<1>4. ASSUME NEW r \in Requests, NEW k \in Leases, Granted(r, k)
      PROVE  lease'[l].plugin = lease[l].plugin /\ lease'[l].state # "unused"
  <2>1. lease'[l] = Without(Replaced(requests[r].plugin))[l]
    BY <1>1, <1>4, WithoutFacts DEF Granted
  <2> QED
    BY <1>2, <2>1
<1>5. ASSUME NEW r \in Requests, Refuse(r)
      PROVE  lease'[l].plugin = lease[l].plugin /\ lease'[l].state # "unused"
  BY <1>2, <1>5 DEF Refuse
<1>6. ASSUME NEW p, Revoke(p)
      PROVE  lease'[l].plugin = lease[l].plugin /\ lease'[l].state # "unused"
  BY <1>2, <1>6 DEF Revoke
<1> QED
  BY <1>3, <1>4, <1>5, <1>6 DEF FrameLease

\* A present document is taken away only when no call is under way, and then
\* the registrations of its plugin go with it.
LEMMA TakenAway ==
  ASSUME TypeInv, Limits, FrameLease,
         NEW l \in Leases, lease[l].state \in Present, lease'[l].state \notin Present
  PROVE  Writable /\ ClearRuntime(lease[l].plugin)
<1>1. lease \in [Leases -> LeaseRecords] /\ lease[l].plugin \in Plugins
  BY DEF TypeInv, LeaseTypes, LeaseRecords, LeasesWired, Present
<1>2. lease' # lease
  OBVIOUS
<1>3. ASSUME NEW S, lease'[l] = Without(S)[l] PROVE l \in S /\ lease[l].state = "live"
  BY <1>1, <1>3, WithoutFacts DEF InMap, Present, LeaseRecords
<1>4. ASSUME NEW k \in Leases, Lapse(k) \/ Touch(k) PROVE FALSE
  <2>1. CASE Lapse(k)
    BY <1>1, <2>1 DEF Lapse, Present, LeaseRecords
  <2>2. CASE Touch(k)
    BY <1>3, <2>2 DEF Touch
  <2> QED
    BY <1>4, <2>1, <2>2
<1>5. ASSUME NEW k \in Leases, Release(k) PROVE Writable /\ ClearRuntime(lease[l].plugin)
  <2>1. l = k /\ InMap(l)
    BY <1>3, <1>5 DEF Release, InMap
  <2> QED
    BY <1>5, <2>1 DEF Release
<1>6. ASSUME NEW r \in Requests, Refuse(r) PROVE FALSE
  BY <1>2, <1>6, RefuseKeeps
<1>7. ASSUME NEW r \in Requests, NEW k \in Leases, Issue(r), Granted(r, k)
      PROVE  Writable /\ ClearRuntime(lease[l].plugin)
  <2>1. l # k
    BY <1>7 DEF Granted, Present
  <2>2. lease'[l] = Without(Replaced(requests[r].plugin))[l]
    BY <1>1, <1>7, <2>1, WithoutFacts DEF Granted
  <2>3. l \in Replaced(requests[r].plugin) /\ lease[l].state = "live"
    BY <1>3, <2>2
  <2>4. lease[l].plugin = requests[r].plugin
    BY <2>3 DEF Replaced, Expired, HeldBy
  <2> QED
    BY <1>7, <2>4 DEF Issue
<1>8. ASSUME NEW p, Writable, Revoke(p) PROVE Writable /\ ClearRuntime(lease[l].plugin)
  <2>1. lease[l].plugin = p
    BY <1>3, <1>8 DEF Revoke, HeldBy
  <2> QED
    BY <1>8, <2>1 DEF Revoke
<1> QED
  BY <1>2, <1>4, <1>5, <1>6, <1>7, <1>8 DEF FrameLease

\* A call that goes on keeps its plugin and its lease.
LEMMA CallKept ==
  ASSUME TypeInv, FrameCalls, NEW c \in Calls, calls'[c].pc # "idle"
  PROVE  \/ /\ calls[c].pc # "idle"
            /\ calls'[c].plugin = calls[c].plugin /\ calls'[c].lease = calls[c].lease
            /\ \/ calls'[c].pc = calls[c].pc
               \/ Active(calls[c].lease, calls[c].plugin) /\ UNCHANGED lease
         \/ /\ calls'[c].pc = "checked" /\ UNCHANGED lease
            /\ calls'[c].lease \in Leases /\ InMap(calls'[c].lease)
            /\ calls'[c].plugin = lease[calls'[c].lease].plugin
<1>1. calls \in [Calls -> CallRecords]
  BY DEF TypeInv, LeaseTypes, CallRecords
<1>2. ASSUME NEW d \in Calls, d # c,
             CallEnter(d) \/ CallRegister(d) \/ CallNative(d) \/ \E l \in Leases : CallBegin(d, l)
      PROVE  calls'[c] = calls[c]
  BY <1>1, <1>2 DEF CallEnter, CallRegister, CallNative, CallBegin
<1>3. ASSUME CallRegister(c) \/ CallNative(c) PROVE FALSE
  BY <1>1, <1>3 DEF CallRegister, CallNative, NoCall
<1>4. ASSUME CallEnter(c)
      PROVE  /\ calls[c].pc # "idle" /\ UNCHANGED lease
             /\ calls'[c].plugin = calls[c].plugin /\ calls'[c].lease = calls[c].lease
             /\ Active(calls[c].lease, calls[c].plugin)
  BY <1>1, <1>4 DEF CallEnter, NoCall, documents, CallRecords
<1>5. ASSUME NEW l \in Leases, CallBegin(c, l)
      PROVE  /\ calls'[c].pc = "checked" /\ UNCHANGED lease
             /\ calls'[c].lease \in Leases /\ InMap(calls'[c].lease)
             /\ calls'[c].plugin = lease[calls'[c].lease].plugin
  BY <1>1, <1>5 DEF CallBegin, documents
<1>6. CASE calls'[c] = calls[c]
  BY <1>6
<1> QED
  BY <1>2, <1>3, <1>4, <1>5, <1>6 DEF FrameCalls

\* A registration is made by a call that holds the lock.
LEMMA OwnerKept ==
  ASSUME TypeInv, FrameOwner, NEW p \in Plugins, owner'[p] # None
  PROVE  \/ owner'[p] = owner[p]
         \/ \E c \in Calls : /\ calls[c].pc = "entered"
                             /\ owner'[p] = calls[c].lease /\ calls[c].plugin = p
                             /\ UNCHANGED lease
<1>1. owner \in [Plugins -> Leases \cup {None}]
  BY DEF TypeInv, LeaseTypes
<1>2. ASSUME NEW q, ClearRuntime(q) PROVE owner'[p] = owner[p]
  BY <1>1, <1>2 DEF ClearRuntime
<1>3. ASSUME NEW c \in Calls, CallRegister(c)
      PROVE  \/ owner'[p] = owner[p]
             \/ /\ calls[c].pc = "entered"
                /\ owner'[p] = calls[c].lease /\ calls[c].plugin = p
                /\ UNCHANGED lease
  BY <1>1, <1>3 DEF CallRegister
<1> QED
  BY <1>2, <1>3 DEF FrameOwner

\* No step leaves a registration behind.
LEMMA OwnerInvStep == OwnerInv /\ [Next]_vars => OwnerInv'
<1> SUFFICES ASSUME OwnerInv, [Next]_vars PROVE OwnerInv'
  OBVIOUS
<1>1. TypeInv /\ Limits /\ CallsLeased /\ EnteredHold /\ OwnerNotRevoked
  BY DEF OwnerInv
<1>2. FrameLease /\ FrameOwner /\ FrameCalls /\ TypeInv' /\ Limits'
  BY <1>1, NextFrames, TypeStep, LimitStep DEF Frames
<1>3. \A c \in Calls : calls[c].pc # "idle" => calls[c].lease \in Leases
  BY <1>1 DEF TypeInv, CallsWired
<1>4. CallsLeased'
  <2> SUFFICES ASSUME NEW c \in Calls, calls'[c].pc # "idle"
               PROVE  /\ lease'[calls'[c].lease].plugin = calls'[c].plugin
                      /\ lease'[calls'[c].lease].state # "unused"
    BY DEF CallsLeased
  <2>1. CASE /\ calls[c].pc # "idle"
             /\ calls'[c].plugin = calls[c].plugin /\ calls'[c].lease = calls[c].lease
    BY <1>1, <1>2, <1>3, <2>1, PluginKept DEF CallsLeased
  <2>2. CASE /\ UNCHANGED lease
             /\ calls'[c].lease \in Leases /\ InMap(calls'[c].lease)
             /\ calls'[c].plugin = lease[calls'[c].lease].plugin
    BY <2>2 DEF InMap
  <2> QED
    BY <1>1, <1>2, <2>1, <2>2, CallKept
<1>5. EnteredHold'
  <2> SUFFICES ASSUME NEW c \in Calls, calls'[c].pc = "entered"
               PROVE  lease'[calls'[c].lease].state \in Present
    BY DEF EnteredHold
  <2>1. /\ calls[c].pc # "idle" /\ calls'[c].lease = calls[c].lease
        /\ \/ calls[c].pc = "entered"
           \/ Active(calls[c].lease, calls[c].plugin) /\ UNCHANGED lease
    BY <1>1, <1>2, CallKept
  <2>2. CASE calls[c].pc = "entered"
    BY <1>1, <1>2, <1>3, <2>1, <2>2, TakenAway DEF EnteredHold, Writable
  <2>3. CASE Active(calls[c].lease, calls[c].plugin) /\ UNCHANGED lease
    BY <2>1, <2>3 DEF Active, Present
  <2> QED
    BY <2>1, <2>2, <2>3
<1>6. OwnerNotRevoked'
  <2> SUFFICES ASSUME NEW p \in Plugins, owner'[p] # None
               PROVE  lease'[owner'[p]].plugin = p /\ lease'[owner'[p]].state \in Present
    BY DEF OwnerNotRevoked, Present
  <2>1. CASE owner'[p] = owner[p]
    <3>1. /\ owner[p] \in Leases /\ lease[owner[p]].plugin = p
          /\ lease[owner[p]].state \in Present
      BY <1>1, <2>1 DEF OwnerNotRevoked, Present, TypeInv, LeaseTypes
    <3>2. lease'[owner[p]].plugin = p
      BY <1>1, <1>2, <3>1, PluginKept DEF Present
    <3>3. ASSUME lease'[owner[p]].state \notin Present PROVE FALSE
      <4>1. ClearRuntime(p)
        BY <1>1, <1>2, <3>1, <3>3, TakenAway
      <4> QED
        BY <1>1, <4>1 DEF ClearRuntime, TypeInv, LeaseTypes
    <3> QED
      BY <2>1, <3>2, <3>3
  <2>2. ASSUME NEW c \in Calls, calls[c].pc = "entered", owner'[p] = calls[c].lease,
               calls[c].plugin = p, UNCHANGED lease
        PROVE  lease'[owner'[p]].plugin = p /\ lease'[owner'[p]].state \in Present
    BY <1>1, <2>2 DEF CallsLeased, EnteredHold
  <2> QED
    BY <1>1, <1>2, <2>1, <2>2, OwnerKept
<1> QED
  BY <1>2, <1>4, <1>5, <1>6 DEF OwnerInv

\* Whatever the calls, the releases, the grants and the changes of sources,
\* no plugin keeps registrations of a document that was taken away.
THEOREM NoOrphanedRegistration == Spec => []OwnerNotRevoked
<1>1. Init => OwnerInv
  <2>1. Init => CallsLeased /\ EnteredHold /\ OwnerNotRevoked
    BY DEF Init, CallsLeased, EnteredHold, OwnerNotRevoked, NoCall
  <2> QED
    BY <2>1, TypeInit, LimitInit DEF OwnerInv
<1>2. OwnerInv => OwnerNotRevoked
  BY DEF OwnerInv
<1> QED
  BY <1>1, <1>2, OwnerInvStep, PTL DEF Spec

-----------------------------------------------------------------------------
(* Updates shut their plugin, and commands run from the installed source *)

Updating(p) == {u \in Updates : updates[u].plugin = p}

\* Counting one update more or less.
LEMMA CountFacts ==
  ASSUME NEW p, NEW u \in Updates
  PROVE  /\ IsFiniteSet(Updating(p)) /\ Cardinality(Updating(p)) \in Nat
         /\ u \notin Updating(p) =>
              Cardinality(Updating(p) \cup {u}) = Cardinality(Updating(p)) + 1
         /\ u \in Updating(p) =>
              /\ Cardinality(Updating(p) \ {u}) = Cardinality(Updating(p)) - 1
              /\ Cardinality(Updating(p)) >= 1
<1>1. Updating(p) \in SUBSET Updates
  BY DEF Updating
<1>2. IsFiniteSet(Updating(p)) /\ Cardinality(Updating(p)) \in Nat
  BY <1>1, FS_Subset, FS_CardinalityType, LeaseAssumption
<1>3. u \notin Updating(p) => Cardinality(Updating(p) \cup {u}) = Cardinality(Updating(p)) + 1
  BY <1>2, FS_AddElement
<1>4. u \in Updating(p) => Cardinality(Updating(p) \ {u}) = Cardinality(Updating(p)) - 1
  BY <1>2, FS_RemoveElement
<1>5. u \in Updating(p) => Cardinality(Updating(p)) # 0
  BY <1>2, FS_EmptySet
<1> QED
  BY <1>2, <1>3, <1>4, <1>5

\* The counter is kept by every step.
LEMMA CountStep == TypeInv /\ TransitionsCounted /\ [Next]_vars => TransitionsCounted'
<1> SUFFICES ASSUME TypeInv, TransitionsCounted, [Next]_vars PROVE TransitionsCounted'
  OBVIOUS
<1>1. FrameUpdating
  BY NextFrames DEF Frames
<1>2. /\ updates \in [Updates -> UpdateRecords] /\ transitions \in [Plugins -> Nat]
      /\ UpdatesWired
  BY DEF TypeInv, LeaseTypes, UpdateRecords
<1>3. \A p \in Plugins : transitions[p] = Cardinality(Updating(p))
  BY DEF TransitionsCounted, Updating
<1>4. ASSUME \A p \in Plugins : transitions'[p] = Cardinality(Updating(p)')
      PROVE  TransitionsCounted'
  BY <1>4 DEF TransitionsCounted, Updating
<1>5. ASSUME NEW u \in Updates, NEW q \in Changing, UpdateBegin(u, q)
      PROVE  TransitionsCounted'
  <2>1. q \in Plugins /\ \A p \in Plugins : u \notin Updating(p)
    BY <1>2, <1>5, LeaseAssumption DEF UpdateBegin, UpdatesWired, Updating
  <2>2. Updating(q)' = Updating(q) \cup {u}
    BY <1>2, <1>5 DEF UpdateBegin, Updating
  <2>3. \A p \in Plugins \ {q} : Updating(p)' = Updating(p)
    BY <1>2, <1>5, <2>1 DEF UpdateBegin, Updating
  <2>4. /\ transitions'[q] = transitions[q] + 1
        /\ \A p \in Plugins \ {q} : transitions'[p] = transitions[p]
    BY <1>2, <1>5, <2>1 DEF UpdateBegin
  <2>5. Cardinality(Updating(q) \cup {u}) = Cardinality(Updating(q)) + 1
    BY <2>1, CountFacts
  <2>6. \A p \in Plugins : transitions'[p] = Cardinality(Updating(p)')
    BY <1>3, <2>1, <2>2, <2>3, <2>4, <2>5
  <2> QED
    BY <1>4, <2>6
<1>6. ASSUME NEW u \in Updates, UpdateGit(u) \/ UpdateSwap(u) \/ UpdateKeep(u)
      PROVE  TransitionsCounted'
  <2>1. /\ transitions' = transitions
        /\ \A v \in Updates : updates'[v].plugin = updates[v].plugin
    BY <1>2, <1>6 DEF UpdateGit, UpdateSwap, UpdateKeep, UpdateRecords
  <2>2. \A p \in Plugins : Updating(p)' = Updating(p)
    BY <2>1 DEF Updating
  <2> QED
    BY <1>3, <1>4, <2>1, <2>2
<1>7. ASSUME NEW u \in Updates, UpdateFinish(u) PROVE TransitionsCounted'
  <2>q. PICK q \in Plugins : updates[u].plugin = q
    BY <1>2, <1>7 DEF UpdateFinish, UpdatesWired
  <2>1. u \in Updating(q) /\ None \notin Plugins
    BY <2>q, LeaseAssumption DEF Updating
  <2>0. \A v \in Updates : updates'[v].plugin = IF v = u THEN None ELSE updates[v].plugin
    BY <1>2, <1>7 DEF UpdateFinish
  <2>2. Updating(q)' = Updating(q) \ {u}
    BY <2>0, <2>1 DEF Updating
  <2>3. \A p \in Plugins \ {q} : Updating(p)' = Updating(p)
    BY <2>0, <2>1 DEF Updating
  <2>4. /\ Cardinality(Updating(q) \ {u}) = Cardinality(Updating(q)) - 1
        /\ Cardinality(Updating(q)) >= 1 /\ Cardinality(Updating(q)) \in Nat
    BY <2>1, CountFacts
  <2>5. /\ transitions'[q] = IF transitions[q] <= 1 THEN 0 ELSE transitions[q] - 1
        /\ \A p \in Plugins \ {q} : transitions'[p] = transitions[p]
    BY <1>2, <1>7, <2>q DEF UpdateFinish, EndTransition
  <2>6. transitions'[q] = transitions[q] - 1
    BY <1>3, <2>1, <2>4, <2>5
  <2>7. ASSUME NEW p \in Plugins PROVE transitions'[p] = Cardinality(Updating(p)')
    <3>1. CASE p = q
      BY <1>3, <2>1, <2>2, <2>4, <2>6, <3>1
    <3>2. CASE p # q
      BY <1>3, <2>3, <2>5, <3>2
    <3> QED
      BY <3>1, <3>2
  <2> QED
    BY <1>4, <2>7
<1>8. CASE UNCHANGED updating
  BY <1>8 DEF updating, TransitionsCounted
<1> QED
  BY <1>1, <1>5, <1>6, <1>7, <1>8 DEF FrameUpdating

\* The counter is right at the start.
LEMMA CountInit == Init => TransitionsCounted
<1> SUFFICES ASSUME Init, NEW p \in Plugins PROVE transitions[p] = Cardinality(Updating(p))
  BY DEF TransitionsCounted, Updating
<1>1. Updating(p) = {}
  BY LeaseAssumption DEF Init, Updating, NoUpdate
<1> QED
  BY <1>1, FS_EmptySet DEF Init

\* However many updates there are, a plugin is shut while one is under way and
\* open again after the last.
THEOREM TransitionsAreCounted == Spec => []TransitionsCounted
<1> QED
  BY TypeInit, TypeStep, CountInit, CountStep, PTL DEF Spec

\* No command of a plugin runs while the plugin is updated.
QuietUpdates == \A u \in Updates : \A p \in Running : updates[u].plugin # p

CommandInv == TypeInv /\ TransitionsCounted /\ QuietUpdates /\ NativeOnSource

\* A command starts with no update under way, from the installed source.
LEMMA CommandStarts ==
  ASSUME CommandInv, FrameCommands, NEW p \in Plugins, commands'[p] # Quiet
  PROVE  \/ commands'[p] = commands[p]
         \/ /\ commands'[p] = source[p].version /\ UNCHANGED <<plugin, updating>>
            /\ \A u \in Updates : updates[u].plugin # p
<1>1. /\ commands \in [Plugins -> 0..MaxVersion] /\ updates \in [Updates -> UpdateRecords]
      /\ TransitionsCounted
  BY DEF CommandInv, TypeInv, LeaseTypes, UpdateRecords
<1>2. ASSUME NEW q \in Plugins, StartCommand(q), UNCHANGED <<plugin, updating>>
      PROVE  \/ commands'[p] = commands[p]
             \/ /\ commands'[p] = source[p].version /\ UNCHANGED <<plugin, updating>>
                /\ \A u \in Updates : updates[u].plugin # p
  <2>1. CASE q = p /\ MayRun(p)
    <3>1. transitions[p] = 0 /\ commands'[p] = source[p].version
      BY <1>1, <1>2, <2>1 DEF MayRun, StartCommand
    <3>2. Cardinality(Updating(p)) = 0
      BY <1>1, <3>1 DEF TransitionsCounted, Updating
    <3>3. ASSUME NEW u \in Updates PROVE u \notin Updating(p)
      <4>1. u \in Updating(p) => Cardinality(Updating(p)) >= 1
        BY CountFacts
      <4> QED
        BY <3>2, <4>1
    <3> QED
      BY <1>2, <3>1, <3>3 DEF Updating
  <2>2. CASE ~(q = p /\ MayRun(p))
    BY <1>1, <1>2, <2>2 DEF StartCommand
  <2> QED
    BY <2>1, <2>2
<1>3. \A c \in Calls : CallNative(c) => calls[c].plugin \in Plugins
  BY DEF CommandInv, TypeInv, CallsWired, CallNative
<1>4. ASSUME NEW q \in Plugins, CommandEnds(q) PROVE commands'[p] = commands[p]
  BY <1>1, <1>4 DEF CommandEnds
<1> QED
  BY <1>2, <1>3, <1>4 DEF FrameCommands, CallNative, RunPluginCommand

\* A source that is replaced is not running.
LEMMA SourceKept ==
  ASSUME CommandInv, FrameSource, NEW p \in Running
  PROVE  source'[p].version = source[p].version
<1>1. /\ source \in [Plugins -> SourceRecords] /\ p \in Plugins
      /\ updates \in [Updates -> UpdateRecords]
  BY DEF CommandInv, TypeInv, LeaseTypes, SourceRecords, UpdateRecords, Running
<1>2. ASSUME NEW q \in Changing, Install(q) \/ Withdraw(q) \/ Enable(q) PROVE FALSE
  BY <1>2 DEF Install, Withdraw, Enable, SourceOperation
<1>3. ASSUME NEW u \in Updates, UpdateSwap(u)
      PROVE  source'[p].version = source[p].version
  <2>1. updates[u].plugin # p
    BY DEF CommandInv, QuietUpdates
  <2> QED
    BY <1>1, <1>3, <2>1 DEF UpdateSwap
<1> QED
  BY <1>2, <1>3 DEF FrameSource

\* An update begins with no command running.
LEMMA UpdateKept ==
  ASSUME TypeInv, FrameUpdating, NEW u \in Updates, NEW p \in Plugins, updates'[u].plugin = p
  PROVE  updates[u].plugin = p \/ (Running = {} /\ UNCHANGED commands)
<1>1. updates \in [Updates -> UpdateRecords] /\ None \notin Plugins
  BY LeaseAssumption DEF TypeInv, LeaseTypes, UpdateRecords
<1>2. ASSUME NEW v \in Updates, NEW q \in Changing, UpdateBegin(v, q)
      PROVE  updates[u].plugin = p \/ (Running = {} /\ UNCHANGED commands)
  BY <1>1, <1>2 DEF UpdateBegin, bridge
<1>3. ASSUME NEW v \in Updates, UpdateGit(v) \/ UpdateSwap(v) \/ UpdateKeep(v) \/ UpdateFinish(v)
      PROVE  updates[u].plugin = p
  BY <1>1, <1>3 DEF UpdateGit, UpdateSwap, UpdateKeep, UpdateFinish, UpdateRecords
<1>4. ASSUME UNCHANGED updating PROVE updates[u].plugin = p
  <2>1. updates' = updates
    BY <1>4 DEF updating
  <2> QED
    BY <2>1
<1>5. CASE \E v \in Updates : \/ \E q \in Changing : UpdateBegin(v, q)
                             \/ UpdateGit(v) \/ UpdateSwap(v) \/ UpdateKeep(v) \/ UpdateFinish(v)
  BY <1>2, <1>3, <1>5
<1> QED
  BY <1>4, <1>5 DEF FrameUpdating

\* Every step keeps commands and updates apart.
LEMMA CommandInvStep == CommandInv /\ [Next]_vars => CommandInv'
<1> SUFFICES ASSUME CommandInv, [Next]_vars PROVE CommandInv'
  OBVIOUS
<1>1. /\ FrameCommands /\ FrameSource /\ FrameUpdating
      /\ TypeInv /\ TypeInv' /\ TransitionsCounted'
  BY NextFrames, TypeStep, CountStep DEF Frames, CommandInv
<1>2. QuietUpdates'
  <2> SUFFICES ASSUME NEW u \in Updates, NEW p \in Plugins, commands'[p] # Quiet,
                      updates'[u].plugin = p
               PROVE  FALSE
    BY DEF QuietUpdates, Running
  <2>1. CASE commands'[p] = commands[p]
    <3>1. p \in Running
      BY <2>1 DEF Running
    <3>2. updates[u].plugin = p
      BY <1>1, <3>1, UpdateKept
    <3> QED
      BY <3>1, <3>2 DEF CommandInv, QuietUpdates
  <2>2. CASE UNCHANGED <<plugin, updating>> /\ \A v \in Updates : updates[v].plugin # p
    BY <2>2 DEF updating
  <2> QED
    BY <1>1, <2>1, <2>2, CommandStarts
<1>3. NativeOnSource'
  <2> SUFFICES ASSUME NEW p \in Plugins, commands'[p] # Quiet
               PROVE  commands'[p] = source'[p].version
    BY DEF NativeOnSource, Running
  <2>1. CASE commands'[p] = commands[p]
    <3>1. p \in Running
      BY <2>1 DEF Running
    <3> QED
      BY <1>1, <2>1, <3>1, SourceKept DEF CommandInv, NativeOnSource
  <2>2. CASE commands'[p] = source[p].version /\ UNCHANGED <<plugin, updating>>
    BY <2>2 DEF plugin
  <2> QED
    BY <1>1, <2>1, <2>2, CommandStarts
<1> QED
  BY <1>1, <1>2, <1>3 DEF CommandInv

\* No source is replaced under a native command that runs from it.
THEOREM CommandsRunInstalledSource == Spec => []NativeOnSource
<1>1. Init => CommandInv
  <2>1. Init => QuietUpdates /\ NativeOnSource
    BY DEF Init, QuietUpdates, NativeOnSource, Running
  <2> QED
    BY <2>1, TypeInit, CountInit DEF CommandInv
<1>2. CommandInv => NativeOnSource
  BY DEF CommandInv
<1> QED
  BY <1>1, <1>2, CommandInvStep, PTL DEF Spec

-----------------------------------------------------------------------------
(* Documents show the installed source *)

\* The map after a revocation has no document of the plugin.
LEMMA RevokeRemoves ==
  ASSUME TypeInv, NEW p, Revoke(p), NEW l \in Leases, lease[l].plugin = p
  PROVE  ~InMap(l)'
<1>1. lease \in [Leases -> LeaseRecords] /\ lease' = Without(HeldBy(p))
  BY DEF TypeInv, LeaseTypes, LeaseRecords, Revoke
<1> QED
  BY <1>1, WithoutFacts DEF HeldBy, Held, InMap

\* Nor has it an earlier document after a grant.
LEMMA GrantRemoves ==
  ASSUME TypeInv, NEW r \in Requests, NEW k \in Leases, Issue(r), Granted(r, k),
         NEW l \in Leases, lease[l].plugin = requests[r].plugin, InMap(l)
  PROVE  ~InMap(l)'
<1>1. lease \in [Leases -> LeaseRecords] /\ l # k
  BY DEF TypeInv, LeaseTypes, LeaseRecords, Granted, InMap
<1>2. lease'[l] = Without(Replaced(requests[r].plugin))[l]
  BY <1>1, WithoutFacts DEF Granted
<1> QED
  BY <1>1, <1>2, WithoutFacts DEF Replaced, HeldBy, Held, InMap

\* What excuses an old document lasts as long as the document.
LEMMA ExcuseKept ==
  ASSUME TypeInv, Frames, NEW l \in Leases, InMap(l), InMap(l)',
         \/ \E u \in Updates : updates[u] = [pc |-> "swapped", plugin |-> lease[l].plugin]
         \/ lease[l].plugin \in unrevoked
  PROVE  \/ \E u \in Updates : updates'[u] = [pc |-> "swapped", plugin |-> lease[l].plugin]
         \/ lease[l].plugin \in unrevoked'
<1> DEFINE p == lease[l].plugin
<1>1. /\ updates \in [Updates -> UpdateRecords]
      /\ ~Revoke(p)
  BY RevokeRemoves DEF TypeInv, LeaseTypes, UpdateRecords
<1>2. CASE p \in unrevoked
  <2>1. ASSUME NEW q, Revoke(q) PROVE p \in unrevoked'
    BY <1>1, <1>2, <2>1 DEF Revoke
  <2>2. ASSUME NEW r \in Requests, Issue(r) PROVE p \in unrevoked'
    <3>1. PICK k \in Leases : Granted(r, k)
      BY <2>2 DEF Issue, Granted
    <3>2. requests[r].plugin # p
      BY <2>2, <3>1, GrantRemoves
    <3> QED
      BY <1>2, <2>2, <3>2 DEF Issue
  <2>3. ASSUME NEW q \in Changing, Install(q) \/ Withdraw(q) PROVE p \in unrevoked'
    BY <1>2, <2>1, <2>3 DEF Install, Withdraw, RevokeOrFail
  <2>4. ASSUME NEW u \in Updates, UpdateSwap(u) PROVE p \in unrevoked'
    BY <1>2, <2>4 DEF UpdateSwap
  <2> QED
    BY <1>2, <2>1, <2>2, <2>3, <2>4 DEF Frames, FrameUnrevoked
<1>3. ASSUME NEW u \in Updates, updates[u] = [pc |-> "swapped", plugin |-> p]
      PROVE  updates'[u] = updates[u]
  <2>1. ASSUME NEW v \in Updates, NEW q \in Changing, UpdateBegin(v, q)
        PROVE  updates'[u] = updates[u]
    BY <1>1, <1>3, <2>1 DEF UpdateBegin
  <2>2. ASSUME NEW v \in Updates, UpdateGit(v) \/ UpdateSwap(v) \/ UpdateKeep(v)
        PROVE  updates'[u] = updates[u]
    BY <1>1, <1>3, <2>2 DEF UpdateGit, UpdateSwap, UpdateKeep
  <2>3. ASSUME NEW v \in Updates, UpdateFinish(v) PROVE updates'[u] = updates[u]
    <3>1. v # u
      BY <1>1, <1>3, <2>3 DEF UpdateFinish
    <3> QED
      BY <1>1, <2>3, <3>1 DEF UpdateFinish
  <2> QED
    BY <2>1, <2>2, <2>3 DEF Frames, FrameUpdating, updating
<1> QED
  BY <1>2, <1>3

\* A source that changes revokes the documents of the plugin or is excused.
LEMMA SourceChanges ==
  ASSUME TypeInv, Frames, NEW l \in Leases, InMap(l), InMap(l)',
         source'[lease[l].plugin] # source[lease[l].plugin], source[lease[l].plugin].enabled
  PROVE  \/ \E u \in Updates : updates'[u] = [pc |-> "swapped", plugin |-> lease[l].plugin]
         \/ lease[l].plugin \in unrevoked'
<1> DEFINE p == lease[l].plugin
<1>1. /\ updates \in [Updates -> UpdateRecords] /\ source \in [Plugins -> SourceRecords]
      /\ ~Revoke(p) /\ p \in Plugins
  BY RevokeRemoves DEF TypeInv, LeaseTypes, UpdateRecords, SourceRecords, LeasesWired, InMap
<1>2. ASSUME NEW q \in Changing, Install(q) \/ Withdraw(q) PROVE p \in unrevoked'
  <2>1. q = p
    BY <1>1, <1>2 DEF Install, Withdraw, SourceOperation
  <2> QED
    BY <1>1, <1>2, <2>1 DEF Install, Withdraw, RevokeOrFail
<1>3. ASSUME NEW q \in Changing, Enable(q) PROVE FALSE
  BY <1>1, <1>3 DEF Enable, SourceOperation
<1>4. ASSUME NEW u \in Updates, UpdateSwap(u)
      PROVE  updates'[u] = [pc |-> "swapped", plugin |-> p] \/ p \in unrevoked'
  <2>1. updates[u].plugin = p
    BY <1>1, <1>4 DEF UpdateSwap
  <2> QED
    BY <1>1, <1>4, <2>1 DEF UpdateSwap, UpdateRecords
<1> QED
  BY <1>2, <1>3, <1>4 DEF Frames, FrameSource

\* A granted lease shows the source it was granted for.
LEMMA GrantServes ==
  ASSUME TypeInv, NEW r \in Requests, NEW l \in Leases, Issue(r), Granted(r, l)
  PROVE  source'[lease'[l].plugin] = [version |-> lease'[l].version, enabled |-> TRUE]
<1>1. /\ lease \in [Leases -> LeaseRecords] /\ source \in [Plugins -> SourceRecords]
      /\ requests[r].plugin \in Plugins
  BY DEF TypeInv, LeaseTypes, LeaseRecords, SourceRecords, RequestsWired, Issue
<1>2. /\ lease'[l].plugin = requests[r].plugin
      /\ lease'[l].version = source[requests[r].plugin].version
  BY <1>1, WithoutFacts DEF Granted
<1>3. source' = source /\ source[requests[r].plugin].enabled = TRUE
  BY <1>1 DEF Issue, Servable, SourceRecords
<1>4. source[requests[r].plugin] =
        [version |-> source[requests[r].plugin].version, enabled |-> TRUE]
  BY <1>1, <1>3 DEF SourceRecords
<1> QED
  BY <1>2, <1>3, <1>4

\* Every step keeps the documents up to date.
LEMMA ServeStep == TypeInv /\ LeaseServesSource /\ [Next]_vars => LeaseServesSource'
<1> SUFFICES ASSUME TypeInv, LeaseServesSource, [Next]_vars, NEW l \in Leases, InMap(l)'
             PROVE  \/ source'[lease'[l].plugin] =
                         [version |-> lease'[l].version, enabled |-> TRUE]
                    \/ \E u \in Updates :
                          updates'[u] = [pc |-> "swapped", plugin |-> lease'[l].plugin]
                    \/ lease'[l].plugin \in unrevoked'
  BY DEF LeaseServesSource, Held
<1>1. Frames
  BY NextFrames
<1>2. CASE \E r \in Requests : Issue(r) /\ Granted(r, l)
  BY <1>2, GrantServes
<1>3. CASE InMap(l) /\ lease'[l].plugin = lease[l].plugin /\ lease'[l].version = lease[l].version
  <2>1. CASE \/ \E u \in Updates : updates[u] = [pc |-> "swapped", plugin |-> lease[l].plugin]
             \/ lease[l].plugin \in unrevoked
    BY <1>1, <1>3, <2>1, ExcuseKept
  <2>2. CASE source[lease[l].plugin] = [version |-> lease[l].version, enabled |-> TRUE]
    BY <1>1, <1>3, <2>2, SourceChanges
  <2> QED
    BY <1>3, <2>1, <2>2 DEF LeaseServesSource, Held
<1> QED
  BY <1>1, <1>2, <1>3, HeldStep DEF Frames

\* A document in the map shows the installed version of an enabled plugin, but
\* for an update that has still to end and an operation that failed too late.
THEOREM DocumentsServeSource == Spec => []LeaseServesSource
<1>1. Init => LeaseServesSource
  BY DEF Init, LeaseServesSource, Held, InMap, NoLease
<1> QED
  BY <1>1, TypeInit, TypeStep, ServeStep, PTL DEF Spec
=============================================================================
