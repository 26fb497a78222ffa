--------------------------- MODULE Requests_proofs ---------------------------
(* What holds of the requests the host serves, for any number of callers and documents. *)
EXTENDS FfmpegJobs, AiRequests, PluginCalls, LanShare,
        FiniteSetTheorems, TLAPS

------------------------------------------------------------------------------
(* Media jobs *)

After == {"release", "tell", "done"}

JobRecord == [pc : BeforeExit \cup After \cup {"none", "exited", "publish"}, doc : Nat,
              control : {0, 1, 2}, native : BOOLEAN, result : {"none", "ok", "error"},
              killed : BOOLEAN, cleared : BOOLEAN, published : BOOLEAN, told : BOOLEAN]

\* A kill in time is seen by JudgeRun, the last look at the control; a job that was
\* cleared has left the table for good; a job in the table has not ended.
Good(j) ==
    /\ job[j].killed => /\ job[j].control = 2 /\ ~job[j].published /\ job[j].pc # "publish"
                        /\ job[j].pc \in After => job[j].result = "error"
    /\ job[j].published => job[j].pc \in After
    /\ job[j].told => job[j].pc = "done" /\ j \notin jobs /\ ~job[j].cleared
    /\ job[j].pc \notin {"none", "tell", "done"} => job[j].native
    /\ job[j].cleared => j \notin jobs /\ job[j].control = 2 /\ job[j].pc \notin {"none", "insert"}
    /\ j \in jobs => job[j].pc \notin {"none", "insert", "done"}

JobsInv ==
    /\ jobs \subseteq Jobs /\ job \in [Jobs -> JobRecord] /\ jobDoc \in Nat /\ jobDocs \in Nat
    /\ \A j \in Jobs : Good(j)

-----------------------------------------------------------------------------

\* A kill leaves everything else of a job as it is.
LEMMA KilledIs ==
  ASSUME JobsInv, NEW j \in Jobs
  PROVE  /\ Killed(j) \in JobRecord
         /\ Killed(j).control = 2 /\ Killed(j).pc = job[j].pc /\ Killed(j).result = job[j].result
         /\ Killed(j).killed <=> job[j].killed \/ job[j].pc \in BeforeExit
         /\ Killed(j).native = job[j].native /\ Killed(j).published = job[j].published
         /\ Killed(j).told = job[j].told /\ Killed(j).cleared = job[j].cleared
<1>1. job[j] \in JobRecord
  BY DEF JobsInv
<1> QED
  BY <1>1 DEF Killed, JobRecord

\* An action of one job is judged by that job.
LEMMA OneJob ==
  ASSUME JobsInv, NEW j \in Jobs,
         job'[j] \in JobRecord, \A k \in Jobs \ {j} : job'[k] = job[k],
         \E r : job' = [job EXCEPT ![j] = r],
         jobs' \subseteq Jobs, \A k \in Jobs \ {j} : k \in jobs' <=> k \in jobs,
         jobDoc' \in Nat, jobDocs' \in Nat, Good(j)'
  PROVE  JobsInv'
<1>1. job' \in [Jobs -> JobRecord]
  BY DEF JobsInv
<1>2. ASSUME NEW k \in Jobs, k # j PROVE Good(k)'
  BY <1>2 DEF JobsInv, Good
<1> QED
  BY <1>1, <1>2 DEF JobsInv

\* Clearing kills and takes away what is in the table.
LEMMA ClearingKeeps ==
  ASSUME JobsInv, ClearJobs, jobDoc' \in Nat, jobDocs' \in Nat
  PROVE  JobsInv'
<1>1. ASSUME NEW j \in Jobs, j \in jobs PROVE job'[j] \in JobRecord /\ Good(j)'
  <2>1. job'[j] = [Killed(j) EXCEPT !.cleared = TRUE] /\ jobs' = {}
    BY <1>1 DEF ClearJobs
  <2>2. Good(j) /\ job[j].pc \notin {"none", "insert", "done"} /\ job[j] \in JobRecord
    BY <1>1 DEF JobsInv, Good
  <2>3. job'[j] \in JobRecord
    BY <2>1, KilledIs DEF JobRecord
  <2>4. /\ job'[j].control = 2 /\ job'[j].pc = job[j].pc /\ job'[j].result = job[j].result
        /\ job'[j].killed <=> job[j].killed \/ job[j].pc \in BeforeExit
        /\ job'[j].native = job[j].native /\ job'[j].published = job[j].published
        /\ job'[j].told = job[j].told /\ job'[j].cleared
    BY <2>1, KilledIs DEF JobRecord
  <2> QED
    BY <1>1, <2>1, <2>2, <2>3, <2>4 DEF Good, After, BeforeExit
<1>2. ASSUME NEW j \in Jobs, j \notin jobs PROVE job'[j] \in JobRecord /\ Good(j)'
  <2>1. job'[j] = job[j] /\ jobs' = {}
    BY <1>2 DEF ClearJobs
  <2> QED
    BY <1>2, <2>1 DEF JobsInv, Good
<1>3. job' \in [Jobs -> JobRecord]
  <2>1. job' = [j \in Jobs |-> job'[j]]
    BY DEF ClearJobs
  <2> QED
    BY <1>1, <1>2, <2>1
<1> QED
  BY <1>1, <1>2, <1>3 DEF JobsInv, ClearJobs

-----------------------------------------------------------------------------
(* The steps of one job *)

\* A step of one job keeps the invariant.
LEMMA JobStepKeeps ==
  ASSUME JobsInv, NEW j \in Jobs,
         StartJob(j) \/ KillJob(j) \/ QuitJob(j) \/ JobStep(j)
  PROVE  JobsInv'
<1> USE DEF sameJobDoc, sameProgram, JobAt, JobGoto
<1>a. /\ job[j] \in JobRecord /\ Good(j) /\ job \in [Jobs -> JobRecord] /\ jobs \subseteq Jobs
      /\ jobDoc \in Nat /\ jobDocs \in Nat
  BY DEF JobsInv
<1>b. jobDoc' = jobDoc /\ jobDocs' = jobDocs
  BY DEF StartJob, KillJob, QuitJob, JobStep, InsertJob, LookForProgram, LockInstall, Download,
         StartProgram, ProgramExits, JudgeRun, PublishOutput, ReleaseNative, TellDocument
<1>1. CASE StartJob(j)
  <2>1. /\ job'[j] \in JobRecord /\ \A k \in Jobs \ {j} : job'[k] = job[k]
        /\ \E r : job' = [job EXCEPT ![j] = r]
    BY <1>a, <1>1 DEF StartJob, JobRecord, BeforeExit, After, NoJob
  <2>2. Good(j)'
    BY <1>a, <1>1 DEF StartJob, Good, JobRecord, BeforeExit, After, NoJob
  <2> QED
    BY <1>a, <1>b, <1>1, <2>1, <2>2, OneJob DEF StartJob
<1>2. CASE KillJob(j)
  <2>1. /\ job'[j] \in JobRecord /\ \A k \in Jobs \ {j} : job'[k] = job[k]
        /\ \E r : job' = [job EXCEPT ![j] = r]
    BY <1>a, <1>2, KilledIs DEF KillJob
  <2>2. Good(j)'
    BY <1>a, <1>2, KilledIs DEF KillJob, Good, JobRecord, BeforeExit, After
  <2> QED
    BY <1>a, <1>b, <1>2, <2>1, <2>2, OneJob DEF KillJob
<1>3. CASE QuitJob(j)
  <2>1. /\ job'[j] \in JobRecord /\ \A k \in Jobs \ {j} : job'[k] = job[k]
        /\ \E r : job' = [job EXCEPT ![j] = r]
    BY <1>a, <1>3 DEF QuitJob, JobRecord, BeforeExit, After
  <2>2. Good(j)'
    BY <1>a, <1>3 DEF QuitJob, Good, JobRecord, BeforeExit, After
  <2> QED
    BY <1>a, <1>b, <1>3, <2>1, <2>2, OneJob DEF QuitJob
<1>4. CASE InsertJob(j)
  <2>1. /\ job'[j] \in JobRecord /\ \A k \in Jobs \ {j} : job'[k] = job[k]
        /\ \E r : job' = [job EXCEPT ![j] = r]
    BY <1>a, <1>4 DEF InsertJob, JobRecord, BeforeExit, After
  <2>2. Good(j)'
    BY <1>a, <1>4 DEF InsertJob, Good, JobRecord, BeforeExit, After
  <2> QED
    BY <1>a, <1>b, <1>4, <2>1, <2>2, OneJob DEF InsertJob
<1>5. CASE LookForProgram(j)
  <2>1. /\ job'[j] \in JobRecord /\ \A k \in Jobs \ {j} : job'[k] = job[k]
        /\ \E r : job' = [job EXCEPT ![j] = r]
    BY <1>a, <1>5 DEF LookForProgram, JobRecord, BeforeExit, After
  <2>2. Good(j)'
    BY <1>a, <1>5 DEF LookForProgram, Good, JobRecord, BeforeExit, After
  <2> QED
    BY <1>a, <1>b, <1>5, <2>1, <2>2, OneJob DEF LookForProgram
<1>6. CASE LockInstall(j)
  <2>1. /\ job'[j] \in JobRecord /\ \A k \in Jobs \ {j} : job'[k] = job[k]
        /\ \E r : job' = [job EXCEPT ![j] = r]
    BY <1>a, <1>6 DEF LockInstall, JobRecord, BeforeExit, After
  <2>2. Good(j)'
    BY <1>a, <1>6 DEF LockInstall, Good, JobRecord, BeforeExit, After
  <2> QED
    BY <1>a, <1>b, <1>6, <2>1, <2>2, OneJob DEF LockInstall
<1>7. CASE Download(j)
  <2>1. /\ job'[j] \in JobRecord /\ \A k \in Jobs \ {j} : job'[k] = job[k]
        /\ \E r : job' = [job EXCEPT ![j] = r]
    BY <1>a, <1>7 DEF Download, JobRecord, BeforeExit, After
  <2>2. Good(j)'
    BY <1>a, <1>7 DEF Download, Good, JobRecord, BeforeExit, After
  <2> QED
    BY <1>a, <1>b, <1>7, <2>1, <2>2, OneJob DEF Download
<1>8. CASE StartProgram(j)
  <2>1. /\ job'[j] \in JobRecord /\ \A k \in Jobs \ {j} : job'[k] = job[k]
        /\ \E r : job' = [job EXCEPT ![j] = r]
    BY <1>a, <1>8 DEF StartProgram, JobRecord, BeforeExit, After
  <2>2. Good(j)'
    BY <1>a, <1>8 DEF StartProgram, Good, JobRecord, BeforeExit, After
  <2> QED
    BY <1>a, <1>b, <1>8, <2>1, <2>2, OneJob DEF StartProgram
<1>9. CASE ProgramExits(j)
  <2>1. /\ job'[j] \in JobRecord /\ \A k \in Jobs \ {j} : job'[k] = job[k]
        /\ \E r : job' = [job EXCEPT ![j] = r]
    <3>1. PICK x \in {"ok", "error"} :
                 job' = [job EXCEPT ![j] = [job[j] EXCEPT !.pc = "exited", !.result = x]]
      BY <1>a, <1>9 DEF ProgramExits
    <3>2. [job[j] EXCEPT !.pc = "exited", !.result = x] \in JobRecord
      BY <1>a DEF JobRecord
    <3> QED
      BY <1>a, <3>1, <3>2
  <2>2. Good(j)'
    BY <1>a, <1>9 DEF ProgramExits, Good, JobRecord, BeforeExit, After
  <2> QED
    BY <1>a, <1>b, <1>9, <2>1, <2>2, OneJob DEF ProgramExits
<1>10. CASE JudgeRun(j)
  <2>1. /\ job'[j] \in JobRecord /\ \A k \in Jobs \ {j} : job'[k] = job[k]
        /\ \E r : job' = [job EXCEPT ![j] = r]
    BY <1>a, <1>10 DEF JudgeRun, JobRecord, BeforeExit, After
  <2>2. Good(j)'
    BY <1>a, <1>10 DEF JudgeRun, Good, JobRecord, BeforeExit, After
  <2> QED
    BY <1>a, <1>b, <1>10, <2>1, <2>2, OneJob DEF JudgeRun
<1>11. CASE PublishOutput(j)
  <2>1. /\ job'[j] \in JobRecord /\ \A k \in Jobs \ {j} : job'[k] = job[k]
        /\ \E r : job' = [job EXCEPT ![j] = r]
    BY <1>a, <1>11 DEF PublishOutput, JobRecord, BeforeExit, After
  <2>2. Good(j)'
    BY <1>a, <1>11 DEF PublishOutput, Good, JobRecord, BeforeExit, After
  <2> QED
    BY <1>a, <1>b, <1>11, <2>1, <2>2, OneJob DEF PublishOutput
<1>12. CASE ReleaseNative(j)
  <2>1. /\ job'[j] \in JobRecord /\ \A k \in Jobs \ {j} : job'[k] = job[k]
        /\ \E r : job' = [job EXCEPT ![j] = r]
    BY <1>a, <1>12 DEF ReleaseNative, JobRecord, BeforeExit, After
  <2>2. Good(j)'
    BY <1>a, <1>12 DEF ReleaseNative, Good, JobRecord, BeforeExit, After
  <2> QED
    BY <1>a, <1>b, <1>12, <2>1, <2>2, OneJob DEF ReleaseNative
<1>13. CASE TellDocument(j)
  <2>1. /\ job'[j] \in JobRecord /\ \A k \in Jobs \ {j} : job'[k] = job[k]
        /\ \E r : job' = [job EXCEPT ![j] = r]
    <3>1. PICK b \in BOOLEAN :
                 job' = [job EXCEPT ![j] = [job[j] EXCEPT !.pc = "done", !.told = b]]
      <4>1. (j \in jobs) \in BOOLEAN
        OBVIOUS
      <4>2. job' = [job EXCEPT ![j] = [job[j] EXCEPT !.pc = "done", !.told = j \in jobs]]
        BY <1>a, <1>13 DEF TellDocument
      <4> QED
        BY <4>1, <4>2, Zenon
    <3>2. [job[j] EXCEPT !.pc = "done", !.told = b] \in JobRecord
      BY <1>a DEF JobRecord, After
    <3> QED
      BY <1>a, <3>1, <3>2
  <2>2. Good(j)'
    BY <1>a, <1>13 DEF TellDocument, Good, JobRecord, BeforeExit, After
  <2> QED
    BY <1>a, <1>b, <1>13, <2>1, <2>2, OneJob DEF TellDocument
<1> QED
  BY <1>1, <1>2, <1>3, <1>4, <1>5, <1>6, <1>7, <1>8, <1>9, <1>10, <1>11, <1>12, <1>13 DEF JobStep

-----------------------------------------------------------------------------
(* The theorems *)

\* The invariant holds from the start on.
LEMMA JobsInvHolds == JobSpec => []JobsInv
<1>1. JobInit => JobsInv
  BY DEF JobInit, JobsInv, Good, NoJob, JobRecord, BeforeExit, After
<1>2. ASSUME JobsInv, [JobNext]_jobVars PROVE JobsInv'
  <2>1. CASE OpenJobDoc
    BY <1>2, <2>1, ClearingKeeps DEF OpenJobDoc, JobsInv
  <2>2. CASE CloseJobDoc
    BY <1>2, <2>2, ClearingKeeps DEF CloseJobDoc, JobsInv
  <2>3. CASE LoseJobDoc
    BY <1>2, <2>3 DEF LoseJobDoc, JobsInv, Good
  <2>4. CASE DisposeJobDoc
    BY <1>2, <2>4, ClearingKeeps DEF DisposeJobDoc, sameJobDoc, JobsInv
  <2>5. CASE UNCHANGED jobVars
    BY <1>2, <2>5 DEF jobVars, JobsInv, Good
  <2> QED
    BY <1>2, <2>1, <2>2, <2>3, <2>4, <2>5, JobStepKeeps DEF JobNext
<1> QED
  BY <1>1, <1>2, PTL DEF JobSpec

\* A job killed in time publishes nothing and reports no success, and no program runs
\* without a native worker lease, for any jobs and documents.
THEOREM KillsAreObeyed == JobSpec => []KilledPublishesNothing
<1>1. JobsInv => KilledPublishesNothing
  BY DEF JobsInv, Good, KilledPublishesNothing, After
<1> QED
  BY <1>1, JobsInvHolds, PTL

\* After its runtime was cleared a document hears nothing of its jobs, which have been
\* told to end, and every entry of the table has a task that will remove it.
THEOREM ClearedAreSilent == JobSpec => []ClearedJobsAreSilent
<1>1. JobsInv => ClearedJobsAreSilent
  BY DEF JobsInv, Good, ClearedJobsAreSilent
<1> QED
  BY <1>1, JobsInvHolds, PTL

------------------------------------------------------------------------------
(* Requests to AI providers *)

AiRecord == [pc : {"none", "round", "enter", "wait", "remove", "finish", "done", "dropped"},
             doc : Nat, round : Nat, start : {"no", "handle", "done"},
             abort : {"no", "stop", "hit", "reject", "done"}, handle : BOOLEAN,
             hit : BOOLEAN, cancelled : BOOLEAN, answer : {"none", "error", "result"},
             completed : BOOLEAN, overtaken : BOOLEAN]

\* The call that has taken a request from the table, with its abort handle.
Handed(r) == task[r].abort = "hit" \/ [of |-> r, handle |-> TRUE] \in clearing

\* A listed request is as it was started; one that is not has been taken by its
\* task, by abort or by clearing, and of these two only one has it.
AiListed(r) ==
    /\ r \in listed => /\ task[r].pc \notin {"none", "done", "dropped"}
                       /\ task[r].abort = "no" /\ ~task[r].cancelled /\ ~task[r].hit
                       /\ ~task[r].completed
                       /\ task[r].start # "no"
                       /\ task[r].start = "done" => task[r].handle
    /\ \A x \in clearing : x.of = r => r \notin listed /\ task[r].abort = "no" /\ task[r].pc # "none"
    /\ task[r].pc = "none" => /\ task[r].abort = "no" /\ ~task[r].cancelled /\ ~task[r].hit
                              /\ task[r].start = "no" /\ r \notin functions
    /\ task[r].abort # "no" => ~task[r].completed

\* Once the task's handle is known, a request that has been taken is told to end by
\* somebody.
AiTold(r) ==
    /\ task[r].start = "done" /\ r \notin listed => task[r].hit \/ TaskOver(r) \/ Handed(r)
    /\ Stopped(r) => task[r].hit \/ TaskOver(r)

\* A pending function is the one its task waits for, and while the request is not
\* listed the call that has taken it will answer the function.
AiAsked(r) ==
    r \in functions =>
        /\ task[r].pc \in {"wait", "remove"} \/ task[r].overtaken \/ Stopping(r)
        /\ r \in listed \/ task[r].overtaken \/ Stopping(r)
        /\ task[r].pc = "wait" => task[r].answer = "none"

AiGood(r) == AiListed(r) /\ AiTold(r) /\ AiAsked(r)

AiTypes ==
    /\ task \in [AiTasks -> AiRecord] /\ listed \subseteq AiTasks /\ functions \subseteq AiTasks
    /\ clearing \subseteq [of : AiTasks, handle : BOOLEAN]
    /\ aiDoc \in Nat /\ aiDocs \in Nat

AiInv ==
    /\ AiTypes
    /\ aiClear # "stop" => clearing = {}
    /\ \A r \in AiTasks : AiGood(r)

-----------------------------------------------------------------------------

\* An action of one request is judged by that request.
LEMMA OneTask ==
  ASSUME AiInv, NEW r \in AiTasks, NEW t \in AiRecord, task' = [task EXCEPT ![r] = t],
         listed' \subseteq AiTasks, \A k \in AiTasks \ {r} : k \in listed' <=> k \in listed,
         functions' \subseteq AiTasks, \A k \in AiTasks \ {r} : k \in functions' <=> k \in functions,
         UNCHANGED <<aiDoc, aiDocs, aiClear, clearing>>, AiGood(r)'
  PROVE  AiInv'
<1>1. task' \in [AiTasks -> AiRecord] /\ \A k \in AiTasks \ {r} : task'[k] = task[k]
  BY DEF AiInv, AiTypes
<1>2. ASSUME NEW k \in AiTasks, k # r PROVE AiGood(k)'
  BY <1>1, <1>2 DEF AiInv, AiGood, AiListed, AiTold, AiAsked, Stopped, TaskOver, Handed, Stopping
<1> QED
  BY <1>1, <1>2 DEF AiInv, AiTypes

\* A step of the task of a request keeps the invariant.
LEMMA TaskStepKeeps ==
  ASSUME AiInv, NEW r \in AiTasks, TaskStep(r)
  PROVE  AiInv'
<1> USE DEF sameDoc, TaskAt, TaskGoto
<1> DEFINE t == task'[r]
<1>a. /\ task[r] \in AiRecord /\ AiGood(r) /\ task \in [AiTasks -> AiRecord]
      /\ listed \subseteq AiTasks /\ functions \subseteq AiTasks /\ aiDoc \in Nat
  BY DEF AiInv, AiTypes
<1>b. aiClear = "no" => clearing = {}
  BY DEF AiInv
<1>1. CASE TaskDropped(r)
  <2>1. t \in AiRecord /\ task' = [task EXCEPT ![r] = t]
    BY <1>a, <1>1 DEF TaskDropped, AiRecord
  <2>2. AiGood(r)'
    BY <1>a, <1>1 DEF TaskDropped, AiRecord, AiGood, AiListed, AiTold, AiAsked, Stopped, TaskOver,
                      Handed, Stopping
  <2> QED
    BY <1>a, <1>1, <2>1, <2>2, OneTask DEF TaskDropped
<1>2. CASE Round(r)
  <2>1. t \in AiRecord /\ task' = [task EXCEPT ![r] = t]
    BY <1>a, <1>2 DEF Round, AiRecord
  <2>2. AiGood(r)'
    BY <1>a, <1>2 DEF Round, AiRecord, AiGood, AiListed, AiTold, AiAsked, Stopped, TaskOver,
                      Handed, Stopping
  <2> QED
    BY <1>a, <1>2, <2>1, <2>2, OneTask DEF Round
<1>3. CASE FunctionEnters(r)
  <2>0. task[r].round + 1 \in Nat /\ (task[r].overtaken \/ r \notin listed) \in BOOLEAN
    BY <1>a DEF AiRecord
  <2>3. ASSUME NEW n \in Nat, NEW o \in BOOLEAN
        PROVE  [task[r] EXCEPT !.pc = "wait", !.answer = "none", !.round = n, !.overtaken = o] \in AiRecord
    BY <1>a DEF AiRecord
  <2>4. t = [task[r] EXCEPT !.pc = "wait", !.answer = "none", !.round = @ + 1,
                            !.overtaken = @ \/ r \notin listed]
    BY <1>a, <1>3 DEF FunctionEnters
  <2>1. t \in AiRecord /\ task' = [task EXCEPT ![r] = t]
    <3>1. t \in AiRecord
      BY <2>0, <2>3, <2>4
    <3> QED
      BY <1>a, <1>3, <3>1 DEF FunctionEnters
  <2>2. AiGood(r)'
    BY <1>a, <1>3 DEF FunctionEnters, AiRecord, AiGood, AiListed, AiTold, AiAsked, Stopped, TaskOver,
                      Handed, Stopping
  <2> QED
    <3>1. /\ listed' = listed /\ functions' = functions \cup {r}
          /\ UNCHANGED <<clearing, aiDoc, aiDocs, aiClear>>
      BY <1>3 DEF FunctionEnters
    <3>2. t \in AiRecord /\ task' = [task EXCEPT ![r] = t]
      BY <2>1
    <3> HIDE DEF t
    <3> QED
      BY <1>a, <2>2, <3>1, <3>2, OneTask
<1>4. CASE FunctionTimesOut(r)
  <2>1. t \in AiRecord /\ task' = [task EXCEPT ![r] = t]
    BY <1>a, <1>4 DEF FunctionTimesOut, AiRecord
  <2>2. AiGood(r)'
    BY <1>a, <1>4 DEF FunctionTimesOut, AiRecord, AiGood, AiListed, AiTold, AiAsked, Stopped, TaskOver,
                      Handed, Stopping
  <2> QED
    BY <1>a, <1>4, <2>1, <2>2, OneTask DEF FunctionTimesOut
<1>5. CASE FunctionRemoved(r)
  <2>1. t \in AiRecord /\ task' = [task EXCEPT ![r] = t]
    BY <1>a, <1>5 DEF FunctionRemoved, AiRecord
  <2>2. AiGood(r)'
    BY <1>a, <1>5 DEF FunctionRemoved, AiRecord, AiGood, AiListed, AiTold, AiAsked, Stopped, TaskOver,
                      Handed, Stopping
  <2> QED
    BY <1>a, <1>5, <2>1, <2>2, OneTask DEF FunctionRemoved
<1>6. CASE FunctionReturns(r)
  <2>1. t \in AiRecord /\ task' = [task EXCEPT ![r] = t]
    BY <1>a, <1>6 DEF FunctionReturns, AiRecord
  <2>2. AiGood(r)'
    BY <1>a, <1>6 DEF FunctionReturns, AiRecord, AiGood, AiListed, AiTold, AiAsked, Stopped, TaskOver,
                      Handed, Stopping
  <2> QED
    BY <1>a, <1>6, <2>1, <2>2, OneTask DEF FunctionReturns
<1>7. CASE Finish(r)
  <2>1. t \in AiRecord /\ task' = [task EXCEPT ![r] = t]
    BY <1>a, <1>7 DEF Finish, AiRecord
  <2>2. AiGood(r)'
    BY <1>a, <1>7 DEF Finish, AiRecord, AiGood, AiListed, AiTold, AiAsked, Stopped, TaskOver,
                      Handed, Stopping
  <2> QED
    BY <1>a, <1>7, <2>1, <2>2, OneTask DEF Finish
<1> QED
  BY <1>1, <1>2, <1>3, <1>4, <1>5, <1>6, <1>7 DEF TaskStep

\* So does a step of the call that starts a request or of an abort.
LEMMA AiCallKeeps ==
  ASSUME AiInv, NEW r \in AiTasks,
         StartAi(r) \/ SetHandle(r) \/ AbortTakes(r) \/ AbortStops(r) \/ AbortRejects(r)
           \/ FunctionAnswered(r)
  PROVE  AiInv'
<1> USE DEF sameDoc, TaskAt, TaskGoto
<1> DEFINE t == task'[r]
<1>a. /\ task[r] \in AiRecord /\ AiGood(r) /\ task \in [AiTasks -> AiRecord]
      /\ listed \subseteq AiTasks /\ functions \subseteq AiTasks /\ aiDoc \in Nat
  BY DEF AiInv, AiTypes
<1>b. aiClear = "no" => clearing = {}
  BY DEF AiInv
<1>1. CASE StartAi(r)
  <2>1. t \in AiRecord /\ task' = [task EXCEPT ![r] = t]
    BY <1>a, <1>b, <1>1 DEF StartAi, AiRecord, NoTask
  <2>2. AiGood(r)'
    BY <1>a, <1>b, <1>1 DEF StartAi, AiRecord, AiGood, AiListed, AiTold, AiAsked, Stopped, TaskOver,
                      Handed, Stopping, NoTask
  <2> QED
    BY <1>a, <1>1, <2>1, <2>2, OneTask DEF StartAi, NoTask
<1>2. CASE SetHandle(r)
  <2>1. t \in AiRecord /\ task' = [task EXCEPT ![r] = t]
    <3>1. PICK b \in BOOLEAN, h \in BOOLEAN :
             task' = [task EXCEPT ![r] = [task[r] EXCEPT !.start = "done", !.handle = b, !.hit = h]]
      <4>1. (r \in listed) \in BOOLEAN /\ (task[r].hit \/ r \notin listed) \in BOOLEAN
        OBVIOUS
      <4>2. task' = [task EXCEPT ![r] = [task[r] EXCEPT !.start = "done", !.handle = r \in listed,
                                                       !.hit = task[r].hit \/ r \notin listed]]
        BY <1>a, <1>2 DEF SetHandle
      <4> QED
        BY <4>1, <4>2, Zenon
    <3>2. [task[r] EXCEPT !.start = "done", !.handle = b, !.hit = h] \in AiRecord
      BY <1>a DEF AiRecord
    <3> QED
      BY <1>a, <3>1, <3>2
  <2>2. AiGood(r)'
    BY <1>a, <1>2 DEF SetHandle, AiRecord, AiGood, AiListed, AiTold, AiAsked, Stopped, TaskOver,
                      Handed, Stopping
  <2> QED
    BY <1>a, <1>2, <2>1, <2>2, OneTask DEF SetHandle
<1>3. CASE AbortTakes(r)
  <2>1. t \in AiRecord /\ task' = [task EXCEPT ![r] = t]
    BY <1>a, <1>3 DEF AbortTakes, AiRecord
  <2>2. AiGood(r)'
    BY <1>a, <1>3 DEF AbortTakes, AiRecord, AiGood, AiListed, AiTold, AiAsked, Stopped, TaskOver,
                      Handed, Stopping
  <2> QED
    BY <1>a, <1>3, <2>1, <2>2, OneTask DEF AbortTakes
<1>4. CASE AbortStops(r)
  <2>1. t \in AiRecord /\ task' = [task EXCEPT ![r] = t]
    BY <1>a, <1>4 DEF AbortStops, AiRecord
  <2>2. AiGood(r)'
    BY <1>a, <1>4 DEF AbortStops, AiRecord, AiGood, AiListed, AiTold, AiAsked, Stopped, TaskOver,
                      Handed, Stopping
  <2> QED
    BY <1>a, <1>4, <2>1, <2>2, OneTask DEF AbortStops
<1>5. CASE AbortRejects(r)
  <2>1. t \in AiRecord /\ task' = [task EXCEPT ![r] = t]
    BY <1>a, <1>5 DEF AbortRejects, AiRecord, Rejected
  <2>2. AiGood(r)'
    BY <1>a, <1>5 DEF AbortRejects, AiRecord, AiGood, AiListed, AiTold, AiAsked, Stopped, TaskOver,
                      Handed, Stopping, Rejected
  <2> QED
    BY <1>a, <1>5, <2>1, <2>2, OneTask DEF AbortRejects, Rejected
<1>6. CASE FunctionAnswered(r)
  <2>1. t \in AiRecord /\ task' = [task EXCEPT ![r] = t]
    BY <1>a, <1>6 DEF FunctionAnswered, AiRecord
  <2>2. AiGood(r)'
    BY <1>a, <1>6 DEF FunctionAnswered, AiRecord, AiGood, AiListed, AiTold, AiAsked, Stopped, TaskOver,
                      Handed, Stopping
  <2> QED
    BY <1>a, <1>6, <2>1, <2>2, OneTask DEF FunctionAnswered
<1> QED
  BY <1>1, <1>2, <1>3, <1>4, <1>5, <1>6

\* Clearing takes what is listed, tells it to end and answers its functions.
LEMMA ClearTakesKeeps ==
  ASSUME AiInv, ClearTakes
  PROVE  AiInv'
<1>1. AiTypes'
  BY DEF AiInv, AiTypes, AiRecord, ClearTakes
<1>2. ASSUME NEW r \in AiTasks PROVE AiGood(r)'
  <2>1. task[r] \in AiRecord /\ AiGood(r) /\ clearing = {}
    BY DEF AiInv, AiTypes, ClearTakes
  <2>2. clearing' = {[of |-> k, handle |-> task[k].handle] : k \in listed} /\ task' = task
        /\ listed' = {} /\ functions' = functions /\ aiClear' = "stop" /\ aiClear = "take"
    BY DEF ClearTakes
  <2>3. \A x \in clearing' : x.of = r => r \in listed
    BY <2>2
  <2>4. r \in listed => /\ \E x \in clearing' : x.of = r
                        /\ task[r].handle => [of |-> r, handle |-> TRUE] \in clearing'
    <3>1. r \in listed => [of |-> r, handle |-> task[r].handle] \in clearing'
      BY <2>2
    <3>2. task[r].handle => task[r].handle = TRUE
      BY <2>1 DEF AiRecord
    <3> QED
      BY <3>1, <3>2
  <2>5. AiListed(r)'
    BY <2>1, <2>2, <2>3 DEF AiGood, AiListed
  <2>6. AiTold(r)'
    BY <2>1, <2>2, <2>4 DEF AiGood, AiListed, AiTold, Stopped, TaskOver, Handed
  <2>7. AiAsked(r)'
    BY <2>1, <2>2, <2>4 DEF AiGood, AiAsked, Stopping
  <2> QED
    BY <2>5, <2>6, <2>7 DEF AiGood
<1> QED
  BY <1>1, <1>2 DEF AiInv, ClearTakes

\* So does the clearing of a document, as it tells the listed requests to end...
LEMMA ClearStopsKeeps ==
  ASSUME AiInv, ClearStops
  PROVE  AiInv'
<1>1. ASSUME NEW r \in AiTasks PROVE task'[r] \in AiRecord /\ AiGood(r)'
  <2>1. task[r] \in AiRecord /\ AiGood(r)
    BY DEF AiInv, AiTypes
  <2>2. aiClear' = "reject" /\ clearing' = {} /\ listed' = listed /\ functions' = functions
    BY DEF ClearStops
  <2>3. CASE \E x \in clearing : x.of = r
    <3>1. task'[r] = [task[r] EXCEPT !.cancelled = TRUE,
                                     !.hit = @ \/ [of |-> r, handle |-> TRUE] \in clearing]
      BY <2>3 DEF ClearStops
    <3>2. task'[r] \in AiRecord
      BY <2>1, <3>1 DEF AiRecord
    <3>3. AiGood(r)'
      BY <2>1, <2>2, <2>3, <3>1 DEF AiRecord, AiGood, AiListed, AiTold, AiAsked, Stopped, TaskOver,
                                    Handed, Stopping
    <3> QED
      BY <3>2, <3>3
  <2>4. CASE ~ \E x \in clearing : x.of = r
    <3>1. task'[r] = task[r]
      BY <2>4 DEF ClearStops
    <3>2. [of |-> r, handle |-> TRUE] \notin clearing
      BY <2>4
    <3> QED
      BY <2>1, <2>2, <2>4, <3>1, <3>2 DEF AiRecord, AiGood, AiListed, AiTold, AiAsked, Stopped, TaskOver,
                                    Handed, Stopping
  <2> QED
    BY <2>3, <2>4
<1>2. task' \in [AiTasks -> AiRecord]
  <2>1. task' = [r \in AiTasks |-> task'[r]]
    BY DEF ClearStops
  <2> QED
    BY <1>1, <2>1
<1> QED
  BY <1>1, <1>2 DEF AiInv, AiTypes, ClearStops

\* ...and as it answers each of them.
LEMMA ClearRejectsKeeps ==
  ASSUME AiInv, ClearRejects
  PROVE  AiInv'
<1>1. ASSUME NEW r \in AiTasks PROVE task'[r] \in AiRecord /\ AiGood(r)'
  <2>1. task[r] \in AiRecord /\ AiGood(r) /\ clearing = {}
    BY DEF AiInv, AiTypes, ClearRejects
  <2>2. aiClear' = "no" /\ clearing' = {} /\ listed' = listed /\ functions' = {}
    BY <2>1 DEF ClearRejects
  <2>3. task'[r] \in {task[r], [task[r] EXCEPT !.answer = "error"]}
    BY DEF ClearRejects, Rejected
  <2> QED
    BY <2>1, <2>2, <2>3 DEF AiRecord, AiGood, AiListed, AiTold, AiAsked, Stopped, TaskOver,
                            Handed, Stopping
<1>2. task' \in [AiTasks -> AiRecord]
  <2>1. task' = [r \in AiTasks |-> task'[r]]
    BY DEF ClearRejects, Rejected
  <2> QED
    BY <1>1, <2>1
<1> QED
  BY <1>1, <1>2 DEF AiInv, AiTypes, ClearRejects

\* The invariant holds from the start on.
LEMMA AiInvHolds == AiSpec => []AiInv
<1>1. AiInit => AiInv
  BY DEF AiInit, AiInv, AiTypes, AiGood, AiListed, AiTold, AiAsked, Stopped, TaskOver, Handed,
         Stopping, NoTask, AiRecord
<1>2. ASSUME AiInv, [AiNext]_aiVars PROVE AiInv'
  <2>1. CASE OpenAiDoc \/ CloseAiDoc \/ LoseAiDoc \/ DisposeAiDoc
    BY <1>2, <2>1 DEF OpenAiDoc, CloseAiDoc, LoseAiDoc, DisposeAiDoc, AiInv, AiTypes, AiGood,
                      AiListed, AiTold, AiAsked, Stopped, TaskOver, Handed, Stopping
  <2>2. CASE UNCHANGED aiVars
    BY <1>2, <2>2 DEF aiVars, AiInv, AiTypes, AiGood, AiListed, AiTold, AiAsked, Stopped, TaskOver,
                      Handed, Stopping
  <2> QED
    BY <1>2, <2>1, <2>2, ClearTakesKeeps, ClearStopsKeeps, ClearRejectsKeeps, AiCallKeeps,
       TaskStepKeeps DEF AiNext
<1> QED
  BY <1>1, <1>2, PTL DEF AiSpec

\* An aborted request never completes, and its task is told to end, for any requests
\* and documents.
THEOREM AbortsAreFinal == AiSpec => []AbortIsFinal
<1>1. AiInv => AbortIsFinal
  BY DEF AiInv, AiGood, AiListed, AiTold, AbortIsFinal
<1> QED
  BY <1>1, AiInvHolds, PTL

\* Each place in the tables of requests and functions has somebody who will free it.
THEOREM AiTablesDrain == AiSpec => []TablesDrain
<1>1. AiInv => TablesDrain
  BY DEF AiInv, AiTypes, AiGood, AiListed, AiAsked, TablesDrain, TaskOver
<1> QED
  BY <1>1, AiInvHolds, PTL

------------------------------------------------------------------------------
(* Calls to plugin documents *)

CallerRecord == [pc : {"none", "enter", "emit", "wait", "remove", "issue"},
                 kind : {"none", "search", "push", "tool"}, to : Nat,
                 answer : {"none", "ok", "error"}]

\* What NobodyForgotten says of a caller, and that only the answer of a tool, which
\* its caller trusts, has removed the entry.
CallerGood(c) ==
    /\ c \in waiting => caller[c].pc \in {"emit", "wait", "remove"}
    /\ caller[c].pc \in {"emit", "wait"} /\ caller[c].answer = "none" => c \in waiting
    /\ caller[c].pc = "enter" => caller[c].answer = "none"
    /\ caller[c].kind = "tool" /\ caller[c].answer # "none" => c \notin waiting

CallsInv ==
    /\ caller \in [HostCalls -> CallerRecord] /\ waiting \subseteq HostCalls
    /\ callDoc \in Nat /\ callDocs \in Nat /\ handler \in Nat /\ issuedCount \in Nat
    /\ \A c \in HostCalls : CallerGood(c)

-----------------------------------------------------------------------------

\* Answering some callers changes nothing else of them.
LEMMA AnswersAre ==
  ASSUME CallsInv, NEW S, NEW a \in {"ok", "error"}
  PROVE  /\ Answers(S, a) \in [HostCalls -> CallerRecord]
         /\ \A c \in HostCalls :
              /\ Answers(S, a)[c].pc = caller[c].pc /\ Answers(S, a)[c].kind = caller[c].kind
              /\ Answers(S, a)[c].to = caller[c].to
              /\ c \in S => Answers(S, a)[c].answer # "none"
              /\ c \notin S => Answers(S, a)[c].answer = caller[c].answer
              /\ caller[c].answer # "none" => Answers(S, a)[c].answer = caller[c].answer
<1>1. ASSUME NEW c \in HostCalls
      PROVE  /\ Answers(S, a)[c] \in CallerRecord
             /\ Answers(S, a)[c].pc = caller[c].pc /\ Answers(S, a)[c].kind = caller[c].kind
             /\ Answers(S, a)[c].to = caller[c].to
             /\ c \in S => Answers(S, a)[c].answer # "none"
             /\ c \notin S => Answers(S, a)[c].answer = caller[c].answer
             /\ caller[c].answer # "none" => Answers(S, a)[c].answer = caller[c].answer
  <2>1. caller[c] \in CallerRecord
    BY DEF CallsInv
  <2>2. Answers(S, a)[c] = IF c \in S /\ caller[c].answer = "none"
                           THEN [caller[c] EXCEPT !.answer = a] ELSE caller[c]
    BY DEF Answers
  <2>3. CASE c \in S /\ caller[c].answer = "none"
    BY <2>1, <2>2, <2>3 DEF CallerRecord
  <2>4. CASE ~(c \in S /\ caller[c].answer = "none")
    BY <2>1, <2>2, <2>4
  <2> QED
    BY <2>3, <2>4
<1>2. Answers(S, a) = [c \in HostCalls |-> Answers(S, a)[c]]
  BY DEF Answers
<1> QED
  BY <1>1, <1>2

\* Answers that take entries away, or leave those of selections: the step is judged
\* by who is answered.
LEMMA AnsweringKeeps ==
  ASSUME CallsInv, NEW S \in SUBSET waiting, NEW a \in {"ok", "error"}, caller' = Answers(S, a),
         \/ waiting' = waiting \ S
         \/ waiting' = waiting /\ \A c \in S : caller[c].kind # "tool",
         callDoc' \in Nat, callDocs' \in Nat, handler' \in Nat, issuedCount' \in Nat
  PROVE  CallsInv'
<1>1. caller' \in [HostCalls -> CallerRecord] /\ waiting' \subseteq HostCalls
  BY AnswersAre DEF CallsInv
<1>2. ASSUME NEW c \in HostCalls PROVE CallerGood(c)'
  <2>1. CallerGood(c) /\ waiting \subseteq HostCalls
    BY DEF CallsInv
  <2>2. /\ caller'[c].pc = caller[c].pc /\ caller'[c].kind = caller[c].kind
        /\ c \in S => caller'[c].answer # "none"
        /\ c \notin S => caller'[c].answer = caller[c].answer
        /\ caller[c].answer # "none" => caller'[c].answer = caller[c].answer
    BY AnswersAre
  <2> QED
    BY <2>1, <2>2 DEF CallerGood
<1> QED
  BY <1>1, <1>2 DEF CallsInv

\* A step of one caller is judged by that caller.
LEMMA OneCaller ==
  ASSUME CallsInv, NEW c \in HostCalls, NEW r \in CallerRecord, caller' = [caller EXCEPT ![c] = r],
         waiting' \subseteq HostCalls, \A k \in HostCalls \ {c} : k \in waiting' <=> k \in waiting,
         UNCHANGED <<callDoc, callDocs, handler>>, issuedCount' \in Nat, CallerGood(c)'
  PROVE  CallsInv'
<1>1. caller' \in [HostCalls -> CallerRecord] /\ \A k \in HostCalls \ {c} : caller'[k] = caller[k]
  BY DEF CallsInv
<1>2. ASSUME NEW k \in HostCalls, k # c PROVE CallerGood(k)'
  BY <1>1, <1>2 DEF CallsInv, CallerGood
<1> QED
  BY <1>1, <1>2 DEF CallsInv

\* A step of one caller keeps the invariant.
LEMMA CallerStepKeeps ==
  ASSUME CallsInv, NEW c \in HostCalls,
         \/ Enters(c) \/ Emits(c) \/ Waits(c) \/ Removes(c) \/ Issues(c)
         \/ \E kind \in {"search", "push", "tool"} : Begins(c, kind)
  PROVE  CallsInv'
<1> USE CallAssumption DEF sameCallDoc, sameHandlers, CallerAt, CallerSays, CallerDone
<1> DEFINE r == caller'[c]
<1>a. /\ caller[c] \in CallerRecord /\ CallerGood(c) /\ caller \in [HostCalls -> CallerRecord]
      /\ waiting \subseteq HostCalls /\ issuedCount \in Nat /\ handler \in Nat /\ callDoc \in Nat
  BY DEF CallsInv
<1>1. CASE Enters(c)
  <2>1. r \in CallerRecord /\ caller' = [caller EXCEPT ![c] = r]
    BY <1>a, <1>1 DEF Enters, CallerRecord, NoCaller
  <2>2. CallerGood(c)'
    BY <1>a, <1>1 DEF Enters, CallerGood, CallerRecord, NoCaller
  <2> QED
    BY <1>a, <1>1, <2>1, <2>2, OneCaller DEF Enters
<1>2. CASE Emits(c)
  <2>1. r \in CallerRecord /\ caller' = [caller EXCEPT ![c] = r]
    BY <1>a, <1>2 DEF Emits, CallerRecord
  <2>2. CallerGood(c)'
    BY <1>a, <1>2 DEF Emits, CallerGood, CallerRecord
  <2> QED
    BY <1>a, <1>2, <2>1, <2>2, OneCaller DEF Emits
<1>3. CASE Waits(c)
  <2>1. r \in CallerRecord /\ caller' = [caller EXCEPT ![c] = r]
    BY <1>a, <1>3 DEF Waits, CallerRecord, NoCaller
  <2>2. CallerGood(c)'
    BY <1>a, <1>3 DEF Waits, CallerGood, CallerRecord, NoCaller
  <2> QED
    BY <1>a, <1>3, <2>1, <2>2, OneCaller DEF Waits
<1>4. CASE Removes(c)
  <2>1. r \in CallerRecord /\ caller' = [caller EXCEPT ![c] = r]
    BY <1>a, <1>4 DEF Removes, CallerRecord, NoCaller
  <2>2. CallerGood(c)'
    BY <1>a, <1>4 DEF Removes, CallerGood, CallerRecord, NoCaller
  <2> QED
    BY <1>a, <1>4, <2>1, <2>2, OneCaller DEF Removes
<1>5. CASE Issues(c)
  <2>1. r \in CallerRecord /\ caller' = [caller EXCEPT ![c] = r]
    BY <1>a, <1>5 DEF Issues, CallerRecord, NoCaller
  <2>2. CallerGood(c)'
    BY <1>a, <1>5 DEF Issues, CallerGood, CallerRecord, NoCaller
  <2>3. issuedCount' \in Nat
    BY <1>a, <1>5 DEF Issues
  <2>4. waiting' = waiting /\ UNCHANGED <<callDoc, callDocs, handler>>
    BY <1>5 DEF Issues
  <2> QED
    BY <1>a, <2>1, <2>2, <2>3, <2>4, OneCaller
<1>6. ASSUME NEW kind \in {"search", "push", "tool"}, Begins(c, kind) PROVE CallsInv'
  <2>1. r \in CallerRecord /\ caller' = [caller EXCEPT ![c] = r]
    BY <1>a, <1>6 DEF Begins, CallerRecord, NoCaller
  <2>2. CallerGood(c)'
    BY <1>a, <1>6 DEF Begins, CallerGood, CallerRecord, NoCaller
  <2>3. \/ issuedCount' = issuedCount
        \/ issuedCount > 0 /\ issuedCount' = issuedCount - 1
    BY <1>6 DEF Begins
  <2> QED
    <3>1. issuedCount' \in Nat
      BY <1>a, <2>3
    <3>2. waiting' = waiting /\ UNCHANGED <<callDoc, callDocs, handler>>
      BY <1>6 DEF Begins
    <3> QED
      BY <1>a, <2>1, <2>2, <3>1, <3>2, OneCaller
<1> QED
  BY <1>1, <1>2, <1>3, <1>4, <1>5, <1>6

\* The invariant holds from the start on.
LEMMA CallsInvHolds == CallsSpec => []CallsInv
<1> USE DEF sameCallDoc, sameHandlers
<1>1. CallsInit => CallsInv
  BY DEF CallsInit, CallsInv, CallerGood, CallerRecord, NoCaller
<1>2. ASSUME CallsInv, [CallsNext]_callVars PROVE CallsInv'
  <2> USE <1>2
  <2>a. waiting \subseteq HostCalls /\ callDoc \in Nat /\ callDocs \in Nat /\ handler \in Nat
        /\ issuedCount \in Nat
    BY DEF CallsInv
  <2>1. CASE OpenCallDoc \/ CloseCallDoc \/ LoseCallDoc \/ DisposeCallDoc \/ RegisterHandlers
             \/ ResultsExpire \/ UNCHANGED callVars
    BY <2>1 DEF OpenCallDoc, CloseCallDoc, LoseCallDoc, DisposeCallDoc, RegisterHandlers,
                ResultsExpire, callVars, CallsInv, CallerGood
  <2>2. CASE ClearStep
    <3>1. ASSUME NEW kind, NEW next, ClearTable(kind, next), handler' \in Nat, issuedCount' \in Nat
          PROVE  CallsInv'
      BY <2>a, <3>1, AnsweringKeeps DEF ClearTable, Of
    <3>2. CASE callClear = "issued" /\ UNCHANGED <<callDoc, callDocs, caller, waiting>>
               /\ sameHandlers /\ issuedCount' = 0
      BY <3>2 DEF CallsInv, CallerGood
    <3> QED
      BY <2>a, <2>2, <3>1, <3>2 DEF ClearStep
  <2>3. ASSUME NEW c \in HostCalls, CancelsTool(c) \/ AnswersCall(c) \/ AnswersSelection(c)
        PROVE  CallsInv'
    <3>1. CASE CancelsTool(c)
      BY <2>a, <3>1, AnsweringKeeps DEF CancelsTool, Of
    <3>2. CASE AnswersCall(c)
      BY <2>a, <3>2, AnsweringKeeps DEF AnswersCall, MayAnswer
    <3>3. CASE AnswersSelection(c)
      BY <2>a, <3>3, AnsweringKeeps DEF AnswersSelection, MayAnswer
    <3> QED
      BY <2>3, <3>1, <3>2, <3>3
  <2> QED
    BY <2>1, <2>2, <2>3, CallerStepKeeps DEF CallsNext
<1> QED
  BY <1>1, <1>2, PTL DEF CallsSpec

\* A caller that waits can be answered, and an entry has a caller that will remove it,
\* for any callers, documents and limits.
THEOREM CallersAreServed == CallsSpec => []NobodyForgotten
<1>1. CallsInv => NobodyForgotten
  BY DEF CallsInv, CallerGood, NobodyForgotten
<1> QED
  BY <1>1, CallsInvHolds, PTL

------------------------------------------------------------------------------
(* LAN shares *)

ConnRecord == [share : Nat, pc : {"closed", "request", "read", "send"}, held : Nat,
               sent : Seq(Nat), late : Nat]
Reading(d) == conn[d].pc \in {"read", "send"}

ShareTyped ==
    /\ conn \in [Downloads -> ConnRecord] /\ cursor \in [Shares -> Nat] /\ leases \in [Shares -> Nat]
    /\ \A d \in Downloads : IF ConnAt(d, "closed") THEN conn[d].share = 0
                            ELSE conn[d].share \in Shares

\* One connection at a time reads the file of a share: the one that has locked it.
OneReader ==
    /\ \A d \in Downloads : Reading(d) => conn[d].share \in locked
    /\ \A d, e \in Downloads :
         Reading(d) /\ Reading(e) /\ conn[d].share = conn[e].share => d = e

\* It has sent the pieces before the cursor; without the lock it has sent nothing.
InOrder(d) ==
    /\ \A i \in 1..Len(conn[d].sent) : conn[d].sent[i] = i
    /\ ConnAt(d, "read") => cursor[conn[d].share] = Len(conn[d].sent) + 1
    /\ ConnAt(d, "send") => /\ conn[d].held = Len(conn[d].sent) + 1
                            /\ cursor[conn[d].share] = conn[d].held + 1
    /\ ~Reading(d) => conn[d].sent = <<>>

\* A piece that is sent after the end is the last one: the next read looks first.
LastPiece(d) ==
    conn[d].late = 0 \/ (conn[d].late = 1 /\ ConnAt(d, "read") /\ ~Active(conn[d].share))

\* The counter of a share counts its connections.
Served(s) == {d \in Downloads : conn[d].share = s}
Counted ==
    \A s \in Shares : /\ IsFiniteSet(Served(s)) /\ leases[s] = Cardinality(Served(s))
                      /\ leases[s] <= MaxConnections

ShareInv ==
    /\ ShareTyped /\ OneReader /\ Counted
    /\ \A d \in Downloads : InOrder(d) /\ LastPiece(d)

-----------------------------------------------------------------------------

\* Every step keeps the types.
LEMMA TypedStep ==
  ASSUME ShareTyped, Counted, [ShareNext]_shareVars
  PROVE  ShareTyped'
<1> USE DEF ShareTyped, ConnAt, ConnGoto, SameShare
<1>0. 0 \notin Shares
  BY DEF Shares
<1>1. CASE Start \/ Stop
  BY <1>1 DEF Start, Stop
<1>2. ASSUME NEW s \in Shares, Expire(s) \/ ListenerEnds(s) PROVE ShareTyped'
  BY <1>2 DEF Expire, ListenerEnds
<1>3. ASSUME NEW s \in Shares, NEW d \in Downloads, Accept(s, d) PROVE ShareTyped'
  <2>1. [NoConn EXCEPT !.share = s, !.pc = "request"] \in ConnRecord
    <3>1. s \in Nat
      BY ShareAssumption DEF Shares
    <3>2. ASSUME NEW q \in Seq(Nat)
          PROVE  [[share |-> 0, pc |-> "closed", held |-> 0, sent |-> q, late |-> 0]
                    EXCEPT !.share = s, !.pc = "request"] \in ConnRecord
      BY <3>1 DEF ConnRecord
    <3>3. <<>> \in Seq(Nat)
      OBVIOUS
    <3> QED
      BY <3>2, <3>3, Zenon DEF NoConn
  <2>2. conn'[d].share = s /\ conn'[d].pc = "request"
    BY <1>3 DEF Accept, NoConn
  <2> QED
    BY <1>3, <2>1, <2>2 DEF Accept
<1>4. ASSUME NEW d \in Downloads, OpenFile(d) PROVE ShareTyped'
  BY <1>4 DEF OpenFile, ConnRecord
<1>5. ASSUME NEW d \in Downloads, ReadChunk(d) PROVE ShareTyped'
  <2>1. conn[d].share \in Shares /\ cursor[conn[d].share] \in Nat
    BY <1>5 DEF ReadChunk
  <2>2. /\ [conn[d] EXCEPT !.pc = "send", !.held = cursor[conn[d].share]] \in ConnRecord
        /\ conn' = [conn EXCEPT ![d] = [conn[d] EXCEPT !.pc = "send",
                                                      !.held = cursor[conn[d].share]]]
    BY <1>5, <2>1 DEF ReadChunk, ConnRecord
  <2>3. conn'[d].share = conn[d].share /\ conn'[d].pc = "send"
    BY <2>2 DEF ConnRecord
  <2> QED
    BY <1>5, <2>1, <2>2, <2>3 DEF ReadChunk
<1>6. ASSUME NEW d \in Downloads, SendChunk(d) PROVE ShareTyped'
  <2>1. Append(conn[d].sent, conn[d].held) \in Seq(Nat)
    BY DEF ConnRecord
  <2>2. conn[d].late + (IF Active(conn[d].share) THEN 0 ELSE 1) \in Nat
    BY DEF ConnRecord
  <2>3. ASSUME NEW q \in Seq(Nat), NEW n \in Nat
        PROVE  [conn[d] EXCEPT !.pc = "read", !.sent = q, !.late = n] \in ConnRecord
    BY DEF ConnRecord
  <2> DEFINE r == [conn[d] EXCEPT !.pc = "read", !.sent = Append(@, conn[d].held),
                                  !.late = @ + IF Active(conn[d].share) THEN 0 ELSE 1]
  <2>4. r \in ConnRecord
    BY <2>1, <2>2, <2>3
  <2>5. conn' = [conn EXCEPT ![d] = r] /\ UNCHANGED <<cursor, leases>> /\ conn[d].pc = "send"
    BY <1>6 DEF SendChunk
  <2>6. r.share = conn[d].share /\ r.pc = "read"
    BY DEF ConnRecord
  <2> HIDE DEF r
  <2>7. conn' \in [Downloads -> ConnRecord] /\ conn'[d] = r /\ \A e \in Downloads \ {d} : conn'[e] = conn[e]
    BY <2>4, <2>5
  <2> QED
    BY <2>5, <2>6, <2>7
<1>7. ASSUME NEW d \in Downloads, CloseConn(d) PROVE ShareTyped'
  <2>1. NoConn \in ConnRecord /\ NoConn.share = 0 /\ NoConn.pc = "closed"
    BY DEF NoConn, ConnRecord
  <2>2. conn[d].share \in Shares
    BY <1>7 DEF CloseConn
  <2>3. leases[conn[d].share] - 1 \in Nat
    <3>1. d \in Served(conn[d].share) /\ IsFiniteSet(Served(conn[d].share))
      BY <2>2 DEF Served, Counted
    <3>2. Cardinality(Served(conn[d].share)) # 0 /\ Cardinality(Served(conn[d].share)) \in Nat
      BY <3>1, FS_EmptySet, FS_CardinalityType
    <3> QED
      BY <2>2, <3>2 DEF Counted
  <2> QED
    BY <1>7, <2>1, <2>2, <2>3 DEF CloseConn
<1>8. CASE UNCHANGED shareVars
  BY <1>8 DEF shareVars
<1> QED
  BY <1>1, <1>2, <1>3, <1>4, <1>5, <1>6, <1>7, <1>8 DEF ShareNext

-----------------------------------------------------------------------------
(* The lock, the cursor and the last piece *)

\* Every step keeps a transfer in order, and its file with one reader.
LEMMA TransferStep ==
  ASSUME ShareInv, ShareTyped', [ShareNext]_shareVars
  PROVE  OneReader' /\ (\A d \in Downloads : InOrder(d)' /\ LastPiece(d)')
<1> USE DEF ShareInv, ShareTyped, ConnAt, ConnGoto, SameShare, Reading, Active
<1>1. CASE Start \/ Stop
  BY <1>1 DEF Start, Stop, OneReader, InOrder, LastPiece
<1>2. ASSUME NEW s \in Shares, Expire(s) \/ ListenerEnds(s)
      PROVE  OneReader' /\ (\A d \in Downloads : InOrder(d)' /\ LastPiece(d)')
  BY <1>2 DEF Expire, ListenerEnds, OneReader, InOrder, LastPiece
<1>3. ASSUME NEW s \in Shares, NEW d \in Downloads, Accept(s, d)
      PROVE  OneReader' /\ (\A e \in Downloads : InOrder(e)' /\ LastPiece(e)')
  <2>1. /\ conn'[d].pc = "request" /\ conn'[d].sent = <<>> /\ conn'[d].late = 0
        /\ \A e \in Downloads \ {d} : conn'[e] = conn[e]
        /\ UNCHANGED <<cursor, locked, halted>>
    BY <1>3 DEF Accept, NoConn
  <2>2. OneReader'
    <3>1. ASSUME NEW e \in Downloads, Reading(e)' PROVE (conn[e].share \in locked)'
      BY <2>1, <3>1 DEF OneReader
    <3>2. ASSUME NEW e \in Downloads, NEW f \in Downloads, (Reading(e) /\ Reading(f))',
                 (conn[e].share = conn[f].share)'
          PROVE  e = f
      BY <2>1, <3>2 DEF OneReader
    <3> QED
      BY <3>1, <3>2 DEF OneReader
  <2>3. \A e \in Downloads : InOrder(e)' /\ LastPiece(e)'
    <3>1. \A e \in Downloads \ {d} : InOrder(e)' /\ LastPiece(e)'
      BY <2>1 DEF InOrder, LastPiece
    <3>2. InOrder(d)' /\ LastPiece(d)'
      BY <2>1 DEF InOrder, LastPiece
    <3> QED
      BY <3>1, <3>2
  <2> QED
    BY <2>2, <2>3
<1>4. ASSUME NEW d \in Downloads, OpenFile(d)
      PROVE  OneReader' /\ (\A e \in Downloads : InOrder(e)' /\ LastPiece(e)')
  <2>1. /\ conn[d].pc = "request" /\ conn[d].share \in Shares /\ conn[d].share \notin locked
        /\ conn'[d].pc = "read" /\ conn'[d].sent = <<>> /\ conn'[d].late = 0
        /\ conn'[d].share = conn[d].share /\ conn'[d].held = conn[d].held
        /\ \A e \in Downloads \ {d} : conn'[e] = conn[e]
        /\ cursor'[conn[d].share] = 1 /\ locked' = locked \cup {conn[d].share}
        /\ \A s \in Shares \ {conn[d].share} : cursor'[s] = cursor[s]
        /\ halted' = halted
    BY <1>4 DEF OpenFile, ConnRecord, InOrder, LastPiece
  <2>2. \A e \in Downloads \ {d} : Reading(e) => conn[e].share # conn[d].share /\ conn[e].share \in Shares
    BY <2>1 DEF OneReader
  <2>3. OneReader'
    <3>0. \A e \in Downloads \ {d} : Reading(e)' => Reading(e) /\ conn'[e].share = conn[e].share
                                                   /\ conn'[e].share # conn'[d].share
      BY <2>1, <2>2
    <3> HIDE DEF Reading
    <3>1. ASSUME NEW e \in Downloads, Reading(e)' PROVE (conn[e].share \in locked)'
      <4>1. CASE e = d
        BY <2>1, <4>1
      <4>2. CASE e # d
        BY <2>1, <3>0, <3>1, <4>2 DEF OneReader
      <4> QED
        BY <4>1, <4>2
    <3>2. ASSUME NEW e \in Downloads, NEW f \in Downloads, (Reading(e) /\ Reading(f))',
                 (conn[e].share = conn[f].share)'
          PROVE  e = f
      <4>1. CASE d \in {e, f}
        BY <3>0, <3>2, <4>1
      <4>2. CASE d \notin {e, f}
        BY <3>0, <3>2, <4>2 DEF OneReader
      <4> QED
        BY <4>1, <4>2
    <3> QED
      BY <3>1, <3>2 DEF OneReader
  <2>4. ASSUME NEW e \in Downloads \ {d} PROVE InOrder(e)' /\ LastPiece(e)'
    <3>1. /\ conn'[e] = conn[e] /\ halted' = halted
          /\ Reading(e) => cursor'[conn[e].share] = cursor[conn[e].share]
      BY <2>1, <2>2
    <3> QED
      BY <3>1 DEF InOrder, LastPiece
  <2>5. InOrder(d)' /\ LastPiece(d)'
    <3>1. InOrder(d) /\ LastPiece(d)
      OBVIOUS
    <3>2. InOrder(d)'
      BY <2>1, <3>1 DEF InOrder
    <3>3. LastPiece(d)'
      BY <2>1, <3>1 DEF LastPiece
    <3> QED
      BY <3>2, <3>3
  <2> QED
    BY <2>3, <2>4, <2>5
<1>5. ASSUME NEW d \in Downloads, ReadChunk(d)
      PROVE  OneReader' /\ (\A e \in Downloads : InOrder(e)' /\ LastPiece(e)')
  <2>1. /\ conn[d].pc = "read" /\ conn[d].share \in Shares /\ conn[d].share \notin halted
        /\ conn'[d].pc = "send" /\ conn'[d].sent = conn[d].sent /\ conn'[d].late = conn[d].late
        /\ conn'[d].share = conn[d].share /\ conn'[d].held = cursor[conn[d].share]
        /\ \A e \in Downloads \ {d} : conn'[e] = conn[e]
        /\ cursor'[conn[d].share] = cursor[conn[d].share] + 1 /\ locked' = locked
        /\ \A s \in Shares \ {conn[d].share} : cursor'[s] = cursor[s]
        /\ halted' = halted
    BY <1>5 DEF ReadChunk, ConnRecord
  <2>2. \A e \in Downloads \ {d} : Reading(e) => conn[e].share # conn[d].share /\ conn[e].share \in Shares
    BY <2>1 DEF OneReader
  <2>3. OneReader'
    <3>0. \A e \in Downloads \ {d} : Reading(e)' => Reading(e) /\ conn'[e].share = conn[e].share
                                                   /\ conn'[e].share # conn'[d].share
      BY <2>1, <2>2
    <3> HIDE DEF Reading
    <3>1. ASSUME NEW e \in Downloads, Reading(e)' PROVE (conn[e].share \in locked)'
      <4>1. CASE e = d
        BY <2>1, <4>1 DEF OneReader, Reading
      <4>2. CASE e # d
        BY <2>1, <3>0, <3>1, <4>2 DEF OneReader
      <4> QED
        BY <4>1, <4>2
    <3>2. ASSUME NEW e \in Downloads, NEW f \in Downloads, (Reading(e) /\ Reading(f))',
                 (conn[e].share = conn[f].share)'
          PROVE  e = f
      <4>1. CASE d \in {e, f}
        BY <3>0, <3>2, <4>1
      <4>2. CASE d \notin {e, f}
        BY <3>0, <3>2, <4>2 DEF OneReader
      <4> QED
        BY <4>1, <4>2
    <3> QED
      BY <3>1, <3>2 DEF OneReader
  <2>4. ASSUME NEW e \in Downloads \ {d} PROVE InOrder(e)' /\ LastPiece(e)'
    <3>1. /\ conn'[e] = conn[e] /\ halted' = halted
          /\ Reading(e) => cursor'[conn[e].share] = cursor[conn[e].share]
      BY <2>1, <2>2
    <3> QED
      BY <3>1 DEF InOrder, LastPiece
  <2>5. InOrder(d)' /\ LastPiece(d)'
    <3>1. InOrder(d) /\ LastPiece(d)
      OBVIOUS
    <3>2. InOrder(d)'
      BY <2>1, <3>1 DEF InOrder
    <3>3. LastPiece(d)'
      BY <2>1, <3>1 DEF LastPiece
    <3> QED
      BY <3>2, <3>3
  <2> QED
    BY <2>3, <2>4, <2>5
<1>6. ASSUME NEW d \in Downloads, SendChunk(d)
      PROVE  OneReader' /\ (\A e \in Downloads : InOrder(e)' /\ LastPiece(e)')
  <2>1. /\ conn[d].pc = "send" /\ conn[d].share \in Shares
        /\ conn'[d].pc = "read" /\ conn'[d].sent = Append(conn[d].sent, conn[d].held)
        /\ conn'[d].late = conn[d].late + (IF conn[d].share \notin halted THEN 0 ELSE 1)
        /\ conn'[d].share = conn[d].share
        /\ \A e \in Downloads \ {d} : conn'[e] = conn[e]
        /\ UNCHANGED <<cursor, locked, halted>>
    <3>1. conn[d] \in ConnRecord /\ conn[d].pc = "send" /\ conn[d].share \in Shares
      BY <1>6 DEF SendChunk
    <3>2. conn' = [conn EXCEPT ![d] =
                     [conn[d] EXCEPT !.pc = "read", !.sent = Append(@, conn[d].held),
                                     !.late = @ + IF Active(conn[d].share) THEN 0 ELSE 1]]
      BY <1>6, <3>1 DEF SendChunk
    <3>3. /\ conn'[d] = [conn[d] EXCEPT !.pc = "read", !.sent = Append(@, conn[d].held),
                                       !.late = @ + IF Active(conn[d].share) THEN 0 ELSE 1]
          /\ \A e \in Downloads \ {d} : conn'[e] = conn[e]
      BY <3>2
    <3>4. UNCHANGED <<cursor, locked, halted>>
      BY <1>6 DEF SendChunk
    <3> HIDE DEF ShareInv, ShareTyped
    <3> QED
      BY <3>1, <3>3, <3>4 DEF ConnRecord
  <2>2. conn[d].sent \in Seq(Nat) /\ conn[d].held \in Nat
    BY DEF ConnRecord
  <2>3. /\ Len(conn'[d].sent) = Len(conn[d].sent) + 1
        /\ \A i \in 1..Len(conn'[d].sent) : conn'[d].sent[i] = i
    BY <2>1, <2>2 DEF InOrder
  <2>4. OneReader'
    <3>1. ASSUME NEW e \in Downloads, Reading(e)' PROVE (conn[e].share \in locked)'
      BY <2>1, <3>1 DEF OneReader
    <3>2. ASSUME NEW e \in Downloads, NEW f \in Downloads, (Reading(e) /\ Reading(f))',
                 (conn[e].share = conn[f].share)'
          PROVE  e = f
      BY <2>1, <3>2 DEF OneReader
    <3> QED
      BY <3>1, <3>2 DEF OneReader
  <2>5. \A e \in Downloads \ {d} : InOrder(e)' /\ LastPiece(e)'
    BY <2>1 DEF InOrder, LastPiece
  <2>6. InOrder(d)'
    BY <2>1, <2>2, <2>3 DEF InOrder
  <2>7. LastPiece(d)'
    <3>1. conn[d].late = 0
      BY <2>1 DEF LastPiece
    <3> QED
      BY <2>1, <3>1 DEF LastPiece, Active
  <2> QED
    BY <2>4, <2>5, <2>6, <2>7
<1>7. ASSUME NEW d \in Downloads, CloseConn(d)
      PROVE  OneReader' /\ (\A e \in Downloads : InOrder(e)' /\ LastPiece(e)')
  <2>1. /\ conn'[d].pc = "closed" /\ conn'[d].sent = <<>> /\ conn'[d].late = 0
        /\ \A e \in Downloads \ {d} : conn'[e] = conn[e]
        /\ conn[d].pc # "closed" /\ UNCHANGED <<cursor, halted>>
    BY <1>7 DEF CloseConn, NoConn
  <2>2. locked' = IF Reading(d) THEN locked \ {conn[d].share} ELSE locked
    BY <1>7, <2>1 DEF CloseConn, ConnRecord
  <2>3. OneReader'
    <3>1. ASSUME NEW e \in Downloads, Reading(e)' PROVE (conn[e].share \in locked)'
      BY <2>1, <2>2, <3>1 DEF OneReader
    <3>2. ASSUME NEW e \in Downloads, NEW f \in Downloads, (Reading(e) /\ Reading(f))',
                 (conn[e].share = conn[f].share)'
          PROVE  e = f
      BY <2>1, <2>2, <3>2 DEF OneReader
    <3> QED
      BY <3>1, <3>2 DEF OneReader
  <2>4. \A e \in Downloads : InOrder(e)' /\ LastPiece(e)'
    <3>1. \A e \in Downloads \ {d} : InOrder(e)' /\ LastPiece(e)'
      BY <2>1 DEF InOrder, LastPiece
    <3>2. InOrder(d)' /\ LastPiece(d)'
      BY <2>1 DEF InOrder, LastPiece
    <3> QED
      BY <3>1, <3>2
  <2> QED
    BY <2>3, <2>4
<1>8. CASE UNCHANGED shareVars
  BY <1>8 DEF shareVars, OneReader, InOrder, LastPiece
<1> QED
  BY <1>1, <1>2, <1>3, <1>4, <1>5, <1>6, <1>7, <1>8 DEF ShareNext

-----------------------------------------------------------------------------
(* The limit *)

\* Every step keeps the count of the leases of a share.
LEMMA CountStep ==
  ASSUME ShareTyped, Counted, [ShareNext]_shareVars
  PROVE  Counted'
<1> USE DEF ShareTyped, SameShare, ConnAt, ConnGoto
<1>0. MaxConnections \in Nat /\ 0 \notin Shares
  BY ShareAssumption DEF Shares
<1>1. ASSUME leases' = leases, \A e \in Downloads : conn'[e].share = conn[e].share
      PROVE  Counted'
  <2>1. \A s \in Shares : Served(s)' = Served(s)
    BY <1>1 DEF Served
  <2> QED
    BY <1>1, <2>1 DEF Counted
<1>2. CASE Start \/ Stop
  BY <1>1, <1>2 DEF Start, Stop
<1>3. ASSUME NEW s \in Shares, Expire(s) \/ ListenerEnds(s) PROVE Counted'
  BY <1>1, <1>3 DEF Expire, ListenerEnds
<1>4. ASSUME NEW s \in Shares, NEW d \in Downloads, Accept(s, d) PROVE Counted'
  <2>1. /\ conn'[d].share = s /\ conn[d].share = 0 /\ leases[s] < MaxConnections
        /\ leases' = [leases EXCEPT ![s] = @ + 1]
        /\ \A e \in Downloads \ {d} : conn'[e].share = conn[e].share
    BY <1>4 DEF Accept, NoConn
  <2>2. {e \in Downloads : conn'[e].share = s} = Served(s) \cup {d} /\ d \notin Served(s)
    BY <1>0, <2>1 DEF Served
  <2>3. /\ IsFiniteSet(Served(s) \cup {d})
        /\ Cardinality(Served(s) \cup {d}) = Cardinality(Served(s)) + 1
    BY <2>2, FS_AddElement DEF Counted
  <2>4. \A z \in Shares \ {s} : {e \in Downloads : conn'[e].share = z} = Served(z)
                                /\ leases'[z] = leases[z]
    BY <1>0, <2>1 DEF Served
  <2>5. leases'[s] = leases[s] + 1 /\ leases[s] + 1 <= MaxConnections
    BY <1>0, <2>1
  <2>6. /\ IsFiniteSet(Served(s))' /\ leases'[s] = Cardinality(Served(s)')
        /\ leases'[s] <= MaxConnections
    BY <2>2, <2>3, <2>5 DEF Counted, Served
  <2>7. \A z \in Shares \ {s} : /\ IsFiniteSet(Served(z))' /\ leases'[z] = Cardinality(Served(z)')
                                 /\ leases'[z] <= MaxConnections
    BY <2>4 DEF Counted, Served
  <2> QED
    BY <2>6, <2>7 DEF Counted
<1>5. ASSUME NEW d \in Downloads, OpenFile(d) PROVE Counted'
  BY <1>1, <1>5 DEF OpenFile, ConnRecord
<1>6. ASSUME NEW d \in Downloads, ReadChunk(d) PROVE Counted'
  BY <1>1, <1>6 DEF ReadChunk, ConnRecord
<1>7. ASSUME NEW d \in Downloads, SendChunk(d) PROVE Counted'
  BY <1>1, <1>7 DEF SendChunk, ConnRecord
<1>8. ASSUME NEW d \in Downloads, CloseConn(d) PROVE Counted'
  <2>1. PICK s \in Shares : s = conn[d].share
    BY <1>8 DEF CloseConn
  <2>2. /\ conn'[d].share = 0 /\ leases' = [leases EXCEPT ![s] = @ - 1]
        /\ \A e \in Downloads \ {d} : conn'[e].share = conn[e].share
    BY <1>8, <2>1 DEF CloseConn, NoConn
  <2>3. {e \in Downloads : conn'[e].share = s} = Served(s) \ {d} /\ d \in Served(s)
    BY <1>0, <2>1, <2>2 DEF Served
  <2>4. /\ IsFiniteSet(Served(s) \ {d})
        /\ Cardinality(Served(s) \ {d}) = Cardinality(Served(s)) - 1
    BY <2>3, FS_RemoveElement DEF Counted
  <2>5. \A z \in Shares \ {s} : {e \in Downloads : conn'[e].share = z} = Served(z)
                                /\ leases'[z] = leases[z]
    BY <1>0, <2>1, <2>2 DEF Served
  <2>6. leases'[s] = leases[s] - 1 /\ leases[s] - 1 <= MaxConnections
    BY <1>0, <2>2 DEF Counted
  <2>7. /\ IsFiniteSet(Served(s))' /\ leases'[s] = Cardinality(Served(s)')
        /\ leases'[s] <= MaxConnections
    BY <2>3, <2>4, <2>6 DEF Counted, Served
  <2>8. \A z \in Shares \ {s} : /\ IsFiniteSet(Served(z))' /\ leases'[z] = Cardinality(Served(z)')
                                 /\ leases'[z] <= MaxConnections
    BY <2>5 DEF Counted, Served
  <2> QED
    BY <2>7, <2>8 DEF Counted
<1>9. CASE UNCHANGED shareVars
  BY <1>1, <1>9 DEF shareVars
<1> QED
  BY <1>2, <1>3, <1>4, <1>5, <1>6, <1>7, <1>8, <1>9 DEF ShareNext

-----------------------------------------------------------------------------
(* The theorems *)

\* The invariant holds from the start on.
LEMMA ShareInvHolds == ShareSpec => []ShareInv
<1>1. ShareInit => ShareInv
  <2> SUFFICES ASSUME ShareInit PROVE ShareInv
    OBVIOUS
  <2>1. \A d \in Downloads : conn[d] = NoConn
    BY DEF ShareInit
  <2>2. ShareTyped /\ OneReader /\ \A d \in Downloads : InOrder(d) /\ LastPiece(d)
    BY <2>1 DEF ShareInit, ShareTyped, OneReader, InOrder, LastPiece, Reading, NoConn, ConnRecord, ConnAt
  <2>3. \A s \in Shares : Served(s) = {} /\ leases[s] = 0
    BY <2>1 DEF Served, NoConn, Shares, ShareInit
  <2>4. Counted
    BY <2>3, FS_EmptySet, ShareAssumption DEF Counted
  <2> QED
    BY <2>2, <2>4 DEF ShareInv
<1>2. ASSUME ShareInv, [ShareNext]_shareVars PROVE ShareInv'
  <2>1. ShareTyped'
    BY <1>2, TypedStep DEF ShareInv
  <2>2. OneReader' /\ (\A d \in Downloads : InOrder(d)' /\ LastPiece(d)')
    BY <1>2, <2>1, TransferStep
  <2>3. Counted'
    BY <1>2, CountStep DEF ShareInv
  <2> QED
    BY <2>1, <2>2, <2>3 DEF ShareInv
<1> QED
  BY <1>1, <1>2, PTL DEF ShareSpec

\* Each connection has been sent a beginning of the file, though the connections of a
\* share read through one cursor, for any connections and files.
THEOREM TransfersAreWhole == ShareSpec => []NoSplice
<1>1. ShareInv => NoSplice
  BY DEF ShareInv, InOrder, NoSplice
<1> QED
  BY <1>1, ShareInvHolds, PTL

\* A share that has ended sends at most one more piece on each connection, and no share
\* serves more connections than its limit, for any connections and limits.
THEOREM EndedSharesAreQuiet == ShareSpec => []EndedShareIsQuiet
<1>1. ShareInv => EndedShareIsQuiet
  BY DEF ShareInv, LastPiece, Counted, Served, EndedShareIsQuiet
<1> QED
  BY <1>1, ShareInvHolds, PTL

==============================================================================
