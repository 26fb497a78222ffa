----------------------------- MODULE FfmpegJobs -----------------------------
(***************************************************************************)
(* utools.runFFmpeg: the document of a plugin starts a job, which installs *)
(* the program if it is missing, runs it and publishes its output under    *)
(* the name the user has chosen.  The document may quit or kill its job,   *)
(* and the end of its runtime kills all (app.rs, utools_ffmpeg.rs).        *)
(***************************************************************************)
EXTENDS Naturals, FiniteSets

CONSTANTS
    Jobs,           \* jobs; the runtime makes an id for each
    MaxJobDocs      \* documents the plugin ever has

ASSUME JobAssumption == MaxJobDocs \in Nat

VARIABLES
    jobDoc,         \* the active document; 0 is none
    jobDocs,        \* documents so far
    jobs,           \* the table of active jobs
    job,            \* the host's task for each job
    program,        \* the installed program: "missing", "installed"
    installer       \* who holds install_lock

jobVars == <<jobDoc, jobDocs, jobs, job, program, installer>>
sameJobDoc == UNCHANGED <<jobDoc, jobDocs>>
sameProgram == UNCHANGED <<program, installer>>

Nobody == {}

\* control: 0, 1 to quit, 2 to kill.  native: it holds a native worker lease.
\* killed: history, the document has killed the job while its program ran or
\* before; cleared: its runtime was cleared.  published: the output has its name.
\* told: the document was told.
NoJob == [pc |-> "none", doc |-> 0, control |-> 0, native |-> FALSE, result |-> "none",
          killed |-> FALSE, cleared |-> FALSE, published |-> FALSE, told |-> FALSE]

JobAt(j, pc) == job[j].pc = pc
JobGoto(j, pc) == job' = [job EXCEPT ![j].pc = pc]
BeforeExit == {"insert", "look", "lock", "download", "start", "run"}

Killed(j) == [job[j] EXCEPT !.control = 2, !.killed = @ \/ job[j].pc \in BeforeExit]

\* clear_plugin_runtime_state takes the jobs of the plugin away and kills them.
ClearJobs ==
    /\ jobs' = {}
    /\ job' = [j \in Jobs |-> IF j \in jobs THEN [Killed(j) EXCEPT !.cleared = TRUE] ELSE job[j]]

-----------------------------------------------------------------------------
(* The document *)

OpenJobDoc ==
    /\ jobDocs < MaxJobDocs
    /\ jobDocs' = jobDocs + 1 /\ jobDoc' = jobDocs'
    /\ ClearJobs /\ sameProgram

CloseJobDoc ==
    /\ jobDoc # 0 /\ jobDoc' = 0
    /\ ClearJobs
    /\ UNCHANGED jobDocs /\ sameProgram

LoseJobDoc ==
    /\ jobDoc # 0 /\ jobDoc' = 0
    /\ UNCHANGED <<jobDocs, jobs, job>> /\ sameProgram

DisposeJobDoc ==
    /\ jobDoc # 0 /\ ClearJobs
    /\ sameJobDoc /\ sameProgram

\* The save grant is taken and a native worker reserved under the operation lock;
StartJob(j) ==
    /\ jobDoc # 0 /\ JobAt(j, "none")
    /\ job' = [job EXCEPT ![j] = [NoJob EXCEPT !.pc = "insert", !.doc = jobDoc, !.native = TRUE]]
    /\ UNCHANGED jobs /\ sameJobDoc /\ sameProgram

\* the job is entered in the table after it.
InsertJob(j) ==
    /\ JobAt(j, "insert") /\ jobs' = jobs \cup {j}
    /\ JobGoto(j, "look")
    /\ sameJobDoc /\ sameProgram

KillJob(j) ==
    /\ j \in jobs /\ jobDoc = job[j].doc
    /\ job' = [job EXCEPT ![j] = Killed(j)]
    /\ UNCHANGED jobs /\ sameJobDoc /\ sameProgram

\* A job that was killed stays so.
QuitJob(j) ==
    /\ j \in jobs /\ jobDoc = job[j].doc
    /\ job' = [job EXCEPT ![j].control = IF @ = 0 THEN 1 ELSE @]
    /\ UNCHANGED jobs /\ sameJobDoc /\ sameProgram

-----------------------------------------------------------------------------
(* ensure_installed *)

\* Without the lock, and again with it.
LookForProgram(j) ==
    /\ JobAt(j, "look")
    /\ JobGoto(j, IF program = "installed" THEN "start" ELSE "lock")
    /\ UNCHANGED jobs /\ sameJobDoc /\ sameProgram

LockInstall(j) ==
    /\ JobAt(j, "lock") /\ installer = Nobody
    /\ IF program = "installed" THEN JobGoto(j, "start") /\ UNCHANGED installer
                                ELSE JobGoto(j, "download") /\ installer' = {j}
    /\ UNCHANGED <<jobs, program>> /\ sameJobDoc

\* A whole directory is renamed into its place, or nothing is.
Download(j) ==
    /\ JobAt(j, "download") /\ installer' = Nobody
    /\ \/ program' = "installed" /\ JobGoto(j, "start")
       \/ UNCHANGED program
          /\ job' = [job EXCEPT ![j].pc = "release", ![j].result = "error"]
    /\ UNCHANGED jobs /\ sameJobDoc

-----------------------------------------------------------------------------
(* run *)

StartProgram(j) ==
    /\ JobAt(j, "start")
    /\ \/ job[j].control = 0 /\ JobGoto(j, "run")
       \/ job' = [job EXCEPT ![j].pc = "release", ![j].result = "error"]
    /\ UNCHANGED jobs /\ sameJobDoc /\ sameProgram

\* The program ends by itself, on "q", or because it was killed.
ProgramExits(j) ==
    /\ JobAt(j, "run")
    /\ \E r \in {"ok", "error"} : job' = [job EXCEPT ![j].pc = "exited", ![j].result = r]
    /\ UNCHANGED jobs /\ sameJobDoc /\ sameProgram

\* Mutant: the exit code decides.
JudgeByStatus(j) ==
    /\ JobAt(j, "exited")
    /\ JobGoto(j, IF job[j].result = "ok" THEN "publish" ELSE "release")
    /\ UNCHANGED jobs /\ sameJobDoc /\ sameProgram

\* The control is read once more; a job that was killed has failed.
JudgeRun(j) ==
    /\ JobAt(j, "exited")
    /\ IF job[j].control # 2 /\ job[j].result = "ok" THEN JobGoto(j, "publish")
       ELSE job' = [job EXCEPT ![j].pc = "release", ![j].result = "error"]
    /\ UNCHANGED jobs /\ sameJobDoc /\ sameProgram

\* The output is renamed to its name, unless that is taken by now.
PublishOutput(j) ==
    /\ JobAt(j, "publish")
    /\ \/ job' = [job EXCEPT ![j].pc = "release", ![j].published = TRUE]
       \/ job' = [job EXCEPT ![j].pc = "release", ![j].result = "error"]
    /\ UNCHANGED jobs /\ sameJobDoc /\ sameProgram

\* The process is gone: the native worker lease is returned.
ReleaseNative(j) ==
    /\ JobAt(j, "release")
    /\ job' = [job EXCEPT ![j].pc = "tell", ![j].native = FALSE]
    /\ UNCHANGED jobs /\ sameJobDoc /\ sameProgram

\* Mutant: the document is told whether or not the job is still its own.
TellAnyway(j) ==
    /\ JobAt(j, "tell") /\ jobs' = jobs \ {j}
    /\ job' = [job EXCEPT ![j].pc = "done", ![j].told = TRUE]
    /\ sameJobDoc /\ sameProgram

TellDocument(j) ==
    /\ JobAt(j, "tell") /\ jobs' = jobs \ {j}
    /\ job' = [job EXCEPT ![j].pc = "done", ![j].told = j \in jobs]
    /\ sameJobDoc /\ sameProgram

JobStep(j) ==
    \/ InsertJob(j) \/ LookForProgram(j) \/ LockInstall(j) \/ Download(j) \/ StartProgram(j)
    \/ ProgramExits(j) \/ JudgeRun(j) \/ PublishOutput(j) \/ ReleaseNative(j) \/ TellDocument(j)

JobInit ==
    /\ jobDoc = 0 /\ jobDocs = 0 /\ jobs = {} /\ job = [j \in Jobs |-> NoJob]
    /\ program = "missing" /\ installer = Nobody

JobNext ==
    \/ OpenJobDoc \/ CloseJobDoc \/ LoseJobDoc \/ DisposeJobDoc
    \/ \E j \in Jobs : StartJob(j) \/ KillJob(j) \/ QuitJob(j) \/ JobStep(j)

JobSpec == JobInit /\ [][JobNext]_jobVars

-----------------------------------------------------------------------------
(* Properties *)

\* A job that is killed before its program has ended leaves no output under the
\* user's name and reports no success, though the program may have ended well in
\* the meantime (utools_ffmpeg.rs:461); and while the program runs a native
\* worker lease keeps the plugin's source from being replaced (app.rs:6845).
KilledPublishesNothing ==
    \A j \in Jobs : /\ job[j].killed => ~job[j].published /\ ~(job[j].told /\ job[j].result = "ok")
                    /\ job[j].pc \in {"run", "exited", "publish"} => job[j].native

\* Once the runtime of a document was cleared nothing is sent for the jobs it
\* had (app.rs:6850), they have been told to end, and each entry of the table has
\* a task that will remove it.
ClearedJobsAreSilent ==
    /\ \A j \in Jobs : job[j].cleared => ~job[j].told /\ job[j].control = 2
    /\ \A j \in jobs : job[j].pc \notin {"none", "insert", "done"}
=============================================================================
