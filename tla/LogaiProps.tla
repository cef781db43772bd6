----------------------------- MODULE LogaiProps -----------------------------
(***************************************************************************)
(* What makes logai correct.  The properties of the first part hold under  *)
(* every fault; those of the second as long as the process lives and the   *)
(* database answers; those of the third are claims of the repository's     *)
(* comments and README that the code does not keep.                        *)
(***************************************************************************)
EXTENDS Logai, Integers

OpenMRsOf(t) == {r \in {t} \X RunNumbers : repo[r] = "mr"}

Used(kind) == FaultBudget[kind] - faults[kind]

FaultsUsed == Used("db") + Used("redis") + Used("reply") + Used("gitlab")
              + Used("deadline") + Used("crash") + Used("stop")

StopsUsed == Used("stop")

EverEnqueued(t) == taskState[t] # "none"

\* The labels at which the job row of the stage of the run is open.
Working == {"call", "record", "branch", "commit", "openmr", "savemr",
            "finish", "failjob"}

(* The calls that will still bring error e to a result: an ingestion or    *)
(* retry call about to enqueue its task, and a task that is waiting or is  *)
(* being run, up to the moment its run has written a terminal status.      *)
Owes(t) ==
    \/ t \in Errors /\ ingestPc[t] \in {"enqueue", "markfailed"}
    \/ t \in Retries /\ retryPc[t] = "enqueue"
    \/ taskState[t] \in {"pending", "retry"}
    \/ taskState[t] = "active" /\ pc[t] \notin {"idle", "settle"}
    \/ taskState[t] = "active" /\ pc[t] = "settle" /\ WillRetry(t)

Owing(e) == {t \in TasksOf(e) : Owes(t)}

-----------------------------------------------------------------------------
(* Under every fault.                                                      *)

(* An error shown as fixed has its risk columns filled and some run of it  *)
(* took all four stages to a recorded success and stored its MR: MarkFixed *)
(* is reached by no other way, whatever failed, crashed or raced before.   *)
FixedIsBacked ==
    \A e \in Errors : status[e] = "fixed" =>
        /\ e \in triaged
        /\ \E t \in TasksOf(e), n \in RunNumbers :
               /\ <<t, n>> \in mrs
               /\ \A s \in Stages : jobs[<<t, n, s>>] = "succeeded"

(* What logai recorded about its merge requests agrees with GitLab: a row  *)
(* of merge_requests names an MR that exists; a gitlab job recorded as     *)
(* succeeded stored its row, and one recorded as failed did not.           *)
RecordsMatchGitLab ==
    \A r \in RunIds :
        /\ r \in mrs => repo[r] = "mr"
        /\ jobs[<<r[1], r[2], "gitlab">>] = "succeeded" => r \in mrs
        /\ jobs[<<r[1], r[2], "gitlab">>] = "failed" => r \notin mrs

(* However many reports of one fault race through Ingest, one of them gets *)
(* a task: the check is not atomic with the insert, the UNIQUE constraint  *)
(* has to decide.                                                          *)
OneTaskPerFingerprint ==
    \A e1, e2 \in Errors :
        /\ fingerprint[e1] = fingerprint[e2]
        /\ EverEnqueued(e1) /\ EverEnqueued(e2)
        => e1 = e2

(* A task opens a second MR only if a fault of the environment broke the   *)
(* run that opened the first after CreateMR had taken effect: every MR of  *)
(* a task beyond the first is paid for by a fault.                         *)
ExtraMRsCostFaults ==
    \A t \in Tasks : Cardinality(OpenMRsOf(t)) <= 1 + FaultsUsed

(* The attempt that a run writes into its job rows is its number among the *)
(* runs of its task (worker.go, attemptNumber), also after crashes, whose  *)
(* runs asynq counts as retries.  Only a run that a graceful stop cut off  *)
(* shares its number with the next one.                                    *)
AttemptNumbersRun ==
    \A t \in Tasks : InProgress(t) =>
        /\ AttemptNumber(t) <= runs[t]
        /\ runs[t] - AttemptNumber(t) <= StopsUsed

(* GET /errors/{id} never shows a fixed error without the merge request    *)
(* and the completed stages behind it, although other statements, crashes  *)
(* and retries come between its three reads.                               *)
DetailShowsFix ==
    \A g \in Readers :
        readPc[g] = "ok" /\ view[g].status = "fixed" => view[g].complete /\ view[g].mr

(* Every task that was enqueued leaves the queue, processed or archived:   *)
(* retries are bounded and an orphaned task is found again.                *)
EveryTaskEnds ==
    \A t \in Tasks : taskState[t] \in Live ~> taskState[t] \in {"done", "archived"}

-----------------------------------------------------------------------------
(* With a database that answers and a process that lives.                  *)

(* An error shown as new or processing is not forgotten: a call that is    *)
(* still being served or a task that is still to run will settle it.  The  *)
(* one exception is known to an operator, whose POST /retry was answered   *)
(* with 500 because its task could not be enqueued.                        *)
NeverStranded ==
    \A e \in Errors : status[e] \in Unfinished =>
        \/ Owing(e) # {}
        \/ \E r \in Retries : payload[r] = e /\ retryPc[r] = "error"

(* For an error that only its ingestion has queued, the status tells the   *)
(* state of the retries (README, "Automatic retries"): "new" while a retry *)
(* is pending, and "failed" only when nothing will run again.  willRetry,  *)
(* evaluated before the handler returns, has to agree with what asynq      *)
(* decides afterwards.                                                     *)
StatusTellsRetries ==
    \A e \in Errors :
        /\ ingestPc[e] = "accepted"
        /\ \A t \in TasksOf(e) \ {e} : ~EverEnqueued(t)
        => /\ taskState[e] = "retry" => status[e] = "new"
           /\ status[e] = "failed" => ~Owes(e)

(* The job rows tell how the runs went: a row that stays "running" after   *)
(* its run is over belongs to a run that its deadline cut off, and a row   *)
(* of a run in progress is "running" only for the stage the run is in.     *)
JobsClosed ==
    \A t \in Tasks, n \in RunNumbers, s \in Stages :
        jobs[<<t, n, s>>] = "running" =>
            \/ <<t, n>> \in expired
            \/ <<t, n, s>> = JobOf(t) /\ pc[t] \in Working

\* Task t has fixed its error, and asynq has done with it or is about to.
HasFixed(t) ==
    /\ \E n \in RunNumbers :
           <<t, n>> \in mrs /\ \A s \in Stages : jobs[<<t, n, s>>] = "succeeded"
    /\ \/ taskState[t] = "done"
       \/ taskState[t] = "active" /\ pc[t] = "settle" /\ outcome[t] = "go"

OperatorResets(e) ==
    \E r \in Retries : payload[r] = e /\ retryPc[r] = "reset" /\ retryPc'[r] = "enqueue"

\* A step of the run of task t, or of the ingestion call that t is named by.
StepOf(t) == pc'[t] # pc[t] \/ (t \in Errors /\ ingestPc'[t] # ingestPc[t])

(* The run that fixes an error is the last of its task: whatever its       *)
(* earlier runs met, the handler returns nil for it and asynq does not run *)
(* it again (worker.go, run), so no task ever undoes its own fix.  What    *)
(* may reopen the error is the reset of a POST /retry, and a write of      *)
(* another task's run, or of an ingestion that could not queue its own     *)
(* task, that the last-writer-wins UPDATE lets through (OneRunPerError).   *)
FixedIsFinal ==
    [][\A e \in Errors :
          status[e] = "fixed" /\ status'[e] # "fixed" =>
              \/ OperatorResets(e)
              \/ \E t, u \in TasksOf(e) : t # u /\ HasFixed(u) /\ StepOf(t)]_vars

(* Ingestion, workers and retries together implement ErrorLifecycle: what  *)
(* a status change may be, and who still owes a result after it.           *)
Lifecycle == INSTANCE ErrorLifecycle WITH
    Calls <- Tasks, result <- status, owed <- [e \in Errors |-> Owing(e)]

LifecycleSpec == Lifecycle!Spec

(* Every error that is new or processing comes to a result.                *)
EveryErrorSettles ==
    \A e \in Errors : status[e] \in Unfinished ~> status[e] \in Terminal

-----------------------------------------------------------------------------
(* Claimed by the repository and not kept.                                 *)

(* internal/api/handlers.go: "A second concurrent run would race the first *)
(* and could open two MRs", which the answer 409 is there to prevent.      *)
OneRunPerError ==
    \A t, u \in Tasks :
        InProgress(t) /\ InProgress(u) /\ payload[t] = payload[u] => t = u

(* internal/pipeline/worker.go, failJob: detached "so a timed-out stage    *)
(* still gets its failure recorded".                                       *)
TimedOutStageIsRecorded ==
    \A t \in Tasks, n \in RunNumbers, s \in Stages :
        <<t, n>> \in expired /\ jobs[<<t, n, s>>] = "running" =>
            InProgress(t) /\ n = runs[t]

(* README: "409 while it is processing"; the answer says that the error    *)
(* "is currently being processed", so some task of it must be alive.       *)
ConflictMeansWorking ==
    \A e \in Errors : status[e] = "processing" => LiveTasksOf(e) # {}

(* internal/ingestion/ingest.go: when the enqueue failed, "The row exists  *)
(* but nothing will process it".                                           *)
NothingWillProcessIt ==
    \A e \in Errors : ingestPc[e] = "markfailed" => taskState[e] = "none"

(* cmd/logai/main.go: the shutdown stops the worker so as to "finish       *)
(* in-flight tasks"; the task of a run in progress stays with that run.    *)
InFlightTasksFinish ==
    \A t \in Tasks : server = "stopping" /\ InProgress(t) => taskState[t] = "active"

=============================================================================
