---------------------------- MODULE LogaiRecords ----------------------------
(***************************************************************************)
(* RecordsInv is an invariant of Logai, and so are RecordsMatchGitLab,     *)
(* FixedIsBacked, DetailShowsFix and OneTaskPerFingerprint, for any number *)
(* of reports, retries, readers, slots and faults of every kind.  At the   *)
(* end RunsInv, and from it AttemptNumbersRun.                             *)
(***************************************************************************)
EXTENDS LogaiInv, LogaiTypes

USE CallsAssumption, MaxRetryAssumption, FaultBudgetAssumption

(* What a step of the worker of task t leaves alone: the runs and the rows *)
(* of other tasks, the calls of the API, and whatever has been stored.     *)
WorkerFrame(t) ==
    /\ UNCHANGED <<payload, fingerprint, ingestPc, retryPc, readVars>>
    /\ \A u \in Tasks \ {t} :
        /\ pc'[u] = pc[u] /\ stage'[u] = stage[u] /\ outcome'[u] = outcome[u]
        /\ runs'[u] = runs[u]
        /\ taskState'[u] = taskState[u] /\ retried'[u] = retried[u]
    /\ \A j \in JobIds : j # JobOf(t) => jobs'[j] = jobs[j]
    /\ \A e \in Errors : (status[e] = "absent") <=> (status'[e] = "absent")
    /\ triaged \subseteq triaged'
    /\ mrs \subseteq mrs' /\ mrs' \subseteq mrs \cup {RunId(t)}
    /\ \A r \in RunIds : repo[r] = "mr" => repo'[r] = "mr"

LEMMA WorkerLocal ==
    ASSUME TypeOK, NEW t \in Tasks, Worker(t)
    PROVE  WorkerFrame(t)
<1> USE DEF TypeOK, storeVars, queueVars, runVars, WorkerFrame
<1>a. UNCHANGED <<ingestPc, retryPc, readVars>> BY DEF Worker
<1>b. ASSUME NEW e, NEW s \in ErrorStatus \ {"absent"}, UpdateErrorStatus(e, s)
      PROVE  \A f \in Errors : (status[f] = "absent") <=> (status'[f] = "absent")
    BY <1>b DEF UpdateErrorStatus, StoreTypeOK
<1>c. ASSUME NEW s, UpdateJob(JobOf(t), s) \/ InsertJob(JobOf(t))
      PROVE  \A j \in JobIds : j # JobOf(t) => jobs'[j] = jobs[j]
    BY <1>c DEF UpdateJob, InsertJob, StoreTypeOK
<1>d. ASSUME NEW l, Goto(t, l)
      PROVE  \A u \in Tasks \ {t} : pc'[u] = pc[u]
    BY <1>d DEF Goto, RunTypeOK
<1>e. ASSUME NEW l, Proceed(t, l)
      PROVE  \A u \in Tasks \ {t} : pc'[u] = pc[u] /\ stage'[u] = stage[u] /\ outcome'[u] = outcome[u]
    BY <1>d, <1>e DEF Proceed
<1>f. ASSUME NEW o, NEW l, Abort(t, o, l)
      PROVE  \A u \in Tasks \ {t} : pc'[u] = pc[u] /\ stage'[u] = stage[u] /\ outcome'[u] = outcome[u]
    BY <1>d, <1>f DEF Abort, RunTypeOK
<1>g. ASSUME NEW b \in BOOLEAN, Fail(t, b)
      PROVE  \A u \in Tasks \ {t} : taskState'[u] = taskState[u] /\ retried'[u] = retried[u]
    BY <1>g DEF Fail, QueueTypeOK
<1>1. CASE LoadError(t) BY <1>1, <1>a, <1>e, <1>f DEF LoadError
<1>2. CASE MarkProcessing(t) \/ SkipError(t) \/ MarkFixed(t) \/ MarkFailed(t)
    BY <1>2, <1>a, <1>b, <1>e, <1>f DEF MarkProcessing, SkipError, MarkFixed, Conclude, MarkFailed,
       ErrorStatus, Unfinished, Terminal
<1>3. CASE StartJob(t) \/ FailJob(t)
    BY <1>3, <1>a, <1>c, <1>e, <1>f DEF StartJob, FailJob
<1>4. CASE FinishJob(t)
    <2>1. CASE NextStage(t) /\ UpdateJob(JobOf(t), "succeeded")
        BY <1>4, <2>1, <1>a, <1>c, <1>d, <1>e DEF FinishJob, NextStage, RunTypeOK
    <2>2. CASE Abort(t, "retryable", "fail") /\ UNCHANGED jobs
        BY <1>4, <2>2, <1>a, <1>f DEF FinishJob
    <2> QED BY <1>4, <2>1, <2>2 DEF FinishJob
<1>5. CASE RecordTriage(t) \/ SaveMR(t)
    BY <1>5, <1>a, <1>e, <1>f DEF RecordTriage, SaveMR, UpdateErrorTriage, InsertMergeRequest
<1>6. CASE Triage(t) \/ Localize(t) \/ Fix(t)
    BY <1>6, <1>a, <1>f DEF Triage, Localize, Fix, AskModel
<1>7. CASE PushBranch(t) \/ PushCommit(t) \/ OpenMR(t)
    BY <1>7, <1>a, <1>e, <1>f DEF PushBranch, PushCommit, OpenMR, GitLabWrite, ReportsError,
       CreateBranch, CommitFile, CreateMR, Advance, GitLabTypeOK
<1>8. CASE Settle(t)
    <2>1. \A u \in Tasks \ {t} : taskState'[u] = taskState[u] /\ retried'[u] = retried[u]
        <3>1. (outcome[t] = "final") \in BOOLEAN OBVIOUS
        <3> QED BY <1>8, <1>g, <3>1 DEF Settle, Complete, QueueTypeOK
    <2> QED BY <1>8, <2>1, <1>a, <1>d DEF Settle, EndRun, RunTypeOK
<1>9. CASE DeadlineExpires(t) \/ Abandon(t)
    BY <1>9, <1>a DEF DeadlineExpires, Abandon, Requeue, QueueTypeOK
<1>10. CASE Dequeue(t) \/ RetryIsDue(t)
    BY <1>10, <1>a, <1>e DEF Dequeue, RetryIsDue, Take, Forward, QueueTypeOK, RunTypeOK
<1>11. CASE Recover(t) BY <1>11, <1>a, <1>g DEF Recover
<1> QED BY <1>1, <1>2, <1>3, <1>4, <1>5, <1>6, <1>7, <1>8, <1>9, <1>10, <1>11
        DEF Worker, WorkerStep, RunStep

-----------------------------------------------------------------------------
(* The steps of a worker.                                                  *)

(* The handler leaves the queue alone until it returns. *)
LEMMA RunHoldsTask ==
    ASSUME TypeOK, NEW t \in Tasks, RunStep(t) \/ DeadlineExpires(t)
    PROVE  InProgress(t) /\ (UNCHANGED <<taskState, retried>> \/ Settle(t))
BY DEF RunStep, DeadlineExpires, InProgress, queueVars, LoadError, MarkProcessing, StartJob, Triage,
   Localize, Fix, AskModel, RecordTriage, FinishJob, SkipError, MarkFixed, Conclude, PushBranch,
   PushCommit, OpenMR, GitLabWrite, SaveMR, FailJob, MarkFailed, Settle, Timed

LEMMA WorkerCalls ==
    ASSUME TypeOK, CallsInv, NEW t \in Tasks, Worker(t)
    PROVE  CallsInv'
<1>1. WorkerFrame(t) BY WorkerLocal
<1>2. taskState[t] # "none" /\ taskState'[t] # "none"
    <2>1. CASE RunStep(t) \/ DeadlineExpires(t)
        <3>1. taskState[t] # "none" BY <2>1, RunHoldsTask DEF CallsInv, Returned
        <3>2. CASE UNCHANGED <<taskState, retried>> BY <3>1, <3>2
        <3>3. CASE Settle(t) BY <3>1, <3>3 DEF Settle, Complete, Fail, TypeOK, QueueTypeOK
        <3> QED BY <2>1, <3>2, <3>3, RunHoldsTask
    <2>2. CASE Dequeue(t) \/ RetryIsDue(t) \/ Recover(t) \/ Abandon(t)
        BY <2>2 DEF Dequeue, RetryIsDue, Recover, Abandon, Take, Forward, Requeue, Fail, TypeOK,
           QueueTypeOK
    <2> QED BY <2>1, <2>2 DEF Worker, WorkerStep
<1>3. server' = server /\ (InProgress(t)' => taskState'[t] = "active" \/ Returned(t)')
    <2>1. CASE RunStep(t) \/ DeadlineExpires(t)
        <3>1. server' = server
            BY <2>1 DEF RunStep, DeadlineExpires, queueVars, LoadError, MarkProcessing, StartJob, Triage,
               Localize, Fix, AskModel, RecordTriage, FinishJob, SkipError, MarkFixed, Conclude,
               PushBranch, PushCommit, OpenMR, GitLabWrite, SaveMR, FailJob, MarkFailed, Settle
        <3>2. CASE Settle(t) BY <3>1, <3>2 DEF Settle, EndRun, Goto, InProgress, TypeOK, RunTypeOK
        <3>3. CASE UNCHANGED <<taskState, retried>>
            BY <2>1, <3>1, <3>3, RunHoldsTask DEF CallsInv, Returned
        <3> QED BY <2>1, <3>1, <3>2, <3>3, RunHoldsTask
    <2>2. CASE Dequeue(t) BY <2>2 DEF Dequeue, Take, TypeOK, QueueTypeOK
    <2>3. CASE Abandon(t) BY <2>3 DEF Abandon, Requeue, TypeOK, QueueTypeOK, Returned
    <2>4. CASE RetryIsDue(t) \/ Recover(t)
        BY <2>4 DEF RetryIsDue, Recover, Forward, runVars, InProgress, CallsInv, Returned
    <2> QED BY <2>1, <2>2, <2>3, <2>4 DEF Worker, WorkerStep
<1>4. \A e \in Errors : Stored(e) <=> Stored(e)' BY <1>1 DEF WorkerFrame, Stored
<1>5. \A u \in Tasks : payload[u] \in Errors BY DEF TypeOK, QueueTypeOK
<1>6. \A u \in Tasks : taskState[u] = "none" <=> taskState'[u] = "none" BY <1>1, <1>2 DEF WorkerFrame
<1>7. \A u \in Tasks : InProgress(u)' => taskState'[u] = "active" \/ Returned(u)'
    BY <1>1, <1>3 DEF WorkerFrame, CallsInv, InProgress, Returned
<1> QED BY <1>1, <1>4, <1>5, <1>6, <1>7 DEF WorkerFrame, CallsInv, Tasks

LEMMA WorkerControl ==
    ASSUME TypeOK, CallsInv, ControlInv, NEW t \in Tasks, Worker(t)
    PROVE  ControlInv'
<1>1. WorkerFrame(t) BY WorkerLocal
<1>2. ControlOf(t)'
    <2> USE DEF ControlInv, ControlOf, TypeOK, RunTypeOK
    <2>1. CASE LoadError(t) \/ MarkProcessing(t) \/ StartJob(t) \/ RecordTriage(t) \/ SkipError(t)
               \/ MarkFixed(t) \/ SaveMR(t) \/ FailJob(t) \/ MarkFailed(t)
        BY <2>1 DEF LoadError, MarkProcessing, StartJob, RecordTriage, SkipError, MarkFixed, Conclude,
           SaveMR, FailJob, MarkFailed, Proceed, Abort, Goto
    <2>2. CASE FinishJob(t) BY <2>2 DEF FinishJob, NextStage, Proceed, Abort, Goto
    <2>3. CASE Triage(t) \/ Localize(t) \/ Fix(t)
        BY <2>3 DEF Triage, Localize, Fix, AskModel, Abort, Goto
    <2>4. CASE PushBranch(t) \/ PushCommit(t) \/ OpenMR(t)
        BY <2>4 DEF PushBranch, PushCommit, OpenMR, GitLabWrite, Proceed, Abort, Goto
    <2>5. CASE Settle(t) BY <2>5 DEF Settle, EndRun, Goto
    <2>6. CASE Dequeue(t)
        BY <2>6 DEF Dequeue, Take, Proceed, Goto, CallsInv, InProgress, Returned
    <2>7. CASE DeadlineExpires(t) \/ RetryIsDue(t) \/ Recover(t) \/ Abandon(t)
        BY <2>7 DEF DeadlineExpires, RetryIsDue, Recover, Abandon, runVars
    <2> QED BY <2>1, <2>2, <2>3, <2>4, <2>5, <2>6, <2>7 DEF Worker, WorkerStep, RunStep
<1> QED BY <1>1, <1>2 DEF ControlInv, ControlOf, WorkerFrame

(* A row of the table jobs is written by the run that inserted it: what    *)
(* another run, or an earlier stage, has recorded as succeeded stays.      *)
LEMMA WorkerRows ==
    ASSUME TypeOK, JobsInv, NEW t \in Tasks, Worker(t), NEW j \in JobIds
    PROVE  /\ jobs[j] = "succeeded" => jobs'[j] = "succeeded"
           /\ jobs[j] # "absent" => jobs'[j] # "absent"
<1>1. WorkerFrame(t) /\ (InProgress(t) => JobOf(t) \in JobIds) BY WorkerLocal, RunNames
<1>2. JobOf(t) = <<t, runs[t], stage[t]>> /\ jobs[JobOf(t)] = RowOf(t, stage[t])
    BY DEF JobOf, RowOf
<1>3. CASE jobs' = jobs BY <1>3
<1>4. CASE StartJob(t) /\ InsertJob(JobOf(t))
    <2>1. jobs[JobOf(t)] = "absent" BY <1>2, <1>4 DEF StartJob, JobsInv, JobsOf
    <2> QED BY <1>1, <1>4, <2>1 DEF WorkerFrame
<1>5. CASE FinishJob(t) /\ UpdateJob(JobOf(t), "succeeded")
    <2>1. jobs'[JobOf(t)] = "succeeded" \/ jobs[JobOf(t)] = "absent"
        BY <1>1, <1>5 DEF UpdateJob, TypeOK, StoreTypeOK, FinishJob, InProgress
    <2> QED BY <1>1, <1>5, <2>1 DEF WorkerFrame, FinishJob, JobsInv, JobsOf, Working, RowOf, JobOf
<1>6. CASE FailJob(t) /\ UpdateJob(JobOf(t), "failed")
    <2>1. jobs[JobOf(t)] = "running" BY <1>2, <1>6 DEF FailJob, JobsInv, JobsOf, Working
    <2>2. jobs'[JobOf(t)] = "failed"
        BY <1>1, <1>6, <2>1 DEF UpdateJob, TypeOK, StoreTypeOK, FailJob, InProgress
    <2> QED BY <1>1, <2>1, <2>2 DEF WorkerFrame
<1> QED
    BY <1>3, <1>4, <1>5, <1>6 DEF Worker, WorkerStep, RunStep, storeVars, LoadError, MarkProcessing,
       StartJob, FinishJob, FailJob, Triage, Localize, Fix, AskModel, RecordTriage, SkipError,
       MarkFixed, Conclude, PushBranch, PushCommit, OpenMR, GitLabWrite, SaveMR, MarkFailed, Settle,
       DeadlineExpires, Abandon, Dequeue, RetryIsDue, Recover

LEMMA WorkerJobs ==
    ASSUME TypeOK, CallsInv, ControlInv, JobsInv, NEW t \in Tasks, Worker(t)
    PROVE  JobsInv'
<1>1. WorkerFrame(t) BY WorkerLocal
<1>a. /\ runs[t] \in Int /\ MaxRuns \in Nat /\ stage[t] \in Stages
      /\ InProgress(t) => runs[t] \in RunNumbers /\ JobOf(t) \in JobIds
    BY RunNames, MaxRunsType DEF TypeOK, RunTypeOK
<1>2. \A u \in Tasks \ {t} : JobsOf(u)'
    <2> TAKE u \in Tasks \ {t}
    <2>1. \A n \in RunNumbers, s \in Stages : <<u, n, s>> \in JobIds /\ <<u, n, s>> # JobOf(t)
        BY DEF JobIds, JobOf
    <2>2. \A n \in RunNumbers, s \in Stages : jobs'[<<u, n, s>>] = jobs[<<u, n, s>>]
        BY <1>1, <2>1 DEF WorkerFrame
    <2>3. (pc[u] # "idle" => runs[u] \in RunNumbers) /\ stage[u] \in Stages
        BY RunNames DEF TypeOK, RunTypeOK, InProgress
    <2>4. pc[u] # "idle" => \A s \in Stages : RowOf(u, s)' = RowOf(u, s)
        BY <1>1, <2>2, <2>3 DEF RowOf, WorkerFrame
    <2>5. Earlier[stage[u]] \subseteq Stages /\ Later(stage[u]) \subseteq Stages
        BY <2>3 DEF Earlier, Later, Stages
    <2>6. JobsOf(u) BY DEF JobsInv
    <2> QED BY <1>1, <2>2, <2>3, <2>4, <2>5, <2>6 DEF JobsOf, WorkerFrame, Working
<1>3. JobsOf(t)'
  <2> USE DEF JobsInv, JobsOf
  <2>a. ASSUME runs' = runs
        PROVE  \A n \in RunNumbers, s \in Stages :
                  n > runs'[t] => jobs'[<<t, n, s>>] = "absent"
    <3> TAKE n \in RunNumbers, s \in Stages
    <3> HAVE n > runs'[t]
    <3>1. <<t, n, s>> \in JobIds /\ <<t, n, s>> # JobOf(t) /\ jobs[<<t, n, s>>] = "absent"
        BY <1>a, <2>a DEF JobIds, JobOf, RunNumbers
    <3> QED BY <1>1, <3>1 DEF WorkerFrame
  <2>b. InProgress(t) => \A s \in Stages : <<t, runs[t], s>> \in JobIds BY <1>a DEF JobIds
  <2>c. ASSUME runs' = runs, InProgress(t)
        PROVE  \A s \in Stages \ {stage[t]} : RowOf(t, s)' = RowOf(t, s)
    BY <1>1, <2>b, <2>c DEF WorkerFrame, RowOf, JobOf
  <2>1. CASE StartJob(t)
    <3>1. UNCHANGED runs /\ InProgress(t) /\ UNCHANGED stage
        BY <2>1 DEF StartJob, InProgress, Proceed, Abort
    <3>2. CASE InsertJob(JobOf(t)) /\ pc'[t] \in {"branch", "call"}
        <4>1. RowOf(t, stage[t])' = "running"
            BY <1>a, <3>1, <3>2 DEF InsertJob, RowOf, JobOf, TypeOK, StoreTypeOK
        <4>2. Earlier[stage[t]] \subseteq Stages \ {stage[t]} /\ Later(stage[t]) \subseteq Stages \ {stage[t]}
            BY <1>a DEF Earlier, Later, Stages
        <4> QED BY <2>1, <2>a, <2>c, <3>1, <3>2, <4>1, <4>2 DEF StartJob, Working
    <3>3. CASE UNCHANGED jobs /\ pc'[t] = "fail"
        BY <2>a, <3>1, <3>3 DEF Working
    <3> QED BY <2>1, <3>2, <3>3 DEF StartJob, Proceed, Abort, Goto, TypeOK, RunTypeOK
  <2>2. CASE FinishJob(t)
    <3>1. UNCHANGED runs /\ InProgress(t) BY <2>2 DEF FinishJob, InProgress
    <3>2. CASE UpdateJob(JobOf(t), "succeeded") /\ NextStage(t)
        <4>1. RowOf(t, stage[t]) = "running" BY <2>2 DEF FinishJob, Working
        <4>3. \A s \in Stages : s = stage[t] => RowOf(t, s)' = "succeeded"
            BY <1>a, <3>1, <3>2, <4>1 DEF UpdateJob, RowOf, JobOf, TypeOK, StoreTypeOK
        <4>7. /\ \A s \in Earlier[stage[t]] : RowOf(t, s) = "succeeded"
              /\ \A s \in Later(stage[t]) : RowOf(t, s) = "absent"
            BY <2>2 DEF FinishJob, Working
        <4>8. /\ \A s \in Stages : s \in Earlier[stage[t]] => RowOf(t, s)' = "succeeded"
              /\ \A s \in Stages : s \in Later(stage[t]) => RowOf(t, s)' = "absent"
            BY <1>a, <2>c, <3>1, <4>7 DEF Earlier, Later, Stages
        <4>4. CASE pc'[t] = "skip" BY <2>a, <3>1, <4>4 DEF Working
        <4>5. CASE pc'[t] = "fixed" /\ stage[t] = "gitlab"
            <5>1. \A s \in Stages : RowOf(t, s)' = "succeeded"
                BY <4>3, <4>5, <4>8 DEF Stages, Earlier
            <5> QED BY <2>a, <3>1, <4>5, <5>1 DEF Working
        <4>6. CASE /\ stage[t] # "gitlab" /\ pc'[t] = "start"
                   /\ stage'[t] = Following[stage[t]]
            <5>1. \A s \in Earlier[stage'[t]] : RowOf(t, s)' = "succeeded"
                BY <1>a, <4>3, <4>6, <4>8 DEF Stages, Earlier, Following
            <5>2. \A s \in Later(stage'[t]) \cup {stage'[t]} : RowOf(t, s)' = "absent"
                BY <1>a, <4>6, <4>8 DEF Stages, Earlier, Later, Following
            <5> QED BY <2>a, <3>1, <4>6, <5>1, <5>2 DEF Working, Later
        <4> QED BY <3>2, <4>4, <4>5, <4>6 DEF NextStage, Proceed, Goto, TypeOK, RunTypeOK
    <3>3. CASE UNCHANGED jobs /\ Abort(t, "retryable", "fail")
        BY <2>a, <3>1, <3>3 DEF Working, Abort, Goto, TypeOK, RunTypeOK
    <3> QED BY <2>2, <3>2, <3>3 DEF FinishJob
  <2>3. CASE FailJob(t)
    BY <2>3, <2>a DEF FailJob, Proceed, Goto, Working, TypeOK, RunTypeOK
  <2>4. CASE LoadError(t) \/ MarkProcessing(t)
    BY <2>4 DEF LoadError, MarkProcessing, storeVars, queueVars, Proceed, Abort, Goto, Working,
       TypeOK, RunTypeOK, RowOf, ControlInv, ControlOf, Later, Earlier
  <2>5. CASE RecordTriage(t) \/ SkipError(t) \/ MarkFixed(t) \/ SaveMR(t) \/ MarkFailed(t)
    BY <2>5 DEF RecordTriage, SkipError, MarkFixed, Conclude, SaveMR, MarkFailed, Proceed, Abort, Goto,
       Working, TypeOK, RunTypeOK, RowOf, Later
  <2>6. CASE Triage(t) \/ Localize(t) \/ Fix(t)
    BY <2>6 DEF Triage, Localize, Fix, AskModel, storeVars, Abort, Goto, Working, TypeOK,
       RunTypeOK, RowOf, Later
  <2>7. CASE PushBranch(t) \/ PushCommit(t) \/ OpenMR(t)
    BY <2>7 DEF PushBranch, PushCommit, OpenMR, GitLabWrite, storeVars, Proceed, Abort,
       Goto, Working, TypeOK, RunTypeOK, RowOf, Later
  <2>8. CASE Settle(t) \/ Recover(t)
    <3>1. UNCHANGED <<jobs, runs>> /\ pc'[t] = "idle"
        <4>1. CASE Settle(t) BY <4>1 DEF Settle, EndRun, Goto, storeVars, TypeOK, RunTypeOK
        <4>2. CASE Recover(t) BY <4>2 DEF Recover, storeVars, runVars, InProgress
        <4> QED BY <2>8, <4>1, <4>2
    <3> QED BY <3>1 DEF Working
  <2>9. CASE Dequeue(t)
    <3>1. /\ UNCHANGED jobs /\ pc'[t] = "load"
          /\ runs'[t] = runs[t] + 1 /\ runs[t] < MaxRuns /\ runs[t] >= 0
        BY <2>9 DEF Dequeue, storeVars, Proceed, Goto, TypeOK, RunTypeOK
    <3>2. runs'[t] \in RunNumbers BY <1>a, <3>1 DEF RunNumbers
    <3>3. \A n \in RunNumbers, s \in Stages : n >= runs'[t] => jobs'[<<t, n, s>>] = "absent"
        BY <1>a, <3>1 DEF RunNumbers
    <3>4. \A s \in Stages : RowOf(t, s)' = "absent" BY <1>a, <3>1, <3>2, <3>3 DEF RowOf
    <3>5. \A n \in RunNumbers : n > runs'[t] => n >= runs'[t] BY <1>a, <3>1 DEF RunNumbers
    <3> QED BY <3>1, <3>3, <3>4, <3>5 DEF Working
  <2>10. CASE DeadlineExpires(t) \/ RetryIsDue(t) \/ Abandon(t)
    BY <2>10 DEF DeadlineExpires, RetryIsDue, Abandon, storeVars, runVars, RowOf, Later
  <2> QED BY <2>1, <2>2, <2>3, <2>4, <2>5, <2>6, <2>7, <2>8, <2>9, <2>10
          DEF Worker, WorkerStep, RunStep
<1> QED BY <1>2, <1>3 DEF JobsInv

LEMMA WorkerTriage ==
    ASSUME TypeOK, CallsInv, ControlInv, TriageInv, NEW t \in Tasks, Worker(t)
    PROVE  TriageInv'
<1>1. WorkerFrame(t) BY WorkerLocal
<1>2. TriageOf(t)'
  <2> USE DEF TypeOK, RunTypeOK, TriageInv, TriageOf, Working
  <2>1. CASE RecordTriage(t)
    <3>1. Stored(payload[t]) /\ payload[t] \in Errors
        BY <2>1 DEF RecordTriage, CallsInv, InProgress, Returned, QueueTypeOK
    <3>2. CASE UpdateErrorTriage(payload[t])
        BY <1>1, <2>1, <3>1, <3>2 DEF UpdateErrorTriage, WorkerFrame
    <3>3. CASE Abort(t, "retryable", "failjob") /\ UNCHANGED triaged
        BY <1>1, <2>1, <3>3 DEF RecordTriage, Abort, Goto, WorkerFrame, ControlInv, ControlOf
    <3> QED BY <2>1, <3>2, <3>3 DEF RecordTriage
  <2>2. CASE StartJob(t)
    <3>1. stage'[t] = stage[t] /\ pc'[t] \in {"branch", "call", "fail"} /\ pc[t] = "start"
        BY <2>2 DEF StartJob, Proceed, Abort, Goto
    <3> QED BY <1>1, <3>1 DEF WorkerFrame
  <2>9. CASE SaveMR(t)
    <3>1. stage'[t] = stage[t] /\ pc[t] = "savemr" /\ stage[t] = "gitlab"
        BY <2>9 DEF SaveMR, Proceed, Abort, ControlInv, ControlOf
    <3> QED BY <1>1, <3>1 DEF WorkerFrame
  <2>3. CASE LoadError(t) \/ MarkProcessing(t) \/ SkipError(t) \/ MarkFixed(t) \/ FailJob(t)
             \/ MarkFailed(t)
    <3>1. pc'[t] \in {"mark", "start", "settle", "fail"} /\ (pc'[t] = "start" => stage'[t] = "triage")
        BY <2>3 DEF LoadError, MarkProcessing, SkipError, MarkFixed, Conclude, FailJob, MarkFailed,
           Proceed, Abort, Goto, ControlInv, ControlOf
    <3> QED BY <3>1
  <2>4. CASE FinishJob(t)
    BY <1>1, <2>4 DEF WorkerFrame, FinishJob, NextStage, Proceed, Abort, Goto
  <2>5. CASE Triage(t) \/ Localize(t) \/ Fix(t)
    BY <1>1, <2>5 DEF WorkerFrame, Triage, Localize, Fix, AskModel, Abort, Goto
  <2>6. CASE PushBranch(t) \/ PushCommit(t) \/ OpenMR(t)
    BY <1>1, <2>6 DEF WorkerFrame, PushBranch, PushCommit, OpenMR, GitLabWrite, Proceed, Abort, Goto,
       ControlInv, ControlOf
  <2>7. CASE Settle(t) \/ Dequeue(t)
    BY <1>1, <2>7 DEF WorkerFrame, Settle, EndRun, Dequeue, Proceed, Goto
  <2>8. CASE DeadlineExpires(t) \/ RetryIsDue(t) \/ Recover(t) \/ Abandon(t)
    BY <1>1, <2>8 DEF WorkerFrame, DeadlineExpires, RetryIsDue, Recover, Abandon, runVars
  <2> QED BY <2>1, <2>2, <2>3, <2>4, <2>5, <2>6, <2>7, <2>8, <2>9 DEF Worker, WorkerStep, RunStep
<1> QED BY <1>1, <1>2 DEF TriageInv, TriageOf, WorkerFrame

(* Only SaveMR writes merge_requests. *)
LEMMA OnlySaveMR ==
    ASSUME NEW t \in Tasks, Worker(t)
    PROVE  UNCHANGED mrs \/ (SaveMR(t) /\ InsertMergeRequest(RunId(t)) /\ pc[t] = "savemr")
BY DEF Worker, WorkerStep, RunStep, storeVars, LoadError, MarkProcessing, StartJob, FinishJob, FailJob,
   Triage, Localize, Fix, AskModel, RecordTriage, SkipError, MarkFixed, Conclude, PushBranch, PushCommit,
   OpenMR, GitLabWrite, SaveMR, MarkFailed, Settle, DeadlineExpires, Abandon, Dequeue, RetryIsDue,
   Recover

(* Only StartJob, FinishJob and FailJob write jobs. *)
LEMMA OnlyJobSteps ==
    ASSUME NEW t \in Tasks, Worker(t)
    PROVE  \/ UNCHANGED jobs
           \/ StartJob(t) /\ InsertJob(JobOf(t)) /\ pc[t] = "start"
           \/ FinishJob(t) /\ UpdateJob(JobOf(t), "succeeded") /\ pc[t] = "finish"
           \/ FailJob(t) /\ UpdateJob(JobOf(t), "failed") /\ pc[t] = "failjob"
BY DEF Worker, WorkerStep, RunStep, storeVars, LoadError, MarkProcessing, StartJob, FinishJob, FailJob,
   Triage, Localize, Fix, AskModel, RecordTriage, SkipError, MarkFixed, Conclude, PushBranch, PushCommit,
   OpenMR, GitLabWrite, SaveMR, MarkFailed, Settle, DeadlineExpires, Abandon, Dequeue, RetryIsDue,
   Recover

(* Only MarkFixed writes "fixed". *)
LEMMA OnlyMarkFixed ==
    ASSUME TypeOK, NEW t \in Tasks, Worker(t), NEW e \in Errors, status'[e] = "fixed"
    PROVE  status[e] = "fixed" \/ (MarkFixed(t) /\ pc[t] = "fixed" /\ e = payload[t])
<1>1. ASSUME NEW f, NEW s, UpdateErrorStatus(f, s), status[e] # "fixed"
      PROVE  s = "fixed" /\ e = f
    BY <1>1 DEF UpdateErrorStatus, TypeOK, StoreTypeOK
<1>2. \/ UNCHANGED status
      \/ UpdateErrorStatus(payload[t], "processing")
      \/ UpdateErrorStatus(payload[t], "skipped")
      \/ MarkFixed(t) /\ pc[t] = "fixed" /\ UpdateErrorStatus(payload[t], "fixed")
      \/ UpdateErrorStatus(payload[t], IF WillRetry(t) THEN "new" ELSE "failed")
    BY DEF Worker, WorkerStep, RunStep, storeVars, LoadError, MarkProcessing, StartJob, FinishJob,
       FailJob, Triage, Localize, Fix, AskModel, RecordTriage, SkipError, MarkFixed, Conclude, PushBranch,
       PushCommit, OpenMR, GitLabWrite, SaveMR, MarkFailed, Settle, DeadlineExpires, Abandon, Dequeue,
       RetryIsDue, Recover
<1> QED BY <1>1, <1>2

LEMMA WorkerMergeRequests ==
    ASSUME TypeOK, CallsInv, ControlInv, JobsInv, MergeRequestsInv, NEW t \in Tasks, Worker(t)
    PROVE  MergeRequestsInv'
<1>1. WorkerFrame(t) /\ (InProgress(t) => RunId(t) \in RunIds) BY WorkerLocal, RunNames
<1>2. ASSUME NEW r \in mrs'
      PROVE  jobs'[<<r[1], r[2], "gitlab">>] # "absent"
    <2>1. TypeOK' BY TypeWorker
    <2>2. r \in RunIds BY <2>1 DEF TypeOK, StoreTypeOK
    <2>3. <<r[1], r[2], "gitlab">> \in JobIds BY <2>2 DEF RunIds, JobIds, Stages
    <2>4. CASE r \in mrs BY <2>3, <2>4, WorkerRows DEF MergeRequestsInv
    <2>5. CASE SaveMR(t) /\ pc[t] = "savemr" /\ r = RunId(t)
        <3>1. jobs[<<r[1], r[2], "gitlab">>] = "running"
            BY <2>5 DEF RunId, ControlInv, ControlOf, JobsInv, JobsOf, Working, RowOf
        <3> QED BY <2>3, <3>1, WorkerRows
    <2> QED BY <1>1, <1>2, <2>4, <2>5, OnlySaveMR DEF WorkerFrame
<1>3. \A u \in Tasks \ {t} : MergeRequestOf(u)'
    <2> TAKE u \in Tasks \ {t}
    <2>1. /\ RunId(u) # RunId(t) /\ RunId(u)' = RunId(u)
          /\ pc[u] # "idle" => RunId(u) \in RunIds
        BY <1>1, RunNames DEF RunId, WorkerFrame, InProgress
    <2>2. MergeRequestOf(u) BY DEF MergeRequestsInv
    <2> QED BY <1>1, <2>1, <2>2 DEF WorkerFrame, MergeRequestOf, Working
<1>4. MergeRequestOf(t)'
  <2> USE DEF MergeRequestsInv, MergeRequestOf, Working, TypeOK, RunTypeOK
  <2>1. CASE SaveMR(t)
    <3>1. RunId(t)' = RunId(t) /\ stage'[t] = "gitlab"
        BY <2>1 DEF SaveMR, RunId, Proceed, Abort, ControlInv, ControlOf
    <3> QED BY <2>1, <3>1 DEF SaveMR, InsertMergeRequest, Proceed, Abort, Goto
  <2>2. CASE OpenMR(t)
    <3>1. RunId(t)' = RunId(t) /\ UNCHANGED mrs /\ pc[t] = "openmr"
        BY <2>2 DEF OpenMR, GitLabWrite, storeVars, RunId
    <3>2. CASE CreateMR(RunId(t)) /\ pc'[t] = "savemr"
        BY <1>1, <3>1, <3>2 DEF CreateMR, Advance, GitLabTypeOK, InProgress
    <3>3. CASE pc'[t] = "failjob" BY <3>1, <3>3
    <3> QED BY <2>2, <3>2, <3>3 DEF OpenMR, GitLabWrite, Proceed, Abort, Goto
  <2>3. CASE StartJob(t)
    <3>1. RunId(t)' = RunId(t) /\ UNCHANGED mrs /\ pc[t] = "start" /\ stage'[t] = stage[t]
        BY <2>3 DEF StartJob, RunId, Proceed, Abort
    <3>2. pc'[t] \in {"branch", "call", "fail"} BY <2>3 DEF StartJob, Proceed, Abort, Goto
    <3>3. RunId(t) \notin mrs
        <4>1. RowOf(t, "gitlab") = "absent"
            BY <3>1 DEF JobsInv, JobsOf, Later, Earlier, Stages
        <4> QED BY <4>1 DEF RowOf, RunId
    <3> QED BY <3>1, <3>2, <3>3
  <2>4. CASE Triage(t) \/ Localize(t) \/ Fix(t)
    <3>1. RunId(t)' = RunId(t) /\ UNCHANGED mrs /\ pc[t] = "call" /\ stage[t] # "gitlab"
          /\ stage'[t] = stage[t]
        BY <2>4 DEF Triage, Localize, Fix, AskModel, storeVars, RunId, Abort
    <3>2. pc'[t] \in {"record", "finish", "failjob"}
        BY <2>4 DEF Triage, Localize, Fix, AskModel, Abort, Goto
    <3> QED BY <3>1, <3>2
  <2>5. CASE RecordTriage(t)
    BY <2>5 DEF RecordTriage, RunId, Proceed, Abort, Goto, ControlInv, ControlOf
  <2>6. CASE PushBranch(t) \/ PushCommit(t)
    BY <2>6 DEF PushBranch, PushCommit, GitLabWrite, storeVars, RunId, Proceed, Abort, Goto
  <2>7. CASE FinishJob(t)
    BY <2>7 DEF FinishJob, NextStage, RunId, Proceed, Abort, Goto
  <2>8. CASE LoadError(t) \/ MarkProcessing(t) \/ SkipError(t) \/ MarkFixed(t) \/ FailJob(t)
             \/ MarkFailed(t) \/ Settle(t) \/ Dequeue(t)
    <3>1. pc'[t] \in {"mark", "start", "settle", "fail", "idle", "load"}
        BY <2>8 DEF LoadError, MarkProcessing, SkipError, MarkFixed, Conclude, FailJob, MarkFailed,
           Settle, EndRun, Dequeue, Proceed, Abort, Goto
    <3> QED BY <3>1
  <2>9. CASE DeadlineExpires(t) \/ RetryIsDue(t) \/ Abandon(t)
    BY <2>9 DEF DeadlineExpires, RetryIsDue, Abandon, storeVars, runVars, RunId
  <2>10. CASE Recover(t) BY <2>10 DEF Recover, InProgress, runVars
  <2> QED BY <2>1, <2>2, <2>3, <2>4, <2>5, <2>6, <2>7, <2>8, <2>9, <2>10
          DEF Worker, WorkerStep, RunStep
<1> QED BY <1>2, <1>3, <1>4 DEF MergeRequestsInv

LEMMA WorkerRecords ==
    ASSUME TypeOK, CallsInv, ControlInv, JobsInv, MergeRequestsInv, RecordsMatchGitLab,
           NEW t \in Tasks, Worker(t)
    PROVE  RecordsMatchGitLab'
<1>1. WorkerFrame(t) BY WorkerLocal
<1> SUFFICES ASSUME NEW r \in RunIds
             PROVE  /\ r \in mrs' => repo'[r] = "mr"
                    /\ jobs'[<<r[1], r[2], "gitlab">>] = "succeeded" => r \in mrs'
                    /\ jobs'[<<r[1], r[2], "gitlab">>] = "failed" => r \notin mrs'
    BY DEF RecordsMatchGitLab
<1> DEFINE j == <<r[1], r[2], "gitlab">>
<1>2. j \in JobIds BY DEF RunIds, JobIds, Stages
<1>3. j = JobOf(t) => r = RunId(t) /\ stage[t] = "gitlab" BY DEF JobOf, RunId, RunIds
<1>4. /\ r \in mrs => repo[r] = "mr"
      /\ jobs[j] = "succeeded" => r \in mrs
      /\ jobs[j] = "failed" => r \notin mrs
    BY DEF RecordsMatchGitLab
<1>5. MergeRequestOf(t) BY DEF MergeRequestsInv
<1>6. CASE UNCHANGED jobs /\ UNCHANGED mrs BY <1>1, <1>4, <1>6 DEF WorkerFrame
<1>7. CASE SaveMR(t) /\ InsertMergeRequest(RunId(t)) /\ pc[t] = "savemr"
    <2>1. UNCHANGED jobs BY <1>7 DEF SaveMR
    <2>2. r = RunId(t) => jobs[j] = "running"
        BY <1>7 DEF RunId, ControlInv, ControlOf, JobsInv, JobsOf, Working, RowOf
    <2> QED BY <1>1, <1>4, <1>5, <1>7, <2>1, <2>2 DEF WorkerFrame, MergeRequestOf, InsertMergeRequest
<1>8. CASE UNCHANGED mrs /\ pc[t] = "start" /\ InsertJob(JobOf(t))
    <2>1. j = JobOf(t) => jobs'[j] = "running" BY <1>2, <1>8 DEF InsertJob, TypeOK, StoreTypeOK
    <2> QED BY <1>1, <1>2, <1>4, <1>8, <2>1 DEF WorkerFrame
<1>9. CASE UNCHANGED mrs /\ pc[t] = "finish" /\ UpdateJob(JobOf(t), "succeeded")
    <2>1. j = JobOf(t) => r \in mrs BY <1>3, <1>5, <1>9 DEF MergeRequestOf
    <2>2. j = JobOf(t) => jobs'[j] = "succeeded" \/ jobs'[j] = jobs[j]
        BY <1>2, <1>9 DEF UpdateJob, TypeOK, StoreTypeOK
    <2> QED BY <1>1, <1>2, <1>4, <1>9, <2>1, <2>2 DEF WorkerFrame
<1>10. CASE UNCHANGED mrs /\ pc[t] = "failjob" /\ UpdateJob(JobOf(t), "failed")
    <2>1. j = JobOf(t) => r \notin mrs BY <1>3, <1>5, <1>10 DEF MergeRequestOf, Working
    <2>2. j = JobOf(t) => jobs'[j] = "failed" \/ jobs'[j] = jobs[j]
        BY <1>2, <1>10 DEF UpdateJob, TypeOK, StoreTypeOK
    <2> QED BY <1>1, <1>2, <1>4, <1>10, <2>1, <2>2 DEF WorkerFrame
<1>11. \/ UNCHANGED jobs /\ UNCHANGED mrs
       \/ SaveMR(t) /\ InsertMergeRequest(RunId(t)) /\ pc[t] = "savemr"
       \/ /\ UNCHANGED mrs
          /\ \/ pc[t] = "start" /\ InsertJob(JobOf(t))
             \/ pc[t] = "finish" /\ UpdateJob(JobOf(t), "succeeded")
             \/ pc[t] = "failjob" /\ UpdateJob(JobOf(t), "failed")
    BY OnlySaveMR, OnlyJobSteps
<1> QED BY <1>6, <1>7, <1>8, <1>9, <1>10, <1>11

LEMMA WorkerFixed ==
    ASSUME TypeOK, JobsInv, TriageInv, MergeRequestsInv, FixedIsBacked, NEW t \in Tasks, Worker(t)
    PROVE  FixedIsBacked'
<1>1. WorkerFrame(t) BY WorkerLocal
<1> SUFFICES ASSUME NEW e \in Errors, status'[e] = "fixed"
             PROVE  /\ e \in triaged'
                    /\ \E u \in TasksOf(e)', n \in RunNumbers :
                           <<u, n>> \in mrs' /\ \A s \in Stages : jobs'[<<u, n, s>>] = "succeeded"
    BY DEF FixedIsBacked
<1>2. TasksOf(e)' = TasksOf(e) BY <1>1 DEF TasksOf, WorkerFrame
<1>3. e \in triaged /\ \E u \in TasksOf(e), n \in RunNumbers :
          <<u, n>> \in mrs /\ \A s \in Stages : jobs[<<u, n, s>>] = "succeeded"
    <2>1. CASE status[e] = "fixed" BY <2>1 DEF FixedIsBacked
    <2>2. CASE pc[t] = "fixed" /\ e = payload[t]
        <3>1. e \in triaged BY <2>2 DEF TriageInv, TriageOf
        <3>2. t \in TasksOf(e) BY <2>2 DEF TasksOf
        <3>3. runs[t] \in RunNumbers BY <2>2, RunNames DEF InProgress
        <3>4. <<t, runs[t]>> \in mrs
            BY <2>2 DEF MergeRequestsInv, MergeRequestOf, RunId
        <3>5. \A s \in Stages : jobs[<<t, runs[t], s>>] = "succeeded"
            BY <2>2 DEF JobsInv, JobsOf, RowOf
        <3> QED BY <3>1, <3>2, <3>3, <3>4, <3>5
    <2> QED BY <2>1, <2>2, OnlyMarkFixed
<1>4. PICK u \in TasksOf(e), n \in RunNumbers :
          <<u, n>> \in mrs /\ \A s \in Stages : jobs[<<u, n, s>>] = "succeeded"
    BY <1>3
<1>5. \A s \in Stages : <<u, n, s>> \in JobIds BY DEF TasksOf, JobIds
<1>6. \A s \in Stages : jobs'[<<u, n, s>>] = "succeeded" BY <1>4, <1>5, WorkerRows
<1> QED BY <1>1, <1>2, <1>3, <1>4, <1>6 DEF WorkerFrame

(* What has been recorded as succeeded is not taken back, so a reader that *)
(* has seen a fixed error will find what backs it.                         *)
LEMMA BackingStays ==
    ASSUME TypeOK, ReadersInv, UNCHANGED <<payload, readVars>>, mrs \subseteq mrs',
           \A j \in JobIds : jobs[j] = "succeeded" => jobs'[j] = "succeeded"
    PROVE  ReadersInv'
<1>1. ASSUME NEW e \in Errors
      PROVE  /\ HasCompleteRun(e) => HasCompleteRun(e)'
             /\ HasMR(e) => HasMR(e)'
    <2>1. TasksOf(e)' = TasksOf(e) BY DEF TasksOf
    <2>2. \A t \in TasksOf(e), n \in RunNumbers, s \in Stages : <<t, n, s>> \in JobIds
        BY DEF TasksOf, JobIds
    <2> QED BY <2>1, <2>2 DEF HasCompleteRun, HasMR
<1>2. \A g \in Readers : view[g].error \in Errors BY DEF TypeOK, ReadTypeOK, Views
<1> QED BY <1>1, <1>2 DEF ReadersInv, ReaderOf, readVars

LEMMA WorkerReaders ==
    ASSUME TypeOK, JobsInv, ReadersInv, NEW t \in Tasks, Worker(t)
    PROVE  ReadersInv'
<1>1. WorkerFrame(t) BY WorkerLocal
<1> QED BY <1>1, WorkerRows, BackingStays DEF WorkerFrame

-----------------------------------------------------------------------------
(* The steps of the other actors.                                          *)

(* What a step of a call of Ingest or POST /retry does to the rest: it may *)
(* turn a task that never was into a pending one of a stored row, and no   *)
(* status it writes is "fixed".                                            *)
CallFrame ==
    /\ UNCHANGED <<fingerprint, triaged, jobs, mrs, repo, runVars, retried, payload, server, readVars>>
    /\ \A e \in Errors : /\ Stored(e) => Stored(e)'
                         /\ status'[e] = "fixed" => status[e] = "fixed"
    /\ \A t \in Tasks :
        \/ taskState'[t] = taskState[t]
        \/ taskState[t] = "none" /\ taskState'[t] = "pending" /\ Stored(payload[t])

LEMMA IngestLocal ==
    ASSUME TypeOK, CallsInv, NEW e \in Errors, Ingest(e)
    PROVE  CallFrame
<1> USE DEF Ingest, IngestStep, CallFrame, storeVars, queueVars, Stored, TypeOK
<1>1. CASE CheckFingerprint(e) BY <1>1 DEF CheckFingerprint
<1>2. CASE Insert(e) BY <1>2 DEF Insert, InsertError, StoreTypeOK
<1>3. CASE EnqueueNew(e)
    <2>1. taskState[e] = "none" /\ status[payload[e]] # "absent" BY <1>3 DEF EnqueueNew, CallsInv
    <2>2. UNCHANGED taskState \/ Enqueue(e) BY <1>3 DEF EnqueueNew
    <2>3. \A t \in Tasks : \/ taskState'[t] = taskState[t]
                           \/ t = e /\ taskState'[t] = "pending"
        BY <2>2 DEF Enqueue, QueueTypeOK
    <2> QED BY <1>3, <2>1, <2>3 DEF EnqueueNew
<1>4. CASE MarkUnqueued(e) BY <1>4 DEF MarkUnqueued, UpdateErrorStatus, StoreTypeOK
<1> QED BY <1>1, <1>2, <1>3, <1>4

LEMMA RetryLocal ==
    ASSUME TypeOK, CallsInv, NEW r \in Retries, Retry(r)
    PROVE  CallFrame
<1> USE DEF Retry, RetryStep, CallFrame, storeVars, queueVars, Stored, TypeOK
<1>1. CASE ReadForRetry(r) BY <1>1 DEF ReadForRetry
<1>2. CASE ResetStatus(r) BY <1>2 DEF ResetStatus, UpdateErrorStatus, StoreTypeOK
<1>3. CASE EnqueueRetry(r)
    <2>1. taskState[r] = "none" /\ status[payload[r]] # "absent" BY <1>3 DEF EnqueueRetry, CallsInv
    <2>2. UNCHANGED taskState \/ Enqueue(r) BY <1>3 DEF EnqueueRetry
    <2>3. \A t \in Tasks : \/ taskState'[t] = taskState[t]
                           \/ t = r /\ taskState'[t] = "pending"
        BY <2>2 DEF Enqueue, QueueTypeOK
    <2> QED BY <1>3, <2>1, <2>3 DEF EnqueueRetry
<1> QED BY <1>1, <1>2, <1>3

LEMMA IngestCalls ==
    ASSUME TypeOK, CallsInv, NEW e \in Errors, Ingest(e)
    PROVE  CallsInv'
<1>1. CallFrame BY IngestLocal
<1>2. retryPc' = retryPc /\ \A f \in Errors \ {e} : ingestPc'[f] = ingestPc[f]
    BY DEF Ingest, IngestStep, CheckFingerprint, Insert, EnqueueNew, MarkUnqueued, IngestGoto, TypeOK,
       IngestTypeOK
<1>3. \A t \in Tasks \ {e} : taskState'[t] = taskState[t]
    BY DEF Ingest, IngestStep, CheckFingerprint, Insert, EnqueueNew, MarkUnqueued, queueVars, Enqueue,
       TypeOK, QueueTypeOK
<1>4. /\ ingestPc'[e] \in {"idle", "insert", "enqueue"} => taskState'[e] = "none"
      /\ ingestPc'[e] \in {"enqueue", "markfailed"} => status'[e] # "absent"
    BY DEF CallsInv, Stored, Ingest, IngestStep, CheckFingerprint, Insert, InsertError, EnqueueNew,
       MarkUnqueued, storeVars, queueVars, IngestGoto, TypeOK, IngestTypeOK, StoreTypeOK
<1>5. /\ \A f \in Errors :
          /\ payload'[f] = f
          /\ ingestPc'[f] \in {"idle", "insert", "enqueue"} => taskState'[f] = "none"
          /\ ingestPc'[f] \in {"enqueue", "markfailed"} => Stored(f)'
    BY <1>1, <1>2, <1>3, <1>4 DEF CallsInv, CallFrame, Stored, Tasks
<1>6. \A r \in Retries :
          /\ retryPc'[r] \in {"idle", "reset", "enqueue"} => taskState'[r] = "none"
          /\ retryPc'[r] \in {"reset", "enqueue"} => Stored(payload[r])'
    BY <1>1, <1>2, <1>3 DEF CallsInv, CallFrame, Tasks, TypeOK, QueueTypeOK
<1>7. \A t \in Tasks :
          /\ taskState'[t] # "none" => Stored(payload[t])'
          /\ InProgress(t)' => taskState'[t] = "active" \/ Returned(t)'
    BY <1>1 DEF CallsInv, CallFrame, runVars, InProgress, Returned, TypeOK, QueueTypeOK
<1> QED BY <1>5, <1>6, <1>7 DEF CallsInv

LEMMA RetryCalls ==
    ASSUME TypeOK, CallsInv, NEW r \in Retries, Retry(r)
    PROVE  CallsInv'
<1>1. CallFrame BY RetryLocal
<1>2. ingestPc' = ingestPc /\ \A q \in Retries \ {r} : retryPc'[q] = retryPc[q]
    BY DEF Retry, RetryStep, ReadForRetry, ResetStatus, EnqueueRetry, RetryGoto, TypeOK, RetryTypeOK
<1>3. \A t \in Tasks \ {r} : taskState'[t] = taskState[t]
    BY DEF Retry, RetryStep, ReadForRetry, ResetStatus, EnqueueRetry, queueVars, Enqueue, TypeOK,
       QueueTypeOK
<1>4. /\ retryPc'[r] \in {"idle", "reset", "enqueue"} => taskState'[r] = "none"
      /\ retryPc'[r] \in {"reset", "enqueue"} => Stored(payload[r])
    BY DEF CallsInv, Stored, Retry, RetryStep, ReadForRetry, ResetStatus, EnqueueRetry, queueVars,
       RetryGoto, TypeOK, RetryTypeOK
<1>5. \A e \in Errors :
          /\ payload'[e] = e
          /\ ingestPc'[e] \in {"idle", "insert", "enqueue"} => taskState'[e] = "none"
          /\ ingestPc'[e] \in {"enqueue", "markfailed"} => Stored(e)'
    BY <1>1, <1>2, <1>3 DEF CallsInv, CallFrame, Tasks
<1>6. \A q \in Retries :
          /\ retryPc'[q] \in {"idle", "reset", "enqueue"} => taskState'[q] = "none"
          /\ retryPc'[q] \in {"reset", "enqueue"} => Stored(payload[q])'
    <2> TAKE q \in Retries
    <2>1. payload[q] \in Errors /\ q \in Tasks BY DEF TypeOK, QueueTypeOK, Tasks
    <2> QED BY <1>1, <1>2, <1>3, <1>4, <2>1 DEF CallsInv, CallFrame
<1>7. \A t \in Tasks :
          /\ taskState'[t] # "none" => Stored(payload[t])'
          /\ InProgress(t)' => taskState'[t] = "active" \/ Returned(t)'
    BY <1>1 DEF CallsInv, CallFrame, runVars, InProgress, Returned, TypeOK, QueueTypeOK
<1> QED BY <1>5, <1>6, <1>7 DEF CallsInv

(* The calls of the API write neither job rows nor merge requests, and the *)
(* task they enqueue has neither.                                          *)
LEMMA CallRecords ==
    ASSUME TypeOK, RecordsInv, CallFrame
    PROVE  /\ ControlInv' /\ JobsInv' /\ TriageInv' /\ MergeRequestsInv'
           /\ RecordsMatchGitLab' /\ FixedIsBacked' /\ ReadersInv'
<1> USE DEF CallFrame, runVars, RecordsInv
<1>1. ControlInv' BY DEF ControlInv, ControlOf
<1>2. JobsInv' BY DEF JobsInv, JobsOf, RowOf
<1>3. TriageInv' BY DEF TriageInv, TriageOf
<1>4. MergeRequestsInv' BY DEF MergeRequestsInv, MergeRequestOf, RunId
<1>5. RecordsMatchGitLab' BY DEF RecordsMatchGitLab
<1>6. FixedIsBacked' BY DEF FixedIsBacked, TasksOf
<1>7. ReadersInv' BY BackingStays
<1> QED BY <1>1, <1>2, <1>3, <1>4, <1>5, <1>6, <1>7

(* A reader that finds a fixed error finds what backs it. *)
LEMMA ReadRecords ==
    ASSUME TypeOK, RecordsInv, NEW g \in Readers, Read(g)
    PROVE  RecordsInv'
<1> USE DEF Read, ReadStep
<1>1. UNCHANGED <<storeVars, queueVars, repo, runVars, ingestPc, retryPc>> OBVIOUS
<1>2. \A h \in Readers : ReaderOf(h)'
    <2> SUFFICES ASSUME NEW h \in Readers PROVE ReaderOf(h)' OBVIOUS
    <2>1. ReaderOf(h) /\ view[h] \in Views /\ view[h].error \in Errors
        BY DEF RecordsInv, ReadersInv, TypeOK, ReadTypeOK, Views
    <2>2. \A e \in Errors : status[e] = "fixed" => HasCompleteRun(e) /\ HasMR(e)
        BY DEF RecordsInv, FixedIsBacked, HasCompleteRun, HasMR
    <2>3. \A e \in Errors : HasCompleteRun(e)' = HasCompleteRun(e) /\ HasMR(e)' = HasMR(e)
        BY <1>1 DEF HasCompleteRun, HasMR, TasksOf, storeVars, queueVars
    <2>4. CASE h # g
        BY <2>1, <2>3, <2>4 DEF Returns, TypeOK, ReadTypeOK, ReaderOf
    <2>5. CASE h = g /\ Reads(g, "error") /\ readPc'[g] = "second"
               /\ view'[g] = [view[g] EXCEPT !.status = status[view[g].error]]
        BY <2>1, <2>2, <2>3, <2>5 DEF ReaderOf, Views
    <2>6. CASE h = g /\ Reads(g, "jobs") /\ readPc[g] = "second" /\ readPc'[g] = "third"
               /\ view'[g] = [view[g] EXCEPT !.complete = HasCompleteRun(view[g].error)]
        BY <2>1, <2>3, <2>6 DEF ReaderOf, Views
    <2>7. CASE h = g /\ Reads(g, "mr") /\ readPc[g] = "third" /\ readPc'[g] = "ok"
               /\ view'[g] = [view[g] EXCEPT !.mr = HasMR(view[g].error)]
        BY <2>1, <2>3, <2>7 DEF ReaderOf, Views
    <2>8. CASE h = g /\ readPc'[g] \in {"notfound", "error"} BY <2>8 DEF ReaderOf
    <2>9. \A what, answer, v : Returns(g, answer, v) => readPc'[g] = answer /\ view'[g] = v
        BY DEF Returns, TypeOK, ReadTypeOK
    <2>10. /\ Reads(g, "error") => After[readPc[g]] = "second"
           /\ Reads(g, "jobs") => readPc[g] = "second" /\ After[readPc[g]] = "third"
           /\ Reads(g, "mr") => readPc[g] = "third" /\ After[readPc[g]] = "ok"
        BY DEF Reads, ReadOrder, After, Statements
    <2> QED BY <2>4, <2>5, <2>6, <2>7, <2>8, <2>9, <2>10
<1> USE DEF storeVars, queueVars, runVars, RecordsInv
<1>3. CallsInv' BY <1>1 DEF CallsInv, Stored, InProgress, Returned
<1>4. ControlInv' BY <1>1 DEF ControlInv, ControlOf
<1>5. JobsInv' BY <1>1 DEF JobsInv, JobsOf, RowOf
<1>6. TriageInv' BY <1>1 DEF TriageInv, TriageOf
<1>7. MergeRequestsInv' BY <1>1 DEF MergeRequestsInv, MergeRequestOf, RunId
<1>8. RecordsMatchGitLab' BY <1>1 DEF RecordsMatchGitLab
<1>9. FixedIsBacked'
    <2>1. \A e \in Errors : TasksOf(e)' = TasksOf(e) BY <1>1 DEF TasksOf
    <2> QED BY <1>1, <2>1 DEF FixedIsBacked
<1> QED BY <1>2, <1>3, <1>4, <1>5, <1>6, <1>7, <1>8, <1>9 DEF ReadersInv

(* A new process has no run and no call, and finds every record. *)
LEMMA RestartRecords ==
    ASSUME TypeOK, RecordsInv, Restart
    PROVE  RecordsInv'
<1> USE DEF Restart, storeVars, RecordsInv
<1>1. \A t \in Tasks : pc'[t] = "idle" /\ stage'[t] = "triage" OBVIOUS
<1>2. /\ \A e \in Errors : ingestPc'[e] = ingestPc[e] \/ ingestPc'[e] = "lost"
      /\ \A r \in Retries : retryPc'[r] = retryPc[r] \/ retryPc'[r] = "lost"
    OBVIOUS
<1>3. CallsInv' BY <1>1, <1>2 DEF CallsInv, Stored, InProgress
<1>4. ControlInv' BY <1>1 DEF ControlInv, ControlOf
<1>5. JobsInv'
    <2> SUFFICES ASSUME NEW t \in Tasks PROVE JobsOf(t)' BY DEF JobsInv
    <2>1. JobsOf(t) /\ pc'[t] = "idle" BY <1>1 DEF JobsInv
    <2> QED BY <2>1 DEF JobsOf, RowOf, Working
<1>6. TriageInv' BY <1>1 DEF TriageInv, TriageOf, Working
<1>7. MergeRequestsInv' BY <1>1 DEF MergeRequestsInv, MergeRequestOf, Working
<1>8. RecordsMatchGitLab' /\ FixedIsBacked'
    <2>1. \A e \in Errors : TasksOf(e)' = TasksOf(e) BY DEF TasksOf
    <2>2. UNCHANGED <<status, triaged, jobs, mrs, repo>> OBVIOUS
    <2> HIDE DEF Restart
    <2> QED BY <2>1, <2>2 DEF RecordsMatchGitLab, FixedIsBacked
<1>9. ReadersInv'
    <2>1. \A e \in Errors : HasCompleteRun(e)' = HasCompleteRun(e) /\ HasMR(e)' = HasMR(e)
        BY DEF HasCompleteRun, HasMR, TasksOf
    <2>2. view' = view /\ \A g \in Readers :
              /\ view[g].error \in Errors
              /\ readPc'[g] \in {"second", "third", "ok"} => readPc'[g] = readPc[g]
        BY DEF TypeOK, ReadTypeOK, Views
    <2> QED BY <2>1, <2>2 DEF ReadersInv, ReaderOf
<1> QED BY <1>3, <1>4, <1>5, <1>6, <1>7, <1>8, <1>9

LEMMA StutterRecords ==
    ASSUME TypeOK, RecordsInv, BeginShutdown \/ UNCHANGED vars
    PROVE  RecordsInv'
<1> USE DEF BeginShutdown, vars, storeVars, queueVars, runVars, RecordsInv
<1>1. CallsInv' BY DEF CallsInv, Stored, InProgress, Returned
<1>2. ControlInv' BY DEF ControlInv, ControlOf
<1>3. JobsInv' BY DEF JobsInv, JobsOf, RowOf
<1>4. TriageInv' BY DEF TriageInv, TriageOf
<1>5. MergeRequestsInv' BY DEF MergeRequestsInv, MergeRequestOf, RunId
<1>6. RecordsMatchGitLab' BY DEF RecordsMatchGitLab
<1>7. FixedIsBacked'
    <2>1. \A e \in Errors : TasksOf(e)' = TasksOf(e) BY DEF TasksOf
    <2> QED BY <2>1 DEF FixedIsBacked
<1>8. ReadersInv' BY BackingStays
<1> QED BY <1>1, <1>2, <1>3, <1>4, <1>5, <1>6, <1>7, <1>8

LEMMA RecordsInit == Init => RecordsInv
<1> SUFFICES ASSUME Init PROVE RecordsInv OBVIOUS
<1> USE DEF Init, StoreInit, QueueInit, GitLabInit, RunInit, IngestInit, RetryInit, ReadInit
<1>1. CallsInv BY DEF CallsInv, InProgress, Tasks
<1>2. ControlInv BY DEF ControlInv, ControlOf
<1>3. JobsInv
    <2>1. \A t \in Tasks, n \in RunNumbers, s \in Stages : jobs[<<t, n, s>>] = "absent"
        BY DEF JobIds
    <2> QED BY <2>1 DEF JobsInv, JobsOf, Working
<1>4. TriageInv BY DEF TriageInv, TriageOf, Working
<1>5. MergeRequestsInv BY DEF MergeRequestsInv, MergeRequestOf, Working
<1>6. RecordsMatchGitLab
    <2>1. \A r \in RunIds : <<r[1], r[2], "gitlab">> \in JobIds BY DEF RunIds, JobIds, Stages
    <2> QED BY <2>1 DEF RecordsMatchGitLab
<1>7. FixedIsBacked BY DEF FixedIsBacked
<1>8. ReadersInv BY DEF ReadersInv, ReaderOf
<1> QED BY <1>1, <1>2, <1>3, <1>4, <1>5, <1>6, <1>7, <1>8 DEF RecordsInv

-----------------------------------------------------------------------------

(* The inductive invariant: under every interleaving of workers, reports   *)
(* and retries and under every fault, the label of each run fits the rows  *)
(* it has written and the MR it has opened.                                *)
THEOREM RecordsInvariant == Spec => []RecordsInv
<1>1. ASSUME TypeOK, RecordsInv, [Next]_vars PROVE RecordsInv'
    <2>1. CASE \E t \in Tasks : Worker(t)
        <3>1. PICK t \in Tasks : Worker(t) BY <2>1
        <3>2. CallsInv' BY <1>1, <3>1, WorkerCalls DEF RecordsInv
        <3>3. ControlInv' BY <1>1, <3>1, WorkerControl DEF RecordsInv
        <3>4. JobsInv' BY <1>1, <3>1, WorkerJobs DEF RecordsInv
        <3>5. TriageInv' BY <1>1, <3>1, WorkerTriage DEF RecordsInv
        <3>6. MergeRequestsInv' BY <1>1, <3>1, WorkerMergeRequests DEF RecordsInv
        <3>7. RecordsMatchGitLab' BY <1>1, <3>1, WorkerRecords DEF RecordsInv
        <3>8. FixedIsBacked' BY <1>1, <3>1, WorkerFixed DEF RecordsInv
        <3>9. ReadersInv' BY <1>1, <3>1, WorkerReaders DEF RecordsInv
        <3> QED BY <3>2, <3>3, <3>4, <3>5, <3>6, <3>7, <3>8, <3>9 DEF RecordsInv
    <2>2. CASE \E e \in Errors : Ingest(e)
        <3>1. PICK e \in Errors : Ingest(e) BY <2>2
        <3>2. CallFrame BY <1>1, <3>1, IngestLocal DEF RecordsInv
        <3>3. CallsInv' BY <1>1, <3>1, IngestCalls DEF RecordsInv
        <3> QED BY <1>1, <3>2, <3>3, CallRecords DEF RecordsInv
    <2>3. CASE \E r \in Retries : Retry(r)
        <3>1. PICK r \in Retries : Retry(r) BY <2>3
        <3>2. CallFrame BY <1>1, <3>1, RetryLocal DEF RecordsInv
        <3>3. CallsInv' BY <1>1, <3>1, RetryCalls DEF RecordsInv
        <3> QED BY <1>1, <3>2, <3>3, CallRecords DEF RecordsInv
    <2>4. CASE \E g \in Readers : Read(g) BY <1>1, <2>4, ReadRecords
    <2>5. CASE Crash \/ Exit BY <1>1, <2>5, RestartRecords DEF Crash, Exit
    <2>6. CASE BeginShutdown \/ UNCHANGED vars BY <1>1, <2>6, StutterRecords
    <2> QED BY <1>1, <2>1, <2>2, <2>3, <2>4, <2>5, <2>6 DEF Next, Quiet
<1> QED BY <1>1, RecordsInit, TypeCorrect, PTL DEF Spec

(* What logai recorded about its merge requests agrees with GitLab,        *)
(* whatever fails, crashes or races (runGitLab, InsertMergeRequest).       *)
THEOREM RecordsAgree == Spec => []RecordsMatchGitLab
<1>1. RecordsInv => RecordsMatchGitLab BY DEF RecordsInv
<1> QED BY <1>1, RecordsInvariant, PTL

(* No error is shown as fixed without a complete, recorded run and a       *)
(* stored merge request behind it.                                         *)
THEOREM FixedErrorsAreBacked == Spec => []FixedIsBacked
<1>1. RecordsInv => FixedIsBacked BY DEF RecordsInv
<1> QED BY <1>1, RecordsInvariant, PTL

(* GET /errors/{id}, which reads the row of the error before the others,   *)
(* answers with a fixed error only together with what backs it.            *)
THEOREM DetailIsBacked == Spec => []DetailShowsFix
<1>1. RecordsInv => DetailShowsFix BY DEF RecordsInv, ReadersInv, ReaderOf, DetailShowsFix
<1> QED BY <1>1, RecordsInvariant, PTL

-----------------------------------------------------------------------------

(* UNIQUE on errors.fingerprint. *)
Distinct == \A e1, e2 \in Errors :
    Stored(e1) /\ Stored(e2) /\ fingerprint[e1] = fingerprint[e2] => e1 = e2

LEMMA DistinctStep ==
    ASSUME TypeOK, RecordsInv, Distinct, [Next]_vars
    PROVE  Distinct'
<1>1. fingerprint' = fingerprint
    <2>1. \A t \in Tasks : Worker(t) => fingerprint' = fingerprint BY WorkerLocal DEF WorkerFrame
    <2>2. \A e \in Errors : Ingest(e) => fingerprint' = fingerprint
        BY IngestLocal DEF CallFrame, RecordsInv
    <2>3. \A r \in Retries : Retry(r) => fingerprint' = fingerprint
        BY RetryLocal DEF CallFrame, RecordsInv
    <2> QED BY <2>1, <2>2, <2>3 DEF Next, Quiet, vars, storeVars, Read, ReadStep, Crash, Exit, Restart,
               BeginShutdown
<1>2. ASSUME NEW e \in Errors, Stored(e)', ~Stored(e)
      PROVE  Insert(e) /\ InsertError(e)
    <2>1. \A t \in Tasks : ~Worker(t) BY <1>2, WorkerLocal DEF WorkerFrame, Stored
    <2>2. ASSUME NEW f \in Errors, Ingest(f)
          PROVE  Insert(e) /\ InsertError(e)
        BY <1>2, <2>2 DEF Ingest, IngestStep, CheckFingerprint, Insert, InsertError, EnqueueNew,
           MarkUnqueued, UpdateErrorStatus, storeVars, Stored, TypeOK, StoreTypeOK
    <2>3. \A r \in Retries : ~Retry(r)
        BY <1>2 DEF Retry, RetryStep, ReadForRetry, ResetStatus, EnqueueRetry, UpdateErrorStatus,
           storeVars, Stored, TypeOK, StoreTypeOK
    <2> QED BY <1>2, <2>1, <2>2, <2>3 DEF Next, Quiet, vars, storeVars, Stored, Read, ReadStep, Crash,
               Exit, Restart, BeginShutdown
<1>3. ASSUME NEW e \in Errors, InsertError(e), NEW f \in Errors, f # e
      PROVE  /\ Stored(f)' => Stored(f)
             /\ Stored(f) => fingerprint[f] # fingerprint[e]
    BY <1>3 DEF InsertError, FingerprintExists, Stored, TypeOK, StoreTypeOK
<1> SUFFICES ASSUME NEW e1 \in Errors, NEW e2 \in Errors, Stored(e1)', Stored(e2)',
                    fingerprint[e1] = fingerprint[e2], e1 # e2
             PROVE  FALSE
    BY <1>1 DEF Distinct
<1> QED BY <1>2, <1>3 DEF Distinct

(* Whatever races through Ingest, one report of a fault gets a task.       *)
THEOREM OneTask == Spec => []OneTaskPerFingerprint
<1>1. Init => Distinct BY DEF Init, StoreInit, Distinct, Stored
<1>2. TypeOK /\ RecordsInv /\ Distinct => OneTaskPerFingerprint
    BY DEF RecordsInv, CallsInv, Distinct, OneTaskPerFingerprint, EverEnqueued, Tasks
<1> QED BY <1>1, <1>2, DistinctStep, RecordsInvariant, TypeCorrect, PTL DEF Spec

-----------------------------------------------------------------------------
(* How the runs of a task and asynq's retry count belong together.         *)

(* A run is counted when it starts, a retry when a run has failed, and a   *)
(* run that a graceful stop cut off is the only one that no retry and no   *)
(* end of the task pays for.                                               *)
RunsOf(t) ==
    /\ retried[t] <= runs[t]
    /\ taskState[t] = "active" \/ InProgress(t) => retried[t] < runs[t]
    /\ runs[t] <= retried[t] + StopsUsed + 1
    /\ \/ taskState[t] \in {"none", "pending", "retry"}
       \/ taskState[t] = "active" /\ server = "stopping"
       => runs[t] <= retried[t] + StopsUsed

RunsInv == \A t \in Tasks : RunsOf(t)

LEMMA StopsType == TypeOK => StopsUsed \in Int
BY DEF TypeOK, FaultsTypeOK, StopsUsed, Used, FaultKinds

NoStop ==
    \/ NoFault \/ Fault("db") \/ Fault("redis") \/ Fault("reply")
    \/ Fault("gitlab") \/ Fault("deadline") \/ Fault("crash")

LEMMA StopsKept ==
    ASSUME TypeOK, NoStop
    PROVE  StopsUsed' = StopsUsed
<1>1. ASSUME NEW k \in FaultKinds, k # "stop", Fault(k)
      PROVE  faults'["stop"] = faults["stop"]
    BY <1>1 DEF TypeOK, FaultsTypeOK, FaultKinds, Fault
<1> QED BY <1>1 DEF NoStop, NoFault, StopsUsed, Used, FaultKinds

LEMMA CountTypes ==
    ASSUME TypeOK, NEW t \in Tasks
    PROVE  runs[t] \in Int /\ retried[t] \in Int /\ taskState[t] \in TaskState
BY MaxRunsType DEF TypeOK, RunTypeOK, QueueTypeOK

(* No handler begins or counts a shutdown. *)
LEMMA WorkerStops ==
    ASSUME TypeOK, NEW t \in Tasks, Worker(t)
    PROVE  StopsUsed' = StopsUsed /\ server' = server
<1>1. NoStop
    BY DEF NoStop, NoFault, Worker, WorkerStep, RunStep, LoadError, MarkProcessing, StartJob,
       Triage, Localize, Fix, AskModel, RecordTriage, FinishJob, SkipError, MarkFixed, Conclude,
       PushBranch, PushCommit, OpenMR, GitLabWrite, ReportsError, SaveMR, FailJob, MarkFailed, Settle,
       DeadlineExpires, Abandon, Dequeue, RetryIsDue, Recover, StatementRuns, StatementFails
<1>2. server' = server
    BY DEF Worker, WorkerStep, RunStep, queueVars, LoadError, MarkProcessing, StartJob, Triage, Localize,
       Fix, AskModel, RecordTriage, FinishJob, SkipError, MarkFixed, Conclude, PushBranch, PushCommit,
       OpenMR, GitLabWrite, SaveMR, FailJob, MarkFailed, Settle, DeadlineExpires, Abandon, Dequeue,
       RetryIsDue, Recover
<1> QED BY <1>1, <1>2, StopsKept

LEMMA WorkerRuns ==
    ASSUME TypeOK, CallsInv, RunsInv, NEW t \in Tasks, Worker(t)
    PROVE  RunsInv'
<1>1. WorkerFrame(t) BY WorkerLocal
<1>2. StopsUsed' = StopsUsed /\ server' = server /\ StopsUsed \in Int BY WorkerStops, StopsType
<1>3. RunsOf(t)'
  <2>a. RunsOf(t) /\ runs[t] \in Int /\ retried[t] \in Int BY CountTypes DEF RunsInv
  <2>1. CASE UNCHANGED <<taskState, retried, runs>> /\ InProgress(t)
    BY <1>2, <2>1, <2>a DEF RunsOf, InProgress
  <2>2. CASE Settle(t)
    <3>1. UNCHANGED runs /\ pc'[t] = "idle" /\ retried[t] < runs[t]
        BY <2>2, <2>a DEF Settle, EndRun, Goto, TypeOK, RunTypeOK, RunsOf, InProgress
    <3>2. CASE Complete(t) /\ taskState[t] = "active"
        BY <1>2, <2>a, <3>1, <3>2 DEF Complete, RunsOf, InProgress, TypeOK, QueueTypeOK
    <3>3. CASE Fail(t, outcome[t] = "final") /\ taskState[t] = "active"
        BY <1>2, <2>a, <3>1, <3>3 DEF Fail, RunsOf, InProgress, TypeOK, QueueTypeOK
    <3>4. CASE UNCHANGED <<taskState, retried>>
        BY <1>2, <2>a, <3>1, <3>4 DEF RunsOf, InProgress
    <3> QED BY <2>2, <3>2, <3>3, <3>4 DEF Settle
  <2>3. CASE Dequeue(t)
    <3>1. /\ taskState[t] = "pending" /\ taskState'[t] = "active" /\ server = "running"
          /\ UNCHANGED retried /\ runs'[t] = runs[t] + 1
        BY <2>3 DEF Dequeue, Take, TypeOK, QueueTypeOK, RunTypeOK
    <3> QED BY <1>2, <2>a, <3>1 DEF RunsOf
  <2>4. CASE Abandon(t)
    <3>1. /\ server = "stopping" /\ taskState[t] = "active" /\ taskState'[t] = "pending"
          /\ UNCHANGED <<retried, runs, pc>>
        BY <2>4 DEF Abandon, Requeue, TypeOK, QueueTypeOK
    <3> QED BY <1>2, <2>a, <3>1 DEF RunsOf, InProgress
  <2>5. CASE RetryIsDue(t)
    <3>1. /\ taskState[t] = "retry" /\ taskState'[t] = "pending"
          /\ UNCHANGED <<retried, runs, pc>>
        BY <2>5 DEF RetryIsDue, Forward, runVars, TypeOK, QueueTypeOK
    <3> QED BY <1>2, <2>a, <3>1 DEF RunsOf, InProgress
  <2>6. CASE Recover(t)
    <3>1. Fail(t, FALSE) /\ taskState[t] = "active" /\ UNCHANGED <<runs, pc>> /\ ~InProgress(t)
        BY <2>6 DEF Recover, runVars
    <3> QED BY <1>2, <2>a, <3>1 DEF Fail, RunsOf, InProgress, TypeOK, QueueTypeOK
  <2>7. CASE RunStep(t) \/ DeadlineExpires(t)
    <3>1. UNCHANGED runs
        BY <2>7 DEF RunStep, DeadlineExpires, LoadError, MarkProcessing, StartJob, Triage, Localize, Fix,
           AskModel, RecordTriage, FinishJob, SkipError, MarkFixed, Conclude, PushBranch, PushCommit,
           OpenMR, GitLabWrite, SaveMR, FailJob, MarkFailed, Settle
    <3> QED BY <2>1, <2>2, <2>7, <3>1, RunHoldsTask
  <2> QED BY <2>3, <2>4, <2>5, <2>6, <2>7 DEF Worker, WorkerStep
<1> QED BY <1>1, <1>2, <1>3 DEF RunsInv, RunsOf, WorkerFrame, InProgress

(* A call that enqueues a task enqueues one that was never run. *)
LEMMA CallRuns ==
    ASSUME TypeOK, RunsInv, CallFrame, UNCHANGED server, StopsUsed' = StopsUsed
    PROVE  RunsInv'
<1> SUFFICES ASSUME NEW t \in Tasks PROVE RunsOf(t)' BY DEF RunsInv
<1>1. RunsOf(t) BY DEF RunsInv
<1>2. UNCHANGED <<runs, pc, retried>> BY DEF CallFrame, runVars
<1>3. \/ taskState'[t] = taskState[t]
      \/ taskState[t] = "none" /\ taskState'[t] = "pending"
    BY DEF CallFrame
<1> QED BY <1>1, <1>2, <1>3 DEF RunsOf, InProgress

LEMMA CallStops ==
    ASSUME TypeOK,
           \/ \E e \in Errors : Ingest(e)
           \/ \E r \in Retries : Retry(r)
           \/ \E g \in Readers : Read(g)
    PROVE  UNCHANGED server /\ StopsUsed' = StopsUsed
<1> USE DEF Ingest, IngestStep, CheckFingerprint, Insert, EnqueueNew, MarkUnqueued, Retry, RetryStep,
        ReadForRetry, ResetStatus, EnqueueRetry, Read, ReadStep
<1>1. NoStop BY DEF NoStop
<1>2. UNCHANGED server BY DEF queueVars
<1> QED BY <1>1, <1>2, StopsKept

(* A shutdown that begins pays in advance for the runs it may cut off. *)
LEMMA ProcessRuns ==
    ASSUME TypeOK, RunsInv, Crash \/ BeginShutdown \/ Exit
    PROVE  RunsInv'
<1> SUFFICES ASSUME NEW t \in Tasks PROVE RunsOf(t)' BY DEF RunsInv
<1>1. RunsOf(t) /\ runs[t] \in Int /\ retried[t] \in Int /\ StopsUsed \in Int
    BY CountTypes, StopsType DEF RunsInv
<1>2. UNCHANGED <<runs, retried, taskState>>
    BY DEF Crash, Exit, Restart, BeginShutdown, runVars
<1>3. CASE Crash \/ Exit
    <2>1. StopsUsed' = StopsUsed BY <1>3, StopsKept DEF Crash, Exit, NoStop
    <2>2. pc'[t] = "idle" /\ server' = "running" BY <1>3 DEF Crash, Exit, Restart
    <2> QED BY <1>1, <1>2, <2>1, <2>2 DEF RunsOf, InProgress
<1>4. CASE BeginShutdown
    <2>1. StopsUsed' = StopsUsed + 1
        BY <1>4 DEF BeginShutdown, Fault, StopsUsed, Used, TypeOK, FaultsTypeOK, FaultKinds
    <2>2. UNCHANGED pc BY <1>4 DEF BeginShutdown, runVars
    <2> QED BY <1>1, <1>2, <2>1, <2>2 DEF RunsOf, InProgress
<1> QED BY <1>3, <1>4

(* The number of runs of a task is its number of counted retries, one more *)
(* once it is being run or has ended, and one per graceful stop at most.   *)
THEOREM RunsInvariant == Spec => []RunsInv
<1>1. Init => RunsInv
    BY DEF Init, RunInit, QueueInit, FaultsInit, RunsInv, RunsOf, StopsUsed, Used, InProgress, FaultKinds
<1>2. ASSUME TypeOK, RecordsInv, RunsInv, [Next]_vars PROVE RunsInv'
    <2>1. CASE \E t \in Tasks : Worker(t) BY <1>2, <2>1, WorkerRuns DEF RecordsInv
    <2>2. CASE \E e \in Errors : Ingest(e)
        BY <1>2, <2>2, IngestLocal, CallStops, CallRuns DEF RecordsInv
    <2>3. CASE \E r \in Retries : Retry(r)
        BY <1>2, <2>3, RetryLocal, CallStops, CallRuns DEF RecordsInv
    <2>4. CASE \E g \in Readers : Read(g)
        <3>1. UNCHANGED <<taskState, retried, runs, pc>>
            BY <2>4 DEF Read, ReadStep, queueVars, runVars
        <3>2. UNCHANGED server /\ StopsUsed' = StopsUsed BY <1>2, <2>4, CallStops
        <3> QED BY <1>2, <3>1, <3>2 DEF RunsInv, RunsOf, InProgress
    <2>5. CASE Crash \/ BeginShutdown \/ Exit BY <1>2, <2>5, ProcessRuns
    <2>6. CASE UNCHANGED vars
        BY <1>2, <2>6 DEF vars, queueVars, runVars, RunsInv, RunsOf, InProgress, StopsUsed, Used
    <2> QED BY <1>2, <2>1, <2>2, <2>3, <2>4, <2>5, <2>6 DEF Next, Quiet
<1> QED BY <1>1, <1>2, TypeCorrect, RecordsInvariant, PTL DEF Spec

(* The attempt that a run records never exceeds its number among the runs  *)
(* of its task, and lags behind it by at most one per graceful stop: a     *)
(* crash, whose run asynq counts as failed, does not disturb it.           *)
THEOREM AttemptsAreRuns == Spec => []AttemptNumbersRun
<1>1. TypeOK /\ RecordsInv /\ RunsInv => AttemptNumbersRun
    <2> SUFFICES ASSUME TypeOK, RecordsInv, RunsInv, NEW t \in Tasks, InProgress(t)
                 PROVE  /\ AttemptNumber(t) <= runs[t]
                        /\ runs[t] - AttemptNumber(t) <= StopsUsed
        BY DEF AttemptNumbersRun
    <2>1. RunsOf(t) /\ runs[t] \in Int /\ retried[t] \in Int /\ StopsUsed \in Int
        BY CountTypes, StopsType DEF RunsInv
    <2> QED BY <2>1 DEF RunsOf, AttemptNumber
<1> QED BY <1>1, TypeCorrect, RecordsInvariant, RunsInvariant, PTL

(* A waiting task may always be run once more: the bound MaxRuns, which    *)
(* only names the rows of the model, takes no behaviour of asynq away.     *)
THEOREM RunBoundIsSlack == Spec => [](\A t \in Tasks : taskState[t] = "pending" => runs[t] < MaxRuns)
<1>1. ASSUME TypeOK, RunsInv, NEW t \in Tasks, taskState[t] = "pending"
      PROVE  runs[t] < MaxRuns
    <2>1. RunsOf(t) /\ runs[t] \in Int BY <1>1, CountTypes DEF RunsInv
    <2>2. retried[t] \in 0..MaxRetry BY <1>1 DEF TypeOK, QueueTypeOK
    <2>3. /\ FaultBudget["stop"] \in Nat /\ faults["stop"] \in Nat
          /\ StopsUsed = FaultBudget["stop"] - faults["stop"]
        BY <1>1 DEF TypeOK, FaultsTypeOK, FaultKinds, StopsUsed, Used
    <2> QED BY <1>1, <2>1, <2>2, <2>3 DEF RunsOf, MaxRuns
<1>2. TypeOK /\ RunsInv => \A t \in Tasks : taskState[t] = "pending" => runs[t] < MaxRuns
    BY <1>1
<1> QED BY <1>2, TypeCorrect, RunsInvariant, PTL

=============================================================================
