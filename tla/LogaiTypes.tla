----------------------------- MODULE LogaiTypes -----------------------------
(***************************************************************************)
(* Type correctness of Logai, and what one step of a worker leaves alone:  *)
(* the two facts that the proofs about the invariants start from.          *)
(***************************************************************************)
EXTENDS LogaiProps, TLAPS

USE CallsAssumption, MaxRetryAssumption, FaultBudgetAssumption

LEMMA MaxRunsType == MaxRuns \in Nat
BY DEF MaxRuns, FaultKinds

LEMMA TypeInit == Init => TypeOK
<1> SUFFICES ASSUME Init PROVE TypeOK OBVIOUS
<1> USE DEF Init
<1>1. StoreTypeOK BY DEF StoreInit, StoreTypeOK, ErrorStatus, JobStatus
<1>2. QueueTypeOK BY DEF QueueInit, QueueTypeOK, TaskState
<1>3. GitLabTypeOK /\ FaultsTypeOK
    BY DEF GitLabInit, GitLabTypeOK, Progress, FaultsInit, FaultsTypeOK
<1>4. RunTypeOK BY MaxRunsType DEF RunInit, RunTypeOK, Labels, Stages, Outcomes
<1>5. IngestTypeOK /\ RetryTypeOK
    BY DEF IngestInit, RetryInit, IngestTypeOK, RetryTypeOK, IngestLabels, RetryLabels
<1>6. ReadTypeOK
    <2>1. \A e \in Errors :
              [error |-> e, status |-> "absent", complete |-> FALSE, mr |-> FALSE] \in Views
        BY DEF Views, ErrorStatus
    <2>2. \A g \in Readers : view[g] \in Views BY <2>1 DEF ReadInit
    <2>3. view = [g \in Readers |-> view[g]] BY DEF ReadInit
    <2>4. readPc \in [Readers -> Statements \cup ReadAnswers] BY DEF ReadInit, Statements
    <2> QED BY <2>2, <2>3, <2>4 DEF ReadTypeOK
<1> QED BY <1>1, <1>2, <1>3, <1>4, <1>5, <1>6 DEF TypeOK

(* The names of a run and of its job row are names of the database. *)
LEMMA RunNames ==
    ASSUME TypeOK, NEW t \in Tasks, InProgress(t)
    PROVE  /\ runs[t] \in RunNumbers
           /\ RunId(t) \in RunIds /\ JobOf(t) \in JobIds
BY MaxRunsType DEF TypeOK, RunTypeOK, InProgress, RunId, JobOf, RunIds, JobIds, RunNumbers

(* A fault is one of the budget, and the budget never goes below zero. *)
LEMMA FaultType ==
    ASSUME FaultsTypeOK, NEW k \in FaultKinds, Fault(k)
    PROVE  FaultsTypeOK'
BY DEF FaultsTypeOK, Fault

LEMMA FaultsPreserved ==
    ASSUME FaultsTypeOK, NoFault
    PROVE  FaultsTypeOK'
BY DEF FaultsTypeOK, NoFault

(* Asynq never counts more retries than it was asked to make. *)
LEMMA FailType ==
    ASSUME QueueTypeOK, NEW t \in Tasks, NEW skip \in BOOLEAN, Fail(t, skip)
    PROVE  /\ taskState' \in [Tasks -> TaskState]
           /\ retried' \in [Tasks -> 0..MaxRetry]
<1>1. CASE skip \/ retried[t] >= MaxRetry
    BY <1>1 DEF QueueTypeOK, Fail, TaskState, Live
<1>2. CASE ~(skip \/ retried[t] >= MaxRetry)
    <2>1. retried[t] + 1 \in 0..MaxRetry BY <1>2 DEF QueueTypeOK
    <2> QED BY <1>2, <2>1 DEF QueueTypeOK, Fail, TaskState, Live
<1> QED BY <1>1, <1>2

LEMMA TypeWorker ==
    ASSUME TypeOK, NEW t \in Tasks, Worker(t)
    PROVE  TypeOK'
<1> USE DEF TypeOK, storeVars, queueVars, runVars
<1>a. InProgress(t) => RunId(t) \in RunIds /\ JobOf(t) \in JobIds BY RunNames
<1>b. IngestTypeOK' /\ RetryTypeOK' /\ ReadTypeOK'
    BY DEF Worker, IngestTypeOK, RetryTypeOK, ReadTypeOK, readVars
<1>1. ASSUME LoadError(t) \/ MarkProcessing(t) \/ StartJob(t) \/ RecordTriage(t)
             \/ FinishJob(t) \/ SkipError(t) \/ MarkFixed(t) \/ SaveMR(t)
             \/ FailJob(t) \/ MarkFailed(t)
      PROVE  TypeOK'
    <2>1. StoreTypeOK'
        <3> USE DEF StoreTypeOK
        <3>1. ASSUME NEW e, NEW s \in ErrorStatus, UpdateErrorStatus(e, s)
              PROVE  status' \in [Errors -> ErrorStatus]
            BY <3>1 DEF UpdateErrorStatus
        <3>2. ASSUME NEW s \in JobStatus, UpdateJob(JobOf(t), s)
              PROVE  jobs' \in [JobIds -> JobStatus]
            BY <3>2 DEF UpdateJob
        <3>3. CASE LoadError(t) \/ MarkProcessing(t) \/ SkipError(t) \/ MarkFixed(t) \/ MarkFailed(t)
            BY <3>1, <3>3 DEF LoadError, MarkProcessing, SkipError, MarkFixed, Conclude, MarkFailed,
               ErrorStatus, Unfinished, Terminal
        <3>4. CASE StartJob(t) \/ FinishJob(t) \/ FailJob(t)
            BY <1>a, <3>2, <3>4 DEF StartJob, FinishJob, FailJob, InsertJob, JobStatus, InProgress
        <3>5. CASE RecordTriage(t) \/ SaveMR(t)
            BY <1>a, <3>5 DEF RecordTriage, SaveMR, UpdateErrorTriage, InsertMergeRequest, Stored,
               QueueTypeOK, InProgress
        <3> QED BY <1>1, <3>3, <3>4, <3>5
    <2>2. FaultsTypeOK'
        BY <1>1, FaultType, FaultsPreserved DEF FaultKinds, LoadError, MarkProcessing, StartJob,
           RecordTriage, FinishJob, SkipError, MarkFixed, Conclude, SaveMR, FailJob, MarkFailed,
           StatementRuns, StatementFails
    <2>3. RunTypeOK'
        BY <1>1 DEF RunTypeOK, LoadError, MarkProcessing, StartJob, RecordTriage,
           FinishJob, NextStage, Following, Stages, SkipError, MarkFixed, Conclude, SaveMR,
           FailJob, MarkFailed, Proceed, Abort, Goto, Labels, Outcomes
    <2>4. QueueTypeOK' /\ GitLabTypeOK'
        BY <1>1 DEF QueueTypeOK, GitLabTypeOK, LoadError, MarkProcessing, StartJob, RecordTriage,
           FinishJob, SkipError, MarkFixed, Conclude, SaveMR, FailJob, MarkFailed
    <2> QED BY <1>b, <2>1, <2>2, <2>3, <2>4
<1>2. ASSUME Triage(t) \/ Localize(t) \/ Fix(t)
      PROVE  TypeOK'
    BY <1>b, <1>2, FaultsPreserved DEF Triage, Localize, Fix, AskModel, Abort, Goto,
       StoreTypeOK, QueueTypeOK, GitLabTypeOK, RunTypeOK, Labels, Outcomes
<1>3. ASSUME PushBranch(t) \/ PushCommit(t) \/ OpenMR(t)
      PROVE  TypeOK'
    <2>1. FaultsTypeOK'
        BY <1>3, FaultType, FaultsPreserved DEF PushBranch, PushCommit, OpenMR, GitLabWrite,
           ReportsError, FaultKinds
    <2>2. GitLabTypeOK'
        BY <1>a, <1>3 DEF PushBranch, PushCommit, OpenMR, GitLabWrite, ReportsError, GitLabTypeOK,
           CreateBranch, CommitFile, CreateMR, Advance, Progress, InProgress
    <2>3. RunTypeOK'
        BY <1>3 DEF PushBranch, PushCommit, OpenMR, GitLabWrite, RunTypeOK, Proceed, Abort, Goto,
           Labels, Outcomes
    <2>4. StoreTypeOK' /\ QueueTypeOK'
        BY <1>3 DEF PushBranch, PushCommit, OpenMR, GitLabWrite, StoreTypeOK, QueueTypeOK
    <2> QED BY <1>b, <2>1, <2>2, <2>3, <2>4
<1>4. ASSUME Settle(t)
      PROVE  TypeOK'
    <2>1. taskState' \in [Tasks -> TaskState] /\ retried' \in [Tasks -> 0..MaxRetry]
        <3>1. CASE Complete(t) BY <3>1 DEF Complete, QueueTypeOK, TaskState, Live
        <3>2. CASE Fail(t, outcome[t] = "final")
            <4>1. (outcome[t] = "final") \in BOOLEAN OBVIOUS
            <4> QED BY <3>2, <4>1, FailType
        <3>3. CASE UNCHANGED <<taskState, retried>> BY <3>3 DEF QueueTypeOK
        <3> QED BY <1>4, <3>1, <3>2, <3>3 DEF Settle
    <2>2. RunTypeOK' BY <1>4 DEF Settle, EndRun, Goto, RunTypeOK, Labels, Stages, Outcomes
    <2> QED BY <1>b, <1>4, <2>1, <2>2 DEF Settle, StoreTypeOK, QueueTypeOK, GitLabTypeOK, FaultsTypeOK
<1>5. ASSUME DeadlineExpires(t)
      PROVE  TypeOK'
    BY <1>a, <1>b, <1>5, FaultType DEF DeadlineExpires, Timed, InProgress, FaultKinds, StoreTypeOK,
       QueueTypeOK, GitLabTypeOK, RunTypeOK
<1>6. ASSUME Dequeue(t) \/ RetryIsDue(t) \/ Abandon(t)
      PROVE  TypeOK'
    <2>1. taskState' \in [Tasks -> TaskState] /\ UNCHANGED <<retried, payload, server>>
        BY <1>6 DEF Dequeue, RetryIsDue, Abandon, Take, Forward, Requeue, QueueTypeOK, TaskState, Live
    <2>2. RunTypeOK'
        <3>1. CASE Dequeue(t)
            <4>1. runs[t] + 1 \in 0..MaxRuns /\ runs[t] + 1 > 0
                BY <3>1, MaxRunsType DEF Dequeue, RunTypeOK
            <4> QED BY <3>1, <4>1 DEF Dequeue, Proceed, Goto, RunTypeOK, Labels
        <3>2. CASE RetryIsDue(t) BY <3>2 DEF RetryIsDue, RunTypeOK
        <3>3. CASE Abandon(t) BY <1>a, <3>3 DEF Abandon, RunTypeOK
        <3> QED BY <1>6, <3>1, <3>2, <3>3
    <2>3. StoreTypeOK' /\ GitLabTypeOK' /\ FaultsTypeOK'
        BY <1>6 DEF Dequeue, RetryIsDue, Abandon, StoreTypeOK, GitLabTypeOK, FaultsTypeOK
    <2> QED BY <1>b, <2>1, <2>2, <2>3 DEF QueueTypeOK
<1>7. ASSUME Recover(t)
      PROVE  TypeOK'
    <2>1. taskState' \in [Tasks -> TaskState] /\ retried' \in [Tasks -> 0..MaxRetry]
        BY <1>7, FailType DEF Recover
    <2> QED BY <1>b, <1>7, <2>1 DEF Recover, StoreTypeOK, QueueTypeOK, GitLabTypeOK, FaultsTypeOK,
               RunTypeOK
<1> QED BY <1>1, <1>2, <1>3, <1>4, <1>5, <1>6, <1>7 DEF Worker, WorkerStep, RunStep

LEMMA TypeIngest ==
    ASSUME TypeOK, NEW e \in Errors, Ingest(e)
    PROVE  TypeOK'
<1> USE DEF TypeOK, storeVars, queueVars, runVars, Ingest, IngestStep, CheckFingerprint, Insert,
        EnqueueNew, MarkUnqueued
<1>1. FaultsTypeOK' BY FaultType, FaultsPreserved DEF FaultKinds
<1>2. StoreTypeOK'
    BY DEF StoreTypeOK, InsertError, UpdateErrorStatus, ErrorStatus, Unfinished, Terminal
<1>3. QueueTypeOK' BY DEF QueueTypeOK, Enqueue, TaskState, Live, Tasks
<1>4. IngestTypeOK'
    BY DEF IngestTypeOK, IngestGoto, IngestLabels, IngestInFlight, IngestReturned
<1>5. GitLabTypeOK' /\ RunTypeOK' /\ RetryTypeOK' /\ ReadTypeOK'
    BY DEF GitLabTypeOK, RunTypeOK, RetryTypeOK, ReadTypeOK, readVars
<1> QED BY <1>1, <1>2, <1>3, <1>4, <1>5

LEMMA TypeRetry ==
    ASSUME TypeOK, NEW r \in Retries, Retry(r)
    PROVE  TypeOK'
<1> USE DEF TypeOK, storeVars, queueVars, runVars, Retry, RetryStep, ReadForRetry, ResetStatus,
        EnqueueRetry
<1>1. FaultsTypeOK' BY FaultType, FaultsPreserved DEF FaultKinds
<1>2. StoreTypeOK'
    BY DEF StoreTypeOK, QueueTypeOK, UpdateErrorStatus, ErrorStatus, Unfinished, Terminal
<1>3. QueueTypeOK' BY DEF QueueTypeOK, Enqueue, TaskState, Live, Tasks
<1>4. RetryTypeOK'
    BY DEF RetryTypeOK, RetryGoto, RetryLabels, RetryInFlight, RetryReturned
<1>5. GitLabTypeOK' /\ RunTypeOK' /\ IngestTypeOK' /\ ReadTypeOK'
    BY DEF GitLabTypeOK, RunTypeOK, IngestTypeOK, ReadTypeOK, readVars
<1> QED BY <1>1, <1>2, <1>3, <1>4, <1>5

LEMMA TypeRead ==
    ASSUME TypeOK, NEW g \in Readers, Read(g)
    PROVE  TypeOK'
<1> USE DEF TypeOK, storeVars, queueVars, runVars, Read, ReadStep
<1>1. FaultsTypeOK' BY FaultType, FaultsPreserved DEF FaultKinds
<1>2. ReadTypeOK'
    <2>1. view[g] \in Views BY DEF ReadTypeOK
    <2>2. PICK answer \in Statements \cup ReadAnswers, v \in Views : Returns(g, answer, v)
        <3>1. view[g].error \in Errors BY <2>1 DEF Views
        <3>2. status[view[g].error] \in ErrorStatus BY <3>1 DEF StoreTypeOK
        <3>3. HasCompleteRun(view[g].error) \in BOOLEAN /\ HasMR(view[g].error) \in BOOLEAN
            BY DEF HasCompleteRun, HasMR
        <3>4. /\ [view[g] EXCEPT !.status = status[view[g].error]] \in Views
              /\ [view[g] EXCEPT !.complete = HasCompleteRun(view[g].error)] \in Views
              /\ [view[g] EXCEPT !.mr = HasMR(view[g].error)] \in Views
            BY <2>1, <3>2, <3>3 DEF Views
        <3>5. readPc[g] \in Statements => After[readPc[g]] \in Statements \cup ReadAnswers
            BY DEF After, Statements, ReadAnswers
        <3>6. {"notfound", "error"} \subseteq Statements \cup ReadAnswers BY DEF ReadAnswers
        <3> QED BY <2>1, <3>4, <3>5, <3>6 DEF Reads
    <2> QED BY <2>2 DEF ReadTypeOK, Returns
<1>3. StoreTypeOK' /\ QueueTypeOK' BY DEF StoreTypeOK, QueueTypeOK
<1>4. GitLabTypeOK' /\ RunTypeOK' /\ IngestTypeOK' /\ RetryTypeOK'
    BY DEF GitLabTypeOK, RunTypeOK, IngestTypeOK, RetryTypeOK
<1> QED BY <1>1, <1>2, <1>3, <1>4

LEMMA TypeRestart ==
    ASSUME TypeOK, Restart, FaultsTypeOK'
    PROVE  TypeOK'
<1> USE DEF TypeOK, Restart, storeVars, queueVars
<1>1. StoreTypeOK' /\ QueueTypeOK' /\ GitLabTypeOK'
    BY DEF StoreTypeOK, QueueTypeOK, GitLabTypeOK
<1>2. RunTypeOK' BY DEF RunTypeOK, Labels, Stages, Outcomes
<1>3. IngestTypeOK' BY DEF IngestTypeOK, IngestLabels, IngestReturned
<1>4. RetryTypeOK' BY DEF RetryTypeOK, RetryLabels, RetryReturned
<1>5. ReadTypeOK' BY DEF ReadTypeOK, ReadAnswers
<1> QED BY <1>1, <1>2, <1>3, <1>4, <1>5

LEMMA TypeProcess ==
    ASSUME TypeOK, Crash \/ BeginShutdown \/ Exit
    PROVE  TypeOK'
<1>1. FaultsTypeOK'
    BY FaultType, FaultsPreserved DEF TypeOK, Crash, BeginShutdown, Exit, FaultKinds
<1>2. CASE Crash \/ Exit BY <1>1, <1>2, TypeRestart DEF Crash, Exit
<1>3. CASE BeginShutdown
    BY <1>1, <1>3 DEF TypeOK, BeginShutdown, storeVars, runVars, readVars, StoreTypeOK, QueueTypeOK,
       GitLabTypeOK, RunTypeOK, IngestTypeOK, RetryTypeOK, ReadTypeOK
<1> QED BY <1>2, <1>3

LEMMA TypeStutter == TypeOK /\ UNCHANGED vars => TypeOK'
BY DEF TypeOK, vars, storeVars, queueVars, runVars, readVars, StoreTypeOK, QueueTypeOK,
   GitLabTypeOK, FaultsTypeOK, RunTypeOK, IngestTypeOK, RetryTypeOK, ReadTypeOK

(* Type correctness: every statement, queue operation and label change of  *)
(* the code stays within the values that its columns and states may have,  *)
(* for any number of reports, retries and faults; in particular asynq's    *)
(* retry count stays within MaxRetry.                                      *)
THEOREM TypeCorrect == Spec => []TypeOK
<1>1. TypeOK /\ [Next]_vars => TypeOK'
    BY TypeWorker, TypeIngest, TypeRetry, TypeRead, TypeProcess, TypeStutter DEF Next, Quiet
<1> QED BY <1>1, TypeInit, PTL DEF Spec

=============================================================================
