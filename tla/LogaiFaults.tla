---------------------------- MODULE LogaiFaults -----------------------------
(***************************************************************************)
(* What each kind of fault can break.  The properties of Logai that some   *)
(* kinds of fault violate hold, for any budgets, as long as no fault of    *)
(* these kinds has happened; and every needless merge request is due to a  *)
(* fault.                                                                  *)
(***************************************************************************)
EXTENDS LogaiRecords, FiniteSetTheorems

USE CallsAssumption, MaxRetryAssumption, FaultBudgetAssumption

-----------------------------------------------------------------------------
(* Faults are used up one by one.                                          *)

LEMMA StepFaults ==
    ASSUME [Next]_vars
    PROVE  NoFault \/ \E k \in FaultKinds : Fault(k)
<1>1. ASSUME NEW t \in Tasks, Worker(t) PROVE NoFault \/ \E k \in FaultKinds : Fault(k)
    BY <1>1 DEF FaultKinds, NoFault, Worker, WorkerStep, RunStep, LoadError, MarkProcessing, StartJob,
       Triage, Localize, Fix, AskModel, RecordTriage, FinishJob, SkipError, MarkFixed, Conclude,
       PushBranch, PushCommit, OpenMR, GitLabWrite, ReportsError, SaveMR, FailJob, MarkFailed, Settle,
       DeadlineExpires, Abandon, Dequeue, RetryIsDue, Recover, StatementRuns, StatementFails
<1>2. ASSUME NEW e \in Errors, Ingest(e) PROVE NoFault \/ \E k \in FaultKinds : Fault(k)
    BY <1>2 DEF FaultKinds, Ingest, IngestStep, CheckFingerprint, Insert, EnqueueNew, MarkUnqueued
<1>3. ASSUME NEW r \in Retries, Retry(r) PROVE NoFault \/ \E k \in FaultKinds : Fault(k)
    BY <1>3 DEF FaultKinds, Retry, RetryStep, ReadForRetry, ResetStatus, EnqueueRetry
<1>4. ASSUME NEW g \in Readers, Read(g) PROVE NoFault \/ \E k \in FaultKinds : Fault(k)
    BY <1>4 DEF FaultKinds, Read, ReadStep
<1>5. ASSUME Crash \/ BeginShutdown \/ Exit PROVE NoFault \/ \E k \in FaultKinds : Fault(k)
    BY <1>5 DEF FaultKinds, Crash, BeginShutdown, Exit
<1> QED BY <1>1, <1>2, <1>3, <1>4, <1>5 DEF Next, Quiet, vars, NoFault

LEMMA BudgetStep ==
    ASSUME FaultsTypeOK, BudgetInv, [Next]_vars
    PROVE  BudgetInv' /\ \A k \in FaultKinds : faults'[k] <= faults[k]
<1>1. CASE NoFault BY <1>1 DEF NoFault, BudgetInv, FaultsTypeOK
<1>2. CASE \E k \in FaultKinds : Fault(k) BY <1>2 DEF Fault, BudgetInv, FaultsTypeOK
<1> QED BY <1>1, <1>2, StepFaults

(* A fault of a kind that is still spared afterwards has not happened. *)
LEMMA SparedStep ==
    ASSUME FaultsTypeOK, BudgetInv, [Next]_vars, NEW kinds \in SUBSET FaultKinds, Spared(kinds)'
    PROVE  Spared(kinds) /\ \A k \in kinds : ~Fault(k)
<1> SUFFICES ASSUME NEW k \in kinds
             PROVE  faults[k] = FaultBudget[k] /\ ~Fault(k)
    BY DEF Spared
<1>1. faults'[k] = FaultBudget[k] /\ faults'[k] <= faults[k] /\ faults[k] <= FaultBudget[k]
    BY BudgetStep DEF Spared, BudgetInv
<1>2. faults[k] \in Nat /\ FaultBudget[k] \in Nat BY DEF FaultsTypeOK
<1>3. faults[k] = FaultBudget[k] BY <1>1, <1>2
<1>4. Fault(k) => faults'[k] = faults[k] - 1 BY DEF Fault, FaultsTypeOK
<1> QED BY <1>1, <1>2, <1>3, <1>4

(* A statement fails only for an expired context while the database answers. *)
LEMMA StatementsAnswer ==
    ASSUME NEW t \in Tasks, StatementFails(t), ~Fault("db")
    PROVE  RunId(t) \in expired
BY DEF StatementFails

-----------------------------------------------------------------------------
(* SteadyInv is an invariant.                                              *)

(* The context of a run ends by its deadline, or when it is abandoned. *)
LEMMA OnlyExpires ==
    ASSUME NEW t \in Tasks, Worker(t)
    PROVE  \/ UNCHANGED expired
           \/ /\ expired' = expired \cup {RunId(t)}
              /\ InProgress(t)
              /\ UNCHANGED <<pc, stage, outcome, runs>>
              /\ pc[t] \in Timed \/ server = "stopping"
<1>1. CASE DeadlineExpires(t) BY <1>1 DEF DeadlineExpires, InProgress, Timed
<1>2. CASE Abandon(t) BY <1>2 DEF Abandon
<1>3. CASE Dequeue(t) \/ RetryIsDue(t) \/ Recover(t)
    BY <1>3 DEF Dequeue, RetryIsDue, Recover, runVars
<1>4. CASE RunStep(t)
    BY <1>4 DEF RunStep, LoadError, MarkProcessing, StartJob, Triage, Localize, Fix, AskModel,
       RecordTriage, FinishJob, SkipError, MarkFixed, Conclude, PushBranch, PushCommit, OpenMR,
       GitLabWrite, SaveMR, FailJob, MarkFailed, Settle
<1> QED BY <1>1, <1>2, <1>3, <1>4 DEF Worker, WorkerStep

(* Only Dequeue counts a run, and only FinishJob leads to its last label. *)
LEMMA RunCounter ==
    ASSUME TypeOK, NEW t \in Tasks, Worker(t)
    PROVE  \/ UNCHANGED runs
           \/ Dequeue(t) /\ runs'[t] = runs[t] + 1 /\ pc'[t] = "load"
<1>1. CASE Dequeue(t) BY <1>1 DEF Dequeue, Proceed, Goto, TypeOK, RunTypeOK
<1>2. CASE DeadlineExpires(t) \/ Abandon(t) \/ RetryIsDue(t) \/ Recover(t)
    BY <1>2 DEF DeadlineExpires, Abandon, RetryIsDue, Recover, runVars
<1>3. CASE RunStep(t)
    BY <1>3 DEF RunStep, LoadError, MarkProcessing, StartJob, Triage, Localize, Fix, AskModel,
       RecordTriage, FinishJob, SkipError, MarkFixed, Conclude, PushBranch, PushCommit, OpenMR,
       GitLabWrite, SaveMR, FailJob, MarkFailed, Settle
<1> QED BY <1>1, <1>2, <1>3 DEF Worker, WorkerStep

LEMMA LastLabels ==
    ASSUME TypeOK, NEW t \in Tasks, Worker(t)
    PROVE  /\ pc'[t] = "skip" => outcome'[t] = "stop" \/ UNCHANGED <<pc, outcome>>
           /\ pc'[t] = "fixed" => outcome'[t] = "go" \/ UNCHANGED <<pc, outcome>>
<1> USE DEF TypeOK, RunTypeOK
<1>1. CASE FinishJob(t) BY <1>1 DEF FinishJob, NextStage, Proceed, Abort, Goto
<1>2. CASE LoadError(t) \/ MarkProcessing(t) \/ StartJob(t) \/ RecordTriage(t) \/ SkipError(t)
           \/ MarkFixed(t) \/ SaveMR(t) \/ FailJob(t) \/ MarkFailed(t)
    BY <1>2 DEF LoadError, MarkProcessing, StartJob, RecordTriage, SkipError, MarkFixed, Conclude,
       SaveMR, FailJob, MarkFailed, Proceed, Abort, Goto
<1>3. CASE Triage(t) \/ Localize(t) \/ Fix(t) BY <1>3 DEF Triage, Localize, Fix, AskModel, Abort, Goto
<1>4. CASE PushBranch(t) \/ PushCommit(t) \/ OpenMR(t)
    BY <1>4 DEF PushBranch, PushCommit, OpenMR, GitLabWrite, Proceed, Abort, Goto
<1>5. CASE Settle(t) \/ Dequeue(t) BY <1>5 DEF Settle, EndRun, Dequeue, Proceed, Goto
<1>6. CASE DeadlineExpires(t) \/ Abandon(t) \/ RetryIsDue(t) \/ Recover(t)
    BY <1>6 DEF DeadlineExpires, Abandon, RetryIsDue, Recover, runVars
<1> QED BY <1>1, <1>2, <1>3, <1>4, <1>5, <1>6 DEF Worker, WorkerStep, RunStep

LEMMA WorkerContext ==
    ASSUME TypeOK, CallsInv, \A u \in Tasks : ContextOf(u), NEW t \in Tasks, Worker(t)
    PROVE  \A u \in Tasks : ContextOf(u)'
<1>1. WorkerFrame(t) BY WorkerLocal
<1>2. expired' \subseteq expired \cup {RunId(t)} /\ expired \subseteq expired' BY OnlyExpires
<1>3. runs[t] \in Int /\ (InProgress(t) => runs[t] \in RunNumbers) BY CountTypes, RunNames
<1>4. \A u \in Tasks \ {t} : ContextOf(u)'
    <2> TAKE u \in Tasks \ {t}
    <2>1. \A n : <<u, n>> # RunId(t) BY DEF RunId
    <2> QED BY <1>1, <1>2, <2>1 DEF ContextOf, WorkerFrame, Abandoned, InProgress, RunId
<1>5. \A n \in RunNumbers : n > runs'[t] => <<t, n>> \notin expired'
    <2> SUFFICES ASSUME NEW n \in RunNumbers, n > runs'[t] PROVE <<t, n>> \notin expired' OBVIOUS
    <2>1. n \in Int BY DEF RunNumbers
    <2>2. n > runs[t]
        <3>1. runs'[t] = runs[t] \/ runs'[t] = runs[t] + 1 BY RunCounter
        <3> QED BY <1>3, <2>1, <3>1
    <2>3. <<t, n>> \notin expired BY <2>2 DEF ContextOf
    <2>4. <<t, n>> # RunId(t) BY <1>3, <2>1, <2>2 DEF RunId
    <2> QED BY <1>2, <2>3, <2>4
<1>6. Abandoned(t)' => RunId(t)' \in expired'
    <2>1. CASE Settle(t)
        BY <2>1 DEF Settle, EndRun, Goto, TypeOK, RunTypeOK, Abandoned, InProgress
    <2>2. CASE (RunStep(t) \/ DeadlineExpires(t)) /\ ~Settle(t)
        <3>1. InProgress(t) /\ UNCHANGED taskState BY <2>2, RunHoldsTask
        <3>2. UNCHANGED runs
            BY <2>2, <3>1, RunCounter DEF Dequeue, Take, TypeOK, QueueTypeOK
        <3>3. Abandoned(t) => RunId(t) \in expired BY DEF ContextOf
        <3> QED BY <1>2, <3>1, <3>2, <3>3 DEF Abandoned, RunId
    <2>3. CASE Dequeue(t) BY <2>3 DEF Dequeue, Take, TypeOK, QueueTypeOK, Abandoned
    <2>4. CASE Abandon(t) BY <2>4 DEF Abandon, RunId
    <2>5. CASE RetryIsDue(t) \/ Recover(t)
        <3>1. ~InProgress(t)
            BY <2>5 DEF RetryIsDue, Recover, Forward, CallsInv, Returned
        <3> QED BY <2>5, <3>1 DEF RetryIsDue, Recover, runVars, Abandoned, InProgress
    <2> QED BY <2>1, <2>2, <2>3, <2>4, <2>5 DEF Worker, WorkerStep
<1>7. /\ pc'[t] = "skip" => outcome'[t] = "stop"
      /\ pc'[t] = "fixed" => outcome'[t] = "go"
    BY LastLabels DEF ContextOf
<1> QED BY <1>4, <1>5, <1>6, <1>7 DEF ContextOf

(* Without a crash and without a shutdown a task is active as long as its  *)
(* run, and a run reaches its deadline after its first statements.         *)
LEMMA WorkerSteady ==
    ASSUME TypeOK, CallsInv, server = "running",
           \A u \in Tasks : ContextOf(u) /\ SteadyOf(u), NEW t \in Tasks, Worker(t)
    PROVE  server' = "running" /\ \A u \in Tasks : SteadyOf(u)'
<1>1. WorkerFrame(t) /\ server' = "running" BY WorkerLocal, WorkerStops
<1>2. expired' \subseteq expired \cup {RunId(t)} BY OnlyExpires
<1>3. \A u \in Tasks \ {t} : SteadyOf(u)'
    <2> TAKE u \in Tasks \ {t}
    <2>1. RunId(u) # RunId(t) BY DEF RunId
    <2> QED BY <1>1, <1>2, <2>1 DEF SteadyOf, WorkerFrame, InProgress, RunId
<1>4. SteadyOf(t)'
    <2>1. CASE Settle(t)
        <3>1. pc'[t] = "idle" /\ taskState[t] = "active"
            BY <2>1 DEF Settle, EndRun, Goto, TypeOK, RunTypeOK, SteadyOf, InProgress
        <3>2. taskState'[t] # "active"
            BY <2>1, <3>1 DEF Settle, Complete, Fail, Abandoned, TypeOK, QueueTypeOK
        <3> QED BY <3>1, <3>2 DEF SteadyOf, InProgress
    <2>2. CASE LoadError(t)
        BY <1>1, <2>2 DEF LoadError, queueVars, Proceed, Abort, Goto, SteadyOf, InProgress, TypeOK,
           RunTypeOK, RunId
    <2>3. CASE RunStep(t) /\ ~Settle(t) /\ ~LoadError(t)
        <3>1. pc[t] # "idle" /\ UNCHANGED taskState BY <2>3, RunHoldsTask DEF InProgress
        <3>2. pc'[t] \notin {"idle", "load", "mark"}
            <4> USE DEF TypeOK, RunTypeOK
            <4>1. CASE FinishJob(t) BY <4>1 DEF FinishJob, NextStage, Proceed, Abort, Goto
            <4>2. CASE MarkProcessing(t) \/ StartJob(t) \/ RecordTriage(t) \/ SkipError(t)
                       \/ MarkFixed(t) \/ SaveMR(t) \/ FailJob(t) \/ MarkFailed(t)
                BY <4>2 DEF MarkProcessing, StartJob, RecordTriage, SkipError, MarkFixed,
                   Conclude, SaveMR, FailJob, MarkFailed, Proceed, Abort, Goto
            <4>3. CASE Triage(t) \/ Localize(t) \/ Fix(t)
                BY <4>3 DEF Triage, Localize, Fix, AskModel, Abort, Goto
            <4>4. CASE PushBranch(t) \/ PushCommit(t) \/ OpenMR(t)
                BY <4>4 DEF PushBranch, PushCommit, OpenMR, GitLabWrite, Proceed, Abort, Goto
            <4> QED BY <2>3, <4>1, <4>2, <4>3, <4>4 DEF RunStep
        <3> QED BY <3>1, <3>2 DEF SteadyOf, InProgress
    <2>4. CASE DeadlineExpires(t)
        BY <2>4 DEF DeadlineExpires, Timed, queueVars, SteadyOf, InProgress
    <2>5. CASE Dequeue(t)
        <3>1. /\ taskState'[t] = "active" /\ pc'[t] = "load" /\ runs'[t] = runs[t] + 1
              /\ runs[t] < MaxRuns /\ UNCHANGED expired
            BY <2>5 DEF Dequeue, Take, Proceed, Goto, TypeOK, QueueTypeOK, RunTypeOK
        <3>2. runs[t] + 1 \in RunNumbers /\ runs[t] + 1 > runs[t]
            BY <3>1, MaxRunsType DEF RunNumbers, TypeOK, RunTypeOK
        <3>3. <<t, runs[t] + 1>> \notin expired BY <3>2 DEF ContextOf
        <3> QED BY <3>1, <3>3 DEF SteadyOf, InProgress, RunId
    <2>6. CASE RetryIsDue(t)
        BY <2>6 DEF RetryIsDue, Forward, runVars, SteadyOf, InProgress, TypeOK, QueueTypeOK
    <2>7. ~Abandon(t) /\ ~Recover(t) BY DEF Abandon, Recover, SteadyOf
    <2> QED BY <2>1, <2>2, <2>3, <2>4, <2>5, <2>6, <2>7 DEF Worker, WorkerStep
<1> QED BY <1>1, <1>3, <1>4

(* The steps of the API leave the workers alone. *)
LEMMA CallSteady ==
    ASSUME TypeOK, UNCHANGED <<server, runVars>>,
           \A t \in Tasks : taskState'[t] = taskState[t]
                            \/ (taskState[t] = "none" /\ taskState'[t] = "pending" /\ ~InProgress(t)),
           SteadyInv, BudgetInv', Spared({"crash", "stop"})' => Spared({"crash", "stop"})
    PROVE  SteadyInv'
BY DEF SteadyInv, ContextOf, SteadyOf, InProgress, Abandoned, RunId, runVars

(* What SteadyInv says under every fault survives every step. *)
LEMMA SteadyStep ==
    ASSUME TypeOK, RecordsInv, SteadyInv, [Next]_vars
    PROVE  SteadyInv'
<1>1. BudgetInv' BY BudgetStep DEF SteadyInv, TypeOK
<1>2. ASSUME Spared({"crash", "stop"})'
      PROVE  Spared({"crash", "stop"}) /\ ~Fault("crash") /\ ~Fault("stop")
    <2>1. {"crash", "stop"} \in SUBSET FaultKinds BY DEF FaultKinds
    <2> QED BY <1>2, <2>1, SparedStep DEF SteadyInv, TypeOK
<1>3. CASE \E t \in Tasks : Worker(t)
    <2>1. PICK t \in Tasks : Worker(t) BY <1>3
    <2>2. \A u \in Tasks : ContextOf(u)' BY <2>1, WorkerContext DEF SteadyInv, RecordsInv
    <2>3. Spared({"crash", "stop"})' => server' = "running" /\ \A u \in Tasks : SteadyOf(u)'
        BY <1>2, <2>1, WorkerSteady DEF SteadyInv, RecordsInv
    <2> QED BY <1>1, <2>2, <2>3 DEF SteadyInv
<1>4. CASE (\E e \in Errors : Ingest(e)) \/ (\E r \in Retries : Retry(r)) \/ (\E g \in Readers : Read(g))
    <2>1. UNCHANGED server BY <1>4, CallStops
    <2>2. UNCHANGED runVars
        BY <1>4 DEF Ingest, Retry, Read
    <2>3. \A t \in Tasks : taskState'[t] = taskState[t]
                           \/ (taskState[t] = "none" /\ taskState'[t] = "pending")
        <3>1. CASE (\E e \in Errors : Ingest(e)) \/ (\E r \in Retries : Retry(r))
            BY <3>1, IngestLocal, RetryLocal DEF CallFrame, RecordsInv
        <3>2. CASE \E g \in Readers : Read(g) BY <3>2 DEF Read, ReadStep, queueVars
        <3> QED BY <1>4, <3>1, <3>2
    <2>4. \A t \in Tasks : taskState[t] = "none" => ~InProgress(t)
        BY DEF RecordsInv, CallsInv, Returned
    <2> QED BY <1>1, <1>2, <2>1, <2>2, <2>3, <2>4, CallSteady
<1>5. CASE Crash \/ Exit
    <2>1. \A t \in Tasks : pc'[t] = "idle" BY <1>5 DEF Crash, Exit, Restart
    <2>2. UNCHANGED <<runs, expired>> BY <1>5 DEF Crash, Exit, Restart
    <2>3. \A t \in Tasks : ContextOf(t)'
        BY <2>1, <2>2 DEF SteadyInv, ContextOf, Abandoned, InProgress
    <2>4. ~Spared({"crash", "stop"})'
        BY <1>2, <1>5 DEF Crash, Exit, SteadyInv
    <2> QED BY <1>1, <2>3, <2>4 DEF SteadyInv
<1>6. CASE BeginShutdown
    <2>1. UNCHANGED <<taskState, runVars>> BY <1>6 DEF BeginShutdown
    <2>2. \A t \in Tasks : ContextOf(t)'
        BY <2>1 DEF SteadyInv, ContextOf, Abandoned, InProgress, RunId, runVars
    <2>3. ~Spared({"crash", "stop"})' BY <1>2, <1>6 DEF BeginShutdown
    <2> QED BY <1>1, <2>2, <2>3 DEF SteadyInv
<1>7. CASE UNCHANGED vars
    <2>1. \A t \in Tasks : taskState'[t] = taskState[t] BY <1>7 DEF vars, queueVars
    <2>2. UNCHANGED <<server, runVars>> BY <1>7 DEF vars, queueVars
    <2> QED BY <1>1, <1>2, <2>1, <2>2, CallSteady
<1> QED BY <1>3, <1>4, <1>5, <1>6, <1>7 DEF Next, Quiet

THEOREM SteadyInvariant == Spec => []SteadyInv
<1>1. Init => SteadyInv
    <2> SUFFICES ASSUME Init PROVE SteadyInv OBVIOUS
    <2> USE DEF Init, RunInit, QueueInit, FaultsInit
    <2>1. BudgetInv BY DEF BudgetInv
    <2>2. \A t \in Tasks : ContextOf(t) /\ SteadyOf(t)
        BY DEF ContextOf, SteadyOf, Abandoned, InProgress
    <2> QED BY <2>1, <2>2 DEF SteadyInv
<1> QED BY <1>1, SteadyStep, TypeCorrect, RecordsInvariant, PTL DEF Spec

-----------------------------------------------------------------------------
(* Job rows are closed while the database answers and the process lives.   *)

(* The row of the stage a run is in is running only while the run works on *)
(* that stage: a step that leaves the stage closes the row, unless the     *)
(* context of the run has expired.                                         *)
LEMMA StageCloses ==
    ASSUME TypeOK, CallsInv, JobsInv, NEW t \in Tasks, Worker(t), ~Fault("db"),
           JobOf(t) \in JobIds, jobs'[JobOf(t)] = "running",
           jobs[JobOf(t)] = "running" => RunId(t) \in expired \/ pc[t] \in Working
    PROVE  RunId(t) \in expired' \/ (JobOf(t)' = JobOf(t) /\ pc'[t] \in Working)
<1> USE DEF TypeOK, RunTypeOK
<1>1. expired \subseteq expired' BY OnlyExpires
<1>2. jobs[JobOf(t)] = RowOf(t, stage[t]) /\ stage[t] \in Stages BY DEF JobOf, RowOf
<1>3. CASE StartJob(t)
    <2>1. CASE InsertJob(JobOf(t)) /\ Proceed(t, IF stage[t] = "gitlab" THEN "branch" ELSE "call")
        BY <1>3, <2>1 DEF StartJob, Proceed, Goto, JobOf, Working
    <2>2. CASE UNCHANGED jobs BY <1>2, <1>3, <2>2 DEF StartJob, JobsInv, JobsOf
    <2> QED BY <1>3, <2>1, <2>2 DEF StartJob
<1>4. CASE FinishJob(t)
    <2>1. ~UpdateJob(JobOf(t), "succeeded") BY DEF UpdateJob, StoreTypeOK
    <2> QED BY <1>1, <1>4, <2>1, StatementsAnswer DEF FinishJob
<1>5. CASE FailJob(t)
    <2>1. ~UpdateJob(JobOf(t), "failed") BY DEF UpdateJob, StoreTypeOK
    <2> QED BY <1>5, <2>1 DEF FailJob
<1>6. CASE Triage(t) \/ Localize(t) \/ Fix(t)
    BY <1>6 DEF Triage, Localize, Fix, AskModel, Abort, Goto, JobOf, Working
<1>7. CASE PushBranch(t) \/ PushCommit(t) \/ OpenMR(t)
    BY <1>7 DEF PushBranch, PushCommit, OpenMR, GitLabWrite, Proceed, Abort, Goto, JobOf, Working
<1>8. CASE RecordTriage(t) \/ SaveMR(t)
    BY <1>8 DEF RecordTriage, SaveMR, Proceed, Abort, Goto, JobOf, Working
<1>9. CASE LoadError(t) \/ MarkProcessing(t) \/ SkipError(t) \/ MarkFixed(t) \/ MarkFailed(t)
           \/ Settle(t)
    <2>1. pc[t] \notin Working /\ UNCHANGED jobs
        BY <1>9 DEF LoadError, MarkProcessing, SkipError, MarkFixed, Conclude, MarkFailed, Settle,
           storeVars, Working
    <2> QED BY <1>1, <2>1
<1>10. CASE Dequeue(t)
    <2>1. ~InProgress(t) /\ UNCHANGED jobs
        BY <1>10 DEF Dequeue, Take, CallsInv, Returned, storeVars
    <2> QED BY <1>1, <2>1 DEF InProgress, Working
<1>11. CASE DeadlineExpires(t) \/ Abandon(t) \/ RetryIsDue(t) \/ Recover(t)
    <2>1. UNCHANGED <<jobs, pc, runs, stage>>
        BY <1>11 DEF DeadlineExpires, Abandon, RetryIsDue, Recover, storeVars, runVars
    <2> QED BY <1>1, <2>1 DEF JobOf
<1> QED BY <1>3, <1>4, <1>5, <1>6, <1>7, <1>8, <1>9, <1>10, <1>11 DEF Worker, WorkerStep, RunStep

LEMMA WorkerCloses ==
    ASSUME TypeOK, RecordsInv, JobsClosed, NEW t \in Tasks, Worker(t), ~Fault("db")
    PROVE  JobsClosed'
<1> SUFFICES ASSUME NEW u \in Tasks, NEW n \in RunNumbers, NEW s \in Stages,
                    jobs'[<<u, n, s>>] = "running"
             PROVE  <<u, n>> \in expired' \/ (<<u, n, s>> = JobOf(u)' /\ pc'[u] \in Working)
    BY DEF JobsClosed
<1>1. WorkerFrame(t) /\ expired \subseteq expired' BY WorkerLocal, OnlyExpires
<1>2. <<u, n, s>> \in JobIds BY DEF JobIds
<1>3. jobs[<<u, n, s>>] = "running" =>
          <<u, n>> \in expired \/ (<<u, n, s>> = JobOf(u) /\ pc[u] \in Working)
    BY DEF JobsClosed
<1>4. CASE <<u, n, s>> = JobOf(t)
    <2>1. u = t /\ <<u, n>> = RunId(t) BY <1>4 DEF JobOf, RunId
    <2> QED BY <1>2, <1>3, <1>4, <2>1, StageCloses DEF RecordsInv
<1>5. CASE <<u, n, s>> # JobOf(t)
    <2>1. jobs[<<u, n, s>>] = "running" BY <1>1, <1>2, <1>5 DEF WorkerFrame
    <2>2. u # t => JobOf(u)' = JobOf(u) /\ pc'[u] = pc[u] BY <1>1 DEF WorkerFrame, JobOf
    <2> QED BY <1>1, <1>3, <1>5, <2>1, <2>2
<1> QED BY <1>4, <1>5

(* As long as no statement has failed and the process has not crashed, a   *)
(* job row stays "running" only if its run met its deadline or was cut off *)
(* by a shutdown: runTriage, runLocalize, runFix and runGitLab close what  *)
(* they open on every path (stages.go, gitlab.go), whatever the model and  *)
(* GitLab answer and however the runs of other tasks interleave.           *)
THEOREM JobRowsClose == Spec => [](Spared({"db", "crash"}) => JobsClosed)
<1>1. Init => ClosedInv
    <2> SUFFICES ASSUME Init PROVE JobsClosed BY DEF ClosedInv
    <2>1. \A j \in JobIds : jobs[j] = "absent" BY DEF Init, StoreInit
    <2> QED BY <2>1 DEF JobsClosed, JobIds
<1>2. ASSUME TypeOK, RecordsInv, SteadyInv, ClosedInv, [Next]_vars
      PROVE  ClosedInv'
    <2> SUFFICES ASSUME Spared({"db", "crash"})' PROVE JobsClosed' BY DEF ClosedInv
    <2>1. {"db", "crash"} \in SUBSET FaultKinds BY DEF FaultKinds
    <2>2. JobsClosed /\ ~Fault("db") /\ ~Fault("crash")
        BY <1>2, <2>1, SparedStep DEF SteadyInv, TypeOK, ClosedInv
    <2>3. CASE \E t \in Tasks : Worker(t) BY <1>2, <2>2, <2>3, WorkerCloses
    <2>4. CASE Exit
        <3>1. \A t \in Tasks : pc[t] # "idle" => RunId(t) \in expired
            BY <1>2, <2>4 DEF Exit, SteadyInv, ContextOf, InProgress
        <3>2. \A t \in Tasks : JobOf(t) = <<t, runs[t], stage[t]>> /\ RunId(t) = <<t, runs[t]>>
            BY DEF JobOf, RunId
        <3>3. UNCHANGED <<jobs, expired>> BY <2>4 DEF Exit, Restart, storeVars
        <3> QED BY <2>2, <3>1, <3>2, <3>3 DEF JobsClosed, Working
    <2>5. CASE UNCHANGED <<jobs, runVars>> BY <2>2, <2>5 DEF JobsClosed, JobOf, runVars
    <2>6. UNCHANGED <<jobs, runVars>> \/ Exit \/ \E t \in Tasks : Worker(t)
        BY <1>2, <2>2 DEF Next, Quiet, vars, storeVars, Ingest, IngestStep, CheckFingerprint, Insert,
           EnqueueNew, MarkUnqueued, Retry, RetryStep, ReadForRetry, ResetStatus, EnqueueRetry, Read,
           ReadStep, Crash, BeginShutdown
    <2> QED BY <2>3, <2>4, <2>5, <2>6
<1>3. ClosedInv => (Spared({"db", "crash"}) => JobsClosed) BY DEF ClosedInv
<1> QED BY <1>1, <1>2, <1>3, TypeCorrect, RecordsInvariant, SteadyInvariant, PTL DEF Spec

-----------------------------------------------------------------------------
(* The status of an error and the state of its only task.                  *)

(* A worker has a task, writes the status of no other error, and nobody    *)
(* takes a task out of the queue's memory.                                 *)
LEMMA WorkerHasTask ==
    ASSUME TypeOK, CallsInv, NEW t \in Tasks, Worker(t)
    PROVE  taskState[t] # "none" /\ taskState'[t] # "none"
<1> USE DEF TypeOK, QueueTypeOK
<1>1. CASE RunStep(t) \/ DeadlineExpires(t)
    <2>1. taskState[t] # "none" BY <1>1, RunHoldsTask DEF CallsInv, Returned
    <2>2. CASE UNCHANGED <<taskState, retried>> BY <2>1, <2>2
    <2>3. CASE Settle(t) BY <2>1, <2>3 DEF Settle, Complete, Fail
    <2> QED BY <1>1, <2>2, <2>3, RunHoldsTask
<1>2. CASE Dequeue(t) \/ RetryIsDue(t) \/ Recover(t) \/ Abandon(t)
    BY <1>2 DEF Dequeue, RetryIsDue, Recover, Abandon, Take, Forward, Requeue, Fail
<1> QED BY <1>1, <1>2 DEF Worker, WorkerStep

LEMMA OnlyOwnStatus ==
    ASSUME TypeOK, NEW t \in Tasks, Worker(t), NEW e \in Errors, e # payload[t]
    PROVE  status'[e] = status[e]
<1>1. ASSUME NEW s, UpdateErrorStatus(payload[t], s) PROVE status'[e] = status[e]
    BY <1>1 DEF UpdateErrorStatus, TypeOK, StoreTypeOK
<1>2. UNCHANGED status \/ \E s : UpdateErrorStatus(payload[t], s)
    BY DEF Worker, WorkerStep, RunStep, storeVars, LoadError, MarkProcessing, StartJob, FinishJob,
       FailJob, Triage, Localize, Fix, AskModel, RecordTriage, SkipError, MarkFixed, Conclude, PushBranch,
       PushCommit, OpenMR, GitLabWrite, SaveMR, MarkFailed, Settle, DeadlineExpires, Abandon, Dequeue,
       RetryIsDue, Recover
<1> QED BY <1>1, <1>2

LEMMA TaskStays ==
    ASSUME TypeOK, RecordsInv, [Next]_vars, NEW t \in Tasks, taskState[t] # "none"
    PROVE  taskState'[t] # "none" /\ payload' = payload
<1>1. CASE \E u \in Tasks : Worker(u)
    <2>1. PICK u \in Tasks : Worker(u) BY <1>1
    <2>2. WorkerFrame(u) /\ taskState'[u] # "none"
        BY <2>1, WorkerLocal, WorkerHasTask DEF RecordsInv
    <2> QED BY <2>2 DEF WorkerFrame
<1>2. CASE (\E e \in Errors : Ingest(e)) \/ (\E r \in Retries : Retry(r))
    BY <1>2, IngestLocal, RetryLocal DEF CallFrame, RecordsInv
<1>3. CASE UNCHANGED <<taskState, payload>> BY <1>3
<1>4. (\E g \in Readers : Read(g)) \/ Crash \/ BeginShutdown \/ Exit \/ UNCHANGED vars
      => UNCHANGED <<taskState, payload>>
    BY DEF Read, ReadStep, Crash, BeginShutdown, Exit, Restart, vars, queueVars
<1> QED BY <1>1, <1>2, <1>3, <1>4 DEF Next, Quiet

(* The step of a run that neither writes the status nor returns. *)
Passes(t) ==
    /\ InProgress(t) /\ pc[t] # "settle"
    /\ UNCHANGED <<status, taskState, retried, payload, server>>
    /\ pc'[t] \notin {"idle", "settle"}

(* What a step of a worker is, seen from the status and the queue, while   *)
(* tasks and runs belong together and the database answers.                *)
LEMMA WorkerCases ==
    ASSUME TypeOK, CallsInv, NEW t \in Tasks, Worker(t),
           server = "running", SteadyOf(t), ~Fault("db")
    PROVE  \/ Passes(t)
           \/ pc[t] = "mark" /\ MarkProcessing(t) /\ UpdateErrorStatus(payload[t], "processing")
              /\ pc'[t] = "start"
           \/ pc[t] = "skip" /\ SkipError(t) /\ UpdateErrorStatus(payload[t], "skipped")
              /\ pc'[t] = "settle"
           \/ pc[t] = "fixed" /\ MarkFixed(t) /\ UpdateErrorStatus(payload[t], "fixed")
              /\ pc'[t] = "settle"
           \/ pc[t] = "fail" /\ MarkFailed(t)
              /\ UpdateErrorStatus(payload[t], IF WillRetry(t) THEN "new" ELSE "failed")
              /\ pc'[t] = "settle"
           \/ Settle(t)
           \/ Dequeue(t) \/ RetryIsDue(t)
<1> USE DEF TypeOK, RunTypeOK
<1>1. CASE LoadError(t)
    <2>1. Stored(payload[t]) /\ RunId(t) \notin expired
        BY <1>1 DEF LoadError, SteadyOf, InProgress, CallsInv, Returned
    <2>2. ~StatementFails(t) BY <2>1, StatementsAnswer
    <2> QED BY <1>1, <2>1, <2>2 DEF LoadError, Passes, InProgress, storeVars, queueVars, Proceed, Goto
<1>2. CASE MarkProcessing(t)
    <2>1. ~StatementFails(t) BY <1>2, StatementsAnswer DEF MarkProcessing, SteadyOf
    <2> QED BY <1>2, <2>1 DEF MarkProcessing, Proceed, Goto
<1>3. CASE SkipError(t) \/ MarkFixed(t)
    BY <1>3 DEF SkipError, MarkFixed, Conclude, Passes, InProgress, queueVars, Proceed, Abort, Goto
<1>4. CASE MarkFailed(t) BY <1>4 DEF MarkFailed, Proceed, Goto
<1>5. CASE FinishJob(t)
    BY <1>5 DEF FinishJob, NextStage, Passes, InProgress, queueVars, Proceed, Abort, Goto
<1>6. CASE StartJob(t) \/ RecordTriage(t) \/ SaveMR(t) \/ FailJob(t)
    BY <1>6 DEF StartJob, RecordTriage, SaveMR, FailJob, Passes, InProgress, queueVars, Proceed, Abort, Goto
<1>7. CASE Triage(t) \/ Localize(t) \/ Fix(t)
    BY <1>7 DEF Triage, Localize, Fix, AskModel, Passes, InProgress, storeVars, queueVars, Abort, Goto
<1>8. CASE PushBranch(t) \/ PushCommit(t) \/ OpenMR(t)
    BY <1>8 DEF PushBranch, PushCommit, OpenMR, GitLabWrite, Passes, InProgress, storeVars, queueVars,
       Proceed, Abort, Goto
<1>9. CASE DeadlineExpires(t)
    BY <1>9 DEF DeadlineExpires, Timed, Passes, InProgress, storeVars, queueVars
<1>10. ~Abandon(t) /\ ~Recover(t) BY DEF Abandon, Recover, SteadyOf
<1> QED BY <1>1, <1>2, <1>3, <1>4, <1>5, <1>6, <1>7, <1>8, <1>9, <1>10
        DEF Worker, WorkerStep, RunStep

LEMMA StatusWritten ==
    ASSUME TypeOK, NEW e \in Errors, Stored(e), NEW s, UpdateErrorStatus(e, s)
    PROVE  status'[e] = s /\ status' = [status EXCEPT ![e] = s]
BY DEF UpdateErrorStatus, Stored, TypeOK, StoreTypeOK

(* The worker of the only task of an error. *)
LEMMA SoleWorker ==
    ASSUME TypeOK, RecordsInv, NEW e \in Errors, Worker(e), SoleOf(e), ContextOf(e),
           server = "running", SteadyOf(e), ~Fault("db"),
           \A t \in TasksOf(e) \ {e} : ~EverEnqueued(t)
    PROVE  /\ ingestPc'[e] # "enqueue"
           /\ ingestPc'[e] = "accepted" =>
               /\ taskState'[e] = "retry" \/ (pc'[e] = "settle" /\ WillRetry(e)') => status'[e] = "new"
               /\ status'[e] = "failed" => ~Owes(e)'
<1> USE DEF TypeOK, RunTypeOK, QueueTypeOK
<1>1. e \in Tasks /\ payload[e] = e /\ e \notin Retries BY DEF Tasks, RecordsInv, CallsInv
<1>2. UNCHANGED ingestPc /\ Stored(e) /\ ingestPc[e] # "enqueue"
    BY <1>1, WorkerLocal, WorkerHasTask DEF WorkerFrame, RecordsInv, CallsInv
<1> SUFFICES ASSUME ingestPc[e] = "accepted"
             PROVE  /\ taskState'[e] = "retry" \/ (pc'[e] = "settle" /\ WillRetry(e)') => status'[e] = "new"
                    /\ status'[e] = "failed" => ~Owes(e)'
    BY <1>2
<1>3. /\ taskState[e] = "retry" \/ (pc[e] = "settle" /\ WillRetry(e)) => status[e] = "new"
      /\ status[e] = "failed" => ~Owes(e)
    BY DEF SoleOf
<1>4. InProgress(e) <=> taskState[e] = "active" BY DEF SteadyOf
<1>5. CASE Passes(e)
    BY <1>3, <1>4, <1>5 DEF Passes, InProgress, Owes
<1>6. CASE pc[e] = "mark" /\ MarkProcessing(e) /\ UpdateErrorStatus(payload[e], "processing")
           /\ pc'[e] = "start"
    BY <1>1, <1>2, <1>4, <1>6, StatusWritten DEF MarkProcessing, queueVars, InProgress
<1>7. CASE \/ pc[e] = "skip" /\ SkipError(e) /\ UpdateErrorStatus(payload[e], "skipped")
           \/ pc[e] = "fixed" /\ MarkFixed(e) /\ UpdateErrorStatus(payload[e], "fixed")
    <2>1. status'[e] \in {"skipped", "fixed"} BY <1>1, <1>2, <1>7, StatusWritten
    <2>2. outcome'[e] \in {"go", "stop"} \/ pc'[e] = "fail"
        BY <1>7 DEF SkipError, MarkFixed, Conclude, Proceed, Abort, Goto, ContextOf
    <2>3. taskState'[e] = "active"
        BY <1>4, <1>7 DEF SkipError, MarkFixed, Conclude, queueVars, InProgress
    <2> QED BY <2>1, <2>2, <2>3 DEF WillRetry
<1>8. CASE /\ pc[e] = "fail" /\ MarkFailed(e) /\ pc'[e] = "settle"
           /\ UpdateErrorStatus(payload[e], IF WillRetry(e) THEN "new" ELSE "failed")
    <2>1. status'[e] = IF WillRetry(e) THEN "new" ELSE "failed" BY <1>1, <1>2, <1>8, StatusWritten
    <2>2. WillRetry(e)' = WillRetry(e) /\ taskState'[e] = "active"
        BY <1>4, <1>8 DEF MarkFailed, Proceed, queueVars, WillRetry, InProgress
    <2> QED BY <1>1, <1>2, <1>8, <2>1, <2>2 DEF Owes
<1>9. CASE Settle(e)
    <2>1. /\ pc[e] = "settle" /\ pc'[e] = "idle" /\ UNCHANGED status /\ taskState[e] = "active"
          /\ retried[e] \in Int
        BY <1>1, <1>4, <1>9 DEF Settle, EndRun, Goto, storeVars, InProgress
    <2>2. taskState'[e] \in {"done", "archived", "retry"}
        BY <1>1, <1>9, <2>1 DEF Settle, Complete, Fail, Abandoned
    <2>3. taskState'[e] = "retry" => WillRetry(e)
        BY <1>1, <1>9, <2>1 DEF Settle, Complete, Fail, Abandoned, WillRetry
    <2> QED BY <1>1, <1>2, <1>3, <2>1, <2>2, <2>3 DEF Owes
<1>10. CASE Dequeue(e)
    BY <1>1, <1>3, <1>10 DEF Dequeue, Take, Proceed, Goto, storeVars, Owes
<1>11. CASE RetryIsDue(e)
    BY <1>1, <1>3, <1>4, <1>11 DEF RetryIsDue, Forward, runVars, storeVars, Owes, InProgress
<1> QED BY <1>1, <1>5, <1>6, <1>7, <1>8, <1>9, <1>10, <1>11, WorkerCases DEF RecordsInv

LEMMA SoleIngest ==
    ASSUME TypeOK, RecordsInv, NEW e \in Errors, SoleOf(e), NEW f \in Errors, Ingest(f),
           \A t \in TasksOf(e) \ {e} : ~EverEnqueued(t)
    PROVE  /\ ingestPc'[e] = "enqueue" => status'[e] = "new"
           /\ ingestPc'[e] = "accepted" =>
               /\ taskState'[e] = "retry" \/ (pc'[e] = "settle" /\ WillRetry(e)') => status'[e] = "new"
               /\ status'[e] = "failed" => ~Owes(e)'
<1> USE DEF TypeOK, QueueTypeOK, IngestTypeOK, StoreTypeOK, SoleOf
<1>1. e \in Tasks /\ f \in Tasks /\ e \notin Retries BY DEF Tasks
<1>2. UNCHANGED <<runVars, retried>> BY IngestLocal DEF CallFrame, RecordsInv
<1>3. CASE f # e
    <2>1. /\ status'[e] = status[e] /\ taskState'[e] = taskState[e] /\ ingestPc'[e] = ingestPc[e]
        BY <1>1, <1>3 DEF Ingest, IngestStep, CheckFingerprint, Insert, EnqueueNew, MarkUnqueued,
           storeVars, queueVars, IngestGoto, InsertError, UpdateErrorStatus, Enqueue
    <2> QED BY <1>1, <1>2, <2>1 DEF Owes, WillRetry, runVars
<1>4. CASE f = e /\ EnqueueNew(e)
    <2>1. status'[e] = "new" BY <1>4 DEF EnqueueNew, storeVars
    <2>2. ingestPc'[e] # "enqueue" BY <1>4 DEF EnqueueNew, IngestGoto
    <2> QED BY <2>1
<1>5. CASE f = e /\ Insert(e) BY <1>5 DEF Insert, InsertError, IngestGoto
<1>6. CASE f = e /\ (CheckFingerprint(e) \/ MarkUnqueued(e))
    BY <1>6 DEF CheckFingerprint, MarkUnqueued, IngestGoto
<1> QED BY <1>3, <1>4, <1>5, <1>6 DEF Ingest, IngestStep

LEMMA SoleRetry ==
    ASSUME TypeOK, RecordsInv, NEW e \in Errors, SoleOf(e), NEW r \in Retries, Retry(r),
           \A t \in TasksOf(e) \ {e} : ~EverEnqueued(t)
    PROVE  /\ ingestPc'[e] = "enqueue" => status'[e] = "new"
           /\ ingestPc'[e] = "accepted" =>
               /\ taskState'[e] = "retry" \/ (pc'[e] = "settle" /\ WillRetry(e)') => status'[e] = "new"
               /\ status'[e] = "failed" => ~Owes(e)'
<1> USE DEF TypeOK, QueueTypeOK, StoreTypeOK, SoleOf
<1>1. e \in Tasks /\ r \in Tasks /\ e \notin Retries /\ payload[r] \in Errors BY DEF Tasks
<1>2. UNCHANGED <<runVars, retried>> BY RetryLocal DEF CallFrame, RecordsInv
<1>3. ingestPc' = ingestPc /\ taskState'[e] = taskState[e]
    BY <1>1 DEF Retry, RetryStep, ReadForRetry, ResetStatus, EnqueueRetry, queueVars, Enqueue
<1>4. status'[e] = status[e] \/ status'[e] = "new"
    BY <1>1 DEF Retry, RetryStep, ReadForRetry, ResetStatus, EnqueueRetry, storeVars,
       UpdateErrorStatus
<1>5. Owes(e)' = Owes(e) /\ WillRetry(e)' = WillRetry(e) BY <1>1, <1>2, <1>3 DEF Owes, WillRetry, runVars
<1> QED BY <1>2, <1>3, <1>4, <1>5 DEF runVars

(* As long as the database answers and the process lives, the status of an *)
(* error that only its ingestion has queued tells the state of asynq's     *)
(* retries: willRetry, evaluated by the handler before it returns          *)
(* (worker.go), agrees with what asynq decides afterwards, whatever reads, *)
(* resets and failed enqueues of POST /retry come in between.              *)
THEOREM StatusTellsTruth == Spec => [](Spared({"db", "crash", "stop"}) => StatusTellsRetries)
<1>1. Init => SoleInv
    <2> SUFFICES ASSUME Init, NEW e \in Errors PROVE SoleOf(e) BY DEF SoleInv
    <2> QED BY DEF Init, IngestInit, SoleOf
<1>2. ASSUME TypeOK, RecordsInv, SteadyInv, SoleInv, [Next]_vars
      PROVE  SoleInv'
    <2> SUFFICES ASSUME Spared({"db", "crash", "stop"})', NEW e \in Errors,
                        \A t \in TasksOf(e)' \ {e} : ~EverEnqueued(t)'
                 PROVE  /\ ingestPc'[e] = "enqueue" => status'[e] = "new"
                        /\ ingestPc'[e] = "accepted" =>
                            /\ taskState'[e] = "retry" \/ (pc'[e] = "settle" /\ WillRetry(e)') =>
                                   status'[e] = "new"
                            /\ status'[e] = "failed" => ~Owes(e)'
        BY DEF SoleInv, SoleOf
    <2>1. {"db", "crash", "stop"} \in SUBSET FaultKinds BY DEF FaultKinds
    <2>2. Spared({"db", "crash", "stop"}) /\ ~Fault("db") /\ ~Fault("crash") /\ ~Fault("stop")
        BY <1>2, <2>1, SparedStep DEF SteadyInv, TypeOK
    <2>3. SoleOf(e) /\ server = "running" /\ \A t \in Tasks : SteadyOf(t) /\ ContextOf(t)
        BY <1>2, <2>2 DEF SoleInv, SteadyInv, Spared
    <2>4. payload' = payload
        BY <1>2, WorkerLocal, IngestLocal, RetryLocal DEF Next, Quiet, vars, queueVars, WorkerFrame, CallFrame,
           RecordsInv, Read, ReadStep, Crash, BeginShutdown, Exit, Restart
    <2>5. \A t \in TasksOf(e) \ {e} : ~EverEnqueued(t)
        <3> TAKE t \in TasksOf(e) \ {e}
        <3>1. t \in TasksOf(e)' \ {e} /\ t \in Tasks BY <2>4 DEF TasksOf
        <3> QED BY <1>2, <3>1, TaskStays DEF EverEnqueued
    <2>6. CASE \E t \in Tasks : Worker(t)
        <3>1. PICK t \in Tasks : Worker(t) BY <2>6
        <3>2. CASE t = e BY <1>2, <2>2, <2>3, <2>5, <3>1, <3>2, SoleWorker
        <3>3. CASE t # e
            <4>1. payload[t] # e
                BY <1>2, <2>5, <3>1, <3>3, WorkerHasTask DEF RecordsInv, TasksOf, EverEnqueued
            <4>2. status'[e] = status[e] BY <1>2, <3>1, <4>1, OnlyOwnStatus
            <4>3. e \in Tasks /\ e \notin Retries BY DEF Tasks
            <4>4. /\ UNCHANGED <<ingestPc, retryPc>>
                  /\ taskState'[e] = taskState[e] /\ retried'[e] = retried[e]
                  /\ pc'[e] = pc[e] /\ outcome'[e] = outcome[e]
                BY <1>2, <3>1, <3>3, <4>3, WorkerLocal DEF WorkerFrame
            <4> QED BY <2>3, <2>5, <4>2, <4>3, <4>4 DEF SoleOf, Owes, WillRetry
        <3> QED BY <3>2, <3>3
    <2>7. CASE \E f \in Errors : Ingest(f) BY <1>2, <2>3, <2>5, <2>7, SoleIngest
    <2>8. CASE \E r \in Retries : Retry(r) BY <1>2, <2>3, <2>5, <2>8, SoleRetry
    <2>9. CASE (\E g \in Readers : Read(g)) \/ UNCHANGED vars
        <3>1. UNCHANGED <<status, taskState, retried, pc, outcome, ingestPc, retryPc>>
            BY <2>9 DEF Read, ReadStep, vars, storeVars, queueVars, runVars
        <3> QED BY <2>3, <2>5, <3>1 DEF SoleOf, Owes, WillRetry
    <2>10. ~Crash /\ ~BeginShutdown /\ ~Exit BY <2>2, <2>3 DEF Crash, BeginShutdown, Exit
    <2> QED BY <1>2, <2>6, <2>7, <2>8, <2>9, <2>10 DEF Next, Quiet
<1>3. SoleInv => (Spared({"db", "crash", "stop"}) => StatusTellsRetries)
    BY DEF SoleInv, SoleOf, StatusTellsRetries
<1> QED BY <1>1, <1>2, <1>3, TypeCorrect, RecordsInvariant, SteadyInvariant, PTL DEF Spec

-----------------------------------------------------------------------------
(* What is fixed is reopened by an operator or by another task.            *)

(* A fix is not taken back while the process lives. *)
LEMMA FixKept ==
    ASSUME NEW t \in Tasks, HasFixed(t), mrs \subseteq mrs',
           \A n \in RunNumbers, s \in Stages :
               jobs[<<t, n, s>>] = "succeeded" => jobs'[<<t, n, s>>] = "succeeded",
           \/ taskState'[t] = "done"
           \/ UNCHANGED <<taskState[t], pc[t], outcome[t]>>
    PROVE  HasFixed(t)'
BY DEF HasFixed

(* The task that has fixed an error has nothing more to do but to return.  *)
LEMMA FixerReturns ==
    ASSUME TypeOK, CallsInv, NEW t \in Tasks, SteadyOf(t), HasFixed(t), Worker(t), server = "running"
    PROVE  Settle(t) /\ taskState'[t] = "done" /\ UNCHANGED status
<1> USE DEF TypeOK, QueueTypeOK, RunTypeOK
<1>1. CASE RunStep(t) \/ DeadlineExpires(t)
    <2>1. pc[t] = "settle" /\ taskState[t] = "active" /\ outcome[t] = "go"
        BY <1>1, RunHoldsTask DEF SteadyOf, HasFixed
    <2>2. Settle(t)
        BY <1>1, <2>1 DEF RunStep, DeadlineExpires, LoadError, MarkProcessing, StartJob, Triage,
           Localize, Fix, AskModel, RecordTriage, FinishJob, SkipError, MarkFixed, Conclude,
           PushBranch, PushCommit, OpenMR, GitLabWrite, SaveMR, FailJob, MarkFailed, Timed
    <2> QED BY <2>1, <2>2 DEF Settle, Complete, Abandoned, storeVars
<1>2. ~Dequeue(t) /\ ~RetryIsDue(t) /\ ~Abandon(t) /\ ~Recover(t)
    BY DEF HasFixed, SteadyOf, Dequeue, Take, RetryIsDue, Forward, Abandon, Recover
<1> QED BY <1>1, <1>2 DEF Worker, WorkerStep

(* A run that writes a status goes on to its next call. *)
LEMMA StatusMoves ==
    ASSUME TypeOK, NEW t \in Tasks, Worker(t), status' # status
    PROVE  pc'[t] # pc[t]
<1> USE DEF TypeOK, RunTypeOK
<1>1. MarkProcessing(t) \/ SkipError(t) \/ MarkFixed(t) \/ MarkFailed(t)
    BY DEF Worker, WorkerStep, RunStep, storeVars, LoadError, StartJob, FinishJob, FailJob, Triage,
       Localize, Fix, AskModel, RecordTriage, PushBranch, PushCommit, OpenMR, GitLabWrite, SaveMR,
       Settle, DeadlineExpires, Abandon, Dequeue, RetryIsDue, Recover
<1> QED BY <1>1 DEF MarkProcessing, SkipError, MarkFixed, Conclude, MarkFailed, Proceed, Abort, Goto

LEMMA FinalWorker ==
    ASSUME TypeOK, RecordsInv, NEW e \in Errors, FinalOf(e), server = "running",
           \A u \in Tasks : ContextOf(u) /\ SteadyOf(u), NEW t \in Tasks, Worker(t)
    PROVE  /\ FinalOf(e)'
           /\ status[e] = "fixed" /\ status'[e] # "fixed" =>
                  \E u \in TasksOf(e) : t \in TasksOf(e) /\ t # u /\ HasFixed(u) /\ StepOf(t)
<1> USE DEF TypeOK, QueueTypeOK, RunTypeOK
<1>1. WorkerFrame(t) BY WorkerLocal
<1>2. e \in Tasks /\ payload[e] = e /\ TasksOf(e)' = TasksOf(e)
    BY <1>1 DEF RecordsInv, CallsInv, Tasks, TasksOf, WorkerFrame
<1>3. ingestPc'[e] = "markfailed" => taskState'[e] = "none"
    BY <1>1, <1>2, WorkerHasTask DEF WorkerFrame, FinalOf, RecordsInv
<1>4. ASSUME NEW u \in TasksOf(e), HasFixed(u)
      PROVE  HasFixed(u)' /\ (status'[e] # status[e] => t # u)
    <2>1. u \in Tasks BY DEF TasksOf
    <2>2. mrs \subseteq mrs' BY <1>1 DEF WorkerFrame
    <2>3. \A n \in RunNumbers, s \in Stages :
              jobs[<<u, n, s>>] = "succeeded" => jobs'[<<u, n, s>>] = "succeeded"
        <3>1. \A n \in RunNumbers, s \in Stages : <<u, n, s>> \in JobIds BY <2>1 DEF JobIds
        <3> QED BY <3>1, WorkerRows DEF RecordsInv
    <2>4. CASE u = t
        BY <1>4, <2>1, <2>2, <2>3, <2>4, FixerReturns, FixKept DEF RecordsInv
    <2>5. CASE u # t
        <3>1. UNCHANGED <<taskState[u], pc[u], outcome[u]>>
            BY <1>1, <2>1, <2>5 DEF WorkerFrame
        <3> QED BY <1>4, <2>1, <2>2, <2>3, <2>5, <3>1, FixKept
    <2> QED BY <2>4, <2>5
<1>5. ASSUME status'[e] = "fixed", status[e] # "fixed"
      PROVE  t \in TasksOf(e) /\ HasFixed(t)'
    <2>1. MarkFixed(t) /\ pc[t] = "fixed" /\ e = payload[t] BY <1>5, OnlyMarkFixed
    <2>2. taskState[t] = "active" /\ outcome[t] = "go"
        BY <2>1 DEF SteadyOf, ContextOf, InProgress
    <2>3. /\ UNCHANGED <<taskState, outcome, jobs, mrs, runs>> /\ pc'[t] = "settle"
        BY <1>5, <2>1 DEF MarkFixed, Conclude, queueVars, Proceed, Goto
    <2>4. runs[t] \in RunNumbers BY <2>1, RunNames DEF InProgress
    <2>5. RunId(t) \in mrs /\ \A s \in Stages : RowOf(t, s) = "succeeded"
        BY <2>1 DEF RecordsInv, MergeRequestsInv, MergeRequestOf, JobsInv, JobsOf
    <2> QED BY <2>1, <2>2, <2>3, <2>4, <2>5 DEF TasksOf, HasFixed, RunId, RowOf
<1>6. FinalOf(e)'
    <2>1. CASE status[e] = "fixed"
        <3>1. PICK u \in TasksOf(e) : HasFixed(u) BY <2>1 DEF FinalOf
        <3>2. HasFixed(u)' BY <1>4, <3>1
        <3> QED BY <1>2, <1>3, <3>2 DEF FinalOf
    <2>2. CASE status[e] # "fixed"
        <3>1. status'[e] = "fixed" => \E u \in TasksOf(e) : HasFixed(u)'
            BY <1>5, <2>2
        <3> QED BY <1>2, <1>3, <3>1 DEF FinalOf
    <2> QED BY <2>1, <2>2
<1>7. ASSUME status[e] = "fixed", status'[e] # "fixed"
      PROVE  \E u \in TasksOf(e) : t \in TasksOf(e) /\ t # u /\ HasFixed(u) /\ StepOf(t)
    <2>1. PICK u \in TasksOf(e) : HasFixed(u) BY <1>7 DEF FinalOf
    <2>2. t # u BY <1>4, <1>7, <2>1
    <2>3. t \in TasksOf(e) BY <1>7, OnlyOwnStatus DEF TasksOf
    <2>4. pc'[t] # pc[t] BY <1>7, StatusMoves
    <2> QED BY <2>1, <2>2, <2>3, <2>4 DEF StepOf
<1> QED BY <1>6, <1>7

LEMMA FinalCall ==
    ASSUME TypeOK, RecordsInv, NEW e \in Errors, FinalOf(e), ~Fault("reply"),
           (\E f \in Errors : Ingest(f)) \/ (\E r \in Retries : Retry(r))
    PROVE  /\ FinalOf(e)'
           /\ status[e] = "fixed" /\ status'[e] # "fixed" =>
                  \/ OperatorResets(e)
                  \/ \E u \in TasksOf(e) : e \in TasksOf(e) /\ e # u /\ HasFixed(u) /\ StepOf(e)
<1> USE DEF TypeOK, QueueTypeOK, StoreTypeOK
<1>1. e \in Tasks /\ payload[e] = e /\ e \notin Retries BY DEF RecordsInv, CallsInv, Tasks
<1>2. CallFrame BY IngestLocal, RetryLocal DEF RecordsInv
<1>3. TasksOf(e)' = TasksOf(e) /\ e \in TasksOf(e) BY <1>1, <1>2 DEF CallFrame, TasksOf
<1>4. ASSUME NEW u \in TasksOf(e), HasFixed(u) PROVE HasFixed(u)'
    <2>1. u \in Tasks /\ taskState[u] # "none" BY <1>4 DEF TasksOf, HasFixed
    <2>2. UNCHANGED <<taskState[u], pc[u], outcome[u], jobs, mrs>> BY <1>2, <2>1 DEF CallFrame, runVars
    <2> QED BY <1>4, <2>2 DEF HasFixed
<1>5. status'[e] = "fixed" => \E u \in TasksOf(e)' : HasFixed(u)'
    BY <1>2, <1>3, <1>4 DEF CallFrame, FinalOf
<1>6. CASE \E f \in Errors : Ingest(f)
    <2>1. PICK f \in Errors : Ingest(f) BY <1>6
    <2>2. ingestPc'[e] = "markfailed" => taskState'[e] = "none"
        BY <1>1, <2>1 DEF Ingest, IngestStep, CheckFingerprint, Insert, EnqueueNew, MarkUnqueued,
           IngestTypeOK, IngestGoto, queueVars, Enqueue, RecordsInv, CallsInv, FinalOf, Tasks
    <2>3. ASSUME status[e] = "fixed", status'[e] # "fixed"
          PROVE  \E u \in TasksOf(e) : e # u /\ HasFixed(u) /\ StepOf(e)
        <3>1. MarkUnqueued(e)
            BY <2>1, <2>3 DEF Ingest, IngestStep, CheckFingerprint, Insert, InsertError, Stored,
               FingerprintExists, EnqueueNew, MarkUnqueued, UpdateErrorStatus, storeVars
        <3>2. ingestPc[e] = "markfailed" /\ ingestPc'[e] = "error"
            BY <3>1 DEF MarkUnqueued, IngestGoto, IngestTypeOK
        <3>3. PICK u \in TasksOf(e) : HasFixed(u) BY <2>3 DEF FinalOf
        <3>4. taskState[e] = "none" BY <3>2 DEF FinalOf
        <3>5. u # e BY <3>3, <3>4 DEF HasFixed
        <3> QED BY <3>2, <3>3, <3>5 DEF StepOf
    <2> QED BY <1>3, <1>5, <2>2, <2>3 DEF FinalOf
<1>7. CASE \E r \in Retries : Retry(r)
    <2>1. PICK r \in Retries : Retry(r) BY <1>7
    <2>2. ingestPc' = ingestPc /\ taskState'[e] = taskState[e]
        BY <1>1, <2>1 DEF Retry, RetryStep, ReadForRetry, ResetStatus, EnqueueRetry, queueVars, Enqueue
    <2>3. status'[e] # status[e] => OperatorResets(e)
        BY <2>1 DEF Retry, RetryStep, ReadForRetry, ResetStatus, EnqueueRetry, RetryGoto, RetryTypeOK,
           storeVars, UpdateErrorStatus, OperatorResets
    <2> QED BY <1>5, <2>2, <2>3 DEF FinalOf
<1> QED BY <1>6, <1>7

LEMMA FinalStep ==
    ASSUME TypeOK, RecordsInv, SteadyInv, FinalInv, [Next]_vars, Spared({"reply", "crash", "stop"})',
           NEW e \in Errors
    PROVE  /\ FinalOf(e)'
           /\ status[e] = "fixed" /\ status'[e] # "fixed" =>
                  \/ OperatorResets(e)
                  \/ \E t, u \in TasksOf(e) : t # u /\ HasFixed(u) /\ StepOf(t)
<1>1. {"reply", "crash", "stop"} \in SUBSET FaultKinds BY DEF FaultKinds
<1>2. Spared({"reply", "crash", "stop"}) /\ ~Fault("reply") /\ ~Fault("crash") /\ ~Fault("stop")
    BY <1>1, SparedStep DEF SteadyInv, TypeOK
<1>3. FinalOf(e) /\ server = "running" /\ \A t \in Tasks : ContextOf(t) /\ SteadyOf(t)
    BY <1>2 DEF FinalInv, SteadyInv, Spared
<1>4. CASE \E t \in Tasks : Worker(t) BY <1>3, <1>4, FinalWorker
<1>5. CASE (\E f \in Errors : Ingest(f)) \/ (\E r \in Retries : Retry(r)) BY <1>2, <1>3, <1>5, FinalCall
<1>6. CASE (\E g \in Readers : Read(g)) \/ UNCHANGED vars
    <2>1. UNCHANGED <<status, jobs, mrs, taskState, payload, pc, outcome, ingestPc>>
        BY <1>6 DEF Read, ReadStep, vars, storeVars, queueVars, runVars
    <2> QED BY <1>3, <2>1 DEF FinalOf, HasFixed, TasksOf
<1>7. ~Crash /\ ~BeginShutdown /\ ~Exit BY <1>2, <1>3 DEF Crash, BeginShutdown, Exit
<1> QED BY <1>4, <1>5, <1>6, <1>7 DEF Next, Quiet

THEOREM FinalInvariant == Spec => []FinalInv
<1>1. Init => FinalInv
    BY DEF Init, StoreInit, IngestInit, FinalInv, FinalOf
<1>2. ASSUME TypeOK, RecordsInv, SteadyInv, FinalInv, [Next]_vars PROVE FinalInv'
    BY <1>2, FinalStep DEF FinalInv
<1> QED BY <1>1, <1>2, TypeCorrect, RecordsInvariant, SteadyInvariant, PTL DEF Spec

(* The run that fixes an error is the last of its task, however often      *)
(* earlier ones failed, expired or lost a statement, and whatever other    *)
(* runs of the error do meanwhile: a fixed error is reopened by the reset  *)
(* of an operator or by a write of another task.  A lost answer of Redis,  *)
(* a crash or a shutdown in the wrong moment would break it.               *)
THEOREM FixedStays == Spec /\ []Spared({"reply", "crash", "stop"}) => FixedIsFinal
<1>1. ASSUME TypeOK, RecordsInv, SteadyInv, FinalInv, [Next]_vars, Spared({"reply", "crash", "stop"})'
      PROVE  [\A e \in Errors :
                 status[e] = "fixed" /\ status'[e] # "fixed" =>
                     \/ OperatorResets(e)
                     \/ \E t, u \in TasksOf(e) : t # u /\ HasFixed(u) /\ StepOf(t)]_vars
    BY <1>1, FinalStep
<1> QED BY <1>1, TypeCorrect, RecordsInvariant, SteadyInvariant, FinalInvariant, PTL DEF Spec, FixedIsFinal

-----------------------------------------------------------------------------
(* Every merge request of a task beyond the first is paid for by a fault.  *)

LEMMA MaxRunsInt == MaxRuns \in Int
BY MaxRunsType

LEMMA CountRuns ==
    ASSUME NEW t, NEW S \in SUBSET ({t} \X RunNumbers), NEW r
    PROVE  /\ Cardinality(S) \in Nat /\ Cardinality(S \ {r}) \in Nat
           /\ Cardinality(S) <= Cardinality(S \ {r}) + 1
           /\ r \notin S => Cardinality(S \ {r}) = Cardinality(S)
<1>1. IsFiniteSet(RunNumbers) BY FS_Interval, MaxRunsInt DEF RunNumbers
<1>2. IsFiniteSet({t}) BY FS_Singleton
<1>3. IsFiniteSet({t} \X RunNumbers) BY <1>1, <1>2, FS_Product
<1>4. IsFiniteSet(S) BY <1>3, FS_Subset
<1>5. IsFiniteSet(S \ {r})
      /\ Cardinality(S \ {r}) = IF r \in S THEN Cardinality(S) - 1 ELSE Cardinality(S)
    BY <1>4, FS_RemoveElement
<1>6. Cardinality(S) \in Nat /\ Cardinality(S \ {r}) \in Nat BY <1>4, <1>5, FS_CardinalityType
<1> QED BY <1>5, <1>6

(* The MR of the current run makes the difference of at most one. *)
LEMMA MRCounts ==
    ASSUME NEW t \in Tasks
    PROVE  /\ Cardinality(OpenMRsOf(t)) \in Nat /\ Cardinality(EarlierMRsOf(t)) \in Nat
           /\ Cardinality(OpenMRsOf(t)) <= Cardinality(EarlierMRsOf(t)) + 1
           /\ repo[RunId(t)] # "mr" => Cardinality(EarlierMRsOf(t)) = Cardinality(OpenMRsOf(t))
<1>1. OpenMRsOf(t) \in SUBSET ({t} \X RunNumbers) BY DEF OpenMRsOf
<1>2. repo[RunId(t)] # "mr" => RunId(t) \notin OpenMRsOf(t) BY DEF OpenMRsOf
<1> QED BY <1>1, <1>2, CountRuns DEF EarlierMRsOf

LEMMA MRCountsNext ==
    ASSUME NEW t \in Tasks
    PROVE  /\ Cardinality(OpenMRsOf(t)') \in Nat /\ Cardinality(EarlierMRsOf(t)') \in Nat
           /\ Cardinality(OpenMRsOf(t)') <= Cardinality(EarlierMRsOf(t)') + 1
           /\ repo'[RunId(t)'] # "mr" => Cardinality(EarlierMRsOf(t)') = Cardinality(OpenMRsOf(t)')
<1>1. OpenMRsOf(t)' \in SUBSET ({t} \X RunNumbers) BY DEF OpenMRsOf
<1>2. repo'[RunId(t)'] # "mr" => RunId(t)' \notin OpenMRsOf(t)' BY DEF OpenMRsOf
<1>3. EarlierMRsOf(t)' = OpenMRsOf(t)' \ {RunId(t)'} BY DEF EarlierMRsOf
<1> QED BY <1>1, <1>2, <1>3, CountRuns

(* Faults are counted and never forgotten. *)
LEMMA FaultsCounted ==
    ASSUME TypeOK, [Next]_vars
    PROVE  /\ FaultsUsed \in Int /\ FaultsUsed' \in Int /\ FaultsUsed <= FaultsUsed'
           /\ \A k \in FaultKinds : Fault(k) => FaultsUsed' = FaultsUsed + 1
<1> DEFINE Left(f) == f["db"] + f["redis"] + f["reply"] + f["gitlab"]
                      + f["deadline"] + f["crash"] + f["stop"]
<1> USE DEF TypeOK, FaultsTypeOK, FaultKinds
<1>1. /\ \A k \in FaultKinds : FaultBudget[k] \in Int /\ faults[k] \in Int
    OBVIOUS
<1>2. FaultsUsed = Left(FaultBudget) - Left(faults) /\ Left(FaultBudget) \in Int /\ Left(faults) \in Int
    BY <1>1 DEF FaultsUsed, Used
<1>3. ASSUME NEW k \in FaultKinds, Fault(k)
      PROVE  FaultsUsed' = FaultsUsed + 1
    <2>1. faults'[k] = faults[k] - 1 /\ \A l \in FaultKinds \ {k} : faults'[l] = faults[l]
        BY <1>3 DEF Fault
    <2> QED BY <1>1, <2>1 DEF FaultsUsed, Used
<1>4. NoFault => FaultsUsed' = FaultsUsed BY DEF NoFault, FaultsUsed, Used
<1> QED BY <1>2, <1>3, <1>4, StepFaults

(* Only the calls of stage gitlab change what GitLab has, for their run.   *)
LEMMA WorkerRepo ==
    ASSUME TypeOK, NEW t \in Tasks, Worker(t)
    PROVE  /\ \A r \in RunIds : r # RunId(t) => repo'[r] = repo[r]
           /\ pc[t] \notin {"branch", "commit", "openmr"} => UNCHANGED repo
<1> USE DEF TypeOK, GitLabTypeOK
<1>1. ASSUME NEW from, NEW to, Advance(RunId(t), from, to)
      PROVE  \A r \in RunIds : r # RunId(t) => repo'[r] = repo[r]
    BY <1>1 DEF Advance
<1>2. CASE PushBranch(t) \/ PushCommit(t) \/ OpenMR(t)
    BY <1>1, <1>2 DEF PushBranch, PushCommit, OpenMR, GitLabWrite, ReportsError, CreateBranch, CommitFile,
       CreateMR
<1>3. CASE LoadError(t) \/ MarkProcessing(t) \/ StartJob(t) \/ Triage(t) \/ Localize(t) \/ Fix(t)
           \/ RecordTriage(t) \/ FinishJob(t) \/ SkipError(t) \/ MarkFixed(t) \/ SaveMR(t) \/ FailJob(t)
           \/ MarkFailed(t) \/ Settle(t)
    BY <1>3 DEF LoadError, MarkProcessing, StartJob, Triage, Localize, Fix, AskModel, RecordTriage,
       FinishJob, SkipError, MarkFixed, Conclude, SaveMR, FailJob, MarkFailed, Settle
<1>4. CASE DeadlineExpires(t) \/ Abandon(t) \/ Dequeue(t) \/ RetryIsDue(t) \/ Recover(t)
    BY <1>4 DEF DeadlineExpires, Abandon, Dequeue, RetryIsDue, Recover
<1> QED BY <1>2, <1>3, <1>4 DEF Worker, WorkerStep, RunStep

(* A run that has not yet asked for its MR has none; and one that meets an *)
(* error has none either, or its context had expired, or this very step is *)
(* a fault.                                                                *)
AnFault == \E k \in FaultKinds : Fault(k)

Unasked(t) == pc[t] \in BeforeMR \/ (pc[t] = "finish" /\ stage[t] # "gitlab")

Failing == {"failjob", "fail", "settle"}

LEMMA RunPays ==
    ASSUME TypeOK, ControlInv, PaidInv, NEW t \in Tasks, RunStep(t), ~Settle(t)
    PROVE  /\ pc'[t] \notin Failing => outcome'[t] \in {"go", "stop"}
           /\ outcome'[t] = "stop" => stage'[t] # "gitlab"
           /\ Unasked(t)' => repo'[RunId(t)] # "mr"
           /\ \/ outcome'[t] \in {"go", "stop"}
              \/ outcome'[t] = outcome[t] /\ UNCHANGED repo
              \/ repo'[RunId(t)] # "mr"
              \/ RunId(t) \in expired
              \/ AnFault
<1> USE DEF TypeOK, RunTypeOK, GitLabTypeOK, Failing, Unasked
<1>0. PaidOf(t) /\ ControlOf(t) BY DEF PaidInv, ControlInv
<1>1. /\ pc[t] \notin Failing => outcome[t] \in {"go", "stop"}
      /\ outcome[t] = "stop" => stage[t] # "gitlab"
    BY <1>0 DEF PaidOf
<1>2. Unasked(t) => repo[RunId(t)] # "mr" BY <1>0 DEF PaidOf
<1>3. StatementFails(t) => RunId(t) \in expired \/ AnFault BY DEF StatementFails, AnFault, FaultKinds
<1>4. InProgress(t) /\ RunId(t) \in RunIds BY RunHoldsTask, RunNames
<1>5. CASE LoadError(t) \/ MarkProcessing(t) \/ StartJob(t) \/ RecordTriage(t) \/ SkipError(t)
    <2>1. pc[t] \in BeforeMR /\ UNCHANGED repo
        BY <1>5 DEF LoadError, MarkProcessing, StartJob, RecordTriage, SkipError, Conclude, BeforeMR
    <2>2. /\ pc'[t] \notin Failing => outcome'[t] = outcome[t]
          /\ outcome'[t] = "stop" => outcome[t] = "stop"
          /\ stage' = stage
        BY <1>5 DEF LoadError, MarkProcessing, StartJob, RecordTriage, SkipError, Conclude, Proceed,
           Abort, Goto
    <2> QED BY <1>1, <1>2, <2>1, <2>2 DEF BeforeMR
<1>6. CASE Triage(t) \/ Localize(t) \/ Fix(t)
    <2>1. pc[t] = "call" /\ UNCHANGED repo
        BY <1>6 DEF Triage, Localize, Fix, AskModel
    <2>2. /\ pc'[t] \notin Failing => outcome'[t] \in {"go", "stop"}
          /\ outcome'[t] = "stop" => stage'[t] # "gitlab"
        BY <1>6 DEF Triage, Localize, Fix, AskModel, Abort, Goto
    <2> QED BY <1>2, <2>1, <2>2 DEF BeforeMR
<1>7. CASE FinishJob(t)
    <2>1. pc[t] = "finish" /\ UNCHANGED repo BY <1>7 DEF FinishJob
    <2>2. CASE NextStage(t)
        <3>1. /\ UNCHANGED outcome
              /\ \/ pc'[t] = "skip" /\ outcome[t] = "stop" /\ stage' = stage
                 \/ pc'[t] = "fixed" /\ outcome[t] = "go"
                 \/ pc'[t] = "start" /\ outcome[t] = "go" /\ stage[t] # "gitlab"
            BY <2>2 DEF NextStage, Proceed, Goto
        <3> QED BY <1>1, <1>2, <2>1, <3>1 DEF BeforeMR
    <2>3. CASE StatementFails(t) /\ Abort(t, "retryable", "fail")
        BY <1>3, <2>3 DEF Abort, Goto, BeforeMR
    <2> QED BY <1>7, <2>2, <2>3 DEF FinishJob
<1>8. CASE MarkFixed(t) \/ SaveMR(t)
    <2>1. pc[t] \in {"fixed", "savemr"} /\ stage[t] = "gitlab" /\ UNCHANGED repo
        BY <1>0, <1>8 DEF MarkFixed, Conclude, SaveMR, ControlOf
    <2>2. CASE Proceed(t, "settle") \/ Proceed(t, "finish")
        BY <1>1, <2>1, <2>2 DEF Proceed, Goto, BeforeMR
    <2>3. CASE StatementFails(t) /\ (Abort(t, "retryable", "fail") \/ Abort(t, "retryable", "failjob"))
        BY <1>3, <2>1, <2>3 DEF Abort, Goto, BeforeMR
    <2> QED BY <1>8, <2>2, <2>3 DEF MarkFixed, Conclude, SaveMR
<1>9. CASE FailJob(t) \/ MarkFailed(t)
    BY <1>1, <1>9 DEF FailJob, MarkFailed, Proceed, Goto, BeforeMR
<1>10. CASE PushBranch(t) \/ PushCommit(t) \/ OpenMR(t)
    <2>1. pc[t] \in BeforeMR /\ repo[RunId(t)] # "mr" /\ UNCHANGED runs
        BY <1>2, <1>10 DEF PushBranch, PushCommit, OpenMR, GitLabWrite, BeforeMR
    <2>2. CASE \E l \in {"commit", "openmr", "savemr"} : Proceed(t, l)
        <3>1. pc'[t] \in {"commit", "openmr"} => repo'[RunId(t)] # "mr"
            BY <1>4, <1>10, <2>1, <2>2 DEF PushBranch, PushCommit, OpenMR, GitLabWrite, CreateBranch,
               CommitFile, Advance, Proceed, Abort, Goto
        <3> QED BY <1>1, <2>1, <2>2, <3>1 DEF Proceed, Goto, BeforeMR
    <2>3. CASE Abort(t, "retryable", "failjob")
        <3>1. UNCHANGED repo \/ AnFault
            BY <1>10, <2>1, <2>3 DEF PushBranch, PushCommit, OpenMR, GitLabWrite, ReportsError, AnFault,
               FaultKinds, Proceed, Abort, Goto
        <3> QED BY <2>1, <2>3, <3>1 DEF Abort, Goto, BeforeMR
    <2> QED BY <1>10, <2>2, <2>3 DEF PushBranch, PushCommit, OpenMR, GitLabWrite
<1> QED BY <1>5, <1>6, <1>7, <1>8, <1>9, <1>10 DEF RunStep

(* The MRs of a task whose run goes on or comes to its end. *)
LEMMA RunCounts ==
    ASSUME TypeOK, NEW t \in Tasks, Worker(t), UNCHANGED runs
    PROVE  /\ EarlierMRsOf(t)' = EarlierMRsOf(t)
           /\ UNCHANGED repo => OpenMRsOf(t)' = OpenMRsOf(t)
<1>1. RunId(t)' = RunId(t) BY DEF RunId
<1>2. \A r \in {t} \X RunNumbers : r # RunId(t) => repo'[r] = repo[r]
    BY WorkerRepo DEF RunIds
<1> QED BY <1>1, <1>2 DEF EarlierMRsOf, OpenMRsOf

LEMMA PaidRun ==
    ASSUME TypeOK, ControlInv, PaidInv, NEW t \in Tasks, Worker(t), RunStep(t), ~Settle(t)
    PROVE  PaidOf(t)'
<1>1. InProgress(t) /\ UNCHANGED taskState BY RunHoldsTask
<1>2. UNCHANGED <<runs, expired, server>>
    BY RunCounter, OnlyExpires, WorkerStops, <1>1 DEF RunStep, LoadError, MarkProcessing, StartJob, Triage,
       Localize, Fix, AskModel, RecordTriage, FinishJob, SkipError, MarkFixed, Conclude, PushBranch,
       PushCommit, OpenMR, GitLabWrite, SaveMR, FailJob, MarkFailed
<1>3. /\ PaidOf(t) /\ RunId(t)' = RunId(t) /\ EarlierMRsOf(t)' = EarlierMRsOf(t)
      /\ UNCHANGED repo => OpenMRsOf(t)' = OpenMRsOf(t)
    BY <1>2, RunCounts DEF PaidInv, RunId
<1>4. pc'[t] # "idle"
    BY DEF RunStep, LoadError, MarkProcessing, StartJob, Triage, Localize, Fix, AskModel, RecordTriage,
       FinishJob, NextStage, SkipError, MarkFixed, Conclude, PushBranch, PushCommit, OpenMR, GitLabWrite,
       SaveMR, FailJob, MarkFailed, Proceed, Abort, Goto, TypeOK, RunTypeOK
<1>5. \A n \in RunNumbers : n > runs'[t] => repo'[<<t, n>>] = "absent"
    <2> SUFFICES ASSUME NEW n \in RunNumbers, n > runs[t] PROVE repo'[<<t, n>>] = "absent"
        BY <1>2
    <2>1. runs[t] \in Int /\ n \in Int BY CountTypes DEF RunNumbers
    <2>2. <<t, n>> # RunId(t) /\ <<t, n>> \in RunIds BY <2>1 DEF RunId, RunIds
    <2> QED BY <1>3, <2>2, WorkerRepo DEF PaidOf
<1>6. Cardinality(EarlierMRsOf(t)') <= FaultsUsed'
    BY <1>1, <1>3, MRCounts, FaultsCounted DEF PaidOf, Next
<1>7. CutShort(t)' => Cardinality(EarlierMRsOf(t)') + 1 <= FaultsUsed'
    <2>1. CutShort(t)' = CutShort(t) BY <1>2, <1>3 DEF CutShort
    <2> QED BY <1>1, <1>3, <2>1, MRCounts, FaultsCounted DEF PaidOf, Next
<1>8. ASSUME outcome'[t] \in {"retryable", "final"}
      PROVE  Cardinality(OpenMRsOf(t)') <= FaultsUsed'
    <2>1. CASE outcome'[t] = outcome[t] /\ UNCHANGED repo
        BY <1>1, <1>3, <1>8, <2>1, MRCounts, FaultsCounted DEF PaidOf, Next
    <2>2. CASE repo'[RunId(t)] # "mr" BY <1>3, <1>6, <2>2, MRCountsNext
    <2>3. CASE RunId(t) \in expired
        <3>1. CutShort(t)' BY <1>2, <1>3, <2>3 DEF CutShort
        <3> QED BY <1>7, <3>1, MRCountsNext, FaultsCounted DEF Next
    <2>4. CASE AnFault
        <3>1. FaultsUsed' = FaultsUsed + 1 BY <2>4, FaultsCounted DEF AnFault, Next
        <3> QED BY <1>1, <1>3, <3>1, MRCounts, MRCountsNext, FaultsCounted DEF PaidOf, Next
    <2> QED BY <1>8, <2>1, <2>2, <2>3, <2>4, RunPays
<1>9. /\ pc'[t] \notin Failing => outcome'[t] \in {"go", "stop"}
      /\ outcome'[t] = "stop" => stage'[t] # "gitlab"
      /\ Unasked(t)' => repo'[RunId(t)'] # "mr"
    BY <1>3, RunPays
<1> QED BY <1>4, <1>5, <1>6, <1>7, <1>8, <1>9 DEF PaidOf, InProgress, Failing, Unasked

(* The end of a run, and its start. *)
LEMMA PaidSettle ==
    ASSUME TypeOK, PaidInv, NEW t \in Tasks, ContextOf(t), Worker(t), Settle(t)
    PROVE  PaidOf(t)'
<1>1. /\ pc'[t] = "idle" /\ outcome'[t] = "go" /\ pc[t] = "settle" /\ InProgress(t)
      /\ UNCHANGED <<runs, repo, faults>>
    BY DEF Settle, EndRun, Goto, TypeOK, RunTypeOK, InProgress
<1>2. /\ PaidOf(t) /\ EarlierMRsOf(t)' = EarlierMRsOf(t) /\ OpenMRsOf(t)' = OpenMRsOf(t)
      /\ FaultsUsed' = FaultsUsed /\ FaultsUsed \in Int
    BY <1>1, RunCounts, FaultsCounted DEF PaidInv, FaultsUsed, Used, Next
<1>3. Cardinality(OpenMRsOf(t)) <= FaultsUsed + 1
    BY <1>1, <1>2, MRCounts DEF PaidOf
<1>4. taskState'[t] \notin {"done", "archived"} => Cardinality(OpenMRsOf(t)) <= FaultsUsed
    <2>1. CASE outcome[t] \in {"retryable", "final"} BY <1>1, <1>2, <2>1 DEF PaidOf
    <2>2. CASE Complete(t) BY <2>2 DEF Complete, TypeOK, QueueTypeOK
    <2>3. CASE Abandoned(t)
        <3>1. CutShort(t) BY <2>3 DEF ContextOf, CutShort
        <3> QED BY <1>1, <1>2, <3>1, MRCounts DEF PaidOf
    <2> QED BY <2>1, <2>2, <2>3 DEF Settle
<1> QED BY <1>1, <1>2, <1>3, <1>4 DEF PaidOf, InProgress, BeforeMR

LEMMA PaidDequeue ==
    ASSUME TypeOK, CallsInv, PaidInv, NEW t \in Tasks, ContextOf(t), Worker(t), Dequeue(t)
    PROVE  PaidOf(t)'
<1>1. /\ taskState[t] = "pending" /\ server = "running" /\ ~InProgress(t)
      /\ UNCHANGED <<repo, faults, expired, server, stage, outcome>> /\ pc'[t] = "load"
      /\ runs'[t] = runs[t] + 1 /\ runs[t] < MaxRuns
    BY DEF Dequeue, Take, Proceed, Goto, TypeOK, RunTypeOK, CallsInv, Returned
<1>2. PaidOf(t) /\ runs[t] \in Nat BY MaxRunsType DEF PaidInv, TypeOK, RunTypeOK
<1>3. runs[t] + 1 \in RunNumbers /\ RunId(t)' = <<t, runs[t] + 1>>
    BY <1>1, <1>2, MaxRunsInt DEF RunNumbers, RunId
<1>4. repo'[RunId(t)'] = "absent" /\ RunId(t)' \notin expired'
    BY <1>1, <1>2, <1>3 DEF PaidOf, ContextOf
<1>5. OpenMRsOf(t)' = OpenMRsOf(t) BY <1>1 DEF OpenMRsOf
<1>6. Cardinality(EarlierMRsOf(t)') = Cardinality(OpenMRsOf(t)')
    BY <1>4, MRCountsNext
<1>7. FaultsUsed' = FaultsUsed BY <1>1 DEF FaultsUsed, Used
<1>8. Cardinality(OpenMRsOf(t)') <= FaultsUsed' BY <1>1, <1>2, <1>5, <1>7 DEF PaidOf
<1>9. \A n \in RunNumbers : n > runs'[t] => repo'[<<t, n>>] = "absent"
    BY <1>1, <1>2 DEF PaidOf, RunNumbers
<1>10. ~CutShort(t)' BY <1>1, <1>4 DEF CutShort
<1>11. outcome'[t] \in {"go", "stop"} /\ (outcome'[t] = "stop" => stage'[t] # "gitlab")
    BY <1>1, <1>2 DEF PaidOf, InProgress
<1> QED BY <1>1, <1>4, <1>6, <1>8, <1>9, <1>10, <1>11 DEF PaidOf, InProgress

(* A task that keeps its run, its place and its MRs stays paid for. *)
LEMMA PaidKept ==
    ASSUME [Next]_vars, TypeOK, NEW t \in Tasks, PaidOf(t),
           \A n \in RunNumbers : repo'[<<t, n>>] = repo[<<t, n>>],
           pc'[t] = pc[t], stage'[t] = stage[t], outcome'[t] = outcome[t], runs'[t] = runs[t],
           taskState'[t] \notin {"done", "archived"} => taskState[t] \notin {"done", "archived"},
           InProgress(t) /\ CutShort(t)' => CutShort(t) \/ AnFault
    PROVE  PaidOf(t)'
<1>1. RunId(t)' = RunId(t) BY DEF RunId
<1>2. OpenMRsOf(t)' = OpenMRsOf(t) BY DEF OpenMRsOf
<1>3. EarlierMRsOf(t)' = EarlierMRsOf(t) BY <1>1, <1>2 DEF EarlierMRsOf
<1>4. InProgress(t) => repo'[RunId(t)'] = repo[RunId(t)]
    BY <1>1, RunNames DEF RunId
<1>5. AnFault => FaultsUsed' = FaultsUsed + 1 BY FaultsCounted DEF AnFault
<1>6. /\ FaultsUsed \in Int /\ FaultsUsed' \in Int /\ FaultsUsed <= FaultsUsed'
      /\ Cardinality(OpenMRsOf(t)) \in Int /\ Cardinality(EarlierMRsOf(t)) \in Int
    BY MRCounts, FaultsCounted
<1>7. InProgress(t)' = InProgress(t) BY DEF InProgress
<1>8. Unasked(t) => InProgress(t) BY DEF Unasked, BeforeMR, InProgress
<1>9. Unasked(t)' => repo'[RunId(t)'] # "mr" BY <1>4, <1>8 DEF PaidOf, Unasked
<1>10. InProgress(t) => Cardinality(EarlierMRsOf(t)') <= FaultsUsed' BY <1>3, <1>6 DEF PaidOf
<1>11. InProgress(t) /\ CutShort(t)' => Cardinality(EarlierMRsOf(t)') + 1 <= FaultsUsed'
    BY <1>3, <1>5, <1>6 DEF PaidOf
<1>12. /\ InProgress(t) /\ outcome[t] \in {"retryable", "final"} =>
              Cardinality(OpenMRsOf(t)') <= FaultsUsed'
       /\ ~InProgress(t) /\ taskState'[t] \notin {"done", "archived"} =>
              Cardinality(OpenMRsOf(t)') <= FaultsUsed'
       /\ ~InProgress(t) => Cardinality(OpenMRsOf(t)') <= FaultsUsed' + 1
    BY <1>2, <1>6 DEF PaidOf
<1>13. /\ pc'[t] \notin {"failjob", "fail", "settle"} => outcome'[t] \in {"go", "stop"}
       /\ outcome'[t] = "stop" => stage'[t] # "gitlab"
       /\ \A n \in RunNumbers : n > runs'[t] => repo'[<<t, n>>] = "absent"
    BY DEF PaidOf
<1> QED BY <1>7, <1>9, <1>10, <1>11, <1>12, <1>13 DEF PaidOf, Unasked

LEMMA PaidWorker ==
    ASSUME TypeOK, RecordsInv, SteadyInv, PaidInv, NEW t \in Tasks, Worker(t)
    PROVE  PaidInv'
<1>1. WorkerFrame(t) /\ server' = server BY WorkerLocal, WorkerStops
<1>2. ContextOf(t) /\ CallsInv /\ ControlInv BY DEF SteadyInv, RecordsInv
<1>3. PaidOf(t)'
    <2>1. CASE RunStep(t) /\ ~Settle(t) BY <1>2, <2>1, PaidRun
    <2>2. CASE Settle(t) BY <1>2, <2>2, PaidSettle
    <2>3. CASE Dequeue(t) BY <1>2, <2>3, PaidDequeue
    <2>4. CASE DeadlineExpires(t)
        <3>1. UNCHANGED <<repo, pc, stage, outcome, runs, taskState>> /\ AnFault
            BY <2>4 DEF DeadlineExpires, queueVars, AnFault, FaultKinds
        <3> QED BY <3>1, PaidKept DEF Next, PaidInv
    <2>5. CASE Abandon(t)
        <3>1. UNCHANGED <<repo, pc, stage, outcome, runs>> /\ taskState[t] = "active" /\ CutShort(t)
            BY <2>5 DEF Abandon, Requeue, CutShort
        <3> QED BY <3>1, PaidKept DEF Next, PaidInv
    <2>6. CASE RetryIsDue(t) \/ Recover(t)
        <3>1. /\ UNCHANGED <<repo, pc, stage, outcome, runs, expired>>
              /\ taskState[t] \in {"active", "retry"}
            BY <2>6 DEF RetryIsDue, Recover, Forward, runVars
        <3>2. CutShort(t)' = CutShort(t) BY <1>1, <3>1 DEF CutShort, RunId
        <3> QED BY <3>1, <3>2, PaidKept DEF Next, PaidInv
    <2> QED BY <2>1, <2>2, <2>3, <2>4, <2>5, <2>6 DEF Worker, WorkerStep
<1>4. ASSUME NEW u \in Tasks, u # t
      PROVE  PaidOf(u)'
    <2>1. RunId(u)' = RunId(u) /\ RunId(u) # RunId(t) /\ expired' \subseteq expired \cup {RunId(t)}
        BY <1>1, <1>4, OnlyExpires DEF WorkerFrame, RunId
    <2>2. CutShort(u)' => CutShort(u) BY <1>1, <2>1 DEF CutShort
    <2>3. \A n \in RunNumbers : repo'[<<u, n>>] = repo[<<u, n>>]
        BY <1>4, WorkerRepo DEF RunIds, RunId
    <2> QED BY <1>1, <1>4, <2>2, <2>3, PaidKept DEF Next, PaidInv, WorkerFrame
<1> QED BY <1>3, <1>4 DEF PaidInv

(* What a restart cuts off has been paid for, by the crash or as soon as   *)
(* the shutdown began.                                                     *)
LEMMA PaidRestart ==
    ASSUME TypeOK, SteadyInv, PaidInv, Crash \/ Exit
    PROVE  PaidInv'
<1> SUFFICES ASSUME NEW t \in Tasks PROVE PaidOf(t)' BY DEF PaidInv
<1>1. /\ pc'[t] = "idle" /\ outcome'[t] = "go" /\ stage'[t] = "triage"
      /\ UNCHANGED <<repo, runs, taskState>>
    BY DEF Crash, Exit, Restart
<1>2. PaidOf(t) /\ OpenMRsOf(t)' = OpenMRsOf(t) BY <1>1 DEF PaidInv, OpenMRsOf
<1>3. /\ FaultsUsed \in Int /\ FaultsUsed' \in Int /\ FaultsUsed <= FaultsUsed'
      /\ Crash => FaultsUsed' = FaultsUsed + 1
    BY FaultsCounted DEF Next, Crash, FaultKinds
<1>4. InProgress(t) => Cardinality(OpenMRsOf(t)) <= FaultsUsed'
    <2>1. CASE Crash BY <1>2, <1>3, <2>1, MRCounts DEF PaidOf
    <2>2. CASE Exit
        <3>1. CutShort(t) BY <2>2 DEF Exit, CutShort
        <3> QED BY <1>2, <1>3, <3>1, MRCounts DEF PaidOf
    <2> QED BY <2>1, <2>2
<1>5. /\ taskState[t] \notin {"done", "archived"} => Cardinality(OpenMRsOf(t)) <= FaultsUsed'
      /\ Cardinality(OpenMRsOf(t)) <= FaultsUsed' + 1
    BY <1>2, <1>3, <1>4, MRCounts DEF PaidOf
<1> QED BY <1>1, <1>2, <1>5 DEF PaidOf, InProgress, BeforeMR

THEOREM PaidInvariant == Spec => []PaidInv
<1>1. Init => PaidInv
    <2> SUFFICES ASSUME Init, NEW t \in Tasks PROVE PaidOf(t) BY DEF PaidInv
    <2>1. /\ pc[t] = "idle" /\ outcome[t] = "go" /\ stage[t] = "triage"
          /\ \A r \in RunIds : repo[r] = "absent"
        BY DEF Init, RunInit, GitLabInit
    <2>2. OpenMRsOf(t) = {} BY <2>1 DEF OpenMRsOf, RunIds
    <2>3. FaultsUsed = 0
        BY DEF Init, FaultsInit, FaultsUsed, Used, FaultKinds
    <2>4. Cardinality(OpenMRsOf(t)) = 0 BY <2>2, FS_EmptySet
    <2> QED BY <2>1, <2>3, <2>4 DEF PaidOf, InProgress, BeforeMR, RunIds
<1>2. ASSUME TypeOK, RecordsInv, SteadyInv, PaidInv, [Next]_vars
      PROVE  PaidInv'
    <2>1. CASE \E t \in Tasks : Worker(t) BY <1>2, <2>1, PaidWorker
    <2>2. CASE Crash \/ Exit BY <1>2, <2>2, PaidRestart
    <2>3. CASE BeginShutdown
        <3>1. AnFault /\ UNCHANGED <<repo, runVars, taskState>>
            BY <2>3 DEF BeginShutdown, AnFault, FaultKinds
        <3> QED BY <1>2, <3>1, PaidKept DEF PaidInv, runVars
    <2>4. CASE (\E e \in Errors : Ingest(e)) \/ (\E r \in Retries : Retry(r))
        <3>1. CallFrame BY <1>2, <2>4, IngestLocal, RetryLocal DEF RecordsInv
        <3> QED BY <1>2, <3>1, PaidKept DEF PaidInv, CallFrame, runVars, CutShort, RunId
    <2>5. CASE (\E g \in Readers : Read(g)) \/ UNCHANGED vars
        <3>1. UNCHANGED <<repo, runVars, taskState, server>>
            BY <2>5 DEF Read, ReadStep, vars, queueVars
        <3> QED BY <1>2, <3>1, PaidKept DEF PaidInv, runVars, CutShort, RunId
    <2> QED BY <1>2, <2>1, <2>2, <2>3, <2>4, <2>5 DEF Next, Quiet
<1> QED BY <1>1, <1>2, TypeCorrect, RecordsInvariant, SteadyInvariant, PTL DEF Spec

(* A needless merge request is a consequence of a fault: whatever a retry, *)
(* an operator or asynq repeats, a task has no more MRs than one and the   *)
(* faults that have happened.                                              *)
THEOREM ExtraMRsArePaid == Spec => []ExtraMRsCostFaults
<1>1. ASSUME TypeOK, PaidInv PROVE ExtraMRsCostFaults
    <2> SUFFICES ASSUME NEW t \in Tasks PROVE Cardinality(OpenMRsOf(t)) <= 1 + FaultsUsed
        BY DEF ExtraMRsCostFaults
    <2>1. FaultsUsed \in Int
        BY <1>1 DEF TypeOK, FaultsTypeOK, FaultsUsed, Used, FaultKinds
    <2> QED BY <1>1, <2>1, MRCounts DEF PaidInv, PaidOf
<1> QED BY <1>1, TypeCorrect, PaidInvariant, PTL

=====================
