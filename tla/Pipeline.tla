------------------------------ MODULE Pipeline ------------------------------
(***************************************************************************)
(* internal/pipeline: HandleProcessError and the four stages it runs, on   *)
(* up to WorkerConcurrency tasks at a time.  Every call on the database,   *)
(* the model or GitLab is a step of its own, because the steps of other    *)
(* runs and of the API interleave between them.                            *)
(*                                                                         *)
(* pc[t] names the call that the run of task t makes next:                 *)
(*   load mark           GetError; status "processing"                     *)
(*   start               InsertJob of the current stage                    *)
(*   call                ResolveFile, Complete, ParseJSON, checks on the   *)
(*                       result (stages triage, localize, fix)             *)
(*   record              UpdateErrorTriage                                 *)
(*   branch commit openmr savemr   the calls of stage gitlab               *)
(*   finish              UpdateJob succeeded                               *)
(*   skip fixed          the final status of a run that succeeds           *)
(*   failjob fail        UpdateJob failed; markFailed                      *)
(*   settle              the handler has returned                          *)
(***************************************************************************)
EXTENDS TaskQueue, GitLab, FiniteSets

CONSTANT WorkerConcurrency

ASSUME ConcurrencyAssumption == WorkerConcurrency \in Nat \ {0}

VARIABLES
    pc,
    stage,     \* the stage the run is in
    outcome,   \* what run() has come to: go on, stop early, or an error
    runs,      \* how often the handler has been started
    expired    \* the runs whose context has expired or was cancelled

runVars == <<pc, stage, outcome, runs, expired>>

Labels == {"idle", "load", "mark", "start", "call", "record", "branch",
           "commit", "openmr", "savemr", "finish", "skip", "fixed",
           "failjob", "fail", "settle"}

\* The labels that a run may reach late enough for its deadline.
Timed == {"start", "call", "record", "branch", "commit", "openmr", "savemr",
          "finish", "skip", "fixed"}

\* "final" is an error that carries asynq.SkipRetry after classify.
Outcomes == {"go", "stop", "retryable", "final"}

RunTypeOK ==
    /\ pc \in [Tasks -> Labels]
    /\ stage \in [Tasks -> Stages]
    /\ outcome \in [Tasks -> Outcomes]
    /\ runs \in [Tasks -> 0..MaxRuns]
    /\ \A t \in Tasks : pc[t] # "idle" => runs[t] > 0
    /\ expired \subseteq RunIds

RunInit ==
    /\ pc = [t \in Tasks |-> "idle"]
    /\ stage = [t \in Tasks |-> "triage"]
    /\ outcome = [t \in Tasks |-> "go"]
    /\ runs = [t \in Tasks |-> 0]
    /\ expired = {}

RunId(t) == <<t, runs[t]>>
JobOf(t) == <<t, runs[t], stage[t]>>
InProgress(t) == pc[t] # "idle"

\* Asynq has given the task back to the queue while its handler goes on.
Abandoned(t) == InProgress(t) /\ taskState[t] # "active"

(* Mutant: the retry count itself. *)
AttemptNumber_ZeroBased(t) == retried[t]

(* What the run writes into the column attempt of its job rows. *)
AttemptNumber(t) == retried[t] + 1

(* Mutant: retried <= maxRetry. *)
WillRetry_OffByOne(t) == outcome[t] = "retryable" /\ retried[t] <= MaxRetry

(* willRetry; Fail(t, outcome[t] = "final") of TaskQueue is asynq's answer. *)
WillRetry(t) == outcome[t] = "retryable" /\ retried[t] < MaxRetry

Goto(t, label) == pc' = [pc EXCEPT ![t] = label]

Proceed(t, label) == Goto(t, label) /\ UNCHANGED <<stage, outcome>>

Abort(t, o, label) ==
    /\ Goto(t, label)
    /\ outcome' = [outcome EXCEPT ![t] = o]
    /\ UNCHANGED stage

(* A statement under the context of the run, and how it can fail. *)
StatementRuns(t)  == RunId(t) \notin expired /\ NoFault
StatementFails(t) == (RunId(t) \in expired /\ NoFault) \/ Fault("db")

-----------------------------------------------------------------------------

Dequeue(t) ==
    /\ server = "running"
    /\ Cardinality({u \in Tasks : InProgress(u)}) < WorkerConcurrency
    /\ runs[t] < MaxRuns
    /\ Take(t)
    /\ Proceed(t, "load")
    /\ runs' = [runs EXCEPT ![t] = @ + 1]
    /\ UNCHANGED <<storeVars, retried, payload, server, repo, faults, expired>>

(* The early returns of HandleProcessError reach neither classify nor      *)
(* markFailed; only a missing row is marked SkipRetry.                     *)
LoadError(t) ==
    /\ pc[t] = "load"
    /\ \/ StatementRuns(t) /\ Stored(payload[t]) /\ Proceed(t, "mark")
       \/ StatementRuns(t) /\ ~Stored(payload[t]) /\ Abort(t, "final", "settle")
       \/ StatementFails(t) /\ Abort(t, "retryable", "settle")
    /\ UNCHANGED <<storeVars, queueVars, repo, runs, expired>>

MarkProcessing(t) ==
    /\ pc[t] = "mark"
    /\ \/ /\ StatementRuns(t)
          /\ UpdateErrorStatus(payload[t], "processing")
          /\ Proceed(t, "start")
       \/ StatementFails(t) /\ UNCHANGED status /\ Abort(t, "retryable", "settle")
    /\ UNCHANGED <<fingerprint, triaged, jobs, mrs, queueVars, repo, runs, expired>>

StartJob(t) ==
    /\ pc[t] = "start"
    /\ \/ /\ StatementRuns(t)
          /\ InsertJob(JobOf(t))
          /\ Proceed(t, IF stage[t] = "gitlab" THEN "branch" ELSE "call")
       \/ StatementFails(t) /\ UNCHANGED jobs /\ Abort(t, "retryable", "fail")
    /\ UNCHANGED <<status, fingerprint, triaged, mrs, queueVars, repo, runs, expired>>

(* Mutant: the request is not bound to the context of the run. *)
AskModel_Unbounded(t, results, next) ==
    /\ pc[t] = "call" /\ RunId(t) \notin expired
    /\ \/ \E o \in results : Abort(t, o, next)
       \/ \E o \in {"retryable", "final"} : Abort(t, o, "failjob")
    /\ NoFault
    /\ UNCHANGED <<storeVars, queueVars, repo, runs, expired>>

(* The model (and for a fix GitLab, for the file) is asked, and its answer *)
(* is parsed and checked.  The stage goes on with one of results, or fails:*)
(* for good on a truncated or refused answer or a file that GitLab does    *)
(* not have, for this time on everything else.                             *)
AskModel(t, results, next) ==
    /\ pc[t] = "call"
    /\ \/ RunId(t) \notin expired /\ \E o \in results : Abort(t, o, next)
       \/ RunId(t) \notin expired /\ Abort(t, "final", "failjob")
       \/ Abort(t, "retryable", "failjob")
    /\ NoFault
    /\ UNCHANGED <<storeVars, queueVars, repo, runs, expired>>

(* "stop": not to be fixed, or risk level low; confidence low. *)
Triage(t)   == stage[t] = "triage"   /\ AskModel(t, {"go", "stop"}, "record")
Localize(t) == stage[t] = "localize" /\ AskModel(t, {"go", "stop"}, "finish")
Fix(t)      == stage[t] = "fix"      /\ AskModel(t, {"go"}, "finish")

RecordTriage(t) ==
    /\ pc[t] = "record"
    /\ \/ StatementRuns(t) /\ UpdateErrorTriage(payload[t]) /\ Proceed(t, "finish")
       \/ /\ StatementFails(t)
          /\ UNCHANGED triaged
          /\ Abort(t, "retryable", "failjob")
    /\ UNCHANGED <<status, fingerprint, jobs, mrs, queueVars, repo, runs, expired>>

Following == [triage |-> "localize", localize |-> "fix", fix |-> "gitlab"]

(* What run() does after the job of a stage is recorded as succeeded. *)
NextStage(t) ==
    \/ outcome[t] = "stop" /\ Proceed(t, "skip")
    \/ outcome[t] = "go" /\ stage[t] = "gitlab" /\ Proceed(t, "fixed")
    \/ /\ outcome[t] = "go" /\ stage[t] # "gitlab"
       /\ stage' = [stage EXCEPT ![t] = Following[stage[t]]]
       /\ Goto(t, "start")
       /\ UNCHANGED outcome

(* On an error the stage returns without failJob: its row stays "running". *)
FinishJob(t) ==
    /\ pc[t] = "finish"
    /\ \/ StatementRuns(t) /\ UpdateJob(JobOf(t), "succeeded") /\ NextStage(t)
       \/ StatementFails(t) /\ UNCHANGED jobs /\ Abort(t, "retryable", "fail")
    /\ UNCHANGED <<status, fingerprint, triaged, mrs, queueVars, repo, runs, expired>>

(* The last statement of a run that succeeds: skipped, or fixed. *)
Conclude(t, label, s) ==
    /\ pc[t] = label
    /\ \/ /\ StatementRuns(t)
          /\ UpdateErrorStatus(payload[t], s)
          /\ Proceed(t, "settle")
       \/ StatementFails(t) /\ UNCHANGED status /\ Abort(t, "retryable", "fail")
    /\ UNCHANGED <<fingerprint, triaged, jobs, mrs, queueVars, repo, runs, expired>>

SkipError(t) == Conclude(t, "skip", "skipped")
MarkFixed(t) == Conclude(t, "fixed", "fixed")

-----------------------------------------------------------------------------

(* Mutant: the error is returned without failJob. *)
GitLabWrite_JobLeftOpen(t, label, Write, next) ==
    /\ pc[t] = label
    /\ \/ RunId(t) \notin expired /\ NoFault /\ Write /\ Proceed(t, next)
       \/ NoFault /\ UNCHANGED repo /\ Abort(t, "retryable", "fail")
    /\ UNCHANGED <<storeVars, queueVars, runs, expired>>

(* A write of stage gitlab.  An expired context stops it before it is sent. *)
GitLabWrite(t, label, Write, next) ==
    /\ pc[t] = label
    /\ \/ RunId(t) \notin expired /\ NoFault /\ Write /\ Proceed(t, next)
       \/ RunId(t) \notin expired /\ ReportsError(Write) /\ Abort(t, "retryable", "failjob")
       \/ /\ RunId(t) \in expired
          /\ NoFault /\ UNCHANGED repo
          /\ Abort(t, "retryable", "failjob")
    /\ UNCHANGED <<storeVars, queueVars, runs, expired>>

PushBranch(t) == GitLabWrite(t, "branch", CreateBranch(RunId(t)), "commit")
PushCommit(t) == GitLabWrite(t, "commit", CommitFile(RunId(t)), "openmr")

(* Mutant: the status code of the answer is not checked. *)
OpenMR_AnyStatus(t) ==
    /\ pc[t] = "openmr" /\ NoFault
    /\ CreateMR(RunId(t)) \/ UNCHANGED repo
    /\ Proceed(t, "savemr")
    /\ UNCHANGED <<storeVars, queueVars, runs, expired>>

(* Mutant: any error counts as a merge request that exists already. *)
OpenMR_Existing(t) ==
    /\ pc[t] = "openmr" /\ RunId(t) \notin expired
    /\ \/ NoFault /\ CreateMR(RunId(t)) /\ Proceed(t, "savemr")
       \/ ReportsError(CreateMR(RunId(t))) /\ Proceed(t, "finish")
    /\ UNCHANGED <<storeVars, queueVars, runs, expired>>

OpenMR(t) == GitLabWrite(t, "openmr", CreateMR(RunId(t)), "savemr")

(* Mutant: the error of InsertMergeRequest is only logged. *)
SaveMR_BestEffort(t) ==
    /\ pc[t] = "savemr"
    /\ \/ StatementRuns(t) /\ InsertMergeRequest(RunId(t))
       \/ StatementFails(t) /\ UNCHANGED mrs
    /\ Proceed(t, "finish")
    /\ UNCHANGED <<status, fingerprint, triaged, jobs, queueVars, repo, runs, expired>>

SaveMR(t) ==
    /\ pc[t] = "savemr"
    /\ \/ StatementRuns(t) /\ InsertMergeRequest(RunId(t)) /\ Proceed(t, "finish")
       \/ StatementFails(t) /\ UNCHANGED mrs /\ Abort(t, "retryable", "failjob")
    /\ UNCHANGED <<status, fingerprint, triaged, jobs, queueVars, repo, runs, expired>>

-----------------------------------------------------------------------------

(* failJob and markFailed use a detached context and ignore an error. *)
FailJob(t) ==
    /\ pc[t] = "failjob"
    /\ \/ NoFault /\ UpdateJob(JobOf(t), "failed")
       \/ Fault("db") /\ UNCHANGED jobs
    /\ Proceed(t, "fail")
    /\ UNCHANGED <<status, fingerprint, triaged, mrs, queueVars, repo, runs, expired>>

(* Mutant: "failed" although asynq will retry. *)
MarkFailed_Always(t) ==
    /\ pc[t] = "fail" /\ NoFault
    /\ UpdateErrorStatus(payload[t], "failed")
    /\ Proceed(t, "settle")
    /\ UNCHANGED <<fingerprint, triaged, jobs, mrs, queueVars, repo, runs, expired>>

(* Mutant: "new" although asynq will not retry. *)
MarkFailed_Never(t) ==
    /\ pc[t] = "fail" /\ NoFault
    /\ UpdateErrorStatus(payload[t], "new")
    /\ Proceed(t, "settle")
    /\ UNCHANGED <<fingerprint, triaged, jobs, mrs, queueVars, repo, runs, expired>>

MarkFailed(t) ==
    /\ pc[t] = "fail"
    /\ \/ /\ NoFault
          /\ UpdateErrorStatus(payload[t], IF WillRetry(t) THEN "new" ELSE "failed")
       \/ Fault("db") /\ UNCHANGED status
    /\ Proceed(t, "settle")
    /\ UNCHANGED <<fingerprint, triaged, jobs, mrs, queueVars, repo, runs, expired>>

EndRun(t) ==
    /\ Goto(t, "idle")
    /\ stage' = [stage EXCEPT ![t] = "triage"]
    /\ outcome' = [outcome EXCEPT ![t] = "go"]

(* Mutant: the handler returns an error although the run succeeded. *)
Settle_StaleError(t) ==
    /\ pc[t] = "settle"
    /\ Fail(t, outcome[t] = "final")
    /\ EndRun(t)
    /\ UNCHANGED <<storeVars, payload, server, repo, faults, runs, expired>>

(* What the handler of an abandoned task returns is not looked at. *)
Settle(t) ==
    /\ pc[t] = "settle"
    /\ \/ taskState[t] = "active" /\ outcome[t] \in {"go", "stop"} /\ Complete(t)
       \/ /\ taskState[t] = "active" /\ outcome[t] \in {"retryable", "final"}
          /\ Fail(t, outcome[t] = "final")
       \/ Abandoned(t) /\ UNCHANGED <<taskState, retried>>
    /\ EndRun(t)
    /\ UNCHANGED <<storeVars, payload, server, repo, faults, runs, expired>>

DeadlineExpires(t) ==
    /\ pc[t] \in Timed
    /\ RunId(t) \notin expired
    /\ Fault("deadline")
    /\ expired' = expired \cup {RunId(t)}
    /\ UNCHANGED <<storeVars, queueVars, repo, pc, stage, outcome, runs>>

-----------------------------------------------------------------------------

(* A graceful stop gives up on a run: its context is cancelled and its     *)
(* task goes back to the queue, but the handler goes on until it returns   *)
(* or the process exits.                                                   *)
Abandon(t) ==
    /\ server = "stopping" /\ InProgress(t)
    /\ Requeue(t)
    /\ expired' = expired \cup {RunId(t)}
    /\ UNCHANGED <<storeVars, payload, server, repo, faults, pc, stage, outcome, runs>>

RetryIsDue(t) ==
    /\ server = "running"
    /\ Forward(t)
    /\ UNCHANGED <<storeVars, payload, server, repo, faults, runVars>>

(* Asynq finds a task whose worker died with the process. *)
Recover(t) ==
    /\ server = "running"
    /\ taskState[t] = "active" /\ ~InProgress(t)
    /\ Fail(t, FALSE)
    /\ UNCHANGED <<storeVars, payload, server, repo, faults, runVars>>

RunStep(t) ==
    \/ LoadError(t) \/ MarkProcessing(t) \/ StartJob(t)
    \/ Triage(t) \/ Localize(t) \/ Fix(t) \/ RecordTriage(t)
    \/ FinishJob(t) \/ SkipError(t) \/ MarkFixed(t)
    \/ PushBranch(t) \/ PushCommit(t) \/ OpenMR(t) \/ SaveMR(t)
    \/ FailJob(t) \/ MarkFailed(t) \/ Settle(t)

WorkerStep(t) ==
    RunStep(t) \/ DeadlineExpires(t) \/ Abandon(t) \/ Dequeue(t) \/ RetryIsDue(t) \/ Recover(t)

=============================================================================
