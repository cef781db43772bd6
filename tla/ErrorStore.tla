----------------------------- MODULE ErrorStore -----------------------------
(***************************************************************************)
(* The SQLite database: the tables errors, jobs and merge_requests and the *)
(* statements of internal/db/queries.go that write them.  The pool holds   *)
(* one connection (db.go), so a statement is one atomic step; whether it   *)
(* succeeds is decided by the caller's context and by module Faults.       *)
(*                                                                         *)
(* A row of errors is named by the ingestion call that generated its uuid. *)
(* A row of jobs, whose key is a uuid, is named by the run that generated  *)
(* it and the stage: a run inserts at most one row per stage.  A run is    *)
(* named by its task and by how often the handler was started for it.      *)
(***************************************************************************)
EXTENDS Faults

CONSTANTS
    Errors,        \* ingestion calls, and the ids of the rows they insert
    Retries,       \* calls of POST /retry/{errorId}
    Fingerprints,  \* values of the fingerprint column
    MaxRetry       \* pipeline.MaxRetry: how often a failed task is retried

ASSUME CallsAssumption == Errors \cap Retries = {}
ASSUME MaxRetryAssumption == MaxRetry \in Nat

\* Each call enqueues at most one task; the task is named by the call.
Tasks == Errors \cup Retries

\* A task is run once, once more per retry, and again after it was cut off
\* by a graceful stop (LogaiProps!AttemptNumbersRun).
MaxRuns    == MaxRetry + 1 + FaultBudget["stop"]
RunNumbers == 1..MaxRuns
RunIds     == Tasks \X RunNumbers

Stages   == {"triage", "localize", "fix", "gitlab"}
JobIds   == Tasks \X RunNumbers \X Stages

Terminal    == {"skipped", "fixed", "failed"}
Unfinished  == {"new", "processing"}
ErrorStatus == {"absent"} \cup Unfinished \cup Terminal
JobStatus   == {"absent", "running", "succeeded", "failed"}

VARIABLES
    status,       \* errors.status; "absent": no such row
    fingerprint,  \* errors.fingerprint, fixed by the content of the report
    triaged,      \* the rows whose risk columns UpdateErrorTriage has filled
    jobs,         \* jobs.status; "absent": no such row
    mrs           \* merge_requests: the runs that stored their MR

storeVars == <<status, fingerprint, triaged, jobs, mrs>>

StoreTypeOK ==
    /\ status \in [Errors -> ErrorStatus]
    /\ fingerprint \in [Errors -> Fingerprints]
    /\ triaged \subseteq Errors
    /\ jobs \in [JobIds -> JobStatus]
    /\ mrs \subseteq RunIds

StoreInit ==
    /\ status = [e \in Errors |-> "absent"]
    /\ fingerprint \in [Errors -> Fingerprints]
    /\ triaged = {}
    /\ jobs = [j \in JobIds |-> "absent"]
    /\ mrs = {}

Stored(e) == status[e] # "absent"

FingerprintExists(f) == \E e \in Errors : Stored(e) /\ fingerprint[e] = f

(* Mutant: fingerprint without UNIQUE. *)
InsertError_NotUnique(e) == status' = [status EXCEPT ![e] = "new"]

(* The UNIQUE constraint lets the INSERT through only for a new fingerprint. *)
InsertError(e) ==
    /\ ~FingerprintExists(fingerprint[e])
    /\ status' = [status EXCEPT ![e] = "new"]

(* UPDATE ... WHERE id = ?: no row, no effect, and no error either. *)
UpdateErrorStatus(e, s) ==
    status' = [status EXCEPT ![e] = IF @ = "absent" THEN @ ELSE s]

UpdateErrorTriage(e) ==
    triaged' = IF Stored(e) THEN triaged \cup {e} ELSE triaged

(* Mutant: status left to the column default of schema.sql. *)
InsertJob_Default(j) == jobs' = [jobs EXCEPT ![j] = "pending"]

InsertJob(j) == jobs' = [jobs EXCEPT ![j] = "running"]

UpdateJob(j, s) ==
    jobs' = [jobs EXCEPT ![j] = IF @ = "absent" THEN @ ELSE s]

InsertMergeRequest(r) == mrs' = mrs \cup {r}

=============================================================================
