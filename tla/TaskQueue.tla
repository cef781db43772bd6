----------------------------- MODULE TaskQueue ------------------------------
(***************************************************************************)
(* Asynq and Redis (external), as logai uses them.  A task goes from       *)
(* "pending" to "active" when a worker slot takes it; when its handler     *)
(* returns it is "done", put on "retry" until the forwarder makes it       *)
(* pending again, or "archived".  Redis survives a crash of the process: a *)
(* task left active without a handler is recovered as a failed one.        *)
(***************************************************************************)
EXTENDS ErrorStore

VARIABLES
    taskState,   \* where the task of each call is; "none": never enqueued
    retried,     \* asynq.GetRetryCount
    payload,     \* ProcessErrorPayload.ErrorID of the task of each call
    server       \* what the asynq server of the process does

queueVars == <<taskState, retried, payload, server>>

Live      == {"pending", "active", "retry"}
TaskState == {"none", "done", "archived"} \cup Live

QueueTypeOK ==
    /\ taskState \in [Tasks -> TaskState]
    /\ retried \in [Tasks -> 0..MaxRetry]
    /\ payload \in [Tasks -> Errors]
    /\ server \in {"running", "stopping"}

(* An ingestion call enqueues its own row; POST /retry names any error id. *)
QueueInit ==
    /\ taskState = [t \in Tasks |-> "none"]
    /\ retried = [t \in Tasks |-> 0]
    /\ payload \in [Tasks -> Errors]
    /\ \A e \in Errors : payload[e] = e
    /\ server = "running"

TasksOf(e) == {t \in Tasks : payload[t] = e}
LiveTasksOf(e) == {t \in TasksOf(e) : taskState[t] \in Live}

Enqueue(t) == taskState' = [taskState EXCEPT ![t] = "pending"]

Take(t) ==
    /\ taskState[t] = "pending"
    /\ taskState' = [taskState EXCEPT ![t] = "active"]

Complete(t) ==
    /\ taskState' = [taskState EXCEPT ![t] = "done"]
    /\ UNCHANGED retried

(* A failed task is archived at once when its error says so (SkipRetry) or *)
(* when it has been retried MaxRetry times, and retried otherwise.         *)
Fail(t, skipRetry) ==
    IF skipRetry \/ retried[t] >= MaxRetry
    THEN /\ taskState' = [taskState EXCEPT ![t] = "archived"]
         /\ UNCHANGED retried
    ELSE /\ taskState' = [taskState EXCEPT ![t] = "retry"]
         /\ retried' = [retried EXCEPT ![t] = @ + 1]

(* The retry delay is over. *)
Forward(t) ==
    /\ taskState[t] = "retry"
    /\ taskState' = [taskState EXCEPT ![t] = "pending"]
    /\ UNCHANGED retried

(* The server is shutting down and has waited ShutdownTimeout, 8 s unless  *)
(* configured, for the handler: the task goes back as it came.             *)
Requeue(t) ==
    /\ taskState[t] = "active"
    /\ taskState' = [taskState EXCEPT ![t] = "pending"]
    /\ UNCHANGED retried

=============================================================================
