------------------------------- MODULE LLMRun -------------------------------
(***************************************************************************)
(* The model calls of one pipeline task: three stages in a run, each with  *)
(* its Complete under the deadline of the run, and the runs that asynq     *)
(* makes of the task, those after a shutdown or a crash included.  The     *)
(* other calls of a run may fail, and take no time here.                   *)
(***************************************************************************)
EXTENDS LLMClient

CONSTANTS
    MaxRetry,   \* pipeline.MaxRetry
    Stops       \* the bound of the shutdowns that interrupt the task

ASSUME RetryAssumption == {MaxRetry, Stops} \subseteq Nat

VARIABLES
    call,      \* 1, 2, 3: the stage whose Complete is next or in progress
    retried,   \* asynq.GetRetryCount
    stops,     \* the shutdowns that have interrupted it
    task,      \* "running", or how the task left the queue
    asked,     \* external: the requests that the provider has been sent
    verdicts   \* external: the kinds of its answers since an interruption

runVars  == <<call, retried, stops, task>>
seenVars == <<asked, verdicts>>
vars     == <<clientVars, runVars, seenVars>>

(* What one task can cost: asynq runs it once, MaxRetry times again, and   *)
(* once more for each shutdown that has interrupted a run.                 *)
CostOf(interruptions) == (MaxRetry + 1 + interruptions) * 3 * (MaxRetries + 1)

(* The counter stops just above it. *)
TaskCost == CostOf(Stops)

TypeOK ==
    /\ ClientTypeOK
    /\ call \in 1..3 /\ retried \in 0..MaxRetry /\ stops \in 0..Stops
    /\ task \in {"running", "done", "archived"}
    /\ asked \in 0..TaskCost + 1 /\ verdicts \subseteq Kinds

Init ==
    /\ ClientInit
    /\ call = 1 /\ retried = 0 /\ stops = 0 /\ task = "running"
    /\ asked = 0 /\ verdicts = {}

Ask == task = "running" /\ Call /\ UNCHANGED <<runVars, seenVars>>

Sent == asked' = Least(asked + 1, TaskCost + 1)

Respond ==
    /\ Answer /\ Sent
    /\ verdicts' = verdicts \cup {err'.kind}
    /\ UNCHANGED runVars

(* A request that is given up may have reached the provider. *)
Silence ==
    /\ NoAnswer
    /\ IF Expired THEN UNCHANGED asked ELSE Sent
    /\ UNCHANGED <<runVars, verdicts>>

Wait == Sleep /\ UNCHANGED <<runVars, seenVars>>

(* The stage is satisfied: the next one, or the end of the run (triage and *)
(* localize may also stop it).                                             *)
StageDone ==
    /\ at = "text" /\ at' = "idle"
    /\ \/ call < 3 /\ call' = call + 1 /\ UNCHANGED task
       \/ task' = "done" /\ UNCHANGED call
    /\ UNCHANGED <<attempt, err, clock, answered, pause, retried, stops, seenVars>>

EndTask ==
    /\ task' = "archived" /\ at' = "idle"
    /\ UNCHANGED <<attempt, err, clock, answered, pause, call, retried, stops>>

(* Another run of the task begins at the first stage, with a new context. *)
Restart ==
    /\ call' = 1 /\ at' = "idle"
    /\ clock' = 0 /\ answered' = 0 /\ pause' = 0
    /\ UNCHANGED <<attempt, err, task>>

(* Mutant: the handler enqueues the task anew instead of returning err. *)
NextRun_Requeued == Restart /\ UNCHANGED <<retried, stops>>

(* Mutant: enqueued without asynq.MaxRetry, whose default is larger. *)
NextRun_DefaultLimit ==
    /\ retried < MaxRetry + 1
    /\ retried' = retried + 1
    /\ Restart /\ UNCHANGED stops

(* A retry, of which the enqueue allows MaxRetry. *)
NextRun ==
    /\ retried < MaxRetry
    /\ retried' = retried + 1
    /\ Restart /\ UNCHANGED stops

(* Mutant: classify does not know ErrRefused. *)
Final_RefusedAgain(e) == e.kind = "truncated"

(* classify: which errors carry SkipRetry. *)
Final(e) == e.kind \in {"truncated", "refused"}

(* Complete gave up, or another call of the run failed: loading the error, *)
(* parsing the answer, a write.                                            *)
Broken == at \in {"idle", "text"} \/ (at = "error" /\ ~Final(err))

(* The file to be fixed is looked up before the model is asked to fix it. *)
FileNotFound == at = "idle" /\ call = 3

RunFails ==
    /\ task = "running"
    /\ \/ at = "error" /\ Final(err) /\ EndTask
       \/ FileNotFound /\ EndTask
       \/ Broken /\ NextRun
       \/ Broken /\ retried = MaxRetry /\ EndTask
    /\ UNCHANGED seenVars

(* The process ends before asynq has heard from the handler, which may     *)
(* have sent a request just then.  What it had found out is lost.          *)
Interrupted ==
    /\ task = "running"
    /\ (at = "request" /\ ~Expired /\ Sent) \/ UNCHANGED asked
    /\ verdicts' = {}

(* asynq's Shutdown gives the task back with the retries that it had.  The *)
(* handler goes on until the process exits, and nobody waits for it        *)
(* (TaskQueue!Requeue).                                                    *)
Shutdown ==
    /\ Interrupted /\ stops < Stops
    /\ stops' = stops + 1
    /\ Restart /\ UNCHANGED retried

(* A crash: asynq finds the task without its worker, which counts as a     *)
(* failed run.                                                             *)
Crash == Interrupted /\ (NextRun \/ (retried = MaxRetry /\ EndTask))

(* Asynq is done with the task. *)
Settled == task # "running" /\ UNCHANGED vars

Next ==
    \/ Ask \/ Respond \/ Silence \/ Wait \/ StageDone \/ RunFails
    \/ Shutdown \/ Crash \/ Settled

Spec == Init /\ [][Next]_vars

(* Requests and sleeps end: both have a timeout. Nobody has to interrupt. *)
FairSpec == Spec /\ WF_vars(Ask \/ Respond \/ Silence \/ Wait \/ StageDone \/ RunFails)

-----------------------------------------------------------------------------

(* "so Asynq doesn't burn retries (and LLM tokens)" (worker.go, classify): *)
(* once the provider has cut an answer off or refused one, this task asks  *)
(* nothing more, neither from the loop of Complete nor from another run    *)
(* (README: "Failures that would repeat exactly the same way are not       *)
(* retried").  Unless the process ends before asynq knows: then the        *)
(* verdict is lost, and the task runs and asks again.                      *)
VerdictIsFinal ==
    [][verdicts \cap {"truncated", "refused"} # {} => UNCHANGED asked]_vars

(* Complete gives up only when it has to: the error would repeat itself,   *)
(* the time of the run is over, or all retries are used up.                *)
GivesUpWhenSpent ==
    at = "error" => Permanent(err) \/ Expired \/ attempt = MaxRetries

(* A run leaves the provider alone for as long as its last response with   *)
(* an error status asked for in retry-after, up to the cap of 30 seconds,  *)
(* whatever timeouts come after it (README: "exponential backoff that      *)
(* honors `retry-after`").  The header of a response with status 200 is    *)
(* not looked at, even when its body is a rate limit (once).               *)
LeavesAlone ==
    [][asked' # asked => clock - answered >= Least(pause, MaxBackoff)]_vars

(* What one task can cost: the retries of the client, the stages and the   *)
(* runs of the task multiply.  The runs are those that pipeline.MaxRetry   *)
(* allows, crashes included, and one more for each shutdown that has given *)
(* the task back.                                                          *)
CostIsBounded == asked <= CostOf(stops)

(* The task leaves the queue, however slow and broken the provider is.     *)
TaskSettles == <>(task # "running")

=============================================================================
