------------------------------- MODULE Logai --------------------------------
(***************************************************************************)
(* The logai process: ingestion, the pipeline workers and the API over one *)
(* database and one task queue.  The process may crash, or be told to shut *)
(* down, and starts again.                                                 *)
(***************************************************************************)
EXTENDS Pipeline, Ingestion, RetryApi, ReadApi

vars == <<storeVars, queueVars, repo, faults, runVars, ingestPc, retryPc, readVars>>

TypeOK ==
    /\ StoreTypeOK /\ QueueTypeOK /\ GitLabTypeOK /\ FaultsTypeOK
    /\ RunTypeOK /\ IngestTypeOK /\ RetryTypeOK /\ ReadTypeOK

Init ==
    /\ StoreInit /\ QueueInit /\ GitLabInit /\ FaultsInit
    /\ RunInit /\ IngestInit /\ RetryInit /\ ReadInit

Worker(t) == WorkerStep(t) /\ UNCHANGED <<ingestPc, retryPc, readVars>>

Ingest(e) ==
    /\ CheckFingerprint(e) \/ IngestStep(e)
    /\ UNCHANGED <<repo, runVars, retryPc, readVars>>

Retry(r) ==
    /\ ReadForRetry(r) \/ RetryStep(r)
    /\ UNCHANGED <<repo, runVars, ingestPc, readVars>>

Read(g) == ReadStep(g) /\ UNCHANGED <<repo, runVars, ingestPc, retryPc>>

(* A new process.  Everything in memory is gone; the database, Redis and   *)
(* GitLab are not.                                                         *)
Restart ==
    /\ server' = "running"
    /\ pc' = [t \in Tasks |-> "idle"]
    /\ stage' = [t \in Tasks |-> "triage"]
    /\ outcome' = [t \in Tasks |-> "go"]
    /\ ingestPc' = [e \in Errors |->
           IF ingestPc[e] \in IngestInFlight THEN "lost" ELSE ingestPc[e]]
    /\ retryPc' = [r \in Retries |->
           IF retryPc[r] \in RetryInFlight THEN "lost" ELSE retryPc[r]]
    /\ readPc' = [g \in Readers |-> IF readPc[g] \in {"second", "third"} THEN "lost" ELSE readPc[g]]
    /\ UNCHANGED <<storeVars, taskState, retried, payload, repo, runs, expired, view>>

Crash == Fault("crash") /\ Restart

(* A signal, or the end of the HTTP server: main stops the poller and then *)
(* the worker, which takes no task any more.  HTTP calls are still served. *)
BeginShutdown ==
    /\ server = "running" /\ Fault("stop")
    /\ server' = "stopping"
    /\ UNCHANGED <<storeVars, taskState, retried, payload, repo, runVars, ingestPc, retryPc, readVars>>

(* The worker has waited for its runs, each of which has returned or been  *)
(* abandoned, and the HTTP server 10 s for its calls: the process exits.   *)
Exit ==
    /\ server = "stopping"
    /\ \A t \in Tasks : InProgress(t) => Abandoned(t)
    /\ NoFault
    /\ Restart

(* Every call has returned and no task is left: the server waits. *)
Quiet ==
    /\ \A e \in Errors : ingestPc[e] \in IngestReturned
    /\ \A r \in Retries : retryPc[r] \in RetryReturned
    /\ \A g \in Readers : readPc[g] \in ReadAnswers
    /\ \A t \in Tasks : taskState[t] \notin Live
    /\ UNCHANGED vars

Next ==
    \/ \E t \in Tasks : Worker(t)
    \/ \E e \in Errors : Ingest(e)
    \/ \E r \in Retries : Retry(r)
    \/ \E g \in Readers : Read(g)
    \/ Crash \/ BeginShutdown \/ Exit
    \/ Quiet

Spec == Init /\ [][Next]_vars

(***************************************************************************)
(* The handlers run on: every statement has a timeout or the context of    *)
(* its run, the HTTP clients have timeouts, asynq keeps polling for        *)
(* pending tasks, due retries and orphaned tasks, and a shutdown ends by   *)
(* its timeouts.  No call need ever be made, and no fault need ever happen.*)
(***************************************************************************)
Fairness ==
    /\ \A t \in Tasks :
        /\ WF_vars(RunStep(t) /\ UNCHANGED <<ingestPc, retryPc, readVars>>)
        /\ WF_vars(/\ Dequeue(t) \/ RetryIsDue(t) \/ Recover(t)
                   /\ UNCHANGED <<ingestPc, retryPc, readVars>>)
    /\ \A e \in Errors : WF_vars(IngestStep(e) /\ UNCHANGED <<repo, runVars, retryPc, readVars>>)
    /\ \A r \in Retries : WF_vars(RetryStep(r) /\ UNCHANGED <<repo, runVars, ingestPc, readVars>>)
    /\ WF_vars(Exit)

FairSpec == Spec /\ Fairness

=============================================================================
