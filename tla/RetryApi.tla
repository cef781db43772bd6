------------------------------ MODULE RetryApi ------------------------------
(***************************************************************************)
(* POST /retry/{errorId} (API.retry): it reads the status, resets it and   *)
(* enqueues a task, and each of the three is a step of its own.  The only  *)
(* other handlers of internal/api read.                                    *)
(***************************************************************************)
EXTENDS TaskQueue

VARIABLE retryPc

\* "lost": the process died before the call returned.
RetryReturned == {"accepted", "notfound", "conflict", "error", "lost"}
RetryInFlight == {"reset", "enqueue"}
RetryLabels   == {"idle"} \cup RetryInFlight \cup RetryReturned

RetryTypeOK == retryPc \in [Retries -> RetryLabels]

RetryInit == retryPc = [r \in Retries |-> "idle"]

RetryGoto(r, label) == retryPc' = [retryPc EXCEPT ![r] = label]

(* The status decides the answer here and is not looked at again. *)
ReadForRetry(r) ==
    /\ retryPc[r] = "idle"
    /\ \/ NoFault /\ ~Stored(payload[r]) /\ RetryGoto(r, "notfound")
       \/ NoFault /\ status[payload[r]] = "processing" /\ RetryGoto(r, "conflict")
       \/ /\ NoFault
          /\ status[payload[r]] \notin {"absent", "processing"}
          /\ RetryGoto(r, "reset")
       \/ Fault("db") /\ RetryGoto(r, "error")
    /\ UNCHANGED <<storeVars, queueVars>>

ResetStatus(r) ==
    /\ retryPc[r] = "reset"
    /\ \/ NoFault /\ UpdateErrorStatus(payload[r], "new") /\ RetryGoto(r, "enqueue")
       \/ Fault("db") /\ UNCHANGED status /\ RetryGoto(r, "error")
    /\ UNCHANGED <<fingerprint, triaged, jobs, mrs, queueVars>>

(* Unlike Ingest, the handler leaves the row alone when the enqueue fails. *)
EnqueueRetry(r) ==
    /\ retryPc[r] = "enqueue"
    /\ \/ NoFault /\ Enqueue(r) /\ RetryGoto(r, "accepted")
       \/ Fault("redis") /\ UNCHANGED taskState /\ RetryGoto(r, "error")
       \/ Fault("reply") /\ Enqueue(r) /\ RetryGoto(r, "error")
    /\ UNCHANGED <<storeVars, retried, payload, server>>

RetryStep(r) == ResetStatus(r) \/ EnqueueRetry(r)

=============================================================================
