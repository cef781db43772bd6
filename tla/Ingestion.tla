----------------------------- MODULE Ingestion ------------------------------
(***************************************************************************)
(* Ingestor.Ingest, the one path of the webhook and of the OpenSearch      *)
(* poller into the system, as the steps that other calls interleave with.  *)
(* ingestPc[e] is the call that Ingest makes next, or what it returned.    *)
(***************************************************************************)
EXTENDS TaskQueue

VARIABLE ingestPc

\* "lost": the process died before the call returned.
IngestReturned == {"accepted", "duplicate", "error", "lost"}
IngestInFlight == {"insert", "enqueue", "markfailed"}
IngestLabels   == {"idle"} \cup IngestInFlight \cup IngestReturned

IngestTypeOK == ingestPc \in [Errors -> IngestLabels]

IngestInit == ingestPc = [e \in Errors |-> "idle"]

IngestGoto(e, label) == ingestPc' = [ingestPc EXCEPT ![e] = label]

CheckFingerprint(e) ==
    /\ ingestPc[e] = "idle"
    /\ \/ /\ NoFault
          /\ IngestGoto(e, IF FingerprintExists(fingerprint[e]) THEN "duplicate" ELSE "insert")
       \/ Fault("db") /\ IngestGoto(e, "error")
    /\ UNCHANGED <<storeVars, queueVars>>

(* A unique violation means that the race for the fingerprint is lost. *)
Insert(e) ==
    /\ ingestPc[e] = "insert"
    /\ \/ NoFault /\ InsertError(e) /\ IngestGoto(e, "enqueue")
       \/ /\ NoFault /\ FingerprintExists(fingerprint[e])
          /\ UNCHANGED status
          /\ IngestGoto(e, "duplicate")
       \/ Fault("db") /\ UNCHANGED status /\ IngestGoto(e, "error")
    /\ UNCHANGED <<fingerprint, triaged, jobs, mrs, queueVars>>

(* Mutant: a failed enqueue is only returned. *)
EnqueueNew_RowLeftNew(e) ==
    /\ ingestPc[e] = "enqueue"
    /\ \/ NoFault /\ Enqueue(e) /\ IngestGoto(e, "accepted")
       \/ Fault("redis") /\ UNCHANGED taskState /\ IngestGoto(e, "error")
    /\ UNCHANGED <<storeVars, retried, payload, server>>

EnqueueNew(e) ==
    /\ ingestPc[e] = "enqueue"
    /\ \/ NoFault /\ Enqueue(e) /\ IngestGoto(e, "accepted")
       \/ Fault("redis") /\ UNCHANGED taskState /\ IngestGoto(e, "markfailed")
       \/ Fault("reply") /\ Enqueue(e) /\ IngestGoto(e, "markfailed")
    /\ UNCHANGED <<storeVars, retried, payload, server>>

(* Detached from the request; a failure is only logged. *)
MarkUnqueued(e) ==
    /\ ingestPc[e] = "markfailed"
    /\ \/ NoFault /\ UpdateErrorStatus(e, "failed")
       \/ Fault("db") /\ UNCHANGED status
    /\ IngestGoto(e, "error")
    /\ UNCHANGED <<fingerprint, triaged, jobs, mrs, queueVars>>

IngestStep(e) == Insert(e) \/ EnqueueNew(e) \/ MarkUnqueued(e)

=============================================================================
