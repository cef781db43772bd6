---------------------------- MODULE ProcessProps ----------------------------
(***************************************************************************)
(* What makes the start, the shutdown and the poller of logai correct.     *)
(***************************************************************************)
EXTENDS Process

(* "Polls never overlap" (README): a slow poll does not stack up polls of  *)
(* later ticks beside it (NewOpenSearchPoller), and no tick polls beside   *)
(* the first poll, which runs outside the scheduler (Start).               *)
PollsNeverOverlap == \A p, q \in Pollers : Polling(p) /\ Polling(q) => p = q

(* The documents that compete with d for a place on the page. *)
AsNew(d) ==
    {e \in Docs \ {d} : logged[e] >= logged[d] /\ logged[e] <= logged[d] + Lookback}

(* The lookback that bridges the failures: a poll may start just before a  *)
(* document shows up and keep the next ones away until its timeout; each   *)
(* failure repeats this once.                                              *)
LookbackNeeded ==
    IndexDelay + Interval + 2 * PollTimeout + Failures * (Interval + PollTimeout)

(* A document that has left the window of a running poller was handed to   *)
(* Ingest, although polls fail, time out, are skipped and overlap in what  *)
(* they read: unless a page of documents as new as it was logged before    *)
(* it was read, duplicates of stored errors included (BuildQuery).         *)
NothingOverlooked ==
    \A d \in Docs :
        /\ cron = "on" /\ ~cancelled
        /\ logged[d] >= since /\ now > logged[d] + Lookback
        /\ \A p \in Pollers : d \notin poll[p].page
        => d \in handled \/ Cardinality(AsNew(d)) >= PageSize

(* Whoever works on the database finds it open, and Redis as well: a start *)
(* that fails half-way stops what it has started, and a shutdown closes    *)
(* nothing before it has told its users to stop and waited for them.  Who  *)
(* outlasts the wait may find them closed: a handler of the worker after   *)
(* asynq's eight seconds and a request after Shutdown's ten ("late"), and  *)
(* the first poll, for which Stop does not wait at all.                    *)
UsersFindResourcesOpen ==
    worker = "on" \/ http = "on" \/ cron = "on" \/ JobRunning =>
        \A r \in Resources : \E i \in 1..Len(deferred) : deferred[i] = r

(* A signal, or the end of the HTTP server, ends the process, whatever the *)
(* start has come to and whatever the poller is doing.                     *)
ShutdownEnds == cancelled \/ http = "failed" ~> step = "exited"

=============================================================================
