--------------------------- MODULE LogaiLifecycle ---------------------------
(***************************************************************************)
(* Logai implements ErrorLifecycle, and so never strands an error, as long *)
(* as the faults that can lose a call or a result have not happened.       *)
(***************************************************************************)
EXTENDS LogaiFaults

USE CallsAssumption, MaxRetryAssumption, FaultBudgetAssumption

-----------------------------------------------------------------------------
(* The refinement mapping, one call at a time.                             *)

Keeps(t) == Owes(t)' <=> Owes(t)

(* When one call has moved, one set of owing calls has changed, by it. *)
LEMMA OwingMoves ==
    ASSUME UNCHANGED payload, NEW t \in Tasks, \A u \in Tasks \ {t} : Keeps(u),
           NEW e \in Errors, payload[t] = e
    PROVE  /\ \A f \in Errors : f # e => Owing(f)' = Owing(f)
           /\ Owing(e)' = IF Owes(t)' THEN Owing(e) \cup {t} ELSE Owing(e) \ {t}
           /\ Owes(t) <=> t \in Owing(e)
           /\ Owes(t) => Owing(e) \cup {t} = Owing(e)
BY DEF Keeps, Owing, TasksOf

LEMMA Stutter ==
    ASSUME UNCHANGED <<payload, status>>, \A t \in Tasks : Keeps(t)
    PROVE  UNCHANGED Lifecycle!lifecycleVars
<1>1. \A e \in Errors : Owing(e)' = Owing(e) BY DEF Keeps, Owing, TasksOf
<1> QED BY <1>1 DEF Lifecycle!lifecycleVars

LEMMA WriteMaps ==
    ASSUME NEW e \in Errors, NEW r, NEW calls, status' = [status EXCEPT ![e] = r],
           Owing(e)' = calls, \A f \in Errors : f # e => Owing(f)' = Owing(f)
    PROVE  Lifecycle!Write(e, r, calls)
BY DEF Lifecycle!Write

-----------------------------------------------------------------------------
(* Each step is a step of the lifecycle of one error, or of none.          *)

LEMMA WorkerLives ==
    ASSUME TypeOK, RecordsInv, server = "running", NEW t \in Tasks, Worker(t), SteadyOf(t), ~Fault("db")
    PROVE  Lifecycle!Next \/ UNCHANGED Lifecycle!lifecycleVars
<1> USE DEF TypeOK, QueueTypeOK, RunTypeOK
<1>a. PICK e \in Errors : payload[t] = e OBVIOUS
<1>1. WorkerFrame(t) BY WorkerLocal
<1>2. payload[t] = e /\ Stored(e) /\ taskState[t] # "none"
    BY <1>a, WorkerHasTask DEF RecordsInv, CallsInv
<1>3. \A u \in Tasks \ {t} : Keeps(u) BY <1>1 DEF WorkerFrame, Keeps, Owes, WillRetry
<1>4. /\ \A f \in Errors : f # e => Owing(f)' = Owing(f)
      /\ Owing(e)' = IF Owes(t)' THEN Owing(e) \cup {t} ELSE Owing(e) \ {t}
      /\ Owes(t) <=> t \in Owing(e)
      /\ Owes(t) => Owing(e) \cup {t} = Owing(e)
    <2>1. UNCHANGED payload BY <1>1 DEF WorkerFrame
    <2> QED BY <1>2, <1>3, <2>1, OwingMoves
<1>5. InProgress(t) <=> taskState[t] = "active" BY DEF SteadyOf
<1>6. ASSUME Keeps(t), UNCHANGED status PROVE UNCHANGED Lifecycle!lifecycleVars
    BY <1>1, <1>3, <1>6, Stutter DEF WorkerFrame
<1>7. ASSUME NEW s \in {"skipped", "fixed", "failed"}, UpdateErrorStatus(e, s), Owes(t)
      PROVE  Lifecycle!Next
    <2>1. Owing(e)' \in {Owing(e), Owing(e) \ {t}} BY <1>4, <1>7
    <2>2. Lifecycle!Write(e, s, Owing(e)')
        BY <1>2, <1>4, <1>7, StatusWritten, WriteMaps
    <2>3. Lifecycle!Finish(e, t)
        BY <1>2, <1>4, <1>7, <2>1, <2>2 DEF Lifecycle!Finish, Lifecycle!Over
    <2> QED BY <1>2, <2>3 DEF Lifecycle!Next, Lifecycle!Step
<1>8. ASSUME NEW s \in {"new", "processing"}, UpdateErrorStatus(e, s), Owes(t), Owes(t)'
      PROVE  Lifecycle!Next
    <2>1. Owing(e)' = Owing(e) /\ Owing(e) # {} BY <1>4, <1>8
    <2>2. Lifecycle!Write(e, s, Owing(e)) BY <1>2, <1>4, <1>8, <2>1, StatusWritten, WriteMaps
    <2>3. Lifecycle!Work(e) BY <1>2, <2>1, <2>2 DEF Lifecycle!Work, Lifecycle!Open
    <2> QED BY <1>2, <2>3 DEF Lifecycle!Next, Lifecycle!Step
<1>9. CASE Passes(t)
    BY <1>5, <1>6, <1>9 DEF Passes, Keeps, Owes, InProgress
<1>10. CASE pc[t] = "mark" /\ MarkProcessing(t) /\ UpdateErrorStatus(payload[t], "processing")
            /\ pc'[t] = "start"
    BY <1>2, <1>5, <1>8, <1>10 DEF MarkProcessing, queueVars, Owes, InProgress
<1>11. CASE \/ pc[t] = "skip" /\ UpdateErrorStatus(payload[t], "skipped")
            \/ pc[t] = "fixed" /\ UpdateErrorStatus(payload[t], "fixed")
    BY <1>2, <1>5, <1>7, <1>11 DEF Owes, InProgress
<1>12. CASE /\ pc[t] = "fail" /\ MarkFailed(t) /\ pc'[t] = "settle"
            /\ UpdateErrorStatus(payload[t], IF WillRetry(t) THEN "new" ELSE "failed")
    <2>1. Owes(t) /\ (WillRetry(t) => Owes(t)')
        BY <1>5, <1>12 DEF MarkFailed, Proceed, queueVars, WillRetry, Owes, InProgress
    <2> QED BY <1>2, <1>7, <1>8, <1>12, <2>1
<1>13. CASE Settle(t)
    <2>1. /\ pc[t] = "settle" /\ pc'[t] = "idle" /\ UNCHANGED status /\ taskState[t] = "active"
        BY <1>5, <1>13 DEF Settle, EndRun, Goto, storeVars, InProgress
    <2>2. taskState'[t] \in {"done", "archived", "retry"}
        BY <1>13, <2>1 DEF Settle, Complete, Fail, Abandoned
    <2>3. retried[t] \in Int OBVIOUS
    <2>4. taskState'[t] = "retry" <=> WillRetry(t)
        BY <1>13, <2>1, <2>3 DEF Settle, Complete, Fail, Abandoned, WillRetry
    <2> QED BY <1>1, <1>6, <2>1, <2>2, <2>4 DEF WorkerFrame, Keeps, Owes
<1>14. CASE Dequeue(t)
    BY <1>6, <1>14 DEF Dequeue, Take, Proceed, Goto, storeVars, Keeps, Owes
<1>15. CASE RetryIsDue(t)
    BY <1>6, <1>15 DEF RetryIsDue, Forward, storeVars, Keeps, Owes
<1> QED BY <1>9, <1>10, <1>11, <1>12, <1>13, <1>14, <1>15, WorkerCases DEF RecordsInv

LEMMA IngestLives ==
    ASSUME TypeOK, RecordsInv, NEW e \in Errors, Ingest(e), ~Fault("db")
    PROVE  Lifecycle!Next \/ UNCHANGED Lifecycle!lifecycleVars
<1> USE DEF TypeOK, QueueTypeOK, IngestTypeOK
<1>1. e \in Tasks /\ payload[e] = e /\ e \notin Retries BY DEF RecordsInv, CallsInv, Tasks
<1>2. UNCHANGED <<payload, runVars, retried, retryPc>>
    BY IngestLocal DEF CallFrame, RecordsInv, Ingest
<1>3. \A u \in Tasks \ {e} : taskState'[u] = taskState[u] /\ (u \in Errors => ingestPc'[u] = ingestPc[u])
    BY DEF Ingest, IngestStep, CheckFingerprint, Insert, EnqueueNew, MarkUnqueued, queueVars, IngestGoto,
       Enqueue
<1>4. \A u \in Tasks \ {e} : Keeps(u) BY <1>2, <1>3 DEF Keeps, Owes, WillRetry, runVars
<1>5. /\ \A f \in Errors : f # e => Owing(f)' = Owing(f)
      /\ Owing(e)' = IF Owes(e)' THEN Owing(e) \cup {e} ELSE Owing(e) \ {e}
      /\ Owes(e) <=> e \in Owing(e)
      /\ Owes(e) => Owing(e) \cup {e} = Owing(e)
    BY <1>1, <1>2, <1>4, OwingMoves
<1>6. ASSUME Keeps(e), UNCHANGED status PROVE UNCHANGED Lifecycle!lifecycleVars
    BY <1>2, <1>4, <1>6, Stutter
<1>7. ingestPc[e] \in {"idle", "insert", "enqueue"} => taskState[e] = "none"
    BY DEF RecordsInv, CallsInv
<1>8. CASE CheckFingerprint(e)
    BY <1>1, <1>2, <1>6, <1>7, <1>8 DEF CheckFingerprint, IngestGoto, storeVars, queueVars, Keeps, Owes
<1>9. CASE Insert(e)
    <2>1. CASE UNCHANGED <<status, taskState>> /\ ingestPc'[e] = "duplicate"
        BY <1>1, <1>2, <1>6, <1>7, <1>9, <2>1 DEF Insert, Keeps, Owes
    <2>2. CASE InsertError(e) /\ ingestPc'[e] = "enqueue"
        <3>1. ~Stored(e) BY <2>2 DEF InsertError, FingerprintExists
        <3>2. \A u \in TasksOf(e) : ~Owes(u)
            BY <3>1 DEF RecordsInv, CallsInv, TasksOf, Owes
        <3>3. Owing(e) = {} /\ Owes(e)' BY <1>1, <2>2, <3>2 DEF Owing, Owes
        <3>4. Lifecycle!Write(e, "new", {e}) BY <1>5, <2>2, <3>3, WriteMaps DEF InsertError
        <3>5. Lifecycle!Accept(e, e) BY <3>1, <3>4 DEF Lifecycle!Accept, Stored
        <3> QED BY <1>1, <3>5 DEF Lifecycle!Next, Lifecycle!Step
    <2> QED BY <1>9, <2>1, <2>2 DEF Insert, IngestGoto, queueVars
<1>10. CASE EnqueueNew(e)
    <2>1. Owes(e) BY <1>10 DEF EnqueueNew, Owes
    <2>2. Owes(e)' BY <1>1, <1>10 DEF EnqueueNew, IngestGoto, Enqueue, Owes
    <2> QED BY <1>6, <1>10, <2>1, <2>2 DEF EnqueueNew, storeVars, Keeps
<1>11. CASE MarkUnqueued(e)
    <2>1. Owes(e) /\ Stored(e) BY <1>11 DEF MarkUnqueued, Owes, RecordsInv, CallsInv
    <2>2. status' = [status EXCEPT ![e] = "failed"] BY <1>11, <2>1, StatusWritten DEF MarkUnqueued
    <2>3. Lifecycle!Write(e, "failed", Owing(e)') BY <1>5, <2>2, WriteMaps
    <2>4. Owing(e)' \in {Owing(e), Owing(e) \ {e}} BY <1>5, <2>1
    <2>5. Lifecycle!Finish(e, e) BY <1>5, <2>1, <2>3, <2>4 DEF Lifecycle!Finish, Lifecycle!Over
    <2> QED BY <1>1, <2>5 DEF Lifecycle!Next, Lifecycle!Step
<1> QED BY <1>8, <1>9, <1>10, <1>11 DEF Ingest, IngestStep

(* The enqueue of POST /retry was refused: nobody owes its result. *)
Drops(r) ==
    /\ Fault("redis") /\ retryPc'[r] = "error"
    /\ UNCHANGED <<payload, status>>
    /\ \A e \in Errors : e # payload[r] => Owing(e)' = Owing(e)

LEMMA RetryLives ==
    ASSUME TypeOK, RecordsInv, NEW r \in Retries, Retry(r), ~Fault("db")
    PROVE  Lifecycle!Next \/ UNCHANGED Lifecycle!lifecycleVars \/ Drops(r)
<1> USE DEF TypeOK, QueueTypeOK, RetryTypeOK
<1>a. PICK e \in Errors : payload[r] = e BY DEF Tasks
<1>1. r \in Tasks /\ payload[r] = e /\ r \notin Errors BY <1>a DEF Tasks
<1>2. UNCHANGED <<payload, runVars, retried, ingestPc>>
    BY RetryLocal DEF CallFrame, RecordsInv, Retry
<1>3. \A u \in Tasks \ {r} : taskState'[u] = taskState[u] /\ (u \in Retries => retryPc'[u] = retryPc[u])
    BY DEF Retry, RetryStep, ReadForRetry, ResetStatus, EnqueueRetry, queueVars, RetryGoto, Enqueue
<1>4. \A u \in Tasks \ {r} : Keeps(u) BY <1>2, <1>3 DEF Keeps, Owes, WillRetry, runVars
<1>5. /\ \A f \in Errors : f # e => Owing(f)' = Owing(f)
      /\ Owing(e)' = IF Owes(r)' THEN Owing(e) \cup {r} ELSE Owing(e) \ {r}
      /\ Owes(r) <=> r \in Owing(e)
    BY <1>1, <1>2, <1>4, OwingMoves
<1>6. ASSUME Keeps(r), UNCHANGED status PROVE UNCHANGED Lifecycle!lifecycleVars
    BY <1>2, <1>4, <1>6, Stutter
<1>7. retryPc[r] \in {"idle", "reset", "enqueue"} => taskState[r] = "none"
    BY DEF RecordsInv, CallsInv
<1>8. CASE ReadForRetry(r)
    BY <1>1, <1>2, <1>6, <1>7, <1>8 DEF ReadForRetry, RetryGoto, storeVars, queueVars, Keeps, Owes
<1>9. CASE ResetStatus(r)
    <2>1. Stored(e) /\ ~Owes(r) BY <1>1, <1>7, <1>9 DEF ResetStatus, RecordsInv, CallsInv, Owes
    <2>2. Owes(r)' BY <1>9 DEF ResetStatus, RetryGoto, Owes
    <2>3. status' = [status EXCEPT ![e] = "new"] BY <1>1, <1>9, <2>1, StatusWritten DEF ResetStatus
    <2>4. Lifecycle!Write(e, "new", Owing(e) \cup {r}) BY <1>1, <1>5, <2>2, <2>3, WriteMaps
    <2>5. Lifecycle!Reopen(e, r) BY <1>1, <1>5, <2>1, <2>4 DEF Lifecycle!Reopen, Stored
    <2> QED BY <1>1, <2>5 DEF Lifecycle!Next, Lifecycle!Step
<1>10. CASE EnqueueRetry(r) /\ Enqueue(r)
    <2>1. Owes(r) BY <1>10 DEF EnqueueRetry, Owes
    <2>2. Owes(r)' BY <1>1, <1>10 DEF Enqueue, Owes
    <2> QED BY <1>6, <1>10, <2>1, <2>2 DEF EnqueueRetry, storeVars, Keeps
<1>11. CASE EnqueueRetry(r) /\ Fault("redis") /\ RetryGoto(r, "error")
    BY <1>1, <1>2, <1>5, <1>11 DEF EnqueueRetry, RetryGoto, storeVars, Drops
<1> QED BY <1>8, <1>9, <1>10, <1>11 DEF Retry, RetryStep, EnqueueRetry

LEMMA LifecycleStep ==
    ASSUME TypeOK, RecordsInv, SteadyInv, [Next]_vars, Spared({"db", "crash", "stop"})'
    PROVE  \/ Lifecycle!Next
           \/ UNCHANGED Lifecycle!lifecycleVars
           \/ \E r \in Retries : Drops(r)
<1>1. {"db", "crash", "stop"} \in SUBSET FaultKinds BY DEF FaultKinds
<1>2. Spared({"db", "crash", "stop"}) /\ ~Fault("db") /\ ~Fault("crash") /\ ~Fault("stop")
    BY <1>1, SparedStep DEF SteadyInv, TypeOK
<1>3. server = "running" /\ \A t \in Tasks : SteadyOf(t) BY <1>2 DEF SteadyInv, Spared
<1>4. CASE \E t \in Tasks : Worker(t) BY <1>2, <1>3, <1>4, WorkerLives
<1>5. CASE \E e \in Errors : Ingest(e) BY <1>2, <1>5, IngestLives
<1>6. CASE \E r \in Retries : Retry(r) BY <1>2, <1>6, RetryLives
<1>7. CASE (\E g \in Readers : Read(g)) \/ UNCHANGED vars
    <2>1. UNCHANGED <<status, taskState, payload, retried, pc, outcome, ingestPc, retryPc>>
        BY <1>7 DEF Read, ReadStep, vars, storeVars, queueVars, runVars
    <2>2. \A t \in Tasks : Keeps(t) BY <2>1 DEF Keeps, Owes, WillRetry
    <2> QED BY <2>1, <2>2, Stutter
<1>8. ~Crash /\ ~BeginShutdown /\ ~Exit BY <1>2, <1>3 DEF Crash, BeginShutdown, Exit
<1> QED BY <1>4, <1>5, <1>6, <1>7, <1>8 DEF Next, Quiet

LEMMA NobodyOwes == Init => \A t \in Tasks : ~Owes(t)
BY DEF Init, QueueInit, IngestInit, RetryInit, Owes

(* Ingestion, workers and POST /retry together implement ErrorLifecycle:   *)
(* every status change of an error is one that some call owes it, and a    *)
(* call that stops owing has left a result behind, for any interleaving of *)
(* any number of tasks of one error.  Deadlines, failures of the model and *)
(* of GitLab and lost answers of Redis do not disturb it.                  *)
THEOREM ImplementsLifecycle ==
    Spec /\ []Spared({"db", "redis", "crash", "stop"}) => LifecycleSpec
<1>1. Init => Lifecycle!Init
    <2> SUFFICES ASSUME Init PROVE Lifecycle!Init OBVIOUS
    <2>1. \A e \in Errors : Owing(e) = {} BY NobodyOwes DEF Owing, TasksOf
    <2> QED BY <2>1 DEF Init, StoreInit, Lifecycle!Init
<1>2. ASSUME TypeOK, RecordsInv, SteadyInv, [Next]_vars, Spared({"db", "redis", "crash", "stop"})'
      PROVE  [Lifecycle!Next]_(Lifecycle!lifecycleVars)
    <2>1. {"db", "redis", "crash", "stop"} \in SUBSET FaultKinds BY DEF FaultKinds
    <2>2. ~Fault("redis") BY <1>2, <2>1, SparedStep DEF SteadyInv, TypeOK
    <2>3. Spared({"db", "crash", "stop"})' BY <1>2 DEF Spared
    <2> QED BY <1>2, <2>2, <2>3, LifecycleStep DEF Drops
<1> QED BY <1>1, <1>2, TypeCorrect, RecordsInvariant, SteadyInvariant, PTL
        DEF Spec, LifecycleSpec, Lifecycle!Spec

-----------------------------------------------------------------------------
(* In the lifecycle an open error is owed a result. *)
LEMMA OpenIsOwed ==
    ASSUME TypeOK, Lifecycle!Next, NEW e \in Errors,
           status'[e] \in Unfinished, status[e] \in Unfinished => Owing(e) # {}
    PROVE  Owing(e)' # {}
<1> USE DEF TypeOK, StoreTypeOK, Unfinished
<1>1. PICK f \in Errors : Lifecycle!Step(f) BY DEF Lifecycle!Next
<1>2. PICK r, calls : Lifecycle!Write(f, r, calls) BY <1>1 DEF Lifecycle!Step, Lifecycle!Work,
          Lifecycle!Accept, Lifecycle!Reopen, Lifecycle!Finish
<1>3. CASE f # e
    BY <1>2, <1>3 DEF Lifecycle!Write
<1>4. CASE f = e
    <2>1. CASE Lifecycle!Work(e) BY <2>1 DEF Lifecycle!Work, Lifecycle!Write
    <2>2. CASE \E c \in Tasks : Lifecycle!Accept(e, c)
        BY <2>2 DEF Lifecycle!Accept, Lifecycle!Write
    <2>3. CASE \E c \in Tasks : Lifecycle!Reopen(e, c)
        BY <2>3 DEF Lifecycle!Reopen, Lifecycle!Write
    <2>4. ~\E c \in Tasks : Lifecycle!Finish(e, c)
        BY DEF Lifecycle!Finish, Lifecycle!Write, Lifecycle!Over
    <2> QED BY <1>1, <1>4, <2>1, <2>2, <2>3, <2>4 DEF Lifecycle!Step
<1> QED BY <1>3, <1>4

LEMMA ErrorAnswerStays ==
    ASSUME TypeOK, [Next]_vars, NEW r \in Retries, retryPc[r] = "error"
    PROVE  retryPc'[r] = "error" /\ UNCHANGED payload
<1>1. CASE \E t \in Tasks : Worker(t) BY <1>1, WorkerLocal DEF WorkerFrame
<1>2. CASE \E q \in Retries : Retry(q)
    BY <1>2 DEF TypeOK, RetryTypeOK, Retry, RetryStep, ReadForRetry, ResetStatus, EnqueueRetry, RetryGoto,
       queueVars
<1>3. CASE Crash \/ Exit BY <1>3 DEF Crash, Exit, Restart, RetryInFlight
<1>4. CASE \/ \E e \in Errors : Ingest(e)
           \/ \E g \in Readers : Read(g)
           \/ BeginShutdown \/ UNCHANGED vars
    BY <1>4 DEF Ingest, IngestStep, CheckFingerprint, Insert, EnqueueNew, MarkUnqueued, Read, ReadStep,
       BeginShutdown, vars, queueVars
<1> QED BY <1>1, <1>2, <1>3, <1>4 DEF Next, Quiet

(* As long as the database answers and the process lives, no error is left *)
(* new or processing with nothing to finish it, however many tasks work on *)
(* it, whatever fails in them, and also when Redis refuses an enqueue or   *)
(* loses the answer: only an enqueue of POST /retry that failed may leave  *)
(* a row without a task, and its caller has been told.                     *)
THEOREM NobodyStranded == Spec => [](Spared({"db", "crash", "stop"}) => NeverStranded)
<1>1. Init => OwedInv
    BY DEF Init, StoreInit, Unfinished, OwedInv, NeverStranded
<1>2. ASSUME TypeOK, RecordsInv, SteadyInv, OwedInv, [Next]_vars
      PROVE  OwedInv'
    <2> SUFFICES ASSUME Spared({"db", "crash", "stop"})', NEW e \in Errors, status'[e] \in Unfinished,
                        ~\E r \in Retries : payload'[r] = e /\ retryPc'[r] = "error"
                 PROVE  Owing(e)' # {}
        BY DEF OwedInv, NeverStranded
    <2>1. {"db", "crash", "stop"} \in SUBSET FaultKinds BY DEF FaultKinds
    <2>2. Spared({"db", "crash", "stop"}) BY <1>2, <2>1, SparedStep DEF SteadyInv, TypeOK
    <2>3. status[e] \in Unfinished => Owing(e) # {}
        BY <1>2, <2>2, ErrorAnswerStays DEF OwedInv, NeverStranded
    <2>4. CASE Lifecycle!Next BY <1>2, <2>3, <2>4, OpenIsOwed
    <2>5. CASE UNCHANGED Lifecycle!lifecycleVars
        <3>1. status'[e] = status[e] /\ Owing(e)' = Owing(e) BY <2>5 DEF Lifecycle!lifecycleVars
        <3> QED BY <2>3, <3>1
    <2>6. CASE \E r \in Retries : Drops(r)
        BY <2>3, <2>6 DEF Drops
    <2> QED BY <1>2, <2>4, <2>5, <2>6, LifecycleStep
<1>3. OwedInv => (Spared({"db", "crash", "stop"}) => NeverStranded) BY DEF OwedInv
<1> QED BY <1>1, <1>2, <1>3, TypeCorrect, RecordsInvariant, SteadyInvariant, PTL DEF Spec

=============================================================================
