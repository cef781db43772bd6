------------------------------ MODULE LogaiInv ------------------------------
(***************************************************************************)
(* The inductive invariants that the proofs about Logai rest on.  First    *)
(* the one behind RecordsMatchGitLab, FixedIsBacked and DetailShowsFix:    *)
(* what each label of a run says about the rows it has written so far, and *)
(* about those that no run can have written yet; and what a call that      *)
(* reads them has seen.  It holds under every fault.                       *)
(***************************************************************************)
EXTENDS LogaiProps

Earlier == [triage |-> {}, localize |-> {"triage"},
            fix |-> {"triage", "localize"},
            gitlab |-> {"triage", "localize", "fix"}]

Later(s) == Stages \ (Earlier[s] \cup {s})

RowOf(t, s) == jobs[<<t, runs[t], s>>]

(* A task and a call that is about to make one stand for a stored row, and *)
(* no call makes two.  A handler runs for an active task, or goes on for   *)
(* one that a server about to exit has put back.                           *)
Returned(t) == taskState[t] = "pending" /\ server = "stopping"

CallsInv ==
    /\ \A e \in Errors :
        /\ payload[e] = e
        /\ ingestPc[e] \in {"idle", "insert", "enqueue"} => taskState[e] = "none"
        /\ ingestPc[e] \in {"enqueue", "markfailed"} => Stored(e)
    /\ \A r \in Retries :
        /\ retryPc[r] \in {"idle", "reset", "enqueue"} => taskState[r] = "none"
        /\ retryPc[r] \in {"reset", "enqueue"} => Stored(payload[r])
    /\ \A t \in Tasks :
        /\ taskState[t] # "none" => Stored(payload[t])
        /\ InProgress(t) => taskState[t] = "active" \/ Returned(t)

(* The label and the stage of a run fit together. *)
ControlOf(t) ==
    /\ pc[t] \in {"idle", "load", "mark", "record"} => stage[t] = "triage"
    /\ pc[t] \in {"branch", "commit", "openmr", "savemr", "fixed"} => stage[t] = "gitlab"

ControlInv == \A t \in Tasks : ControlOf(t)

(* The rows of later runs do not exist yet, nor do those of the stages     *)
(* that the current run has not reached; those it has passed succeeded.    *)
JobsOf(t) ==
    /\ \A n \in RunNumbers, s \in Stages : n > runs[t] => jobs[<<t, n, s>>] = "absent"
    /\ pc[t] \in {"load", "mark"} => \A s \in Stages : RowOf(t, s) = "absent"
    /\ pc[t] \in {"start"} \cup Working =>
           /\ \A s \in Earlier[stage[t]] : RowOf(t, s) = "succeeded"
           /\ \A s \in Later(stage[t]) : RowOf(t, s) = "absent"
    /\ pc[t] = "start" => RowOf(t, stage[t]) = "absent"
    /\ pc[t] \in Working => RowOf(t, stage[t]) = "running"
    /\ pc[t] = "fixed" => \A s \in Stages : RowOf(t, s) = "succeeded"

JobsInv == \A t \in Tasks : JobsOf(t)

(* The risk columns are filled before the triage job is closed. *)
TriageOf(t) ==
    \/ pc[t] \in {"start"} \cup Working /\ stage[t] # "triage"
    \/ pc[t] \in {"finish", "fixed"}
    => payload[t] \in triaged

TriageInv == \A t \in Tasks : TriageOf(t)

(* A run stores its MR after it has opened it and before it succeeds. *)
MergeRequestOf(t) ==
    /\ pc[t] = "savemr" => repo[RunId(t)] = "mr"
    /\ pc[t] = "fixed" \/ (pc[t] = "finish" /\ stage[t] = "gitlab") => RunId(t) \in mrs
    /\ pc[t] \in Working \ {"finish"} => RunId(t) \notin mrs

MergeRequestsInv ==
    /\ \A r \in mrs : jobs[<<r[1], r[2], "gitlab">>] # "absent"
    /\ \A t \in Tasks : MergeRequestOf(t)

(* What backs a fixed error is there when its row is read, and stays.  *)
ReaderOf(g) ==
    view[g].status = "fixed" =>
        /\ readPc[g] \in {"second", "third", "ok"} =>
               HasCompleteRun(view[g].error) /\ HasMR(view[g].error)
        /\ readPc[g] \in {"third", "ok"} => view[g].complete
        /\ readPc[g] = "ok" => view[g].mr

ReadersInv == \A g \in Readers : ReaderOf(g)

RecordsInv ==
    /\ CallsInv /\ ControlInv /\ JobsInv /\ TriageInv /\ MergeRequestsInv
    /\ RecordsMatchGitLab /\ FixedIsBacked /\ ReadersInv

-----------------------------------------------------------------------------
(* What holds as long as some kinds of fault have not struck, whatever the *)
(* budgets allow.                                                          *)

Spared(kinds) == \A k \in kinds : faults[k] = FaultBudget[k]

BudgetInv == \A k \in FaultKinds : faults[k] <= FaultBudget[k]

(* A context expires or is cancelled during its run, that of an abandoned  *)
(* run has been; and a run that succeeds has met no error.                 *)
ContextOf(t) ==
    /\ \A n \in RunNumbers : n > runs[t] => <<t, n>> \notin expired
    /\ Abandoned(t) => RunId(t) \in expired
    /\ pc[t] = "skip" => outcome[t] = "stop"
    /\ pc[t] = "fixed" => outcome[t] = "go"

(* While the process lives, a task is active exactly as long as its run,   *)
(* and no run is cut off before its deadline.                              *)
SteadyOf(t) ==
    /\ taskState[t] = "active" <=> InProgress(t)
    /\ pc[t] \in {"load", "mark"} => RunId(t) \notin expired

SteadyInv ==
    /\ BudgetInv
    /\ \A t \in Tasks : ContextOf(t)
    /\ Spared({"crash", "stop"}) => server = "running" /\ \A t \in Tasks : SteadyOf(t)

ClosedInv == Spared({"db", "crash"}) => JobsClosed

OwedInv == Spared({"db", "crash", "stop"}) => NeverStranded

(* Before the first run, and from the end of a run that will be retried    *)
(* until the next one, the status of an error without other tasks is "new".*)
SoleOf(e) ==
    (\A t \in TasksOf(e) \ {e} : ~EverEnqueued(t)) =>
        /\ ingestPc[e] = "enqueue" => status[e] = "new"
        /\ ingestPc[e] = "accepted" =>
            /\ taskState[e] = "retry" \/ (pc[e] = "settle" /\ WillRetry(e)) => status[e] = "new"
            /\ status[e] = "failed" => ~Owes(e)

SoleInv == Spared({"db", "crash", "stop"}) => \A e \in Errors : SoleOf(e)

(* Some task has fixed an error that is fixed, and will not be run again;  *)
(* and nobody believes that a task in the queue was not enqueued.          *)
FinalOf(e) ==
    /\ ingestPc[e] = "markfailed" => taskState[e] = "none"
    /\ status[e] = "fixed" => \E u \in TasksOf(e) : HasFixed(u)

FinalInv == Spared({"reply", "crash", "stop"}) => \A e \in Errors : FinalOf(e)

-----------------------------------------------------------------------------
(* The inductive invariant behind ExtraMRsCostFaults: an MR of an earlier  *)
(* run has been paid for, and that of the current run has been as soon as  *)
(* the run is bound to be repeated or may be cut off at any moment.        *)

BeforeMR == {"load", "mark", "start", "call", "record", "skip",
             "branch", "commit", "openmr"}

CutShort(t) == RunId(t) \in expired \/ server = "stopping"

EarlierMRsOf(t) == OpenMRsOf(t) \ {RunId(t)}

PaidOf(t) ==
    /\ pc[t] \notin {"failjob", "fail", "settle"} => outcome[t] \in {"go", "stop"}
    /\ outcome[t] = "stop" => stage[t] # "gitlab"
    /\ \A n \in RunNumbers : n > runs[t] => repo[<<t, n>>] = "absent"
    /\ pc[t] \in BeforeMR \/ (pc[t] = "finish" /\ stage[t] # "gitlab") => repo[RunId(t)] # "mr"
    /\ InProgress(t) => Cardinality(EarlierMRsOf(t)) <= FaultsUsed
    /\ InProgress(t) /\ CutShort(t) => Cardinality(EarlierMRsOf(t)) + 1 <= FaultsUsed
    /\ InProgress(t) /\ outcome[t] \in {"retryable", "final"} =>
           Cardinality(OpenMRsOf(t)) <= FaultsUsed
    /\ ~InProgress(t) /\ taskState[t] \notin {"done", "archived"} =>
           Cardinality(OpenMRsOf(t)) <= FaultsUsed
    /\ ~InProgress(t) => Cardinality(OpenMRsOf(t)) <= FaultsUsed + 1

PaidInv == \A t \in Tasks : PaidOf(t)

=============================================================================
