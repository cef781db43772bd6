------------------------------- MODULE Faults -------------------------------
(***************************************************************************)
(* The failures of the environment that the handlers react to, each kind   *)
(* with a budget.  Failures of the LLM and of GitLab that are reported to  *)
(* the caller are not counted: they may happen on every call.              *)
(*                                                                         *)
(*   db        a SQL statement returns an error and has no effect          *)
(*   redis     an enqueue returns an error and has no effect               *)
(*   reply     an enqueue takes effect, but its caller gets an error       *)
(*   gitlab    a GitLab write takes effect, but its caller gets an error   *)
(*   deadline  the 20-minute context of a run expires                      *)
(*   crash     the process dies and is started again                       *)
(*   stop      the process is told to shut down, and is started again      *)
(***************************************************************************)
EXTENDS Naturals

FaultKinds == {"db", "redis", "reply", "gitlab", "deadline", "crash", "stop"}

CONSTANT FaultBudget   \* how many faults of each kind may still happen

ASSUME FaultBudgetAssumption == FaultBudget \in [FaultKinds -> Nat]

VARIABLE faults

FaultsTypeOK == faults \in [FaultKinds -> Nat]

FaultsInit == faults = FaultBudget

Fault(kind) ==
    /\ faults[kind] > 0
    /\ faults' = [faults EXCEPT ![kind] = @ - 1]

NoFault == UNCHANGED faults

=============================================================================
