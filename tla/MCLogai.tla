------------------------------ MODULE MCLogai -------------------------------
(***************************************************************************)
(* Small instances of Logai for TLC.  Errors, Retries and Fingerprints are *)
(* model values or integers of the cfg; the budgets below say which faults *)
(* a run may meet, and how often.                                          *)
(***************************************************************************)
EXTENDS LogaiInv

CONSTANTS
    Db, Redis, Reply, GitLabReply, Deadline, Crashes, Stops   \* the fault budgets

MCFaultBudget ==
    [db |-> Db, redis |-> Redis, reply |-> Reply, gitlab |-> GitLabReply,
     deadline |-> Deadline, crash |-> Crashes, stop |-> Stops]

=============================================================================
