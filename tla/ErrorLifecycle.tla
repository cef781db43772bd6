--------------------------- MODULE ErrorLifecycle ---------------------------
(***************************************************************************)
(* What logai promises for one stored error, without tasks, stages and     *)
(* calls.  Some call owes the error a result as long as it is "new" or     *)
(* "processing"; a call that stops owing it leaves a result behind.        *)
(***************************************************************************)
CONSTANTS Errors, Calls

VARIABLES
    result,  \* what the status column shows
    owed     \* the calls that will still bring the error to a result

lifecycleVars == <<result, owed>>

Open == {"new", "processing"}
Over == {"skipped", "fixed", "failed"}

Init ==
    /\ result = [e \in Errors |-> "absent"]
    /\ owed = [e \in Errors |-> {}]

Write(e, r, calls) ==
    /\ result' = [result EXCEPT ![e] = r]
    /\ owed' = [owed EXCEPT ![e] = calls]

(* A report is stored. *)
Accept(e, c) == result[e] = "absent" /\ Write(e, "new", {c})

(* Someone asks for another run. *)
Reopen(e, c) == result[e] # "absent" /\ c \notin owed[e] /\ Write(e, "new", owed[e] \cup {c})

(* A run starts, or ends without a result and will be repeated. *)
Work(e) == \E r \in Open : owed[e] # {} /\ Write(e, r, owed[e])

(* A call settles the error.  It may still be owed: a call that only       *)
(* believes to have failed leaves its task behind.                         *)
Finish(e, c) ==
    \E r \in Over : c \in owed[e] /\ \E calls \in {owed[e], owed[e] \ {c}} : Write(e, r, calls)

Step(e) == Work(e) \/ \E c \in Calls : Accept(e, c) \/ Reopen(e, c) \/ Finish(e, c)

Next == \E e \in Errors : Step(e)

Spec == Init /\ [][Next]_lifecycleVars

=============================================================================
