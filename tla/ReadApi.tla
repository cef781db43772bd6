------------------------------ MODULE ReadApi -------------------------------
(***************************************************************************)
(* GET /errors/{id} (API.getError), the one answer of the API that is put  *)
(* together from several statements: the row of the error, its jobs and    *)
(* its newest merge request, without a transaction around them.            *)
(***************************************************************************)
EXTENDS TaskQueue

CONSTANT Readers   \* calls of GET /errors/{id}

VARIABLES
    readPc,   \* the statement that comes next, or the answer
    view      \* what they have returned

readVars == <<readPc, view>>

Statements  == {"first", "second", "third"}
ReadAnswers == {"ok", "notfound", "error", "lost"}

Views == [error : Errors, status : ErrorStatus, complete : BOOLEAN, mr : BOOLEAN]

ReadTypeOK ==
    /\ readPc \in [Readers -> Statements \cup ReadAnswers]
    /\ view \in [Readers -> Views]

ReadInit ==
    /\ readPc = [g \in Readers |-> "first"]
    /\ view \in [Readers ->
           {[error |-> e, status |-> "absent", complete |-> FALSE, mr |-> FALSE] : e \in Errors}]

(* Some run of the error has recorded a success for every stage. *)
HasCompleteRun(e) ==
    \E t \in TasksOf(e), n \in RunNumbers : \A s \in Stages : jobs[<<t, n, s>>] = "succeeded"

HasMR(e) == \E t \in TasksOf(e), n \in RunNumbers : <<t, n>> \in mrs

(* Mutant: the row of the error is read after the rest. *)
ReadOrder_ErrorLast == [first |-> "jobs", second |-> "mr", third |-> "error"]

ReadOrder == [first |-> "error", second |-> "jobs", third |-> "mr"]

Reads(g, what) == readPc[g] \in Statements /\ ReadOrder[readPc[g]] = what

After == [first |-> "second", second |-> "third", third |-> "ok"]

Returns(g, answer, v) ==
    /\ readPc' = [readPc EXCEPT ![g] = answer]
    /\ view' = [view EXCEPT ![g] = v]

(* GetError, ListJobsByError, GetMergeRequestByError.  An error that has   *)
(* no merge request is answered without one.                               *)
ReadStep(g) ==
    LET e == view[g].error IN
    /\ \/ /\ Reads(g, "error") /\ Stored(e) /\ NoFault
          /\ Returns(g, After[readPc[g]], [view[g] EXCEPT !.status = status[e]])
       \/ Reads(g, "error") /\ ~Stored(e) /\ NoFault /\ Returns(g, "notfound", view[g])
       \/ /\ Reads(g, "jobs") /\ NoFault
          /\ Returns(g, After[readPc[g]], [view[g] EXCEPT !.complete = HasCompleteRun(e)])
       \/ /\ Reads(g, "mr") /\ NoFault
          /\ Returns(g, After[readPc[g]], [view[g] EXCEPT !.mr = HasMR(e)])
       \/ readPc[g] \in Statements /\ Fault("db") /\ Returns(g, "error", view[g])
    /\ UNCHANGED <<storeVars, queueVars>>

=============================================================================
