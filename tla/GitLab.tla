------------------------------- MODULE GitLab -------------------------------
(***************************************************************************)
(* What the write operations of internal/gitlab/client.go change on the    *)
(* GitLab server.  A run works on one branch of its own, so the branch is  *)
(* named by the run.  The name really ends in the second of its creation:  *)
(* two runs of one error in the same second would ask for the same branch, *)
(* GitLab refuses the second request, and that is the CreateBranch error   *)
(* which every run may meet anyway.                                        *)
(***************************************************************************)
EXTENDS ErrorStore

VARIABLE repo   \* how far the branch of each run has come

Progress == {"absent", "branched", "committed", "mr"}

GitLabTypeOK == repo \in [RunIds -> Progress]

GitLabInit == repo = [r \in RunIds |-> "absent"]

Advance(r, from, to) ==
    /\ repo[r] = from
    /\ repo' = [repo EXCEPT ![r] = to]

CreateBranch(r) == Advance(r, "absent", "branched")
CommitFile(r)   == Advance(r, "branched", "committed")
CreateMR(r)     == Advance(r, "committed", "mr")

(* The caller sees an error: the request was refused or never sent, or     *)
(* GitLab carried it out and the answer was lost or could not be decoded.  *)
ReportsError(Write) ==
    \/ NoFault /\ UNCHANGED repo
    \/ Fault("gitlab") /\ Write

=============================================================================
