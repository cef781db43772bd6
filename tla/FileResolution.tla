--------------------------- MODULE FileResolution ---------------------------
(***************************************************************************)
(* ResolveFile of the GitLab client: the path of a stack trace, often that *)
(* of a container, is asked for in the repository suffix by suffix, while  *)
(* others may push to the branch.                                          *)
(*                                                                         *)
(* A path of the repository is a sequence of names.  One of a stack trace  *)
(* is such a sequence, in which empty and "." segments may occur too, and  *)
(* maybe a drive letter; slash and backslash both separate.                *)
(***************************************************************************)
EXTENDS Integers, Sequences, FiniteSetsExt

CONSTANT Pushes   \* how many times somebody pushes while a path is resolved

ASSUME PushesAssumption == Pushes \in Nat

VARIABLES
    filePath,  \* the path to resolve, [drive, segments]
    branch,    \* the files on the default branch
    pushed,    \* the files that were added or removed since the first request
    tried,     \* how many candidates GitLab has answered with 404
    answer     \* what ResolveFile has come to

resolveVars == <<filePath, branch, pushed, tried, answer>>

ResolveInit ==
    /\ filePath = [drive |-> FALSE, segments |-> <<>>]
    /\ branch = {} /\ pushed = {} /\ tried = 0 /\ answer = "none"

maxPathCandidates == 6

(* The segments of a path that are names. *)
Named(segments) ==
    LET parts[n \in 0..Len(segments)] ==
            IF n = 0 THEN <<>>
            ELSE IF segments[n] \in {"", "."} THEN parts[n - 1]
            ELSE Append(parts[n - 1], segments[n])
    IN  parts[Len(segments)]

(* Mutant: the bare name is tried alone. *)
PathCandidates_BareName(p) ==
    LET parts == Named(p.segments)
    IN  [i \in 1..Min({Len(parts), maxPathCandidates}) |-> SubSeq(parts, i, Len(parts))]

(* The longest suffixes, longest first.  A drive letter is cut off, that   *)
(* is, not looked at; a name alone is a candidate only if it is the path.  *)
PathCandidates(p) ==
    LET parts == Named(p.segments)
    IN  IF Len(parts) <= 1
        THEN IF parts = <<>> THEN <<>> ELSE <<parts>>
        ELSE [i \in 1..Min({Len(parts) - 1, maxPathCandidates}) |-> SubSeq(parts, i, Len(parts))]

Candidates == PathCandidates(filePath)

(* The fix stage asks for the path that the model has localized. *)
Ask(p, files) ==
    /\ answer = "none"
    /\ filePath' = p /\ branch' = files
    /\ answer' = "asking"
    /\ UNCHANGED <<pushed, tried>>

(* GetFileContent: 200, 404, or an error of any other kind.                *)
Finds ==
    /\ answer = "asking" /\ tried < Len(Candidates)
    /\ Candidates[tried + 1] \in branch
    /\ answer' = "found"
    /\ UNCHANGED <<filePath, branch, pushed, tried>>

Misses ==
    /\ answer = "asking" /\ tried < Len(Candidates)
    /\ Candidates[tried + 1] \notin branch
    /\ tried' = tried + 1
    /\ UNCHANGED <<filePath, branch, pushed, answer>>

(* Mutant: after any error the next candidate is tried. *)
RequestFails_GoesOn ==
    /\ answer = "asking" /\ tried < Len(Candidates)
    /\ tried' = tried + 1
    /\ UNCHANGED <<filePath, branch, pushed, answer>>

RequestFails ==
    /\ answer = "asking" /\ tried < Len(Candidates)
    /\ answer' = "failed"
    /\ UNCHANGED <<filePath, branch, pushed, tried>>

(* ErrFileNotFound, on which the pipeline does not retry. *)
GivesUp ==
    /\ answer = "asking" /\ tried = Len(Candidates)
    /\ answer' = "notfound"
    /\ UNCHANGED <<filePath, branch, pushed, tried>>

(* Somebody adds or removes a file (external). *)
Push(file) ==
    /\ answer = "asking" /\ Cardinality(pushed) < Pushes
    /\ branch' = IF file \in branch THEN branch \ {file} ELSE branch \cup {file}
    /\ pushed' = pushed \cup {file}
    /\ UNCHANGED <<filePath, tried, answer>>

ResolveStep == Finds \/ Misses \/ RequestFails \/ GivesUp

Resolved == Candidates[tried + 1]

=============================================================================
