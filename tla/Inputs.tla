------------------------------- MODULE Inputs --------------------------------
(***************************************************************************)
(* What logai reads from outside, and what it makes of it: environment,    *)
(* hits of OpenSearch, reports, answers of the model, and the path for     *)
(* which it asks GitLab.  One input is read after the other.               *)
(***************************************************************************)
EXTENDS FileResolution, Documents, Answers, Configuration

CONSTANTS
    Environments,  \* [Keys -> ways of being set]
    Hits,          \* documents of OpenSearch
    Errors,        \* reports, [message, trace]
    Replies,       \* the model's replies, [before, object, after]
    Paths,         \* paths of stack traces
    Files,         \* files of the repository
    Trees          \* sets of them

(* A decoded document has its values at places of at least one key, and    *)
(* keys have at least one part.                                            *)
ASSUME HitsAssumption ==
    \A doc \in Hits : \A place \in DOMAIN doc :
        /\ place # <<>> /\ place \in Seq(Seq(STRING))
        /\ \A i \in 1..Len(place) : place[i] # <<>>

ASSUME EnvironmentsAssumption ==
    \A env \in Environments : DOMAIN env = Keys /\ Provider(env) \in DOMAIN ProviderDefaults

(* A report was cut into lines, and a line into words. *)
ASSUME ErrorsAssumption ==
    \A e \in Errors :
        /\ e.message \in Seq(STRING)
        /\ e.trace \in Seq([indent : BOOLEAN, words : Seq(STRING \ {"\n"})])

IsBlank(s) == \A i \in 1..Len(s) : s[i] = "\n"

(* The line of a fence, maybe with the name of a language. *)
OpensFence(s) ==
    \E first \in 1..Len(s) : \E last \in (first + 1)..Len(s) :
        /\ IsBlank(SubSeq(s, 1, first - 1)) /\ s[first] = "fence"
        /\ \A i \in (first + 1)..(last - 1) : s[i] # "\n"
        /\ IsBlank(SubSeq(s, last, Len(s)))

ClosesFence(s) ==
    \E first \in 1..Len(s) :
        /\ IsBlank(SubSeq(s, 1, first - 1)) /\ s[first] = "fence"
        /\ \A i \in (first + 1)..Len(s) : s[i] # "fence"

(* Prose, which does not begin with a fence. *)
Introduces(s) ==
    \E first \in 1..Len(s) :
        IsBlank(SubSeq(s, 1, first - 1)) /\ s[first] \notin {"\n", "fence"}

(* The model hands over an object, with anything around it. *)
ASSUME RepliesAssumption ==
    \A reply \in Replies :
        /\ reply.before \in Seq(STRING) /\ reply.object \in Seq(STRING) /\ reply.after \in Seq(STRING)
        /\ Len(reply.object) >= 2
        /\ reply.object[1] = "lbrace" /\ reply.object[Len(reply.object)] = "rbrace"

ASSUME PathsAssumption == \A p \in Paths : p.segments \in Seq(STRING)

VARIABLE read   \* the input that was read, and the result

vars == <<read, resolveVars>>

Nothing == [kind |-> "nothing"]

Init == read = Nothing /\ ResolveInit

Reads(input) == read' = input /\ UNCHANGED resolveVars

LoadEnvironment(env) == Reads([kind |-> "environment", env |-> env, result |-> Load(env)])

ReadHit(doc) == Reads([kind |-> "hit", doc |-> doc, result |-> MapDocument(doc)])

ReadReport(e) ==
    /\ Reportable(e.message, e.trace)
    /\ Reads([kind |-> "report", report |-> e,
              result |-> Fingerprint(Title(e.message, e.trace), e.trace)])

ParseJSON(reply) ==
    Reads([kind |-> "reply", reply |-> reply,
           result |-> StripFences(reply.before \o reply.object \o reply.after)])

ResolveFile(p, files) == read' = [kind |-> "path"] /\ Ask(p, files)

ReadInput ==
    /\ read = Nothing
    /\ \/ \E env \in Environments : LoadEnvironment(env)
       \/ \E doc \in Hits : ReadHit(doc)
       \/ \E e \in Errors : ReadReport(e)
       \/ \E reply \in Replies : ParseJSON(reply)
       \/ \E p \in Paths, files \in Trees : ResolveFile(p, files)

Return ==
    /\ read # Nothing /\ answer # "asking"
    /\ read' = Nothing
    /\ filePath' = [drive |-> FALSE, segments |-> <<>>]
    /\ branch' = {} /\ pushed' = {} /\ tried' = 0 /\ answer' = "none"

Next ==
    \/ ReadInput
    \/ \E file \in Files : Push(file) /\ UNCHANGED read
    \/ ResolveStep /\ UNCHANGED read
    \/ Return

Spec == Init /\ [][Next]_vars

=============================================================================
