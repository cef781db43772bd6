----------------------------- MODULE InputProps ------------------------------
(***************************************************************************)
(* What logai makes of its inputs, against what they mean to their writer. *)
(***************************************************************************)
EXTENDS Inputs

(* The files that the path may mean: what is left of it without its first  *)
(* segments, of which ResolveFile drops up to five, but no bare name.      *)
Reachable(file) ==
    LET parts == Named(filePath.segments)
    IN  \E n \in 0..5 : /\ n < Len(parts)
                        /\ file = SubSeq(parts, n + 1, Len(parts))
                        /\ n > 0 => Len(file) > 1

(* ResolveFile does not say that a file is missing, which ends the run for *)
(* good, nor take a shorter suffix, when the file was in the repository    *)
(* all the time: not for a failing request, nor for a push of others.      *)
StableFileIsFound ==
    answer \in {"found", "notfound"} =>
        \A file \in branch \ pushed :
            Reachable(file) => answer = "found" /\ Len(Resolved) >= Len(file)

(* The fix is committed to a file that the stack trace can mean: a suffix  *)
(* of its path, never the file's name alone (PathCandidates).              *)
FixesAFileOfTheTrace ==
    answer = "found" => Resolved \in branch \cup pushed /\ Reachable(Resolved)

(* Load lets the process start only with every required variable set, with *)
(* an endpoint for the model that is left when slashes are trimmed, and    *)
(* with a poll interval and lookback above zero.  What is required reaches *)
(* the configuration, but for a URL of GitLab or OpenSearch that is only   *)
(* slashes: it passes the test and is configured as empty.                 *)
ConfigurationIsUsable ==
    read.kind = "environment" /\ read.result.ok =>
        LET value == read.result.value
        IN  /\ \A key \in RequiredKeys :
                   /\ read.env[key] # "absent"
                   /\ value[key] = "absent" => key \in Urls /\ read.env[key] = "slashes"
            /\ \A key \in Endpoint : value[key] # "absent"
            /\ \A key \in Seconds : value[key] \notin {"not a number", "not positive"}
            /\ value["LLM_PROVIDER"] \in {"openrouter", "avalai", "custom"}
            /\ value["LLM_REASONING_EFFORT"] # "unknown"

(* The values, and objects, whose keys spell the path, however a logger    *)
(* nests them.                                                             *)
Spelling(doc, path) ==
    {Flat(doc, place) : place \in {p \in UNION {Prefixes(q) : q \in DOMAIN doc} : FlattenSeq(p) = path}}

(* The poller takes the trace of a document wherever its logger puts it,   *)
(* flat, nested, or half of each, and hands on nothing without a trace.    *)
TraceIsFound ==
    read.kind = "hit" =>
        LET traces == Spelling(read.doc, StackTraceField)
        IN  /\ traces = {"text"} => read.result
            /\ read.result => "text" \in traces

Frame(trace, i) == Cardinality({j \in 1..i : trace[j].words # <<>>})

(* Two reports that differ in one thing share a fingerprint if that is a   *)
(* blank line, an indentation, a line below the third frame or the case of *)
(* the message.  They do not if it is one of the first three frames, which *)
(* becomes a line that is not yet in the trace, or a longer message.  That *)
(* is so too of a report without message, which takes its first frame for  *)
(* one.  (Reports that differ in two things can share a fingerprint:       *)
(* nothing separates the message from the first frame, so that a text may  *)
(* move from one to the other.)                                            *)
FingerprintTellsErrors ==
    read.kind = "report" =>
        LET message == read.report.message
            trace   == read.report.trace
            Same(m, t) == Fingerprint(Title(m, t), t) = read.result
            Changed(i) == [trace EXCEPT ![i].words = <<"changed">>]
            Fresh == \A i \in 1..Len(trace) : trace[i].words # <<"changed">>
        IN  /\ \A i \in 1..(Len(trace) + 1) :
                   Same(message, InsertAt(trace, i, [indent |-> TRUE, words |-> <<>>]))
            /\ \A i \in 1..Len(trace) : Same(message, [trace EXCEPT ![i].indent = ~@])
            /\ Fresh => \A i \in 1..Len(trace) :
                            Same(message, Changed(i)) <=> Frame(Changed(i), i) > 3
            /\ Same(Lower(message), trace)
            /\ (message # <<>> \/ Fresh) => ~Same(message \o <<"changed">>, trace)

(* Which replies are cut down to the object, no more and no less, so that  *)
(* they can be decoded: an object that begins the reply, only if nothing   *)
(* follows it; one in a fence on a line of its own, if a fence follows it  *)
(* at once, whatever source code it holds, or else nothing follows and it  *)
(* holds no fence; and one after prose, only without braces in the text    *)
(* around it.  (Of a fence with text on its line nothing is said.)         *)
ObjectIsUnwrapped ==
    read.kind = "reply" =>
        LET before == read.reply.before
            object == read.reply.object
            after  == read.reply.after
            Whole  == read.result = object
        IN  /\ IsBlank(before) => (Whole <=> IsBlank(after))
            /\ OpensFence(before) =>
                   (Whole <=> \/ ClosesFence(after)
                              \/ IsBlank(after) /\ Places(object, "fence") = {})
            /\ Introduces(before) =>
                   (Whole <=> Places(before, "lbrace") = {} /\ Places(after, "rbrace") = {})

=============================================================================
