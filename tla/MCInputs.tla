------------------------------ MODULE MCInputs -------------------------------
(***************************************************************************)
(* Small sets of inputs of each kind: every state of the environment, all  *)
(* ways to nest a path of three parts, every short trace and source code,  *)
(* and paths of up to eight names, more than ResolveFile tries.            *)
(***************************************************************************)
EXTENDS InputProps, TLC

Ways(key) ==
    CASE key \in Urls -> {"absent", "set", "slashes"}
      [] key \in RequiredKeys \cup Endpoint -> {"absent", "set"}
      [] key = "LLM_PROVIDER" -> {"absent", "openrouter", "custom", "unknown"}
      [] key = "LLM_REASONING_EFFORT" -> {"absent", "none", "unknown"}
      [] key = "OPENSEARCH_POLL_INTERVAL_SECONDS" -> {"absent", "positive", "not positive"}
      [] key = "OPENSEARCH_LOOKBACK_SECONDS" -> {"absent", "positive", "not a number"}
      [] key = "GITLAB_MR_ASSIGNEE_ID" -> {"absent", "set", "not a number"}
      [] OTHER -> {"absent", "no"}

(* The functions that give every key one of its ways. *)
RECURSIVE Settings(_)
Settings(keys) ==
    IF keys = {} THEN {<<>>}
    ELSE LET key == CHOOSE k \in keys : TRUE
         IN  {(key :> way) @@ rest : way \in Ways(key), rest \in Settings(keys \ {key})}

MCEnvironments == Settings(Keys)

MCStackTraceField == <<"error", "stack", "trace">>

Text(t) == [kind |-> "string", texts |-> <<t>>]
List(t, u) == [kind |-> "list", texts |-> <<t, u>>]

Values == {[kind |-> "nil", texts |-> <<>>], Text("blank"), Text("text"), List("empty", "text")}

TracePlaces ==
    {<<<<"error", "stack", "trace">>>>, <<<<"error">>, <<"stack", "trace">>>>,
     <<<<"error", "stack">>, <<"trace">>>>, <<<<"error">>, <<"stack">>, <<"trace">>>>}

(* What is found below a part of the path, or where the trace should be.   *)
Objects ==
    {<<<<"error", "stack", "trace">>, <<"id">>>>, <<<<"error">>, <<"stack", "trace">>, <<"id">>>>,
     <<<<"error", "stack">>, <<"id">>>>, <<<<"error">>, <<"id">>>>}

(* A key has one value: where there is an object there is nothing else.    *)
Decodable(places) ==
    \A p, q \in places : p # q => SubSeq(q, 1, Min({Len(p), Len(q)})) # p

MCHits ==
    UNION {[places -> Values] : places \in SUBSET TracePlaces}
    \cup UNION {[places -> {Text("blank"), Text("text")}] :
                  places \in {ps \in SUBSET (TracePlaces \cup Objects) : Decodable(ps)}}

Lines == {[indent |-> FALSE, words |-> <<>>], [indent |-> FALSE, words |-> <<"at", "f">>],
          [indent |-> TRUE, words |-> <<"at", "g">>]}

MCErrors ==
    [message : {<<"Fail", "f">>, <<"at">>, <<>>}, trace : UNION {[1..n -> Lines] : n \in 0..5}]

Codes == UNION {[1..n -> {"word", "fence", "lbrace", "rbrace", "\n"}] : n \in 0..4}

Befores ==
    {<<>>, <<"\n">>, <<"fence", "\n">>, <<"\n", "fence", "json", "\n">>, <<"\n", "prose">>,
     <<"prose", "fence", "\n">>, <<"lbrace", "prose">>, <<"prose", "lbrace">>}

Afters ==
    {<<>>, <<"\n">>, <<"fence">>, <<"\n", "fence", "\n", "prose">>, <<"prose", "fence">>,
     <<"fence", "prose", "fence">>, <<"prose">>, <<"\n", "prose", "rbrace">>}

MCReplies ==
    [before : Befores, object : {<<"lbrace">> \o code \o <<"rbrace">> : code \in Codes},
     after : Afters]

Deep == <<"n1", "n2", "n3", "n4", "n5", "n6", "n7", "n8">>

MCFiles == {SubSeq(Deep, i, 8) : i \in 1..8}

MCTrees == {files \in SUBSET MCFiles : Cardinality(files) <= 2}

MCPaths ==
    LET names == {SubSeq(Deep, i, 8) : i \in {1, 4, 7, 8, 9}}
    IN  [drive : {FALSE}, segments : names \cup {<<"", ".">> \o n : n \in names}]
        \cup [drive : {TRUE}, segments : {<<"">> \o n : n \in names}]

=============================================================================
