------------------------------ MODULE Documents ------------------------------
(***************************************************************************)
(* How a hit of OpenSearch becomes a report, and a report, whichever way   *)
(* it came, a fingerprint (internal/ingestion).                            *)
(*                                                                         *)
(* A decoded document is a function from the places of its values to the   *)
(* values.  A place is the sequence of the keys that lead there, a key the *)
(* sequence of the parts between its dots: {"a": {"b.c": 1}} has a value   *)
(* at <<<<"a">>, <<"b", "c">>>>.  Of a text it matters only whether it is  *)
(* "empty", "blank" (white space) or "text".                               *)
(***************************************************************************)
EXTENDS Integers, SequencesExt

(* The configured path of the trace.  The other fields are read like it,   *)
(* and do not decide whether a document is of use.                         *)
CONSTANT StackTraceField

(* A name that is not configured has a default. *)
ASSUME FieldAssumption == StackTraceField \in Seq(STRING) \ {<<>>}

(* A value is [kind, texts]: nil, a string, a list, whose elements become  *)
(* lines, or anything else, which prints as a text.                        *)
Stringify(v) ==
    CASE v.kind = "nil"   -> "empty"
      [] v.kind = "other" -> "text"
      [] OTHER -> IF "text" \in Range(v.texts) THEN "text"
                  ELSE IF v.texts \in {<<>>, <<"empty">>} THEN "empty" ELSE "blank"

(* What is found at a place.  An object, of which there are only parts,    *)
(* prints as a text.                                                       *)
Flat(doc, place) == IF place \in DOMAIN doc THEN Stringify(doc[place]) ELSE "text"

Holds(doc, place) == \E p \in DOMAIN doc : IsPrefix(place, p)

(* Mutant: only the first part of the path is tried as the key of a child. *)
LookupString_OneLevel(doc, path) ==
    LET value[n \in 0..Len(path)] == [place \in Seq(Seq(STRING)) |->
            LET flat == Append(place, SubSeq(path, n + 1, Len(path)))
            IN  IF Holds(doc, flat) THEN Flat(doc, flat)
                ELSE IF n = Len(path) - 1 THEN "empty"
                ELSE value[n + 1][Append(place, <<path[n + 1]>>)]]
    IN  value[0][<<>>]

(* In the object at a place, to which n parts of the path have led, the    *)
(* rest is a flat key, which wins although its value be nil, or begins     *)
(* with the key of a child: ever longer ones are tried, until one has a    *)
(* value.                                                                  *)
LookupString(doc, path) ==
    LET value[n \in 0..Len(path)] == [place \in Seq(Seq(STRING)) |->
            LET flat     == Append(place, SubSeq(path, n + 1, Len(path)))
                Under(m) == value[m][Append(place, SubSeq(path, n + 1, m))]
                holding  == {m \in (n + 1)..(Len(path) - 1) : Under(m) # "empty"}
            IN  IF Holds(doc, flat) THEN Flat(doc, flat)
                ELSE IF holding = {} THEN "empty" ELSE Under(Min(holding))]
    IN  value[0][<<>>]

(* A document is of use with a trace. *)
MapDocument(doc) == LookupString(doc, StackTraceField) = "text"

-----------------------------------------------------------------------------

(* Mutant: three lines, blank ones and indentation included. *)
Frames_Raw(trace) ==
    [i \in 1..Min({Len(trace), 3}) |->
        IF trace[i].indent THEN <<"  ">> \o trace[i].words ELSE trace[i].words]

(* A line of a trace is [indent, words]; without words it is blank.        *)
Filled(trace) ==
    LET lines[n \in 0..Len(trace)] ==
            IF n = 0 THEN <<>>
            ELSE IF trace[n].words = <<>> THEN lines[n - 1]
            ELSE Append(lines[n - 1], trace[n].words)
    IN  lines[Len(trace)]

(* A report needs a message at the webhook, a trace at the poller.  (A     *)
(* message without words is blank.)                                        *)
Reportable(message, trace) == message # <<>> \/ Filled(trace) # <<>>

(* The first line of the trace stands in for a message that is blank.      *)
Title(message, trace) == IF message = <<>> THEN Filled(trace)[1] ELSE message

Frames(trace) == SubSeq(Filled(trace), 1, Min({Len(Filled(trace)), 3}))

Lower(message) == [i \in 1..Len(message) |-> IF message[i] = "Fail" THEN "fail" ELSE message[i]]

JoinLines(lines) ==
    FlattenSeq([i \in 1..Len(lines) |-> IF i = 1 THEN lines[i] ELSE <<"\n">> \o lines[i]])

(* What is hashed (SHA-256 is taken to be injective): nothing separates    *)
(* the message from the first line.                                        *)
Fingerprint(message, trace) == Lower(message) \o JoinLines(Frames(trace))

=============================================================================
