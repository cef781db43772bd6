------------------------------- MODULE Answers -------------------------------
(***************************************************************************)
(* StripFences of the LLM client: the JSON object is cut out of what the   *)
(* model has written.  A text is a sequence of the tokens that the code    *)
(* looks for, the fence, the braces and the end of a line, and of words.   *)
(***************************************************************************)
EXTENDS Integers, Sequences, FiniteSetsExt

Places(s, token) == {i \in 1..Len(s) : s[i] = token}

Index(s, token)     == IF Places(s, token) = {} THEN 0 ELSE Min(Places(s, token))
LastIndex(s, token) == IF Places(s, token) = {} THEN 0 ELSE Max(Places(s, token))

TrimSpace(s) ==
    LET ink == {i \in 1..Len(s) : s[i] # "\n"}
    IN  IF ink = {} THEN <<>> ELSE SubSeq(s, Min(ink), Max(ink))

(* Mutant: the text ends at the next fence. *)
Unfence_NextFence(s) ==
    LET inner == SubSeq(s, IF Index(s, "\n") > 0 THEN Index(s, "\n") + 1 ELSE 2, Len(s))
        close == Index(inner, "fence")
    IN  IF close > 0 THEN SubSeq(inner, 1, close - 1) ELSE inner

(* The line of the opening fence goes, and all from the last fence on.     *)
Unfence(s) ==
    LET inner == SubSeq(s, IF Index(s, "\n") > 0 THEN Index(s, "\n") + 1 ELSE 2, Len(s))
        close == LastIndex(inner, "fence")
    IN  IF close > 0 THEN SubSeq(inner, 1, close - 1) ELSE inner

StripFences(raw) ==
    LET s     == TrimSpace(raw)
        start == Index(s, "lbrace")
        end   == LastIndex(s, "rbrace")
    IN  IF s # <<>> /\ s[1] = "fence" THEN TrimSpace(Unfence(s))
        ELSE IF start > 1 /\ end > start THEN SubSeq(s, start, end)
        ELSE s

=============================================================================
