----------------------------- MODULE LLMClient ------------------------------
(***************************************************************************)
(* internal/llm/client.go: Complete, its retries and its waits, under the  *)
(* clock of the run that called it.  The client is used by one goroutine   *)
(* of the run at a time, so that a step is a request with its answer, or a *)
(* sleep.                                                                  *)
(*                                                                         *)
(* A response is what once() looks at: the HTTP status with its            *)
(* retry-after, the code of an error object in the body (0: no such        *)
(* object, -1: a code that is no number), and how the first choice ended   *)
(* ("none": no choices, "empty": blank content, "garbled": no JSON).       *)
(***************************************************************************)
EXTENDS Integers

CONSTANTS
    MaxRetries,    \* Client.MaxRetries
    HttpTimeout, BaseBackoff, MaxBackoff,
    Deadline,      \* pipelineTimeout
    Latencies,     \* how long an answer may take
    Responses      \* what the provider may answer

ASSUME TimesAssumption ==
    /\ {MaxRetries, HttpTimeout, BaseBackoff, MaxBackoff, Deadline} \subseteq Nat
    /\ Deadline > 0
    /\ Latencies \subseteq Nat

Finishes == {"stop", "length", "content_filter", "error", "empty", "none", "garbled"}

ASSUME ResponsesAssumption ==
    Responses \subseteq [status : Nat, retryAfter : Nat, code : Int, finish : Finishes]

VARIABLES
    at,        \* what the client does next, or how Complete returned
    attempt,   \* the retries made so far
    err,       \* lastErr
    clock,     \* time since the run started
    answered,  \* external: when the provider last answered
    pause      \* external: how long its status and header asked to wait then

clientVars == <<at, attempt, err, clock, answered, pause>>

Kinds   == {"nil", "status", "truncated", "refused", "other"}
NoError == [kind |-> "nil", status |-> 0, retryAfter |-> 0]
Failed(kind) == [NoError EXCEPT !.kind = kind]
StatusError(s, after) == [kind |-> "status", status |-> s, retryAfter |-> after]

ClientTypeOK ==
    /\ at \in {"idle", "request", "sleep", "text", "error"}
    /\ attempt \in 0..MaxRetries
    /\ err \in [kind : Kinds, status : Nat, retryAfter : Nat]
    /\ clock \in 0..Deadline
    /\ answered \in 0..Deadline
    /\ pause \in Nat

ClientInit ==
    /\ at = "idle" /\ attempt = 0 /\ err = NoError
    /\ clock = 0 /\ answered = 0 /\ pause = 0

Retryable(s) == s \in {408, 429, 500, 502, 503, 504, 529}

ErrorCode(c) == IF c > 0 THEN c ELSE 502

(* Mutant: the header of an error response is not read. *)
Outcome_NoHeader(r) ==
    CASE r.status # 200               -> StatusError(r.status, 0)
      [] r.status = 200 /\ r.code # 0 -> StatusError(ErrorCode(r.code), 0)
      [] OTHER ->
            [stop           |-> NoError,
             length         |-> Failed("truncated"),
             content_filter |-> Failed("refused"),
             error          |-> StatusError(502, 0),
             empty          |-> Failed("other"),
             none           |-> Failed("other"),
             garbled        |-> Failed("other")][r.finish]

(* What once() makes of a response.  An error object in the body of a      *)
(* response with status 200 comes without the retry-after of its header.   *)
Outcome(r) ==
    CASE r.status # 200               -> StatusError(r.status, r.retryAfter)
      [] r.status = 200 /\ r.code # 0 -> StatusError(ErrorCode(r.code), 0)
      [] OTHER ->
            [stop           |-> NoError,
             length         |-> Failed("truncated"),
             content_filter |-> Failed("refused"),
             error          |-> StatusError(502, 0),
             empty          |-> Failed("other"),
             none           |-> Failed("other"),
             garbled        |-> Failed("other")][r.finish]

Least(a, b) == IF a <= b THEN a ELSE b

Backoff(n, e) ==
    Least(IF e.retryAfter > 0 THEN e.retryAfter ELSE BaseBackoff * 2^(n - 1), MaxBackoff)

(* The same request would fail in the same way. *)
Permanent(e) ==
    \/ e.kind = "status" /\ ~Retryable(e.status)
    \/ e.kind \in {"truncated", "refused"}

Expired == clock = Deadline

-----------------------------------------------------------------------------

Call ==
    /\ at = "idle"
    /\ at' = "request" /\ attempt' = 0 /\ err' = NoError
    /\ UNCHANGED <<clock, answered, pause>>

(* Mutant: attempt < c.MaxRetries. *)
Conclude_OneLess(e, now) ==
    /\ err' = e
    /\ \/ e = NoError /\ at' = "text" /\ UNCHANGED attempt
       \/ /\ e # NoError
          /\ IF now = Deadline \/ Permanent(e) \/ attempt + 1 >= MaxRetries
             THEN at' = "error" /\ UNCHANGED attempt
             ELSE at' = "sleep" /\ attempt' = attempt + 1

(* The loop of Complete, after once() has returned e at the given time. *)
Conclude(e, now) ==
    /\ err' = e
    /\ \/ e = NoError /\ at' = "text" /\ UNCHANGED attempt
       \/ /\ e # NoError
          /\ IF now = Deadline \/ Permanent(e) \/ attempt = MaxRetries
             THEN at' = "error" /\ UNCHANGED attempt
             ELSE at' = "sleep" /\ attempt' = attempt + 1

(* The provider answers in time for both the HTTP client and the run. *)
Answer ==
    /\ at = "request"
    /\ ~Expired
    /\ \E d \in Latencies, r \in Responses :
        /\ d <= HttpTimeout /\ clock + d <= Deadline
        /\ clock' = clock + d
        /\ answered' = clock + d
        /\ pause' = IF r.status = 200 THEN 0 ELSE r.retryAfter
        /\ Conclude(Outcome(r), clock + d)

(* No connection, no answer in time, or no time left to ask. *)
NoAnswer ==
    /\ at = "request"
    /\ \E d \in (IF Expired THEN {0} ELSE Latencies \cup {HttpTimeout}) :
        /\ d <= HttpTimeout
        /\ clock' = Least(clock + d, Deadline)
        /\ Conclude(Failed("other"), clock')
    /\ UNCHANGED <<answered, pause>>

(* Mutant: time.Sleep. *)
Sleep_Uninterrupted ==
    /\ at = "sleep"
    /\ clock' = clock + Backoff(attempt, err) /\ at' = "request"
    /\ UNCHANGED <<attempt, err, answered, pause>>

(* The context of the run cuts the sleep short; at the deadline itself     *)
(* either of the two may win.                                              *)
Sleep ==
    /\ at = "sleep"
    /\ LET wake == clock + Backoff(attempt, err)
       IN  \/ wake <= Deadline /\ clock' = wake /\ at' = "request" /\ UNCHANGED err
           \/ wake >= Deadline /\ clock' = Deadline /\ at' = "error" /\ err' = Failed("other")
    /\ UNCHANGED <<attempt, answered, pause>>

=============================================================================
