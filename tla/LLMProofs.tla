----------------------------- MODULE LLMProofs ------------------------------
(***************************************************************************)
(* Proofs about LLMRun, for any number of retries on either level, any     *)
(* times and any set of responses.                                         *)
(***************************************************************************)
EXTENDS LLMRun, FiniteSetTheorems, TLAPS

Errors   == [kind : Kinds, status : Nat, retryAfter : Nat]
Verdicts == {"truncated", "refused"}

(* A Complete is in progress only while its task runs. *)
RunningInv == at # "idle" => task = "running"

(* A sleep is always the sleep before a retry. *)
SleepInv == at = "sleep" => attempt > 0

(* A verdict leads out of the loop and then out of the task, unless an     *)
(* interruption loses it.                                                  *)
VerdictInv ==
    verdicts \cap Verdicts # {} =>
        \/ at = "error" /\ err.kind \in Verdicts
        \/ at = "idle" /\ task # "running"

Rested == clock - answered >= Least(pause, MaxBackoff)

(* What the last response asked for is over when the next request is sent, *)
(* and until then it is in lastErr, and fresh when the sleep begins.       *)
PaceInv ==
    /\ answered <= clock
    /\ at = "text" \/ (at = "idle" /\ task = "running") => pause = 0
    /\ at = "sleep" => Rested \/ (err.retryAfter = pause /\ pause > 0 /\ clock = answered)
    /\ at = "request" => Rested

(* The requests of the Complete in progress. *)
Used ==
    CASE at = "idle"                 -> 0
      [] at \in {"request", "sleep"} -> attempt
      [] at \in {"text", "error"}    -> attempt + 1

PerCall == MaxRetries + 1

(* What the calls before the current one account for, at most. *)
Before == (3 * (retried + stops) + (call - 1)) * PerCall

CostInv ==
    /\ asked <= CostOf(stops)
    /\ task = "running" => asked <= Before + Used

IInv ==
    /\ TypeOK /\ RunningInv /\ SleepInv /\ VerdictInv /\ PaceInv /\ CostInv
    /\ GivesUpWhenSpent

-----------------------------------------------------------------------------

(* The assumptions on the constants, in the form in which they are used. *)
LEMMA Times ==
    /\ MaxRetries \in Nat /\ HttpTimeout \in Nat /\ BaseBackoff \in Nat
    /\ MaxBackoff \in Nat /\ Deadline \in Nat /\ Deadline > 0
    /\ \A d \in Latencies : d \in Nat
BY TimesAssumption

(* Powers of two are natural numbers: they count subsets. *)
LEMMA PowerType == ASSUME NEW n \in Nat PROVE 2^n \in Nat
<1>1. IsFiniteSet(1..n) /\ Cardinality(1..n) = n BY FS_Interval
<1>2. IsFiniteSet(SUBSET (1..n)) /\ Cardinality(SUBSET (1..n)) = 2^n
    BY <1>1, FS_SUBSET
<1> QED BY <1>2, FS_CardinalityType

(* The wait before a retry is a duration. *)
LEMMA BackoffType ==
    ASSUME NEW n \in Nat, n > 0, NEW e \in Errors
    PROVE  Backoff(n, e) \in Nat
<1>1. 2^(n - 1) \in Nat BY PowerType
<1>2. BaseBackoff * 2^(n - 1) \in Nat BY <1>1, Times
<1> QED BY <1>2, Times DEF Backoff, Least, Errors

(* Whatever the provider answers, once() makes an error of it or none. *)
LEMMA OutcomeType ==
    ASSUME NEW r \in Responses
    PROVE  Outcome(r) \in Errors
<1> USE DEF Errors, Kinds, NoError, Failed, StatusError
<1>1. /\ r.status \in Nat /\ r.retryAfter \in Nat
      /\ r.code \in Int /\ r.finish \in Finishes
    BY ResponsesAssumption
<1>2. ErrorCode(r.code) \in Nat BY <1>1 DEF ErrorCode
<1>3. CASE r.status # 200 BY <1>1, <1>3 DEF Outcome
<1>4. CASE r.status = 200 /\ r.code # 0 BY <1>2, <1>4 DEF Outcome
<1>5. CASE r.status = 200 /\ r.code = 0
    BY <1>1, <1>5 DEF Outcome, Finishes
<1> QED BY <1>3, <1>4, <1>5

(* The error that once() reports for want of an answer. *)
LEMMA FailedType ==
    /\ Failed("other") \in Errors
    /\ Failed("other").kind = "other" /\ Failed("other").retryAfter = 0
    /\ NoError \in Errors /\ NoError.kind = "nil" /\ NoError.retryAfter = 0
BY DEF Errors, Kinds, NoError, Failed

(* What the loop of Complete does with the outcome of a request. *)
LEMMA ConcludeStep ==
    ASSUME TypeOK, NEW e \in Errors, NEW now \in 0..Deadline, clock' = now,
           Conclude(e, now)
    PROVE  /\ err' = e
           /\ at' \in {"text", "error", "sleep"}
           /\ attempt' \in 0..MaxRetries
           /\ at' = "sleep" => attempt' = attempt + 1 /\ ~Permanent(e)
           /\ at' \in {"text", "error"} => attempt' = attempt
           /\ at' = "text" => e = NoError
           /\ at' = "error" =>
                 Permanent(e) \/ clock' = Deadline \/ attempt' = MaxRetries
BY Times DEF Conclude, TypeOK, ClientTypeOK

(* A request with its answer, and one without. *)
LEMMA AnswerStep ==
    ASSUME TypeOK, Answer
    PROVE  /\ at = "request" /\ at' \in {"text", "error", "sleep"}
           /\ err' \in Errors
           /\ attempt' \in 0..MaxRetries
           /\ clock' \in 0..Deadline /\ answered' = clock'
           /\ pause' \in Nat
           /\ pause' > 0 => err' # NoError /\ err'.retryAfter = pause'
           /\ at' = "sleep" => attempt' = attempt + 1 /\ ~Permanent(err')
           /\ at' \in {"text", "error"} => attempt' = attempt
           /\ at' = "text" => err' = NoError
           /\ at' = "error" =>
                 Permanent(err') \/ clock' = Deadline \/ attempt' = MaxRetries
<1>1. PICK d \in Latencies, r \in Responses :
          /\ clock + d <= Deadline /\ clock' = clock + d
          /\ answered' = clock + d /\ Conclude(Outcome(r), clock + d)
          /\ pause' = IF r.status = 200 THEN 0 ELSE r.retryAfter
    BY DEF Answer
<1>2. clock + d \in 0..Deadline BY <1>1, Times DEF TypeOK, ClientTypeOK
<1>3. pause' \in Nat
      /\ (pause' > 0 => Outcome(r) # NoError /\ Outcome(r).retryAfter = pause')
    BY <1>1, ResponsesAssumption DEF Outcome, StatusError, NoError
<1>4. err' = Outcome(r)
    BY <1>1, <1>2, OutcomeType, ConcludeStep
<1> QED BY <1>1, <1>2, <1>3, <1>4, OutcomeType, ConcludeStep DEF Answer

LEMMA NoAnswerStep ==
    ASSUME TypeOK, NoAnswer
    PROVE  /\ at = "request" /\ at' \in {"error", "sleep"}
           /\ err' = Failed("other")
           /\ attempt' \in 0..MaxRetries
           /\ clock' \in 0..Deadline /\ answered' = answered /\ pause' = pause
           /\ clock' >= clock
           /\ at' = "sleep" => attempt' = attempt + 1
           /\ at' = "error" => attempt' = attempt
           /\ at' = "error" => clock' = Deadline \/ attempt' = MaxRetries
<1>1. PICK d \in (IF Expired THEN {0} ELSE Latencies \cup {HttpTimeout}) :
          clock' = Least(clock + d, Deadline) /\ Conclude(Failed("other"), clock')
    BY DEF NoAnswer
<1>2. d \in Nat BY Times
<1>3. clock' \in 0..Deadline /\ clock' >= clock
    BY <1>1, <1>2, Times DEF Least, TypeOK, ClientTypeOK
<1>4. Failed("other") # NoError /\ ~Permanent(Failed("other"))
    BY FailedType DEF Permanent
<1> QED BY <1>1, <1>3, <1>4, FailedType, ConcludeStep DEF NoAnswer

(* A sleep ends with the next attempt or with the context of the run. *)
LEMMA SleepStep ==
    ASSUME TypeOK, SleepInv, Sleep
    PROVE  /\ at = "sleep" /\ at' \in {"request", "error"}
           /\ attempt' = attempt /\ answered' = answered /\ pause' = pause
           /\ clock' \in 0..Deadline /\ clock' >= clock
           /\ at' = "request" => err' = err /\ clock' = clock + Backoff(attempt, err)
           /\ at' = "error" => err' = Failed("other") /\ clock' = Deadline
<1>1. Backoff(attempt, err) \in Nat
    BY BackoffType DEF Sleep, SleepInv, TypeOK, ClientTypeOK, Errors
<1>2. PICK wake : wake = clock + Backoff(attempt, err) OBVIOUS
<1>3. wake \in Nat /\ wake >= clock BY <1>1, <1>2 DEF TypeOK, ClientTypeOK
<1>4. /\ at = "sleep" /\ UNCHANGED <<attempt, answered, pause>>
      /\ \/ wake <= Deadline /\ clock' = wake /\ at' = "request" /\ err' = err
         \/ clock' = Deadline /\ at' = "error" /\ err' = Failed("other")
    BY <1>2 DEF Sleep
<1>5. clock \in 0..Deadline BY DEF TypeOK, ClientTypeOK
<1> QED BY <1>2, <1>3, <1>4, <1>5, Times

-----------------------------------------------------------------------------

(* What the requests of one call add to those of the calls before it stays *)
(* within the cost of the task, and the next run starts above all of them. *)
LEMMA CostArithmetic ==
    ASSUME TypeOK, NEW u \in 0..PerCall
    PROVE  /\ PerCall \in Nat /\ TaskCost \in Nat /\ Before \in Nat
           /\ CostOf(stops) \in Nat /\ CostOf(stops + 1) \in Nat
           /\ CostOf(stops) <= TaskCost /\ CostOf(stops) <= CostOf(stops + 1)
           /\ Before + u <= CostOf(stops)
           /\ Before + u <= (3 * (retried + stops + 1)) * PerCall
           /\ Before + u <= (3 * (retried + stops) + call) * PerCall
<1>1. PerCall \in Nat /\ PerCall > 0 BY Times DEF PerCall
<1>2. retried \in Nat /\ retried <= MaxRetry /\ MaxRetry \in Nat
      /\ call \in Nat /\ call >= 1 /\ call <= 3
      /\ stops \in Nat /\ Stops \in Nat /\ stops <= Stops
    BY RetryAssumption DEF TypeOK
<1>3. \A a, b, k \in Nat : a <= b => a * k <= b * k
    OBVIOUS
<1>4. \A n \in Nat : CostOf(n) = (3 * (MaxRetry + 1 + n)) * PerCall /\ CostOf(n) \in Nat
    BY <1>1, <1>2, Times DEF CostOf, PerCall
<1> DEFINE p == 3 * (retried + stops) + (call - 1)
<1>5. p \in Nat /\ p + 1 <= 3 * (retried + stops + 1) /\ p + 1 <= 3 * (MaxRetry + 1 + stops)
      /\ p + 1 = 3 * (retried + stops) + call
    BY <1>2
<1>6. p * PerCall + PerCall = (p + 1) * PerCall /\ p * PerCall \in Nat
    BY <1>1, <1>5
<1>7. CostOf(stops) = (3 * (MaxRetry + 1 + stops)) * PerCall
      /\ CostOf(stops) \in Nat /\ CostOf(stops + 1) \in Nat /\ TaskCost \in Nat
    BY <1>2, <1>4 DEF TaskCost
<1>8. (p + 1) * PerCall <= (3 * (retried + stops + 1)) * PerCall
    BY <1>1, <1>2, <1>3, <1>5
<1>9. (p + 1) * PerCall <= (3 * (MaxRetry + 1 + stops)) * PerCall
    BY <1>1, <1>2, <1>3, <1>5
<1>10. p * PerCall + u <= (p + 1) * PerCall
    BY <1>1, <1>6
<1>11. /\ (p + 1) * PerCall \in Nat /\ (3 * (retried + stops + 1)) * PerCall \in Nat
       /\ (3 * (MaxRetry + 1 + stops)) * PerCall \in Nat
    BY <1>1, <1>2, <1>5
<1>12. p * PerCall + u <= (3 * (retried + stops + 1)) * PerCall /\ p * PerCall + u <= CostOf(stops)
    <2> HIDE DEF p
    <2> QED BY <1>1, <1>6, <1>7, <1>8, <1>9, <1>10, <1>11
<1>13. \A m, n \in Nat : m <= n => CostOf(m) <= CostOf(n)
    <2> SUFFICES ASSUME NEW m \in Nat, NEW n \in Nat, m <= n PROVE CostOf(m) <= CostOf(n)
        OBVIOUS
    <2>1. /\ 3 * (MaxRetry + 1 + m) \in Nat /\ 3 * (MaxRetry + 1 + n) \in Nat
          /\ 3 * (MaxRetry + 1 + m) <= 3 * (MaxRetry + 1 + n)
        BY <1>2
    <2> QED BY <1>1, <1>3, <1>4, <2>1
<1>14. CostOf(stops) <= TaskCost /\ CostOf(stops) <= CostOf(stops + 1)
    BY <1>2, <1>13 DEF TaskCost
<1> QED BY <1>1, <1>5, <1>6, <1>7, <1>10, <1>12, <1>14 DEF Before

(* The requests of a call are no more than its attempts. *)
LEMMA UsedType == ASSUME TypeOK PROVE Used \in 0..PerCall
BY Times DEF Used, PerCall, TypeOK, ClientTypeOK

(* The account of a call that ends, in terms of the calls after it. *)
LEMMA Account ==
    ASSUME TypeOK, NEW u \in 0..PerCall, NEW n \in Nat, n <= Before + u
    PROVE  /\ n <= (3 * (retried + stops + 1)) * PerCall
           /\ n <= (3 * (retried + stops) + call) * PerCall
           /\ n <= CostOf(stops)
           /\ (3 * (retried + stops + 1)) * PerCall \in Nat
           /\ (3 * (retried + stops) + call) * PerCall \in Nat
<1>1. \A a, b, c \in Int : a <= b /\ b <= c => a <= c OBVIOUS
<1>2. PerCall \in Nat /\ retried \in Nat /\ call \in Nat /\ stops \in Nat
    BY CostArithmetic DEF TypeOK
<1>3. /\ (3 * (retried + stops + 1)) * PerCall \in Nat
      /\ (3 * (retried + stops) + call) * PerCall \in Nat
      /\ Before + u \in Int /\ CostOf(stops) \in Int
    BY <1>2, CostArithmetic DEF TypeOK
<1> QED BY <1>1, <1>3, CostArithmetic

(* A counted request. *)
LEMMA SentStep ==
    ASSUME TypeOK, Sent
    PROVE  asked' \in 0..TaskCost + 1 /\ asked' <= asked + 1
<1>1. TaskCost \in Nat BY CostArithmetic, UsedType
<1> QED BY <1>1 DEF Sent, Least, TypeOK

(* Within one run, a step that counts no more requests than it uses up     *)
(* attempts keeps the account.                                             *)
LEMMA MovedCost ==
    ASSUME TypeOK, TypeOK', CostInv, task = "running", UNCHANGED runVars,
           asked' - asked <= Used' - Used
    PROVE  CostInv'
<1>1. /\ Used \in Nat /\ asked \in Nat /\ asked' \in Nat
      /\ PerCall' = PerCall /\ TaskCost' = TaskCost
    BY UsedType, CostArithmetic DEF TypeOK, PerCall, TaskCost, CostOf
<1>2. Used' \in 0..PerCall
    BY Times DEF Used, PerCall, TypeOK, ClientTypeOK
<1>3. PICK u \in 0..PerCall : u = Used' BY <1>2
<1>4. asked' <= Before + u
    <2>1. Before \in Nat BY <1>3, CostArithmetic
    <2>2. asked <= Before + Used BY DEF CostInv
    <2>3. asked' - asked <= u - Used BY <1>3
    <2>4. u \in Int BY <1>1, <1>3, CostArithmetic
    <2>5. /\ asked \in Int /\ asked' \in Int /\ Used \in Int /\ Before \in Int
        BY <1>1, <2>1
    <2>6. \A a, b, x, y, z \in Int : b - a <= y - x /\ a <= z + x => b <= z + y
        OBVIOUS
    <2> QED BY <2>2, <2>3, <2>4, <2>5, <2>6, Zenon
<1>5. asked' <= CostOf(stops) BY <1>1, <1>3, <1>4, Account
<1> QED BY <1>1, <1>3, <1>4, <1>5 DEF CostInv, CostOf, Before, runVars

LEMMA InitIInv == Init => IInv
<1> SUFFICES ASSUME Init PROVE IInv OBVIOUS
<1>1. TypeOK
    <2>1. TaskCost \in Nat
        BY Times, RetryAssumption DEF TaskCost, CostOf
    <2> QED BY <2>1, Times, RetryAssumption
            DEF Init, ClientInit, TypeOK, ClientTypeOK, NoError, Kinds
<1>2. PerCall \in Nat /\ CostOf(stops) \in Nat BY <1>1, CostArithmetic, UsedType
<1>3. CostInv BY <1>2, RetryAssumption DEF CostInv, Before, Used, Init, ClientInit
<1>4. PaceInv BY Times DEF PaceInv, Rested, Least, Init, ClientInit
<1> QED BY <1>1, <1>3, <1>4 DEF Init, ClientInit, IInv, RunningInv, SleepInv, VerdictInv,
                                GivesUpWhenSpent

(* A request that is answered. *)
LEMMA RespondIInv == ASSUME IInv, Respond PROVE IInv'
<1>1. /\ TypeOK /\ at = "request" /\ at' \in {"text", "error", "sleep"}
      /\ task = "running" /\ UNCHANGED runVars
    BY AnswerStep DEF IInv, RunningInv, Respond
<1>2. Answer /\ Sent /\ verdicts' = verdicts \cup {err'.kind} BY DEF Respond
<1>3. TypeOK'
    BY <1>1, <1>2, AnswerStep, SentStep
       DEF TypeOK, ClientTypeOK, Errors, runVars, TaskCost
<1>4. RunningInv' /\ SleepInv'
    BY <1>1, <1>2, AnswerStep DEF RunningInv, SleepInv, TypeOK, ClientTypeOK, runVars
<1>5. VerdictInv'
    <2>1. verdicts \cap Verdicts = {} BY <1>1 DEF IInv, VerdictInv
    <2>2. err'.kind \in Verdicts => at' = "error"
        BY <1>1, <1>2, AnswerStep, FailedType DEF Permanent, Verdicts
    <2> QED BY <1>2, <2>1, <2>2 DEF VerdictInv
<1>6. PaceInv'
    <2>1. Least(pause', MaxBackoff) >= 0 /\ (pause' = 0 => Least(pause', MaxBackoff) = 0)
        BY <1>1, <1>2, AnswerStep, Times DEF Least
    <2>2. Rested' \/ (err'.retryAfter = pause' /\ pause' > 0 /\ clock' = answered')
        BY <1>1, <1>2, <2>1, AnswerStep DEF Rested
    <2>3. at' = "text" => pause' = 0
        BY <1>1, <1>2, AnswerStep, FailedType
    <2> QED BY <1>1, <1>2, <2>2, <2>3, AnswerStep DEF PaceInv
<1>7. CostInv'
    <2>1. Used' = Used + 1
        BY <1>1, <1>2, AnswerStep DEF Used
    <2>2. asked' <= asked + 1 /\ asked \in Nat /\ asked' \in Nat
        BY <1>1, <1>2, SentStep, CostArithmetic, UsedType DEF TypeOK
    <2>3. asked' - asked <= Used' - Used BY <1>1, <2>1, <2>2, UsedType
    <2> QED BY <1>1, <1>3, <2>3, MovedCost DEF IInv
<1>8. GivesUpWhenSpent'
    BY <1>1, <1>2, AnswerStep DEF GivesUpWhenSpent, Permanent, Expired
<1> QED BY <1>3, <1>4, <1>5, <1>6, <1>7, <1>8 DEF IInv

(* A request without an answer. *)
LEMMA SilenceIInv == ASSUME IInv, Silence PROVE IInv'
<1>1. /\ TypeOK /\ at = "request" /\ at' \in {"error", "sleep"}
      /\ task = "running" /\ UNCHANGED runVars
    BY NoAnswerStep DEF IInv, RunningInv, Silence
<1>2. NoAnswer /\ verdicts' = verdicts /\ (asked' = asked \/ Sent) BY DEF Silence
<1>a. asked' \in 0..TaskCost + 1 /\ asked' <= asked + 1
    BY <1>1, <1>2, SentStep, CostArithmetic, UsedType DEF TypeOK
<1>3. TypeOK'
    BY <1>1, <1>2, <1>a, NoAnswerStep, FailedType
       DEF TypeOK, ClientTypeOK, Errors, runVars, TaskCost
<1>4. RunningInv' /\ SleepInv'
    BY <1>1, <1>2, NoAnswerStep DEF RunningInv, SleepInv, TypeOK, ClientTypeOK, runVars
<1>5. VerdictInv' BY <1>1, <1>2 DEF IInv, VerdictInv
<1>6. PaceInv'
    <2>1. Least(pause, MaxBackoff) \in Nat
        BY <1>1, Times DEF Least, TypeOK, ClientTypeOK
    <2>2. clock - answered >= Least(pause, MaxBackoff)
        BY <1>1 DEF IInv, PaceInv, Rested
    <2>3. clock' - answered >= Least(pause, MaxBackoff) /\ answered <= clock'
        BY <1>1, <1>2, <2>1, <2>2, NoAnswerStep DEF IInv, PaceInv, TypeOK, ClientTypeOK
    <2> QED BY <1>1, <1>2, <2>3, NoAnswerStep DEF PaceInv, Rested
<1>7. CostInv'
    <2>1. Used' = Used + 1 BY <1>1, <1>2, NoAnswerStep DEF Used
    <2>2. asked' - asked <= Used' - Used
        BY <1>1, <1>a, <2>1, UsedType, CostArithmetic DEF TypeOK
    <2> QED BY <1>1, <1>3, <2>2, MovedCost DEF IInv
<1>8. GivesUpWhenSpent'
    BY <1>1, <1>2, NoAnswerStep DEF GivesUpWhenSpent, Expired
<1> QED BY <1>3, <1>4, <1>5, <1>6, <1>7, <1>8 DEF IInv

(* The sleep before a retry. *)
LEMMA WaitIInv == ASSUME IInv, Wait PROVE IInv'
<1>1. /\ TypeOK /\ SleepInv /\ at = "sleep" /\ at' \in {"request", "error"}
      /\ task = "running" /\ UNCHANGED <<runVars, seenVars>>
    BY SleepStep DEF IInv, RunningInv, Wait
<1>2. Sleep BY DEF Wait
<1>3. TypeOK'
    BY <1>1, <1>2, SleepStep, FailedType
       DEF TypeOK, ClientTypeOK, Errors, runVars, seenVars, TaskCost
<1>4. RunningInv' /\ SleepInv' BY <1>1 DEF RunningInv, SleepInv, runVars
<1>5. VerdictInv' BY <1>1 DEF IInv, VerdictInv, seenVars
<1>6. PaceInv'
    <2>0. answered' <= clock'
        BY <1>1, <1>2, SleepStep DEF IInv, PaceInv, TypeOK, ClientTypeOK
    <2>1. CASE at' = "error" BY <1>1, <2>0, <2>1 DEF PaceInv
    <2>2. CASE at' = "request"
        <3>1. /\ err' = err /\ clock' = clock + Backoff(attempt, err) /\ answered' = answered
              /\ pause' = pause /\ clock' \in 0..Deadline /\ clock' >= clock
            BY <1>1, <1>2, <2>2, SleepStep
        <3>2. ASSUME err.retryAfter = pause, pause > 0, clock = answered
              PROVE  Backoff(attempt, err) = Least(pause, MaxBackoff)
            BY <1>1, <3>2 DEF Backoff
        <3>3. Least(pause, MaxBackoff) \in Nat
            BY <1>1, Times DEF TypeOK, ClientTypeOK, Least
        <3>a. clock \in Int /\ clock' \in Int /\ answered \in Int
            BY <1>1, <3>1 DEF TypeOK, ClientTypeOK
        <3>4. ASSUME err.retryAfter = pause, pause > 0, clock = answered PROVE Rested'
            BY <3>1, <3>2, <3>3, <3>4, <3>a DEF Rested
        <3>5. ASSUME Rested PROVE Rested'
            BY <3>1, <3>3, <3>5, <3>a DEF Rested
        <3>6. Rested'
            BY <1>1, <3>4, <3>5 DEF IInv, PaceInv
        <3> QED BY <2>0, <2>2, <3>6 DEF PaceInv
    <2> QED BY <1>1, <2>1, <2>2
<1>7. CostInv'
    <2>1. Used' = Used \/ Used' = Used + 1 BY <1>1, <1>2, SleepStep DEF Used
    <2>2. asked' - asked <= Used' - Used
        BY <1>1, <2>1, UsedType, CostArithmetic DEF TypeOK, seenVars
    <2> QED BY <1>1, <1>3, <2>2, MovedCost DEF IInv
<1>8. GivesUpWhenSpent'
    BY <1>1, <1>2, SleepStep DEF GivesUpWhenSpent, Expired
<1> QED BY <1>3, <1>4, <1>5, <1>6, <1>7, <1>8 DEF IInv

(* The next Complete of the run. *)
LEMMA AskIInv == ASSUME IInv, Ask PROVE IInv'
<1> USE DEF Ask, Call, runVars, seenVars
<1>1. TypeOK' BY Times, FailedType DEF IInv, TypeOK, ClientTypeOK, Errors, TaskCost
<1>2. Used' = 0 /\ Used = 0 /\ Before' = Before /\ CostOf(stops)' = CostOf(stops)
    BY DEF Used, Before, PerCall, CostOf
<1>3. CostInv' BY <1>2 DEF IInv, CostInv
<1>4. VerdictInv' BY DEF IInv, VerdictInv
<1>5. PaceInv'
    <2>1. pause = 0 /\ answered <= clock /\ clock \in Nat /\ answered \in Nat
        BY DEF IInv, PaceInv, TypeOK, ClientTypeOK
    <2>2. Least(pause, MaxBackoff) = 0
        BY <2>1, Times DEF Least
    <2> QED BY <2>1, <2>2 DEF PaceInv, Rested
<1> QED BY <1>1, <1>3, <1>4, <1>5, FailedType
        DEF IInv, RunningInv, SleepInv, GivesUpWhenSpent

(* The end of a call that was good enough. *)
LEMMA StageDoneIInv == ASSUME IInv, StageDone PROVE IInv'
<1> USE DEF StageDone, seenVars
<1>1. TypeOK' BY DEF IInv, TypeOK, ClientTypeOK, TaskCost
<1>2. VerdictInv' BY DEF IInv, VerdictInv
<1>3. CostInv'
    <2>1. TypeOK /\ task = "running" BY DEF IInv, RunningInv
    <2>2. PICK u \in 0..PerCall : u = Used BY <2>1, UsedType
    <2>3. asked <= CostOf(stops) /\ asked <= Before + u /\ asked \in Nat
        BY <2>1, <2>2, CostArithmetic DEF IInv, CostInv, TypeOK
    <2>4. Used' = 0 /\ CostOf(stops)' = CostOf(stops) /\ PerCall' = PerCall
        BY DEF Used, CostOf, PerCall
    <2>5. CASE task' # "running" BY <2>3, <2>4, <2>5 DEF CostInv
    <2>6. CASE call' = call + 1
        <3>1. Before' = (3 * (retried + stops) + call) * PerCall
            BY <2>1, <2>4, <2>6 DEF Before, TypeOK
        <3>2. asked <= Before' /\ Before' \in Nat BY <2>1, <2>2, <2>3, <3>1, Account
        <3>3. asked' <= Before' + Used' BY <2>4, <3>2
        <3> QED BY <2>3, <2>4, <3>3 DEF CostInv
    <2> QED BY <2>5, <2>6
<1>4. PaceInv' BY DEF IInv, PaceInv
<1> QED BY <1>1, <1>2, <1>3, <1>4
        DEF IInv, RunningInv, SleepInv, GivesUpWhenSpent

(* The end of the task. *)
LEMMA EndTaskIInv ==
    ASSUME IInv, EndTask, asked' \in 0..TaskCost + 1, asked' <= CostOf(stops),
           verdicts' \in {{}, verdicts}
    PROVE  IInv'
<1> USE DEF EndTask
<1>1. TypeOK' BY DEF IInv, TypeOK, ClientTypeOK, TaskCost
<1>2. CostInv' BY DEF CostInv, CostOf
<1>3. VerdictInv' BY DEF VerdictInv
<1>4. PaceInv' BY DEF IInv, PaceInv
<1> QED BY <1>1, <1>2, <1>3, <1>4 DEF IInv, RunningInv, SleepInv, GivesUpWhenSpent

(* Another run: a retry or one that was given back. *)
LEMMA RestartIInv ==
    ASSUME IInv, task = "running", Restart, verdicts' = {} \/ UNCHANGED verdicts,
           verdicts' \cap Verdicts = {},
           NEW u \in 0..PerCall, asked' <= Before + u, asked' \in 0..TaskCost + 1,
           \/ retried < MaxRetry /\ retried' = retried + 1 /\ UNCHANGED stops
           \/ stops < Stops /\ stops' = stops + 1 /\ UNCHANGED retried
    PROVE  IInv'
<1> USE DEF Restart
<1>1. TypeOK /\ TypeOK'
    BY Times, RetryAssumption DEF IInv, TypeOK, ClientTypeOK, TaskCost
<1>2. CostInv'
    <2>1. PerCall' = PerCall /\ Used' = 0 BY DEF PerCall, Used
    <2>2. Before' = (3 * (retried + stops + 1)) * PerCall
        <3>1. 3 * (retried' + stops') + (call' - 1) = 3 * (retried + stops + 1)
            <4>1. retried \in Nat /\ stops \in Nat /\ call' = 1
                  /\ (\/ retried' = retried + 1 /\ stops' = stops
                      \/ stops' = stops + 1 /\ retried' = retried)
                BY <1>1 DEF TypeOK
            <4>2. retried' + stops' = retried + stops + 1
                BY <4>1
            <4> QED BY <4>1, <4>2
        <3> QED BY <2>1, <3>1 DEF Before
    <2>3. asked' \in Nat BY <1>1, CostArithmetic DEF TypeOK
    <2>4. asked' <= Before' /\ asked' <= CostOf(stops) /\ Before' \in Nat
        BY <1>1, <2>2, <2>3, Account
    <2>5. asked' <= CostOf(stops)'
        <3>1. CostOf(stops)' = CostOf(stops) \/ CostOf(stops)' = CostOf(stops + 1)
            BY DEF CostOf
        <3>2. CostOf(stops) <= CostOf(stops + 1) /\ CostOf(stops) \in Nat /\ CostOf(stops + 1) \in Nat
            BY <1>1, CostArithmetic
        <3> QED BY <2>3, <2>4, <3>1, <3>2
    <2>6. asked' <= Before' + Used'
        <3>1. \A a, b, c \in Nat : c = 0 /\ a <= b => a <= b + c OBVIOUS
        <3> QED BY <2>1, <2>3, <2>4, <3>1
    <2> QED BY <2>5, <2>6 DEF CostInv
<1>3. VerdictInv' BY DEF VerdictInv
<1>4. PaceInv' BY Times DEF PaceInv
<1> QED BY <1>1, <1>2, <1>3, <1>4 DEF IInv, RunningInv, SleepInv, GivesUpWhenSpent

(* A run that fails, and the decision whether there is another. *)
LEMMA RunFailsIInv == ASSUME IInv, RunFails PROVE IInv'
<1>1. /\ TypeOK /\ task = "running" /\ UNCHANGED seenVars BY DEF IInv, RunFails
<1>2. asked \in 0..TaskCost + 1 /\ asked <= CostOf(stops)
    BY <1>1 DEF IInv, CostInv, TypeOK
<1>3. CASE EndTask BY <1>1, <1>2, <1>3, EndTaskIInv DEF seenVars
<1>4. ASSUME Broken, NextRun PROVE IInv'
    <2>1. PICK u \in 0..PerCall : u = Used BY <1>1, UsedType
    <2>2. asked <= Before + u BY <1>1, <2>1 DEF IInv, CostInv
    <2>3. verdicts \cap Verdicts = {}
        BY <1>1, <1>4 DEF IInv, VerdictInv, Broken, Final, Verdicts
    <2> QED BY <1>1, <1>2, <1>4, <2>2, <2>3, RestartIInv DEF NextRun, seenVars
<1> QED BY <1>3, <1>4 DEF RunFails

(* The end of the process in the middle of a run. *)
LEMMA InterruptedIInv == ASSUME IInv, Shutdown \/ Crash PROVE IInv'
<1>1. TypeOK /\ task = "running" /\ verdicts' = {} BY DEF IInv, Shutdown, Crash, Interrupted
<1>2. asked' \in 0..TaskCost + 1 /\ asked \in Nat /\ asked' \in Nat
    BY <1>1, SentStep, CostArithmetic, UsedType DEF Shutdown, Crash, Interrupted, TypeOK
<1>3. PICK u \in 0..PerCall : asked' <= Before + u
    <2>1. PICK v \in 0..PerCall : v = Used BY <1>1, UsedType
    <2>2. asked <= Before + v /\ Before \in Nat
        BY <1>1, <2>1, CostArithmetic DEF IInv, CostInv
    <2>3. CASE at = "request" /\ Sent
        <3>1. v + 1 \in 0..PerCall
            BY <1>1, <2>1, <2>3, Times DEF Used, PerCall, TypeOK, ClientTypeOK
        <3>2. asked' <= asked + 1 BY <1>1, <2>3, SentStep
        <3>3. asked' <= Before + (v + 1) BY <1>2, <2>2, <3>1, <3>2, Times DEF PerCall
        <3> QED BY <3>1, <3>3
    <2>4. CASE UNCHANGED asked BY <2>2, <2>4
    <2> QED BY <2>3, <2>4 DEF Shutdown, Crash, Interrupted
<1>4. asked' <= CostOf(stops) BY <1>1, <1>2, <1>3, Account
<1>5. CASE EndTask BY <1>1, <1>2, <1>4, <1>5, EndTaskIInv
<1>6. CASE Shutdown \/ NextRun
    BY <1>1, <1>2, <1>3, <1>6, RestartIInv DEF Shutdown, NextRun
<1> QED BY <1>5, <1>6 DEF Crash

(* Every step keeps the invariant. *)
LEMMA NextIInv == ASSUME IInv, [Next]_vars PROVE IInv'
<1>1. CASE UNCHANGED vars
    BY <1>1 DEF IInv, TypeOK, ClientTypeOK, RunningInv, SleepInv, VerdictInv,
                PaceInv, Rested, CostInv, Before, Used, TaskCost, CostOf, PerCall, Expired,
                GivesUpWhenSpent, vars, clientVars, runVars, seenVars
<1>2. CASE Settled BY <1>1, <1>2 DEF Settled
<1> QED BY <1>1, <1>2, AskIInv, RespondIInv, SilenceIInv, WaitIInv,
           StageDoneIInv, RunFailsIInv, InterruptedIInv DEF Next

(* The inductive invariant: where a call, a run and a task stand fits what *)
(* the provider has been asked, what it has answered, and when.            *)
THEOREM LLMInvariant == Spec => []IInv
<1>1. Init => IInv BY InitIInv
<1>2. IInv /\ [Next]_vars => IInv' BY NextIInv
<1> QED BY <1>1, <1>2, PTL DEF Spec

(* Type correctness: among the rest, the clock of a run never passes its   *)
(* deadline, and no call makes more attempts than it may.                  *)
THEOREM LLMTypeCorrect == Spec => []TypeOK
BY LLMInvariant, PTL DEF IInv

(* Complete gives up only when it has to (the exits of its loop).          *)
THEOREM LLMGivesUpWhenSpent == Spec => []GivesUpWhenSpent
BY LLMInvariant, PTL DEF IInv

(* The retries of the client, three stages and the runs of a task cost no  *)
(* more than their product, the runs after shutdowns and crashes included. *)
THEOREM LLMCostIsBounded == Spec => []CostIsBounded
<1>1. IInv => CostIsBounded BY DEF IInv, CostInv, CostIsBounded
<1> QED BY <1>1, LLMInvariant, PTL

(* A truncated or refused answer is the last thing a task asks for, unless *)
(* the process ends before asynq knows (Complete and classify together).   *)
THEOREM LLMVerdictIsFinal == Spec => VerdictIsFinal
<1>1. ASSUME IInv, [Next]_vars, verdicts \cap {"truncated", "refused"} # {}
      PROVE  UNCHANGED asked
    <2>1. at \in {"error", "idle"} BY <1>1 DEF IInv, VerdictInv, Verdicts
    <2> QED BY <1>1, <2>1
            DEF Next, Ask, Call, Respond, Answer, Silence, NoAnswer, Wait, Sleep, StageDone,
                RunFails, Shutdown, Crash, Interrupted, Settled, seenVars, vars
<1>2. IInv /\ [Next]_vars =>
          [verdicts \cap {"truncated", "refused"} # {} => UNCHANGED asked]_vars
    BY <1>1
<1> QED BY <1>2, LLMInvariant, PTL DEF Spec, VerdictIsFinal

(* No request of a run is sent before the wait is over that the provider   *)
(* asked for with its last error status (once, backoff and the sleep).     *)
THEOREM LLMLeavesAlone == Spec => LeavesAlone
<1>1. ASSUME IInv, [Next]_vars, asked' # asked
      PROVE  clock - answered >= Least(pause, MaxBackoff)
    <2>1. at = "request"
        BY <1>1
        DEF Next, Ask, Respond, Answer, Silence, NoAnswer, Wait, StageDone,
            RunFails, Shutdown, Crash, Interrupted, Settled, seenVars, vars
    <2> QED BY <1>1, <2>1 DEF IInv, PaceInv, Rested
<1>2. IInv /\ [Next]_vars =>
          [asked' # asked => clock - answered >= Least(pause, MaxBackoff)]_vars
    BY <1>1
<1> QED BY <1>2, LLMInvariant, PTL DEF Spec, LeavesAlone

=============================================================================
