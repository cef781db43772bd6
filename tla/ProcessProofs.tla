--------------------------- MODULE ProcessProofs ---------------------------
(***************************************************************************)
(* Proofs about module Process: for every set of documents and every       *)
(* interval, lookback and timeout, no two polls overlap, no resource is    *)
(* closed while it is used, and no document is overlooked as long as the   *)
(* lookback bridges the failures.                                          *)
(***************************************************************************)
EXTENDS ProcessProps, SequenceTheorems, FiniteSetTheorems, TLAPS

USE PollerAssumption

-----------------------------------------------------------------------------
(* Types.                                                                  *)

(* The initial state of the process has the types.                         *)
LEMMA TypeInit == Init => TypeOK
<1> SUFFICES ASSUME Init PROVE TypeOK
  OBVIOUS
<1>1. NoPoll \in Polls
  BY DEF NoPoll, Polls, Phases
<1>2. poll \in [Pollers -> Polls] /\ logged \in [Docs -> Nat \cup {Never}]
  BY <1>1 DEF Init, PollerInit, Never
<1>3. {now, since, nextPoll} \subseteq Nat /\ failures \in 0..Failures
  BY DEF Init, PollerInit
<1>4. indexed \subseteq Docs /\ handled \subseteq Docs /\ cron \in {"off", "on", "stopped"}
      /\ token \in BOOLEAN /\ cancelled \in BOOLEAN
  BY DEF Init, PollerInit
<1>5. PollerTypeOK
  BY <1>2, <1>3, <1>4 DEF PollerTypeOK
<1> QED BY <1>5 DEF Init, TypeOK, Steps

(* A step of the goroutine of one poll keeps the types.                    *)
LEMMA TypePoll ==
    ASSUME PollerTypeOK, NEW p \in Pollers, PollStep(p)
    PROVE  PollerTypeOK'
<1> USE DEF PollerTypeOK, Polls, Phases, NoPoll, worldVars
<1>1. CASE SearchSucceeds(p)
  <2>1. PICK page \in SUBSET indexed : poll' = [poll EXCEPT ![p].at = "hits", ![p].page = page]
    BY <1>1 DEF SearchSucceeds
  <2>2. page \in SUBSET Docs
    OBVIOUS
  <2>3. poll' \in [Pollers -> Polls]
    BY <2>1, <2>2
  <2> QED BY <1>1, <2>3 DEF SearchSucceeds
<1>2. ASSUME NEW d \in Docs, HandleHit(p, d) PROVE PollerTypeOK'
  <2>1. poll' \in [Pollers -> Polls]
    BY <1>2 DEF HandleHit
  <2>2. failures' \in 0..Failures
    BY <1>2 DEF HandleHit, MayFail
  <2> QED BY <1>2, <2>1, <2>2 DEF HandleHit
<1>3. CASE EndPoll(p)
  BY <1>3 DEF EndPoll, Release
<1>4. CASE PollFails(p)
  <2>1. failures' \in 0..Failures
    BY <1>4 DEF PollFails, MayFail
  <2> QED BY <1>4, <2>1 DEF PollFails, Release
<1> QED BY <1>1, <1>2, <1>3, <1>4 DEF PollStep

(* A new poll.                                                             *)
LEMMA TypeRunJob ==
    ASSUME PollerTypeOK, NEW p \in Pollers, RunJob(p)
    PROVE  token' \in BOOLEAN /\ poll' \in [Pollers -> Polls]
<1>1. now + PollTimeout \in Nat
  BY DEF PollerTypeOK
<1>2. NoPoll \in Polls /\ [at |-> "search", until |-> now + PollTimeout, page |-> {}] \in Polls
  BY <1>1 DEF NoPoll, Polls, Phases
<1> QED BY <1>2 DEF RunJob, PollerTypeOK

(* A job of cron has a goroutine of cron.                                  *)
LEMMA NextSlotIs == NextSlot \in Slots /\ NextSlot \in Pollers
<1> DEFINE Free(s) == Polling(s) => \A q \in Slots : Polling(q)
<1>1. \E s \in Slots : Free(s)
  OBVIOUS
<1>2. NextSlot = CHOOSE s \in Slots : Free(s)
  BY DEF NextSlot
<1>3. NextSlot \in Slots
  <2> HIDE DEF Free
  <2> QED BY <1>1, <1>2
<1> QED BY <1>3 DEF Pollers

(* Every step of the poller and of its world.                              *)
LEMMA TypePoller == PollerTypeOK /\ PollerNext => PollerTypeOK'
<1> SUFFICES ASSUME PollerTypeOK, PollerNext PROVE PollerTypeOK'
  OBVIOUS
<1>1. ASSUME NEW d \in Docs, LogDocument(d) PROVE PollerTypeOK'
  BY <1>1 DEF LogDocument, PollerTypeOK
<1>2. ASSUME NEW d \in Docs, Index(d) PROVE PollerTypeOK'
  BY <1>2 DEF Index, PollerTypeOK
<1>3. CASE Tick
  BY <1>3 DEF Tick, PollerTypeOK
<1>4. CASE FirstPoll
  <2>1. token' \in BOOLEAN /\ poll' \in [Pollers -> Polls]
    BY <1>4, TypeRunJob DEF FirstPoll, Pollers
  <2> QED BY <1>4, <2>1 DEF FirstPoll, worldVars, PollerTypeOK
<1>5. CASE Fire
  <2>1. token' \in BOOLEAN /\ poll' \in [Pollers -> Polls]
    BY <1>5, TypeRunJob, NextSlotIs DEF Fire
  <2> QED BY <1>5, <2>1 DEF Fire, worldVars, PollerTypeOK
<1> QED BY <1>1, <1>2, <1>3, <1>4, <1>5, TypePoll DEF PollerNext

(* A step that starts, stops or ends something outside the poller.         *)
LEMMA TypeMain == TypeOK /\ Main => TypeOK'
<1> SUFFICES ASSUME TypeOK, Main PROVE TypeOK'
  OBVIOUS
<1> USE DEF TypeOK, At, Steps
<1>1. CASE UNCHANGED pollerVars
  <2>1. PollerTypeOK'
    BY <1>1 DEF PollerTypeOK, pollerVars, worldVars
  <2>2. deferred' \in Seq(Resources)
    <3>1. <<"db">> \in Seq(Resources) /\ <<"inspector", "asynqClient">> \in Seq(Resources)
      BY DEF Resources
    <3>a. \A s \in Seq(Resources) : s \o deferred \in Seq(Resources)
      BY ConcatProperties
    <3>2. CASE OpenDB
      BY <3>1, <3>2, <3>a DEF OpenDB, Defer
    <3>3. CASE ConnectRedis
      BY <3>1, <3>3, <3>a DEF ConnectRedis, Defer
    <3>4. CASE RunDeferred
      BY <3>4, HeadTailProperties DEF RunDeferred
    <3> QED
      BY <3>2, <3>3, <3>4
      DEF Main, LoadConfig, Migrate, StartWorker, NewPoller, StartPoller, Abort, Serve,
          Wait, StopPoller, PollerStopped, StopWorker, StopHTTP, Exit
  <2>3. step' \in Steps /\ worker' \in {"off", "on", "late"} /\ http' \in {"off", "on", "failed", "late"}
    BY DEF Main, LoadConfig, OpenDB, Migrate, ConnectRedis, StartWorker, NewPoller, StartPoller, Abort,
           Serve, Wait, StopPoller, PollerStopped, StopWorker, StopHTTP, RunDeferred, Exit, StopServer
  <2> QED BY <2>1, <2>2, <2>3
<1>2. CASE StartPoller
  <2>1. since' \in Nat /\ nextPoll' \in Nat /\ cron' \in {"off", "on", "stopped"}
    BY <1>2 DEF StartPoller, StartCron, PollerTypeOK
  <2>2. poll' \in [Pollers -> Polls]
    <3>1. [poll["first"] EXCEPT !.at = "spawned"] \in Polls
      BY DEF PollerTypeOK, Polls, Phases, Pollers
    <3>2. poll' = poll \/ poll' = [poll EXCEPT !["first"] = [poll["first"] EXCEPT !.at = "spawned"]]
      BY <1>2 DEF StartPoller, StartCron
    <3> QED BY <3>1, <3>2 DEF PollerTypeOK
  <2>3. PollerTypeOK'
    BY <1>2, <2>1, <2>2 DEF StartPoller, PollerTypeOK, worldVars
  <2> QED BY <1>2, <2>3 DEF StartPoller
<1>3. CASE StopPoller
  BY <1>3 DEF StopPoller, PollerTypeOK, worldVars
<1>4. CASE Exit
  <2>1. NoPoll \in Polls
    BY DEF NoPoll, Polls, Phases
  <2> QED BY <1>4, <2>1 DEF Exit, PollerTypeOK, worldVars
<1> QED
  BY <1>1, <1>2, <1>3, <1>4
  DEF Main, LoadConfig, OpenDB, Migrate, ConnectRedis, StartWorker, NewPoller,
      Abort, Serve, Wait, PollerStopped, StopWorker, StopHTTP, RunDeferred

(* Every step of the process keeps the types.                              *)
LEMMA TypeNext == TypeOK /\ [Next]_vars => TypeOK'
<1> SUFFICES ASSUME TypeOK, [Next]_vars PROVE TypeOK'
  OBVIOUS
<1>1. CASE Signal
  BY <1>1 DEF Signal, TypeOK, PollerTypeOK, processVars, worldVars
<1>2. CASE ServerFails
  BY <1>2 DEF ServerFails, TypeOK, PollerTypeOK, pollerVars, worldVars
<1>3. CASE PollerNext /\ UNCHANGED processVars
  <2>1. PollerTypeOK'
    BY <1>3, TypePoller DEF TypeOK
  <2> QED BY <1>3, <2>1 DEF TypeOK, processVars
<1>4. CASE UNCHANGED vars
  BY <1>4 DEF vars, TypeOK, PollerTypeOK, pollerVars, processVars, worldVars
<1> QED BY <1>1, <1>2, <1>3, <1>4, TypeMain DEF Next

(* The state of a start, of the shutdown and of the poller has its types.  *)
THEOREM TypeCorrect == Spec => []TypeOK
<1> QED BY TypeInit, TypeNext, PTL DEF Spec

-----------------------------------------------------------------------------
(* Polls never overlap: a poll holds the token.                            *)

TokenInv == \A p \in Pollers : Polling(p) => ~token

PollsInv == TypeOK /\ TokenInv /\ PollsNeverOverlap

(* Nobody polls at first.                                                  *)
LEMMA PollsInit == Init => PollsInv
<1> SUFFICES ASSUME Init PROVE PollsInv
  OBVIOUS
<1>1. \A p \in Pollers : ~Polling(p)
  BY DEF Init, PollerInit, NoPoll, Polling
<1> QED BY <1>1, TypeInit DEF PollsInv, TokenInv, PollsNeverOverlap

(* A poll that goes on keeps the token, one that ends puts it back.        *)
LEMMA PollsStep ==
    ASSUME PollsInv, NEW p \in Pollers, PollStep(p)
    PROVE  TokenInv' /\ PollsNeverOverlap'
<1> USE DEF PollsInv, TokenInv, PollsNeverOverlap, Polling, TypeOK, PollerTypeOK, Polls
<1>1. CASE SearchSucceeds(p)
  <2>1. PICK page \in SUBSET indexed : poll' = [poll EXCEPT ![p].at = "hits", ![p].page = page]
    BY <1>1 DEF SearchSucceeds
  <2> QED BY <1>1, <2>1 DEF SearchSucceeds
<1>2. ASSUME NEW d \in Docs, HandleHit(p, d) PROVE TokenInv' /\ PollsNeverOverlap'
  BY <1>2 DEF HandleHit
<1>3. CASE Polling(p) /\ Release(p)
  BY <1>3 DEF Release, NoPoll
<1> QED BY <1>1, <1>2, <1>3 DEF PollStep, EndPoll, PollFails

(* A poll starts with the token only.                                      *)
LEMMA PollsRunJob ==
    ASSUME PollsInv, NEW p \in Pollers, RunJob(p)
    PROVE  TokenInv' /\ PollsNeverOverlap'
<1> USE DEF PollsInv, TokenInv, PollsNeverOverlap, Polling, TypeOK, PollerTypeOK, NoPoll
<1>1. CASE token
  BY <1>1 DEF RunJob
<1>2. CASE ~token
  BY <1>2 DEF RunJob
<1> QED BY <1>1, <1>2

(* Every step keeps the token with the poll.                               *)
LEMMA PollsNext == PollsInv /\ [Next]_vars => PollsInv'
<1> SUFFICES ASSUME PollsInv, [Next]_vars PROVE TokenInv' /\ PollsNeverOverlap'
  BY TypeNext DEF PollsInv
<1>1. ASSUME NEW p \in Pollers, PollStep(p) PROVE TokenInv' /\ PollsNeverOverlap'
  BY <1>1, PollsStep
<1>2. CASE FirstPoll \/ Fire
  BY <1>2, PollsRunJob, NextSlotIs DEF FirstPoll, Fire, Pollers
<1>3. CASE UNCHANGED <<token, poll>>
  BY <1>3 DEF PollsInv, TokenInv, PollsNeverOverlap, Polling
<1>4. CASE StartPoller
  <2>1. \A p \in Pollers : Polling(p)' => Polling(p)
    <3>1. CASE StartCron
      BY <3>1 DEF StartCron, PollsInv, Polling, Pollers, TypeOK, PollerTypeOK
    <3>2. CASE UNCHANGED poll
      BY <3>2 DEF Polling
    <3> QED BY <1>4, <3>1, <3>2 DEF StartPoller
  <2> QED BY <1>4, <2>1 DEF StartPoller, PollsInv, TokenInv, PollsNeverOverlap
<1>5. CASE Exit
  BY <1>5 DEF Exit, NoPoll, TokenInv, PollsNeverOverlap, Polling
<1>6. CASE Main
  BY <1>3, <1>4, <1>5, <1>6
  DEF Main, LoadConfig, OpenDB, Migrate, ConnectRedis, StartWorker, NewPoller, Abort, Serve, Wait,
      StopPoller, PollerStopped, StopWorker, StopHTTP, RunDeferred, pollerVars
<1>7. CASE PollerNext
  BY <1>1, <1>2, <1>3, <1>7 DEF PollerNext, LogDocument, Index, Tick
<1> QED
  BY <1>3, <1>6, <1>7 DEF Next, Signal, ServerFails, vars, pollerVars

(* Whatever number of goroutines cron runs its jobs in, no poll of a tick  *)
(* overlaps with that of another tick, or with the first one.              *)
THEOREM NoOverlap == Spec => []PollsNeverOverlap
<1>1. PollsInv => PollsNeverOverlap
  BY DEF PollsInv
<1> QED BY <1>1, PollsInit, PollsNext, PTL DEF Spec

-----------------------------------------------------------------------------
(* Resources stay open: what is deferred, and who runs, by the statement   *)
(* that run has come to.                                                   *)

Connected == {"startworker", "newpoller", "startpoller", "serve", "wait", "stoppoller", "waitpoll",
              "stopworker", "stophttp", "abort"}

StepInv ==
    /\ step \in {"migrate", "redis"} => deferred = <<"db">>
    /\ step \in {"config", "opendb"} => deferred = <<>>
    /\ step \in Connected => deferred = <<"inspector", "asynqClient", "db">>
    /\ worker = "on" => step \in Connected \ {"startworker", "stophttp"}
    /\ http \in {"on", "failed"} => step \in {"wait", "stoppoller", "waitpoll", "stopworker", "stophttp"}
    /\ cron = "on" => step \in {"serve", "wait", "stoppoller"}
    /\ JobRunning => step \in {"serve", "wait", "stoppoller", "waitpoll"}

ResourcesInv == TypeOK /\ StepInv

(* At first nothing runs and nothing is open.                              *)
LEMMA ResourcesInit == Init => ResourcesInv
<1> SUFFICES ASSUME Init PROVE StepInv
  BY TypeInit DEF ResourcesInv
<1>1. ~JobRunning
  BY DEF Init, PollerInit, NoPoll, Polling, JobRunning, Pollers
<1> QED BY <1>1 DEF Init, PollerInit, StepInv, Connected

(* The poller's own steps: a scheduled poll starts while cron is on.       *)
LEMMA ResourcesPoller ==
    ASSUME ResourcesInv, PollerNext, UNCHANGED processVars
    PROVE  StepInv'
<1> USE DEF ResourcesInv, TypeOK, PollerTypeOK
<1>1. UNCHANGED cron
  BY DEF PollerNext, LogDocument, Index, Tick, FirstPoll, Fire, PollStep, SearchSucceeds, HandleHit,
         EndPoll, PollFails, Release, worldVars
<1>2. JobRunning' => JobRunning \/ cron = "on"
  <2> SUFFICES ASSUME NEW s \in Slots, Polling(s)' PROVE Polling(s) \/ cron = "on"
    BY DEF JobRunning
  <2>1. ASSUME NEW p \in Pollers, PollStep(p) PROVE Polling(s)
    <3>1. CASE SearchSucceeds(p)
      <4>1. PICK page \in SUBSET indexed :
                poll' = [poll EXCEPT ![p].at = "hits", ![p].page = page]
        BY <3>1 DEF SearchSucceeds
      <4> QED BY <3>1, <4>1 DEF SearchSucceeds, Polling, Pollers
    <3>2. ASSUME NEW d \in Docs, HandleHit(p, d) PROVE Polling(s)
      BY <3>2 DEF HandleHit, Polling, Pollers
    <3>3. CASE Release(p)
      BY <3>3 DEF Release, NoPoll, Polling, Pollers
    <3> QED BY <2>1, <3>1, <3>2, <3>3 DEF PollStep, EndPoll, PollFails
  <2>2. CASE FirstPoll
    BY <2>2 DEF FirstPoll, RunJob, Polling, Pollers
  <2>3. CASE Fire
    BY <2>3 DEF Fire
  <2>4. CASE UNCHANGED poll
    BY <2>4 DEF Polling
  <2> QED BY <2>1, <2>2, <2>3, <2>4 DEF PollerNext, LogDocument, Index, Tick
<1> QED BY <1>1, <1>2 DEF StepInv, processVars

(* The main goroutine: one step of run after the other.                    *)
LEMMA ResourcesMain ==
    ASSUME ResourcesInv, Main
    PROVE  StepInv'
<1> USE DEF ResourcesInv, StepInv, At, Connected
<1>1. CASE UNCHANGED poll
  <2>1. JobRunning' = JobRunning
    BY <1>1 DEF JobRunning, Polling
  <2>2. CASE LoadConfig
    BY <2>1, <2>2 DEF LoadConfig, pollerVars
  <2>3. CASE OpenDB
    BY <2>1, <2>3 DEF OpenDB, Defer, pollerVars
  <2>4. CASE Migrate
    BY <2>1, <2>4 DEF Migrate, pollerVars
  <2>5. CASE ConnectRedis
    <3>1. <<"inspector", "asynqClient">> \o <<"db">> = <<"inspector", "asynqClient", "db">>
      <4> DEFINE s == <<"inspector", "asynqClient">>
      <4> DEFINE d == <<"db">>
      <4>1. s \in Seq(Resources) /\ d \in Seq(Resources) /\ Len(s) = 2 /\ Len(d) = 1
        BY DEF Resources
      <4>2. Len(s \o d) = 3 /\ s \o d \in Seq(Resources)
            /\ (s \o d)[1] = s[1] /\ (s \o d)[2] = s[2] /\ (s \o d)[3] = d[1]
        BY <4>1, ConcatProperties
      <4> DEFINE t == <<"inspector", "asynqClient", "db">>
      <4>3. t \in Seq(Resources) /\ Len(t) = 3 /\ t[1] = s[1] /\ t[2] = s[2] /\ t[3] = d[1]
        BY DEF Resources
      <4>4. \A i \in 1..3 : (s \o d)[i] = t[i]
        <5> TAKE i \in 1..3
        <5>1. i = 1 \/ i = 2 \/ i = 3
          OBVIOUS
        <5> HIDE DEF s, d, t
        <5> QED BY <4>2, <4>3, <5>1
      <4>5. s \o d = t
        <5> HIDE DEF s, d, t
        <5> QED BY <4>2, <4>3, <4>4, SeqEqual
      <4> QED BY <4>5
    <3> QED BY <2>1, <2>5, <3>1 DEF ConnectRedis, Defer, pollerVars
  <2>6. CASE StartWorker \/ NewPoller \/ Abort \/ Serve
    BY <2>1, <2>6 DEF StartWorker, NewPoller, Abort, StopServer, Serve, pollerVars
  <2>7. CASE StartPoller
    BY <2>1, <2>7 DEF StartPoller, StartCron
  <2>8. CASE Wait \/ PollerStopped
    BY <2>1, <2>8 DEF Wait, PollerStopped, pollerVars
  <2>9. CASE StopPoller
    BY <2>1, <2>9 DEF StopPoller, worldVars
  <2>10. CASE StopWorker \/ StopHTTP
    BY <2>1, <2>10 DEF StopWorker, StopServer, StopHTTP, pollerVars
  <2>11. CASE RunDeferred
    BY <2>1, <2>11 DEF RunDeferred, pollerVars
  <2>12. CASE Exit
    BY <2>1, <2>12 DEF Exit
  <2> QED
    BY <2>2, <2>3, <2>4, <2>5, <2>6, <2>7, <2>8, <2>9, <2>10, <2>11, <2>12 DEF Main
<1>2. CASE StartPoller
  <2>1. JobRunning' => JobRunning
    BY <1>2 DEF StartPoller, StartCron, JobRunning, Polling, Pollers, TypeOK, PollerTypeOK
  <2> QED BY <1>2, <2>1 DEF StartPoller, StartCron
<1>3. CASE Exit
  <2>1. ~JobRunning'
    BY <1>3 DEF Exit, NoPoll, JobRunning, Polling, Pollers
  <2> QED BY <1>3, <2>1 DEF Exit
<1> QED
  BY <1>1, <1>2, <1>3
  DEF Main, LoadConfig, OpenDB, Migrate, ConnectRedis, StartWorker, NewPoller, Abort, Serve, Wait,
      StopPoller, PollerStopped, StopWorker, StopHTTP, RunDeferred, pollerVars

(* Every step of the process.                                              *)
LEMMA ResourcesNext == ResourcesInv /\ [Next]_vars => ResourcesInv'
<1> SUFFICES ASSUME ResourcesInv, [Next]_vars PROVE StepInv'
  BY TypeNext DEF ResourcesInv
<1>1. CASE Signal
  BY <1>1 DEF Signal, ResourcesInv, StepInv, JobRunning, Polling, processVars, worldVars
<1>2. CASE ServerFails
  BY <1>2 DEF ServerFails, ResourcesInv, StepInv, JobRunning, Polling, pollerVars, worldVars
<1>3. CASE UNCHANGED vars
  BY <1>3 DEF vars, ResourcesInv, StepInv, JobRunning, Polling, processVars, pollerVars, worldVars
<1> QED BY <1>1, <1>2, <1>3, ResourcesMain, ResourcesPoller DEF Next

(* While the worker or the HTTP server takes work, cron is on or a poll of *)
(* one of its ticks runs, neither the database nor a client of Redis has   *)
(* been closed.  What they have given up on ("late") is not covered.       *)
THEOREM ResourcesOpen == Spec => []UsersFindResourcesOpen
<1>1. ResourcesInv => UsersFindResourcesOpen
  <2> SUFFICES ASSUME ResourcesInv,
                      worker = "on" \/ http = "on" \/ cron = "on" \/ JobRunning
               PROVE  \A r \in Resources : \E i \in 1..Len(deferred) : deferred[i] = r
    BY DEF UsersFindResourcesOpen
  <2>1. deferred = <<"inspector", "asynqClient", "db">>
    BY DEF ResourcesInv, StepInv, Connected
  <2>2. 1 \in 1..Len(deferred) /\ 2 \in 1..Len(deferred) /\ 3 \in 1..Len(deferred)
    BY <2>1
  <2> QED BY <2>1, <2>2 DEF Resources
<1> QED BY <1>1, ResourcesInit, ResourcesNext, PTL DEF Spec

-----------------------------------------------------------------------------
(* Nothing is overlooked: the clock of the poller, and how long a document *)
(* may have to wait for a poll that finds it.                              *)

Starting == {"config", "opendb", "migrate", "redis", "startworker", "newpoller", "startpoller"}

Known == {d \in Docs : logged[d] # Never}

ClockInv ==
    /\ step \in Starting => cron = "off"
    /\ cron = "off" => Known = {} /\ token /\ poll = [p \in Pollers |-> NoPoll]
    /\ cron = "on" => /\ now <= nextPoll /\ nextPoll <= now + Interval
                      /\ token \/ \E p \in Pollers : Polling(p)
    /\ \A p \in Pollers : Polling(p) => now <= poll[p].until /\ poll[p].until <= now + PollTimeout
    /\ \A d \in Docs : logged[d] <= now
    /\ indexed \subseteq Known
    /\ IsFiniteSet(Known)

Crowded(d) == Cardinality(AsNew(d)) >= PageSize

(* Up to when the failures so far can have kept every poll from a document *)
(* that does not show up before delay.                                     *)
Lost == (Failures - failures) * (Interval + PollTimeout)

Blocked(d) == logged[d] + IndexDelay + Lost

(* A poll that will find the document starts, or has started, in time.     *)
Awaited(d) ==
    /\ d \notin indexed => now <= logged[d] + IndexDelay
    /\ \A p \in Pollers : Polling(p) =>
        /\ poll[p].until <= Blocked(d) + Interval + 2 * PollTimeout
        /\ poll[p].at = "hits" /\ d \notin poll[p].page => poll[p].until <= Blocked(d) + PollTimeout
    /\ (\A p \in Pollers : ~Polling(p)) => nextPoll <= Blocked(d) + Interval + PollTimeout

(* The lookback bridges the failures that there have been so far. *)
Bridged == Lookback >= IndexDelay + Interval + 2 * PollTimeout + Lost

AwaitedInv == World /\ Bridged => \A d \in Known : d \in handled \/ Crowded(d) \/ Awaited(d)

LEMMA ClockInit == Init => ClockInv
<1> SUFFICES ASSUME Init PROVE ClockInv
  OBVIOUS
<1>1. Known = {} /\ indexed = {} /\ \A p \in Pollers : ~Polling(p)
  BY DEF Init, PollerInit, Known, Never, NoPoll, Polling, Pollers
<1>2. \A d \in Docs : logged[d] <= now
  BY DEF Init, PollerInit, Never
<1>3. IsFiniteSet(Known) /\ (step \in Starting => cron = "off")
      /\ (cron = "off" => Known = {} /\ token /\ poll = [p \in Pollers |-> NoPoll]) /\ cron # "on"
  BY <1>1, FS_EmptySet DEF Init, PollerInit
<1> QED BY <1>1, <1>2, <1>3 DEF ClockInv

(* A poll that goes on keeps its deadline, one that ends returns the token.*)
LEMMA ClockPoll ==
    ASSUME TypeOK, ClockInv, NEW p \in Pollers, PollStep(p)
    PROVE  /\ UNCHANGED <<worldVars, cron, since, nextPoll, cancelled>>
           /\ \A q \in Pollers : Polling(q)' => Polling(q) /\ poll'[q].until = poll[q].until
           /\ token' \/ (token' = token /\ \A q \in Pollers : Polling(q) => Polling(q)')
           /\ cron # "off"
<1> USE DEF Polling, TypeOK, PollerTypeOK, Polls, NoPoll
<1>1. cron # "off"
  BY DEF ClockInv, PollStep, SearchSucceeds, HandleHit, EndPoll, PollFails
<1>2. CASE SearchSucceeds(p)
  <2>1. PICK page \in SUBSET indexed : poll' = [poll EXCEPT ![p].at = "hits", ![p].page = page]
    BY <1>2 DEF SearchSucceeds
  <2> QED BY <1>1, <1>2, <2>1 DEF SearchSucceeds
<1>3. ASSUME NEW d \in Docs, HandleHit(p, d)
      PROVE  /\ UNCHANGED <<worldVars, cron, since, nextPoll, cancelled>>
             /\ \A q \in Pollers : Polling(q)' => Polling(q) /\ poll'[q].until = poll[q].until
             /\ token' = token /\ \A q \in Pollers : Polling(q) => Polling(q)'
  <2>1. poll'[p].at = poll[p].at /\ poll'[p].until = poll[p].until
        /\ \A q \in Pollers : q # p => poll'[q] = poll[q]
    BY <1>3 DEF HandleHit
  <2>2. UNCHANGED <<worldVars, cron, since, nextPoll, cancelled, token>>
    BY <1>3 DEF HandleHit
  <2> QED BY <2>1, <2>2
<1>4. CASE EndPoll(p) \/ PollFails(p)
  <2>1. Release(p) /\ UNCHANGED <<worldVars, cron, since, nextPoll, cancelled>>
    BY <1>4 DEF EndPoll, PollFails
  <2>2. poll'[p].at = "idle" /\ \A q \in Pollers : q # p => poll'[q] = poll[q]
    BY <2>1 DEF Release
  <2>3. token'
    BY <2>1 DEF Release
  <2> QED BY <1>1, <2>1, <2>2, <2>3
<1> QED BY <1>1, <1>2, <1>3, <1>4 DEF PollStep

(* A job of cron is skipped, or it starts a poll with a deadline.          *)
LEMMA ClockRunJob ==
    ASSUME TypeOK, NEW p \in Pollers, RunJob(p)
    PROVE  /\ \A q \in Pollers : Polling(q)' =>
                 \/ Polling(q) /\ poll'[q] = poll[q]
                 \/ token /\ q = p /\ poll'[q] = [at |-> "search", until |-> now + PollTimeout, page |-> {}]
           /\ token => Polling(p)'
           /\ ~token => ~token' /\ \A q \in Pollers : Polling(q) => Polling(q)' /\ poll'[q] = poll[q]
<1> USE DEF Polling, TypeOK, PollerTypeOK
<1>1. CASE token
  <2> DEFINE new == [at |-> "search", until |-> now + PollTimeout, page |-> {}]
  <2>1. poll' = [poll EXCEPT ![p] = new] /\ poll \in [Pollers -> Polls]
    BY <1>1 DEF RunJob
  <2>2. poll'[p] = new /\ \A q \in Pollers : q # p => poll'[q] = poll[q]
    <3> HIDE DEF new
    <3> QED BY <2>1
  <2> QED BY <1>1, <2>2
<1>2. CASE ~token
  <2>1. UNCHANGED token /\ \A q \in Pollers : poll'[q] = poll[q] \/ (poll[q].at = "spawned" /\ poll'[q].at = "idle")
    BY <1>2 DEF RunJob, NoPoll
  <2> QED BY <1>2, <2>1
<1> QED BY <1>1, <1>2

LEMMA ClockPoller ==
    ASSUME TypeOK, ClockInv, PollerNext, UNCHANGED processVars
    PROVE  ClockInv'
<1> USE DEF TypeOK, PollerTypeOK
<1>0. Interval \in Nat /\ PollTimeout \in Nat /\ now \in Nat
  OBVIOUS
<1>1. ASSUME NEW d \in Docs, LogDocument(d) PROVE ClockInv'
  <2>1. logged'[d] = now /\ \A e \in Docs \ {d} : logged'[e] = logged[e]
    BY <1>1 DEF LogDocument
  <2>2. Known' = Known \cup {d}
    BY <1>0, <2>1 DEF Known, Never
  <2>3. IsFiniteSet(Known')
    BY <2>2, FS_AddElement DEF ClockInv
  <2>4. \A p \in Pollers : Polling(p)' = Polling(p)
    BY <1>1 DEF LogDocument, Polling
  <2>5. /\ UNCHANGED <<cron, now, nextPoll, token, poll, indexed, step>> /\ cron = "on"
    BY <1>1 DEF LogDocument, World, processVars
  <2> QED BY <1>0, <2>1, <2>2, <2>3, <2>4, <2>5 DEF ClockInv
<1>2. ASSUME NEW d \in Docs, Index(d) PROVE ClockInv'
  <2>1. /\ UNCHANGED <<cron, now, nextPoll, token, poll, logged, step>> /\ cron = "on"
        /\ Known' = Known /\ d \in Known /\ indexed' = indexed \cup {d}
    BY <1>2 DEF Index, World, Known, processVars
  <2> QED BY <2>1 DEF ClockInv, Polling
<1>3. CASE Tick
  <2>1. /\ UNCHANGED <<cron, nextPoll, token, poll, logged, indexed, step>> /\ cron = "on"
        /\ now' = now + 1 /\ Known' = Known
    BY <1>3 DEF Tick, World, Known, processVars
  <2>2. now < nextPoll /\ \A p \in Pollers : Polling(p) => now < poll[p].until
    BY <1>3, <2>1 DEF Tick, Due, Polls
  <2>3. \A p \in Pollers : poll[p].until \in Nat
    BY DEF Polls
  <2>4. \A d \in Docs : logged'[d] <= now'
    BY <2>1 DEF ClockInv, Never
  <2> QED BY <1>0, <2>1, <2>2, <2>3, <2>4 DEF ClockInv, Polling
<1>4. CASE FirstPoll \/ Fire
  <2>1. PICK p \in Pollers : RunJob(p)
    BY <1>4, NextSlotIs DEF FirstPoll, Fire, Pollers
  <2>2. UNCHANGED <<cron, now, logged, indexed, step>> /\ Known' = Known
    BY <1>4 DEF FirstPoll, Fire, worldVars, processVars, Known
  <2>3. cron # "off"
    BY <1>4 DEF FirstPoll, Fire, ClockInv, NoPoll, Pollers
  <2>4. cron = "on" => now <= nextPoll' /\ nextPoll' <= now + Interval
    BY <1>0, <1>4 DEF FirstPoll, Fire, ClockInv
  <2>5. \A q \in Pollers : Polling(q)' => now <= poll'[q].until /\ poll'[q].until <= now + PollTimeout
    BY <1>0, <2>1, ClockRunJob DEF ClockInv
  <2>6. cron = "on" => token' \/ \E q \in Pollers : Polling(q)'
    BY <2>1, ClockRunJob DEF ClockInv
  <2> QED BY <2>2, <2>3, <2>4, <2>5, <2>6 DEF ClockInv
<1>5. ASSUME NEW p \in Pollers, PollStep(p) PROVE ClockInv'
  <2>1. Known' = Known /\ step' = step
    BY <1>5, ClockPoll DEF Known, worldVars, processVars
  <2> QED BY <1>5, <2>1, ClockPoll DEF ClockInv, worldVars
<1> QED BY <1>1, <1>2, <1>3, <1>4, <1>5 DEF PollerNext

LEMMA ClockMain ==
    ASSUME ResourcesInv, ClockInv, Main
    PROVE  ClockInv'
<1> USE DEF ResourcesInv, TypeOK, PollerTypeOK, At, Starting
<1>1. UNCHANGED <<now, logged, indexed>> /\ Known' = Known
  BY DEF Main, LoadConfig, OpenDB, Migrate, ConnectRedis, StartWorker, NewPoller, StartPoller, Abort,
         Serve, Wait, StopPoller, PollerStopped, StopWorker, StopHTTP, RunDeferred, Exit, pollerVars,
         worldVars, Known
<1>2. CASE UNCHANGED pollerVars
  <2>1. step' \in Starting => step \in Starting
    BY DEF Main, LoadConfig, OpenDB, Migrate, ConnectRedis, StartWorker, NewPoller, StartPoller, Abort,
           Serve, Wait, StopPoller, PollerStopped, StopWorker, StopHTTP, RunDeferred, Exit
  <2> QED BY <1>1, <1>2, <2>1 DEF ClockInv, Polling, pollerVars
<1>3. CASE StartPoller
  <2>1. cron = "off" /\ step' \notin Starting /\ UNCHANGED token
    BY <1>3 DEF StartPoller, ClockInv
  <2>2. Known = {} /\ token /\ poll = [p \in Pollers |-> NoPoll]
    BY <2>1 DEF ClockInv
  <2>3. CASE StartCron
    <3>1. cron' = "on" /\ nextPoll' = now + Interval /\ \A p \in Pollers : ~Polling(p)'
      BY <2>2, <2>3 DEF StartCron, NoPoll, Polling, Pollers
    <3>2. now <= now + Interval
      OBVIOUS
    <3> QED BY <1>1, <2>1, <2>2, <3>1, <3>2 DEF ClockInv
  <2>4. CASE UNCHANGED <<cron, since, nextPoll, poll>>
    BY <1>1, <2>1, <2>4 DEF ClockInv, Polling
  <2> QED BY <1>3, <2>3, <2>4 DEF StartPoller
<1>4. CASE StopPoller
  <2>1. UNCHANGED <<poll, nextPoll, token>> /\ cron' = "stopped" /\ step' \notin Starting
    BY <1>4 DEF StopPoller
  <2> QED BY <1>1, <2>1 DEF ClockInv, Polling
<1>5. CASE Exit
  <2>1. poll' = [p \in Pollers |-> NoPoll] /\ UNCHANGED <<cron, nextPoll, token>> /\ step' \notin Starting
    BY <1>5 DEF Exit
  <2>2. \A p \in Pollers : ~Polling(p)'
    BY <2>1 DEF NoPoll, Polling
  <2>3. cron # "on"
    BY <1>5 DEF Exit, StepInv
  <2> QED BY <1>1, <2>1, <2>2, <2>3 DEF ClockInv
<1> QED
  BY <1>2, <1>3, <1>4, <1>5
  DEF Main, LoadConfig, OpenDB, Migrate, ConnectRedis, StartWorker, NewPoller, Abort, Serve, Wait,
      PollerStopped, StopWorker, StopHTTP, RunDeferred

LEMMA ClockNext == ResourcesInv /\ ClockInv /\ [Next]_vars => ClockInv'
<1> SUFFICES ASSUME ResourcesInv, ClockInv, [Next]_vars PROVE ClockInv'
  OBVIOUS
<1>1. CASE UNCHANGED <<now, logged, indexed, cron, nextPoll, token, poll, step>>
  <2>1. Known' = Known
    BY <1>1 DEF Known
  <2> QED BY <1>1, <2>1 DEF ClockInv, Polling
<1> QED
  BY <1>1, ClockMain, ClockPoller
  DEF Next, Signal, ServerFails, vars, pollerVars, processVars, worldVars, ResourcesInv

(* Each failure makes every document wait for another poll, and a poll     *)
(* that fails makes it wait for its timeout as well.                       *)
LEMMA LostTime ==
    ASSUME TypeOK
    PROVE  /\ Lost \in Nat
           /\ Lookback >= LookbackNeeded => Bridged
<1>1. /\ Interval \in Nat /\ PollTimeout \in Nat /\ IndexDelay \in Nat /\ Failures \in Nat
      /\ Lookback \in Nat /\ failures \in Nat /\ failures <= Failures
  BY DEF TypeOK, PollerTypeOK
<1>2. \A c, m, n \in Nat : (m - n) * c = m * c - n * c /\ m * c \in Nat
  OBVIOUS
<1>3. \A c, m, n \in Nat : n <= m => n * c <= m * c
  OBVIOUS
<1>4. Interval + PollTimeout \in Nat /\ Failures - failures \in Nat /\ Failures - failures <= Failures
  BY <1>1
<1>5. Lost \in Nat /\ Lost <= Failures * (Interval + PollTimeout)
  BY <1>1, <1>2, <1>3, <1>4 DEF Lost
<1> QED BY <1>1, <1>4, <1>2, <1>5 DEF LookbackNeeded, Bridged

LEMMA LostFailure ==
    ASSUME TypeOK, ~cancelled, MayFail
    PROVE  Lost' = Lost + Interval + PollTimeout
<1>1. /\ Interval \in Nat /\ PollTimeout \in Nat /\ Failures \in Nat /\ failures \in Nat /\ failures > 0
      /\ failures <= Failures /\ failures' = failures - 1
  BY DEF TypeOK, PollerTypeOK, MayFail
<1>2. \A c, m \in Nat : (m + 1) * c = m * c + c
  OBVIOUS
<1>3. Lost' = ((Failures - failures) + 1) * (Interval + PollTimeout) /\ Failures - failures \in Nat
  BY <1>1 DEF Lost
<1> QED BY <1>1, <1>2, <1>3 DEF Lost

(* Documents stay, with their timestamps, and so does the crowd of those   *)
(* that are as new as one of them.                                         *)
LEMMA KnownStays ==
    ASSUME TypeOK, [Next]_vars, NEW d \in Known
    PROVE  d \in Docs /\ d \in Known' /\ logged'[d] = logged[d] /\ logged[d] \in Nat
<1> USE DEF Known, TypeOK, PollerTypeOK
<1>1. UNCHANGED logged \/ \E e \in Docs : LogDocument(e)
  BY DEF Next, Main, LoadConfig, OpenDB, Migrate, ConnectRedis, StartWorker, NewPoller, StartPoller,
         Abort, Serve, Wait, StopPoller, PollerStopped, StopWorker, StopHTTP, RunDeferred, Exit, Signal,
         ServerFails, PollerNext, Index, Tick, FirstPoll, Fire, PollStep, SearchSucceeds, HandleHit,
         EndPoll, PollFails, vars, pollerVars, worldVars
<1> QED BY <1>1 DEF LogDocument

LEMMA CrowdStays ==
    ASSUME TypeOK, ClockInv, ClockInv', [Next]_vars, NEW d \in Known, Crowded(d)
    PROVE  Crowded(d)'
<1> DEFINE A == AsNew(d)
           B == AsNew(d)'
<1>1. d \in Docs /\ logged'[d] = logged[d] /\ logged[d] \in Nat
  BY KnownStays
<1>2. \A e \in Docs : logged[e] \in Nat \cup {-1}
  BY DEF TypeOK, PollerTypeOK, Never
<1>3. A \subseteq Known
  BY <1>1, <1>2 DEF AsNew, Known, Never
<1>4. A \subseteq B
  BY <1>1, <1>3, KnownStays DEF AsNew
<1>5. B \subseteq Known'
  <2> SUFFICES ASSUME NEW e \in B PROVE e \in Known'
    OBVIOUS
  <2>1. e \in Docs /\ logged'[e] >= logged'[d]
    BY DEF AsNew
  <2> QED BY <1>1, <2>1 DEF Known, Never
<1>6. IsFiniteSet(B)
  BY <1>5, FS_Subset DEF ClockInv
<1>7. Cardinality(A) <= Cardinality(B) /\ Cardinality(A) \in Nat /\ Cardinality(B) \in Nat
  <2> HIDE DEF A, B
  <2> QED BY <1>4, <1>6, FS_Subset, FS_CardinalityType
<1>8. PageSize \in Nat
  OBVIOUS
<1> QED BY <1>7, <1>8 DEF Crowded

(* A search that can find a document of the window finds it, or a page of  *)
(* documents that are as new.                                              *)
LEMMA PageHolds ==
    ASSUME TypeOK, ClockInv, NEW d \in indexed, NEW page \in SUBSET indexed, IsPage(page),
           now <= logged[d] + Lookback, d \notin page
    PROVE  Crowded(d)
<1>1. d \in Known /\ d \in Docs /\ logged[d] \in Nat /\ now \in Nat /\ Lookback \in Nat
  BY DEF ClockInv, Known, TypeOK, PollerTypeOK
<1>2. d \in Matching \ page
  BY <1>1 DEF Matching
<1>3. Cardinality(page) = PageSize
  BY <1>2 DEF IsPage
<1>4. page \subseteq AsNew(d)
  <2> SUFFICES ASSUME NEW e \in page PROVE e \in AsNew(d)
    OBVIOUS
  <2>1. e \in Docs /\ e # d /\ logged[e] <= now /\ logged[e] >= logged[d]
    BY <1>2 DEF IsPage, ClockInv, TypeOK, PollerTypeOK
  <2>2. logged[e] \in Int
    BY <2>1 DEF TypeOK, PollerTypeOK, Never
  <2> QED BY <1>1, <2>1, <2>2 DEF AsNew
<1>5. AsNew(d) \subseteq Known
  <2> SUFFICES ASSUME NEW e \in AsNew(d) PROVE e \in Known
    OBVIOUS
  <2>1. e \in Docs /\ logged[e] >= logged[d]
    BY DEF AsNew
  <2> QED BY <1>1, <2>1 DEF Known, Never
<1>6. IsFiniteSet(AsNew(d))
  BY <1>5, FS_Subset DEF ClockInv
<1>7. Cardinality(page) <= Cardinality(AsNew(d)) /\ Cardinality(AsNew(d)) \in Nat
  BY <1>4, <1>6, FS_Subset, FS_CardinalityType
<1>8. PageSize \in Nat
  OBVIOUS
<1> QED BY <1>3, <1>7, <1>8 DEF Crowded

LEMMA AwaitedSearch ==
    ASSUME PollsInv, ClockInv, Bridged, NEW p \in Pollers, SearchSucceeds(p),
           NEW d \in Known, Awaited(d)
    PROVE  Crowded(d) \/ Awaited(d)'
<1> USE DEF PollsInv
<1>1. PICK page \in SUBSET indexed :
          IsPage(page) /\ poll' = [poll EXCEPT ![p].at = "hits", ![p].page = page]
  BY DEF SearchSucceeds
<1>2. /\ poll[p].at = "search" /\ Polling(p)
      /\ UNCHANGED <<now, logged, indexed, failures, nextPoll>>
  BY DEF SearchSucceeds, worldVars, Polling
<1>3. /\ poll'[p].at = "hits" /\ poll'[p].until = poll[p].until /\ poll'[p].page = page
      /\ \A q \in Pollers : q # p => poll'[q] = poll[q]
  BY <1>1 DEF Polls, TypeOK, PollerTypeOK
<1>4. /\ now \in Nat /\ logged[d] \in Nat /\ d \in Docs /\ poll[p].until \in Nat /\ Lookback \in Nat
      /\ Lost \in Nat /\ Interval \in Nat /\ PollTimeout \in Nat /\ IndexDelay \in Nat
      /\ Lookback >= IndexDelay + Interval + 2 * PollTimeout + Lost
  BY LostTime DEF Bridged, Known, Polls, TypeOK, PollerTypeOK
<1>5. Blocked(d)' = Blocked(d)
  BY <1>2 DEF Blocked, Lost
<1>a. \A q \in Pollers : Polling(q)' = Polling(q)
  BY <1>2, <1>3 DEF Polling
<1>6. now <= poll[p].until /\ poll[p].until <= now + PollTimeout
      /\ poll[p].until <= Blocked(d) + Interval + 2 * PollTimeout
  BY <1>2 DEF ClockInv, Awaited
<1>b. ASSUME d \in page \/ poll[p].until <= Blocked(d) + PollTimeout
      PROVE  Awaited(d)'
  <2>1. \A q \in Pollers : Polling(q)' =>
            /\ poll'[q].until <= Blocked(d) + Interval + 2 * PollTimeout
            /\ poll'[q].at = "hits" /\ d \notin poll'[q].page => poll'[q].until <= Blocked(d) + PollTimeout
    <3> SUFFICES ASSUME NEW q \in Pollers, Polling(q)
                 PROVE  /\ poll'[q].until <= Blocked(d) + Interval + 2 * PollTimeout
                        /\ poll'[q].at = "hits" /\ d \notin poll'[q].page =>
                               poll'[q].until <= Blocked(d) + PollTimeout
      BY <1>a
    <3>1. CASE q = p
      BY <1>b, <1>3, <1>6, <3>1
    <3>2. CASE q # p
      BY <1>3, <3>2 DEF Awaited
    <3> QED BY <3>1, <3>2
  <2>2. /\ d \notin indexed' => now' <= logged'[d] + IndexDelay
        /\ (\A q \in Pollers : ~Polling(q)') => nextPoll' <= Blocked(d) + Interval + PollTimeout
    BY <1>2, <1>a DEF Awaited
  <2> QED BY <1>5, <2>1, <2>2 DEF Awaited
<1>7. CASE d \in page
  BY <1>b, <1>7
<1>8. CASE d \notin indexed
  <2>1. poll[p].until <= Blocked(d) + PollTimeout
    BY <1>4, <1>6, <1>8 DEF Awaited, Blocked
  <2> QED BY <1>b, <2>1
<1>9. CASE d \in indexed /\ d \notin page
  <2>1. now <= logged[d] + Lookback
    BY <1>4, <1>6 DEF Blocked
  <2> QED BY <1>1, <1>9, <2>1, PageHolds
<1> QED BY <1>7, <1>8, <1>9

LEMMA Units ==
    ASSUME TypeOK, NEW d \in Known
    PROVE  /\ now \in Nat /\ nextPoll \in Nat /\ Lost \in Nat /\ logged[d] \in Nat /\ d \in Docs
           /\ Interval \in Nat /\ PollTimeout \in Nat /\ IndexDelay \in Nat
           /\ \A p \in Pollers : poll[p].until \in Nat
BY LostTime DEF Known, Polls, TypeOK, PollerTypeOK

(* What fails is made up for by the next poll. *)
LEMMA AwaitedHit ==
    ASSUME PollsInv, ClockInv, World, NEW p \in Pollers, NEW e \in Docs, HandleHit(p, e),
           NEW d \in Known, d \notin handled', Awaited(d)
    PROVE  Awaited(d)'
<1>1. /\ poll[p].at = "hits" /\ UNCHANGED <<now, logged, indexed, nextPoll>>
      /\ d = e => MayFail
      /\ MayFail \/ UNCHANGED failures
  BY DEF HandleHit, worldVars
<1>2. /\ poll'[p].at = "hits" /\ poll'[p].until = poll[p].until /\ poll'[p].page = poll[p].page \ {e}
      /\ \A q \in Pollers : q # p => poll'[q] = poll[q]
  BY DEF HandleHit, PollsInv, TypeOK, PollerTypeOK, Polls
<1>3. \A q \in Pollers : Polling(q)' = Polling(q)
  BY <1>1, <1>2 DEF Polling
<1>4. Lost' = Lost \/ Lost' = Lost + Interval + PollTimeout
  BY <1>1, LostFailure DEF PollsInv, World, Lost
<1>5. d = e => Lost' = Lost + Interval + PollTimeout
  BY <1>1, LostFailure DEF PollsInv, World
<1>6. \A q \in Pollers : Polling(q) =>
          /\ poll'[q].until <= Blocked(d)' + Interval + 2 * PollTimeout
          /\ poll'[q].at = "hits" /\ d \notin poll'[q].page => poll'[q].until <= Blocked(d)' + PollTimeout
  <2> SUFFICES ASSUME NEW q \in Pollers, Polling(q)
               PROVE  /\ poll'[q].until <= Blocked(d)' + Interval + 2 * PollTimeout
                      /\ poll'[q].at = "hits" /\ d \notin poll'[q].page =>
                             poll'[q].until <= Blocked(d)' + PollTimeout
    OBVIOUS
  <2>1. poll[q].until <= Blocked(d) + Interval + 2 * PollTimeout
        /\ (poll[q].at = "hits" /\ d \notin poll[q].page => poll[q].until <= Blocked(d) + PollTimeout)
    BY DEF Awaited
  <2>2. Blocked(d)' = logged[d] + IndexDelay + Lost'
    BY <1>1 DEF Blocked
  <2>3. poll'[q].until = poll[q].until
    BY <1>2
  <2>4. poll'[q].until <= Blocked(d)' + Interval + 2 * PollTimeout
    BY <1>4, <2>1, <2>2, <2>3, Units DEF Blocked, PollsInv
  <2>5. ASSUME poll'[q].at = "hits", d \notin poll'[q].page
        PROVE  poll'[q].until <= Blocked(d)' + PollTimeout
    <3>1. CASE poll[q].at = "hits" /\ d \notin poll[q].page
      BY <1>4, <2>1, <2>2, <2>3, <3>1, Units DEF Blocked, PollsInv
    <3>2. CASE d = e
      BY <1>5, <2>1, <2>2, <2>3, <3>2, Units DEF Blocked, PollsInv
    <3>3. (poll[q].at = "hits" /\ d \notin poll[q].page) \/ d = e
      BY <1>1, <1>2, <2>5
    <3> QED BY <3>1, <3>2, <3>3
  <2> QED BY <2>4, <2>5
<1>7. (\A q \in Pollers : ~Polling(q)) => nextPoll' <= Blocked(d)' + Interval + PollTimeout
  BY <1>1 DEF Polling
<1>8. d \notin indexed' => now' <= logged'[d] + IndexDelay
  BY <1>1 DEF Awaited
<1> QED BY <1>3, <1>6, <1>7, <1>8 DEF Awaited

LEMMA AwaitedEnd ==
    ASSUME PollsInv, ClockInv, World, NEW p \in Pollers, EndPoll(p) \/ PollFails(p),
           NEW d \in Known, Awaited(d)
    PROVE  Awaited(d)'
<1>1. /\ Polling(p) /\ UNCHANGED <<now, logged, indexed, nextPoll>>
      /\ \A q \in Pollers : ~Polling(q)'
  <2>1. Polling(p) /\ Release(p)
    BY DEF EndPoll, PollFails, Polling
  <2>2. poll' = [poll EXCEPT ![p] = NoPoll] /\ poll \in [Pollers -> Polls]
    BY <2>1 DEF Release, PollsInv, TypeOK, PollerTypeOK
  <2>3. poll'[p] = NoPoll /\ \A q \in Pollers : q # p => poll'[q] = poll[q]
    <3> HIDE DEF NoPoll
    <3> QED BY <2>2
  <2>4. \A q \in Pollers : q # p => ~Polling(q)
    BY <2>1 DEF PollsInv, PollsNeverOverlap
  <2> QED BY <2>1, <2>3, <2>4 DEF EndPoll, PollFails, worldVars, Polling, NoPoll
<1>2. /\ nextPoll <= now + Interval /\ now <= poll[p].until
      /\ poll[p].until <= Blocked(d) + Interval + 2 * PollTimeout
      /\ poll[p].at = "hits" /\ d \notin poll[p].page => poll[p].until <= Blocked(d) + PollTimeout
  BY <1>1 DEF ClockInv, World, Awaited
<1>3. Blocked(d)' = logged[d] + IndexDelay + Lost'
  BY <1>1 DEF Blocked
<1>4. nextPoll' <= Blocked(d)' + Interval + PollTimeout
  <2>1. CASE EndPoll(p)
    <3>1. Lost' = Lost /\ poll[p].at = "hits" /\ d \notin poll[p].page
      BY <2>1 DEF EndPoll, Lost
    <3> QED BY <1>1, <1>2, <1>3, <3>1, Units DEF Blocked, PollsInv
  <2>2. CASE PollFails(p)
    <3>1. Lost' = Lost + Interval + PollTimeout
      BY <2>2, LostFailure DEF PollFails, PollsInv, World
    <3> QED BY <1>1, <1>2, <1>3, <3>1, Units DEF Blocked, PollsInv
  <2> QED BY <2>1, <2>2
<1>5. d \notin indexed' => now' <= logged'[d] + IndexDelay
  BY <1>1 DEF Awaited
<1> QED BY <1>1, <1>4, <1>5 DEF Awaited

(* A poll that starts does so when cron fires, or before. *)
LEMMA AwaitedStart ==
    ASSUME PollsInv, ClockInv, World, FirstPoll \/ Fire, NEW d \in Known, Awaited(d)
    PROVE  Awaited(d)'
<1>1. PICK p \in Pollers : RunJob(p)
  BY NextSlotIs DEF FirstPoll, Fire, Pollers
<1>2. UNCHANGED <<now, logged, indexed, failures>> /\ Blocked(d)' = Blocked(d)
  BY DEF FirstPoll, Fire, worldVars, Blocked, Lost
<1>3. CASE token
  <2>1. now <= Blocked(d) + Interval + PollTimeout
    <3>1. nextPoll <= Blocked(d) + Interval + PollTimeout /\ now <= nextPoll
      BY <1>3 DEF Awaited, PollsInv, TokenInv, ClockInv, World
    <3> QED BY <3>1, Units DEF PollsInv, Blocked
  <2>2. \A q \in Pollers : Polling(q)' =>
            q = p /\ poll'[q] = [at |-> "search", until |-> now + PollTimeout, page |-> {}]
    BY <1>1, <1>3, ClockRunJob DEF PollsInv, TokenInv
  <2>3. now + PollTimeout <= Blocked(d) + Interval + 2 * PollTimeout
    BY <2>1, Units DEF PollsInv, Blocked
  <2>4. Polling(p)'
    BY <1>1, <1>3, ClockRunJob DEF PollsInv
  <2> QED BY <1>2, <2>2, <2>3, <2>4 DEF Awaited
<1>4. CASE ~token
  <2>1. /\ \A q \in Pollers : Polling(q)' => Polling(q) /\ poll'[q] = poll[q]
        /\ \E q \in Pollers : Polling(q)'
    BY <1>1, <1>4, ClockRunJob DEF PollsInv, ClockInv, World
  <2> QED BY <1>2, <2>1 DEF Awaited
<1> QED BY <1>3, <1>4

LEMMA AwaitedNew ==
    ASSUME PollsInv, ClockInv, World, NEW d \in Docs, LogDocument(d)
    PROVE  Awaited(d)'
<1>1. logged'[d] = now /\ UNCHANGED <<now, indexed, nextPoll, poll, failures>>
  BY DEF LogDocument, PollsInv, TypeOK, PollerTypeOK
<1>2. /\ now \in Nat /\ nextPoll \in Nat /\ Lost \in Nat
      /\ Interval \in Nat /\ PollTimeout \in Nat /\ IndexDelay \in Nat
      /\ \A p \in Pollers : poll[p].until \in Nat
  BY LostTime DEF PollsInv, Polls, TypeOK, PollerTypeOK
<1>3. Blocked(d)' = now + IndexDelay + Lost
  BY <1>1 DEF Blocked, Lost
<1>4. nextPoll <= now + Interval /\ \A p \in Pollers : Polling(p) => poll[p].until <= now + PollTimeout
  BY DEF ClockInv, World
<1>5. \A p \in Pollers : Polling(p)' = Polling(p)
  BY <1>1 DEF Polling
<1>6. \A p \in Pollers : Polling(p) =>
          /\ poll[p].until <= Blocked(d)' + Interval + 2 * PollTimeout
          /\ poll[p].until <= Blocked(d)' + PollTimeout
  BY <1>2, <1>3, <1>4
<1>7. nextPoll <= Blocked(d)' + Interval + PollTimeout
  BY <1>2, <1>3, <1>4
<1>8. now <= now + IndexDelay
  BY <1>2
<1> QED BY <1>1, <1>5, <1>6, <1>7, <1>8 DEF Awaited

LEMMA AwaitedTick ==
    ASSUME PollsInv, World, Tick, NEW d \in Known, Awaited(d)
    PROVE  Awaited(d)'
<1>1. now' = now + 1 /\ UNCHANGED <<logged, indexed, nextPoll, poll, failures>> /\ ~Due
  BY DEF Tick
<1>2. d \notin indexed => now < logged[d] + IndexDelay
  <2>1. d \notin indexed => ~(now >= logged[d] + IndexDelay)
    BY <1>1, Units DEF Due, Known, PollsInv
  <2> QED BY <2>1, Units DEF PollsInv
<1>3. d \notin indexed => now + 1 <= logged[d] + IndexDelay
  BY <1>2, Units DEF PollsInv
<1>4. Blocked(d)' = Blocked(d) /\ \A p \in Pollers : Polling(p)' = Polling(p)
  BY <1>1 DEF Blocked, Lost, Polling
<1> QED BY <1>1, <1>3, <1>4 DEF Awaited

(* Failures only add up. *)
LEMMA BridgedBefore ==
    ASSUME TypeOK, World, [Next]_vars, Bridged'
    PROVE  Bridged
<1>1. UNCHANGED failures \/ MayFail
  BY DEF Next, Main, LoadConfig, OpenDB, Migrate, ConnectRedis, StartWorker, NewPoller, StartPoller,
         Abort, Serve, Wait, StopPoller, PollerStopped, StopWorker, StopHTTP, RunDeferred, Exit, Signal,
         ServerFails, PollerNext, LogDocument, Index, Tick, FirstPoll, Fire, PollStep, SearchSucceeds,
         HandleHit, EndPoll, PollFails, vars, pollerVars
<1>2. Lost' = Lost \/ Lost' = Lost + Interval + PollTimeout
  BY <1>1, LostFailure DEF World, Lost
<1>3. {Lost, Lookback, IndexDelay, Interval, PollTimeout} \subseteq Nat
  BY LostTime
<1> QED BY <1>2, <1>3 DEF Bridged

LEMMA AwaitedNext ==
    ASSUME PollsInv, ResourcesInv, ClockInv, AwaitedInv, [Next]_vars
    PROVE  AwaitedInv'
<1> SUFFICES ASSUME World', Bridged', NEW d \in Known'
             PROVE  d \in handled' \/ Crowded(d)' \/ Awaited(d)'
  BY DEF AwaitedInv
<1>1. TypeOK /\ ClockInv'
  BY ClockNext DEF PollsInv
<1>2. CASE World /\ d \in Known
  <2>0. Bridged
    BY <1>2, BridgedBefore DEF PollsInv
  <2>1. d \in handled \/ Crowded(d) \/ Awaited(d)
    BY <1>2, <2>0 DEF AwaitedInv
  <2>2. handled \subseteq handled'
    BY DEF Next, Main, LoadConfig, OpenDB, Migrate, ConnectRedis, StartWorker, NewPoller, StartPoller,
           Abort, Serve, Wait, StopPoller, PollerStopped, StopWorker, StopHTTP, RunDeferred, Exit, Signal,
           ServerFails, PollerNext, LogDocument, Index, Tick, FirstPoll, Fire, PollStep, SearchSucceeds,
           HandleHit, EndPoll, PollFails, vars, pollerVars
  <2>3. Crowded(d) => Crowded(d)'
    BY <1>1, <1>2, CrowdStays
  <2>4. SUFFICES ASSUME Awaited(d), d \notin handled', ~Crowded(d)'
                 PROVE  Awaited(d)'
    BY <2>1, <2>2, <2>3
  <2>5. CASE UNCHANGED <<now, logged, indexed, failures, nextPoll, poll>>
    BY <2>4, <2>5 DEF Awaited, Blocked, Lost, Polling
  <2>6. ASSUME NEW e \in Docs, LogDocument(e) PROVE Awaited(d)'
    <3>1. UNCHANGED <<now, indexed, failures, nextPoll, poll>> /\ logged'[d] = logged[d]
      BY <1>1, <1>2, <2>6, KnownStays DEF LogDocument
    <3> QED BY <2>4, <3>1 DEF Awaited, Blocked, Lost, Polling
  <2>7. ASSUME NEW e \in Docs, Index(e) PROVE Awaited(d)'
    BY <2>4, <2>7 DEF Index, Awaited, Blocked, Lost, Polling
  <2>8. CASE Tick BY <1>2, <2>4, <2>8, AwaitedTick
  <2>9. CASE FirstPoll \/ Fire BY <1>2, <2>4, <2>9, AwaitedStart
  <2>10. ASSUME NEW p \in Pollers, PollStep(p) PROVE Awaited(d)'
    <3>1. CASE SearchSucceeds(p) BY <1>2, <2>0, <2>3, <2>4, <3>1, AwaitedSearch
    <3>2. ASSUME NEW e \in Docs, HandleHit(p, e) PROVE Awaited(d)'
      BY <1>2, <2>4, <3>2, AwaitedHit
    <3>3. CASE EndPoll(p) \/ PollFails(p) BY <1>2, <2>4, <3>3, AwaitedEnd
    <3> QED BY <2>10, <3>1, <3>2, <3>3 DEF PollStep
  <2>11. CASE Main
    <3>1. ~StartPoller /\ ~StopPoller /\ ~Exit
      BY <1>2 DEF StartPoller, StopPoller, Exit, At, World, ResourcesInv, StepInv
    <3> QED
      BY <2>5, <2>11, <3>1
      DEF Main, LoadConfig, OpenDB, Migrate, ConnectRedis, StartWorker, NewPoller, Abort, Serve, Wait,
          PollerStopped, StopWorker, StopHTTP, RunDeferred, pollerVars, worldVars
  <2> QED
    BY <2>5, <2>6, <2>7, <2>8, <2>9, <2>10, <2>11
    DEF Next, PollerNext, Signal, ServerFails, vars, pollerVars, worldVars
<1>3. CASE ~(World /\ d \in Known)
  <2>1. UNCHANGED logged \/ \E e \in Docs : LogDocument(e)
    BY DEF Next, Main, LoadConfig, OpenDB, Migrate, ConnectRedis, StartWorker, NewPoller, StartPoller,
           Abort, Serve, Wait, StopPoller, PollerStopped, StopWorker, StopHTTP, RunDeferred, Exit, Signal,
           ServerFails, PollerNext, Index, Tick, FirstPoll, Fire, PollStep, SearchSucceeds, HandleHit,
           EndPoll, PollFails, vars, pollerVars, worldVars
  <2>2. CASE World
    <3>1. PICK e \in Docs : LogDocument(e)
      BY <1>3, <2>1, <2>2 DEF Known
    <3>2. d = e
      BY <1>1, <1>3, <2>2, <3>1 DEF LogDocument, Known, TypeOK, PollerTypeOK
    <3> QED BY <2>2, <3>1, <3>2, AwaitedNew
  <2>3. CASE ~World
    <3>1. cron = "off" /\ UNCHANGED logged
      <4>1. ~cancelled' /\ cron' = "on"
        BY DEF World
      <4>2. \A e \in Docs : ~LogDocument(e)
        BY <2>3 DEF LogDocument
      <4>3. cancelled' = cancelled \/ Signal
        BY DEF Next, Main, LoadConfig, OpenDB, Migrate, ConnectRedis, StartWorker, NewPoller, StartPoller,
               Abort, Serve, Wait, StopPoller, PollerStopped, StopWorker, StopHTTP, RunDeferred, Exit,
               ServerFails, PollerNext, LogDocument, Index, Tick, FirstPoll, Fire, PollStep,
               SearchSucceeds, HandleHit, EndPoll, PollFails, vars, pollerVars, worldVars
      <4>4. cron # "on"
        BY <2>3, <4>1, <4>3 DEF World, Signal
      <4>5. cron' = cron \/ StartPoller \/ StopPoller
        BY DEF Next, Main, LoadConfig, OpenDB, Migrate, ConnectRedis, StartWorker, NewPoller,
               Abort, Serve, Wait, PollerStopped, StopWorker, StopHTTP, RunDeferred, Exit, Signal,
               ServerFails, PollerNext, LogDocument, Index, Tick, FirstPoll, Fire, PollStep,
               SearchSucceeds, HandleHit, EndPoll, PollFails, vars, pollerVars, worldVars
      <4>6. StartPoller
        BY <4>1, <4>4, <4>5 DEF StopPoller
      <4> QED BY <2>1, <4>2, <4>6 DEF StartPoller, At, ClockInv, Starting
    <3> QED BY <3>1 DEF ClockInv, Known
  <2> QED BY <2>2, <2>3
<1> QED BY <1>2, <1>3

LEMMA AwaitedInit == Init => AwaitedInv
BY DEF Init, PollerInit, AwaitedInv, World

LEMMA AwaitedIsSeen ==
    ASSUME TypeOK, ClockInv, AwaitedInv, Bridged
    PROVE  NothingOverlooked
<1> SUFFICES ASSUME NEW d \in Docs, cron = "on", ~cancelled, logged[d] >= since,
                    now > logged[d] + Lookback, \A p \in Pollers : d \notin poll[p].page,
                    d \notin handled, ~Crowded(d)
             PROVE  FALSE
  BY DEF NothingOverlooked, Crowded
<1>1. d \in Known /\ since \in Nat
  BY DEF Known, Never, TypeOK, PollerTypeOK
<1>2. Awaited(d)
  BY <1>1 DEF AwaitedInv, World
<1>3. /\ now \in Nat /\ logged[d] \in Nat /\ nextPoll \in Nat /\ Lost \in Nat /\ Interval \in Nat
      /\ PollTimeout \in Nat /\ IndexDelay \in Nat /\ Lookback \in Nat
      /\ \A p \in Pollers : poll[p].until \in Nat
      /\ Lookback >= IndexDelay + Interval + 2 * PollTimeout + Lost
  BY <1>1, Units, LostTime DEF Bridged
<1>4. CASE \E p \in Pollers : Polling(p)
  <2>1. PICK p \in Pollers : Polling(p)
    BY <1>4
  <2>2. now <= poll[p].until /\ poll[p].until <= Blocked(d) + Interval + 2 * PollTimeout
    BY <1>2, <2>1 DEF ClockInv, Awaited
  <2> QED BY <1>3, <2>2 DEF Blocked
<1>5. CASE \A p \in Pollers : ~Polling(p)
  <2>1. now <= nextPoll /\ nextPoll <= Blocked(d) + Interval + PollTimeout
    BY <1>2, <1>5 DEF ClockInv, Awaited
  <2> QED BY <1>3, <2>1 DEF Blocked
<1> QED BY <1>4, <1>5

(* As long as the lookback bridges the failures that have happened, no     *)
(* document leaves the window of a running poller unread, unless a page of *)
(* others was as new: whatever polls fail, time out, are skipped or miss   *)
(* what is not yet indexed, and in whatever order (opensearch.go,          *)
(* BuildQuery and Start).                                                  *)
THEOREM NothingIsOverlooked == Spec => [](Bridged => NothingOverlooked)
<1>1. PollsInv /\ ResourcesInv /\ ClockInv /\ AwaitedInv => (Bridged => NothingOverlooked)
  BY AwaitedIsSeen DEF PollsInv
<1>2. PollsInv /\ ResourcesInv /\ ClockInv /\ AwaitedInv /\ [Next]_vars => AwaitedInv'
  BY AwaitedNext
<1> QED
  BY <1>1, <1>2, PollsInit, PollsNext, ResourcesInit, ResourcesNext, ClockInit, ClockNext, AwaitedInit,
     PTL DEF Spec

(* A lookback of LookbackNeeded is long enough for a number of failures.   *)
THEOREM LookbackSuffices == Spec /\ Lookback >= LookbackNeeded => []NothingOverlooked
<1> SUFFICES ASSUME Lookback >= LookbackNeeded PROVE Spec => []NothingOverlooked
  OBVIOUS
<1>1. TypeOK => Bridged
  BY LostTime
<1> QED BY <1>1, TypeCorrect, NothingIsOverlooked, PTL

=============================================================================
