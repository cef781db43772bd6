------------------------------- MODULE Poller -------------------------------
(***************************************************************************)
(* The OpenSearch poller (internal/ingestion/opensearch.go): cron starts a *)
(* poll every Interval, each in a goroutine of its own (a slot), and Start *)
(* itself the first one, in a goroutine that cron does not know.  A poll   *)
(* reads one page of the newest error documents of the last Lookback and   *)
(* hands them to Ingest one after the other.                               *)
(*                                                                         *)
(* Time advances in whole units.  What has a deadline happens before time  *)
(* passes it.  Ingest itself is module Ingestion; here it succeeds (which  *)
(* a duplicate does too) or fails.                                         *)
(***************************************************************************)
EXTENDS Integers, FiniteSets

CONSTANTS
    Docs,         \* the documents that the query may match
    Slots,        \* the goroutines that cron may have running at a time
    Interval,     \* OPENSEARCH_POLL_INTERVAL_SECONDS
    Lookback,     \* OPENSEARCH_LOOKBACK_SECONDS
    PollTimeout,  \* the timeout of one poll, 30 s
    PageSize,     \* searchPageSize
    IndexDelay,   \* how long OpenSearch takes to show a document
    Failures,     \* how many polls or hits may fail
    Horizon       \* the bound of time

ASSUME PollerAssumption ==
    /\ {Interval, Lookback, PageSize} \subseteq Nat \ {0}
    /\ {PollTimeout, IndexDelay, Failures, Horizon} \subseteq Nat
    /\ Slots # {} /\ "first" \notin Slots

Never == -1

VARIABLES
    now,
    logged,     \* the timestamp of each document, or Never
    indexed,    \* the documents that a search can find
    handled,    \* the documents that Ingest has stored or found stored
    failures,   \* how many failures are left
    cron,       \* the scheduler
    since,      \* when it was started
    nextPoll,   \* when it fires next
    token,      \* the channel of SkipIfStillRunning holds its token
    poll,       \* what each goroutine that polls is doing
    cancelled   \* the root context, that of every poll

worldVars  == <<now, logged, indexed>>
pollerVars == <<worldVars, handled, failures, cron, since, nextPoll, token, poll, cancelled>>

Pollers == {"first"} \cup Slots
Phases  == {"idle", "spawned", "search", "hits"}

Polls == [at : Phases, until : Nat, page : SUBSET Docs]

PollerTypeOK ==
    /\ {now, since, nextPoll} \subseteq Nat
    /\ logged \in [Docs -> Nat \cup {Never}]
    /\ indexed \subseteq Docs /\ handled \subseteq Docs
    /\ failures \in 0..Failures
    /\ cron \in {"off", "on", "stopped"}
    /\ token \in BOOLEAN /\ cancelled \in BOOLEAN
    /\ poll \in [Pollers -> Polls]

NoPoll == [at |-> "idle", until |-> 0, page |-> {}]

PollerInit ==
    /\ now = 0 /\ since = 0 /\ nextPoll = 0
    /\ logged = [d \in Docs |-> Never]
    /\ indexed = {} /\ handled = {}
    /\ failures = Failures
    /\ cron = "off"
    /\ token = TRUE /\ cancelled = FALSE
    /\ poll = [p \in Pollers |-> NoPoll]

Polling(p) == poll[p].at \in {"search", "hits"}

(* A job of cron is running. *)
JobRunning == \E s \in Slots : Polling(s)

-----------------------------------------------------------------------------
(* OpenSearch and time (external): they matter while the poller runs.      *)

World == cron = "on" /\ ~cancelled

LogDocument(d) ==
    /\ World /\ logged[d] = Never
    /\ logged' = [logged EXCEPT ![d] = now]
    /\ UNCHANGED <<now, indexed, handled, failures, cron, since, nextPoll, token, poll, cancelled>>

Index(d) ==
    /\ World /\ logged[d] # Never /\ d \notin indexed
    /\ indexed' = indexed \cup {d}
    /\ UNCHANGED <<now, logged, handled, failures, cron, since, nextPoll, token, poll, cancelled>>

(* Something is due now. *)
Due ==
    \/ \E d \in Docs \ indexed : logged[d] # Never /\ now >= logged[d] + IndexDelay
    \/ cron = "on" /\ now >= nextPoll
    \/ poll["first"].at = "spawned"
    \/ \E p \in Pollers : Polling(p) /\ now >= poll[p].until

Tick ==
    /\ World /\ now < Horizon /\ ~Due
    /\ now' = now + 1
    /\ UNCHANGED <<logged, indexed, handled, failures, cron, since, nextPoll, token, poll, cancelled>>

-----------------------------------------------------------------------------

(* AddFunc, cron.Start and the first poll. *)
StartCron ==
    /\ cron' = "on"
    /\ since' = now
    /\ nextPoll' = now + Interval
    /\ poll' = [poll EXCEPT !["first"].at = "spawned"]

(* Mutant: no SkipIfStillRunning. *)
RunJob_NoSkip(p) ==
    /\ ~Polling(p)
    /\ poll' = [poll EXCEPT ![p] = [at |-> "search", until |-> now + PollTimeout, page |-> {}]]
    /\ token' = FALSE

(* pollOnce through the cron chain, in goroutine p: skipped while another  *)
(* poll runs.                                                              *)
RunJob(p) ==
    \/ /\ token /\ ~Polling(p)
       /\ token' = FALSE
       /\ poll' = [poll EXCEPT ![p] = [at |-> "search", until |-> now + PollTimeout, page |-> {}]]
    \/ /\ ~token
       /\ poll' = IF poll[p].at = "spawned" THEN [poll EXCEPT ![p] = NoPoll] ELSE poll
       /\ UNCHANGED token

FirstPoll ==
    /\ poll["first"].at = "spawned"
    /\ RunJob("first")
    /\ UNCHANGED <<worldVars, handled, failures, cron, since, nextPoll, cancelled>>

(* A goroutine for the next job: one that is free, if there is one. *)
NextSlot == CHOOSE s \in Slots : Polling(s) => \A q \in Slots : Polling(q)

Fire ==
    /\ cron = "on" /\ now >= nextPoll
    /\ nextPoll' = now + Interval
    /\ RunJob(NextSlot)
    /\ UNCHANGED <<worldVars, handled, failures, cron, since, cancelled>>

(* BuildQuery: the documents of the window, the newest ones first, up to   *)
(* the size of a page.  What has been handled before is not left out.      *)
Matching == {d \in indexed : logged[d] >= now - Lookback}

(* Mutant: order "asc". *)
IsPage_OldestFirst(page) ==
    /\ page \subseteq Matching
    /\ Cardinality(page) <= PageSize
    /\ page # Matching => Cardinality(page) = PageSize
    /\ \A d \in page, e \in Matching \ page : logged[d] <= logged[e]

IsPage(page) ==
    /\ page \subseteq Matching
    /\ Cardinality(page) <= PageSize
    /\ page # Matching => Cardinality(page) = PageSize
    /\ \A d \in page, e \in Matching \ page : logged[d] >= logged[e]

SearchSucceeds(p) ==
    /\ poll[p].at = "search"
    /\ \E page \in SUBSET indexed :
           IsPage(page) /\ poll' = [poll EXCEPT ![p].at = "hits", ![p].page = page]
    /\ UNCHANGED <<worldVars, handled, failures, cron, since, nextPoll, token, cancelled>>

(* Failures are counted, except for those that a shutdown causes. *)
MayFail ==
    \/ cancelled /\ UNCHANGED failures
    \/ failures > 0 /\ failures' = failures - 1

(* One hit of the page: Ingest stores it, finds it stored, or fails on it, *)
(* which is logged; the next poll will find it again, if it still matches. *)
HandleHit(p, d) ==
    /\ poll[p].at = "hits" /\ d \in poll[p].page
    /\ \A e \in poll[p].page : logged[d] >= logged[e]
    /\ poll' = [poll EXCEPT ![p].page = @ \ {d}]
    /\ \/ handled' = handled \cup {d} /\ UNCHANGED failures
       \/ MayFail /\ UNCHANGED handled
    /\ UNCHANGED <<worldVars, cron, since, nextPoll, token, cancelled>>

Release(p) ==
    /\ token' = TRUE
    /\ poll' = [poll EXCEPT ![p] = NoPoll]

EndPoll(p) ==
    /\ poll[p].at = "hits" /\ poll[p].page = {}
    /\ Release(p)
    /\ UNCHANGED <<worldVars, handled, failures, cron, since, nextPoll, cancelled>>

(* The search fails, or the context of the poll ends before its last hit.  *)
PollFails(p) ==
    /\ Polling(p) /\ MayFail
    /\ Release(p)
    /\ UNCHANGED <<worldVars, handled, cron, since, nextPoll, cancelled>>

PollStep(p) ==
    SearchSucceeds(p) \/ (\E d \in Docs : HandleHit(p, d)) \/ EndPoll(p) \/ PollFails(p)

PollerNext ==
    \/ \E d \in Docs : LogDocument(d) \/ Index(d)
    \/ Tick \/ FirstPoll \/ Fire
    \/ \E p \in Pollers : PollStep(p)

=============================================================================
