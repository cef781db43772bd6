# A verification project for logai

logai takes application errors from a webhook and from OpenSearch, lets a model
triage, localize and fix each of them, and opens a merge request (MR) in GitLab.
This directory holds TLA+ modules of the code that decides what is recorded,
what is run again and what an operator is told, the TLC configurations that
check them on small instances, and proofs checked by TLAPS.

    tlc -workers 2 -config MCFaults.cfg MCLogai     # a run
    tlapm LogaiRecords.tla                          # the proofs

## 1. Inventory

| Component | Source | State | Operations | What is hard | What makes it correct |
|---|---|---|---|---|---|
| Error store | `internal/db`, `internal/models` | tables `errors`, `jobs`, `merge_requests` in SQLite, one connection | single SQL statements, no transaction spans two | a handler's writes interleave with those of others, and it can end between any two | UNIQUE fingerprint; the three tables agree with each other and with GitLab |
| Ingestion | `internal/ingestion/ingest.go`, `webhook.go` | none of its own | `Ingest`: check, insert, enqueue, or mark failed | check-then-insert; an enqueue that fails, or whose reply is lost; a crash before it | one task per fault; no row without a task |
| OpenSearch poller | `internal/ingestion/opensearch.go` | cron schedule, the token of `SkipIfStillRunning` | `pollOnce`, `handleHit`, `mapDocument`, `Start`, `Stop` | window and page against failing, slow and skipped polls; a first poll that `Stop` does not wait for; documents of any nesting | no two polls overlap; a document of the window reaches `Ingest` |
| Task queue | asynq and Redis (external) | pending, active, retry and archived tasks, retry counts | enqueue, dequeue, retry, archive, recover | at-least-once delivery across crashes and shutdowns | bounded retries |
| Pipeline worker | `internal/pipeline/worker.go` | context of a run, attempt number | `HandleProcessError`, `run`, `markFailed`, job helpers | two slots; a 20-minute deadline at any call; early returns; best-effort writes | a run ends with a status that fits what asynq does next |
| Pipeline stages | `triage.go`, `localize.go`, `fix.go`, `gitlab.go` | the open job row | one model call, or the GitLab writes | a failure after the MR exists | job rows closed; an MR recorded when opened |
| LLM client | `internal/llm` | none | `Complete`, backoff, `StripFences` | retries within the deadline of the caller; answers in fences and prose | bounded attempts, shutdowns included; permanent failures not repeated; retry-after kept; the object taken out whole |
| GitLab client | `internal/gitlab` | branches, commits, MRs on the server | `CreateBranch`, `CommitFile`, `CreateMR`, `ResolveFile` | writes that are not idempotent and whose answers are lost; a path asked for in several requests | an error means that nothing is relied upon; a file that is there is found, no other is changed |
| Retry endpoint | `internal/api/handlers.go` | none | read status, reset it, enqueue | the three are not atomic | no two runs of one error; nothing stranded |
| Read-only API | `internal/api/handlers.go` | none | lists, details, health | details are three reads without a transaction | they fit together |
| Start and shutdown | `cmd/logai/main.go`, `internal/db/db.go` | the running parts, the deferred calls | start, and stop in order | a start that fails half-way; handlers that outlive their part's shutdown; signals at any moment | nothing uses what has been closed; it ends |
| Configuration | `internal/config` | environment | `Load` | presets, defaults and trimmed slashes against what is required | a configuration that loads can be used |

How they interact: the webhook and the poller call `Ingest`, which writes the
store and enqueues a task that carries only the error id. Asynq hands the task
to one of two worker slots; the run reads and writes the store, calls the model
and GitLab, and its return value tells asynq whether to retry. `POST /retry`
reads the store, writes the status and enqueues another task for the same error.
All of them meet only in the store, in the queue and in GitLab, and every access
is one statement or request: that is the grain of the actions.

`PROJECT.json` lists the hazards with their lines.

## 2. Modules

| Module | Models |
|---|---|
| `ErrorStore` | the tables and statements of `queries.go` |
| `Faults` | what the environment may do to a call, each kind with a budget |
| `TaskQueue` | asynq and Redis as logai uses them |
| `GitLab` | the three write requests, and answers that are lost |
| `Pipeline` | `HandleProcessError` and the four stages, call by call |
| `Ingestion` | `Ingest`, call by call |
| `RetryApi` | `POST /retry`, call by call |
| `ReadApi` | `GET /errors/{id}`, read by read |
| `Logai` | the composition, crash, shutdown and restart, fairness |
| `ErrorLifecycle` | the abstract specification of one error's life |
| `LogaiProps` | the properties |
| `LogaiInv` | the inductive invariants of the proofs |
| `LogaiTypes`, `LogaiRecords`, `LogaiFaults`, `LogaiLifecycle` | theorems and proofs |
| `LLMClient` | `Complete` and `once`: responses, retries, waits, under the clock of a run |
| `LLMRun` | the model calls of one task: three stages in a run, and asynq's runs of the task, after failures, crashes and shutdowns |
| `LLMProofs` | theorems and proofs about `LLMRun` |
| `Poller` | cron, polls, pages and hits, OpenSearch's delay, all in discrete time |
| `Process` | `run` of `main.go`, start to exit, with the poller beside it |
| `ProcessProps`, `ProcessProofs` | its properties; theorems and proofs |
| `FileResolution` | `ResolveFile`, request by request, while others push |
| `Documents` | `lookupString`, what `MapDocument` and the webhook need of a report, `Fingerprint` |
| `Answers` | `StripFences` |
| `Configuration` | `Load` |
| `Inputs` | the four modules above, one input after the other |
| `InputProps`, `InputProofs`, `TextProofs` | its properties; theorems and proofs |
| `MCLogai`, `MCLLM`, `MCProcess`, `MCInputs` | constants for TLC |

`Logai` composes the modules above it and has no time; a model call is one
action there (`AskModel`), with every outcome possible. `LLMRun` opens that
action up: it has a clock, and of the rest of a run only that it may fail.
`Process` opens up what `Logai` has as `BeginShutdown`, `Exit` and `Restart`, and
`Poller` is a caller of `Ingest`; there `Ingest` succeeds or fails. `Inputs` is
about single calls, most of them pure functions, which meet nothing of the rest.

**State.** `status[e]`, `triaged` and `fingerprint[e]` are columns of `errors`;
`jobs[<<task, n, stage>>]` is the row that `startJob` inserts in the n-th run of
a task (the code names it by a uuid, and stores the attempt number that
`AttemptNumber` says); `mrs` are the rows of `merge_requests`. `runs[t]` counts
the starts of a task and `server` says whether the process is `running` or
`stopping`. `taskState`, `retried` and `payload` are asynq's. `repo` says how
far the branch of a run has come on the server. `pc[t]`, `stage[t]`,
`outcome[t]` are the program counter and the result so far of the run of task
`t`; `ingestPc` and `retryPc` are those of the API calls, and at the end what
they returned; `readPc` and `view` are the next read of a `GET /errors/{id}` and
what it has read. A call enqueues at most one task, so the task has the name of
the call.

**Actions.** One per call that reads or writes shared state; the head of
`Pipeline` lists the labels. The model's answers are abstracted to what `run`
distinguishes: go on, stop (skipped), fail for good (`classify` adds
`SkipRetry`), fail for now. An early return that skips later calls of the code
skips the corresponding labels here: `finishJob`'s error goes to `markFailed`
and not to `failJob`, the errors of `GetError` and of marking `processing` reach
neither.

**The model calls.** `at` says what `Complete` does next (`idle`, `request`,
`sleep`) or how it returned (`text`, `error`); `attempt` and `err` are the loop's
`attempt` and `lastErr`; `clock` is the time since the run's context was made.
A response is the part of it that `once` branches on, and `Outcome` is that
branching. A request takes one of a set of latencies, a sleep what `Backoff`
says; the deadline can cut both short. `answered`, `asked` and `verdicts` are
the provider's side: when it last answered, how often it was asked, and what it
has said; `pause` is what its header asked for, whatever the client made of it.
They are read by the properties and by no guard. A run is interrupted at any point
by a crash, which asynq counts as a retry, or by a shutdown, which gives the task
back with the retries it had (`Restart`); `stops` counts the latter. The end of the
process takes with it what asynq had not been told, so `verdicts` begins anew.

**Process and poller.** `step` is the statement of `run` that comes next, and
`deferred` what its deferred calls will close; `worker`, `http` and `cron` are
the three parts. `Shutdown` of asynq and of the HTTP server give up after 8 and 10
seconds: what was told to stop and goes on is `late`, and what it still does is
not followed. `poll` says what each goroutine that polls is doing: the one of
`Start` (`first`), and those of cron, which starts a new one at every tick
(`Slots`, of which each can be running). `token` is the channel of
`SkipIfStillRunning`. `logged`, `indexed` and `handled` are a document's way from
the log to `Ingest`. Time advances by `Tick`, never past what is due: a document
shows up at most `IndexDelay` after it was logged, a poll ends by its timeout,
cron fires on time. Time and OpenSearch stand still outside the life of the
poller, of which alone the properties speak.

**Inputs.** `read` is the input just read and what logai made of it, by which the
properties compare it with what its writer meant. Only `ResolveFile` takes several
steps, between which others push to the branch. What a value is to `Load`: absent,
good or bad in one of the ways that its checks tell apart, and for a URL also a
text of nothing but slashes, which `TrimRight` makes empty. Texts are sequences of the few
tokens that the code looks for, and documents functions from places to values.

**Abstractions.** Contents of reports, prompts, answers, files and MRs are left
out. A branch is named by its run: a collision of two runs in one second is one
of the errors that `CreateBranch` may report anyway. A malformed payload cannot
occur, because only `NewProcessTask` makes payloads. A statement is atomic,
because the pool has one connection. At the labels `load` and `mark` a database
fault also stands for an expired context. A statement or an enqueue that reports
a `db` or `redis` fault has had no effect; an enqueue with an effect and an
error is a `reply` fault. A client that goes away cancels its request: that is
one of the ways in which these faults occur. `LoadError` keeps the branch for a row
that does not exist although no task can name one: `CallsInv` proves it.

## 3. Faults

A fault takes one unit of its kind's budget: `db` (a statement fails without
effect), `redis` (an enqueue fails without effect), `reply` (an enqueue takes
effect and reports an error), `gitlab` (a write takes effect and reports an
error), `deadline` (the context of a run expires), `crash` (the process dies and
starts again), `stop` (the process is told to shut down, and starts again).
After a `stop` asynq takes no task any more and waits 8 seconds for its handlers
(`ShutdownTimeout`, which logai does not set). Then it cancels their contexts and
puts their tasks back into the queue as they came; the handlers go on until they
return or the process exits. Errors that the model or GitLab reports are not counted; they may
happen on every call. The theorems hold for every budget.

## 4. Runs

The properties come in three groups, as in `LogaiProps`.

*Under every fault* (`MCFaults`, `MCIngest`):

- `FixedIsBacked` (in both): an error shown as fixed has a run that took all four stages
  to a recorded success and stored its MR.
- `RecordsMatchGitLab`: rows of `merge_requests` name MRs that exist, a gitlab
  job that succeeded stored its row, one that failed did not.
- `ExtraMRsCostFaults`: a task opens a second MR only if a fault broke the run
  that opened the first.
- `AttemptNumbersRun`: the attempt in the job rows is the number of the run,
  also after crashes; each shutdown may make two runs share one.
- `EveryTaskEnds`: every task is processed or archived, in the end.
- `OneTaskPerFingerprint`: of racing reports of one fault one gets a task.
- `DetailShowsFix`: `GET /errors/{id}` shows no fixed error without its four
  successes and its MR, though writes come between its reads.

*With a database that answers and a process that lives* (`MCTwoRuns`,
`MCRetries`):

- `NeverStranded`: an error that is new or processing has a call or a task that
  will settle it. The exception is a `POST /retry` that was answered with 500.
- `StatusTellsRetries`: while asynq will retry, the status is `new`; once it is
  `failed`, nothing will run.
- `JobsClosed`: a job row stays `running` after its run only if the deadline
  cut the run off.
- `FixedIsFinal`: no task undoes its own fix: the run that fixes an error is the
  last of its task. A fixed error is reopened only by the reset of a `POST /retry`,
  or by a write of another task or of the ingestion while the task that fixed it
  has ended or is about to. (Such a write does come: the UPDATE of a status asks for
  nothing, and the last writer wins. That two tasks work on one error is the
  subject of `one_run`.)
- `LifecycleSpec`: the composition implements `ErrorLifecycle`. `result` is the
  status column, and `owed` the calls and tasks that will still settle the
  error.
- `EveryErrorSettles`: every new or processing error becomes skipped, fixed or
  failed.

These need the assumption. A crash on the last attempt, or a failed UPDATE in
`markFailed`, leaves `processing` for good; a crash between insert and enqueue
leaves `new` for good. A lost reply of Redis breaks `FixedIsFinal` alone: the
task that `Ingest` believes lost fixes the error, which `Ingest` then marks failed
(the belief is what `lost_reply` is about). Section 5 says which kinds of fault
each property needs to be spared.

*The model calls of a task* (`MCLLM`):

- `GivesUpWhenSpent`: `Complete` returns an error only if it would repeat
  itself, the time of the run is over, or all retries are used up.
- `VerdictIsFinal`: after a truncated or refused answer the task asks nothing
  more. Both levels of retries have to honour that, each by a test of its own.
  A process that ends before asynq has heard from the handler loses the verdict,
  and the next run asks again.
- `LeavesAlone`: after a response with an error status no request of the run is
  sent before the wait is over that its `retry-after` asked for, up to the cap,
  also when timeouts come in between.
- `CostIsBounded`: a task sends no more requests than the product of the stages,
  the retries of the client and the runs of the task: the first, those that asynq
  counts, and one for each shutdown that gave the task back.
- `TaskSettles`: the task leaves the queue, whatever the provider does.

*One life of the process, and its poller* (`MCProcess`):

- `PollsNeverOverlap`: neither two polls of cron nor one of them with the first.
- `NothingOverlooked`: a document of the window was handed to `Ingest` before it
  left the window, unless a whole page of documents was as new.
- `UsersFindResourcesOpen`: worker, HTTP server and scheduled polls find database
  and Redis open, in a start that fails and in a shutdown, until they have been
  told to stop and waited for. Three may find them closed: the first poll, for
  which `Stop` does not wait, a request that outlasts the 10 seconds of `Shutdown`,
  and a run that outlasts the 8 seconds of asynq. What that run still
  writes, with a context of its own (`markFailed`, `failJob`), is then lost; in
  `Logai` the process may exit at any point of such a run.
- `ShutdownEnds`: a signal, or the end of the HTTP server, ends the process.

*Inputs* (`MCInputs`):

- `StableFileIsFound`: a file that was in the repository all the time is not
  reported as missing, nor passed over for a shorter suffix of the path.
- `FixesAFileOfTheTrace`: what is found is a suffix of the path, never its bare
  name.
- `ConfigurationIsUsable`: what loads has an endpoint of the model that is left
  when slashes are trimmed, valid settings, positive times, and all that is
  required, but for the URLs of GitLab and OpenSearch, which are trimmed after
  they were tested.
- `TraceIsFound`: the trace of a document is found, however its keys are nested,
  if nothing contradicts it; what has no trace is not reported. An object where
  the trace should be is text, as the code prints it.
- `FingerprintTellsErrors`: of two reports that differ in one thing: what must not
  matter to a fingerprint does not, and a longer message does, or a line that is
  new to the trace among the first three. That includes a report without message,
  whose first frame stands in for one.
- `ObjectIsUnwrapped`: which replies are cut down to the JSON object, as an
  equivalence in each of three cases: the object begins the reply, follows the line
  of a fence, or follows prose.

*Claimed and not kept*, one run each:

| Run | Claim | What happens |
|---|---|---|
| `one_run` | `handlers.go:160`: the 409 prevents a second concurrent run | it looks at the status only, and once: a retry is accepted while the error is `new` with a task in the queue |
| `timed_out` | `worker.go:251`: a timed-out stage gets its failure recorded | if the deadline passes before `finishJob`, the row stays `running` |
| `conflict` | `handlers.go:162`: 409 means the error is being processed | after a failed UPDATE in `markFailed` no task is left, and every retry gets 409 |
| `lost_reply` | `ingest.go:88`: after a failed enqueue nothing will process the row | the reply may have been lost, and the task is in the queue |
| `shutdown` | `main.go:173`: in-flight tasks are finished | asynq gives a run back after 8 seconds, of up to 20 minutes, and the next process runs it again |

*Met while modelling, without a run.*

- `opensearch.go:114` says that `Stop` waits for any in-flight poll; it does not
  for the first one (the exception in `UsersFindResourcesOpen`).
- `README.md:221` says that suffixes of a path are tried until one exists; only
  the six longest are (`Reachable`).
- `client.go:401` speaks of prose around the object; prose that follows an object
  at the beginning of the reply stays. A fence that is left open around source code
  with fences is closed at one of those, and a brace in prose counts as one of the
  object (`ObjectIsUnwrapped`).
- `config.go:65` says that `Load` validates that all required fields are set.
  `GITLAB_URL=/` and `OPENSEARCH_URL=/` are set when they are tested and empty when
  they are stored; `LLM_BASE_URL` is tested after it was trimmed
  (`ConfigurationIsUsable`).
- `README.md:209-210` says that the backoff honors `retry-after`; the header of a
  response with status 200 is not looked at when its body holds the error
  (`client.go:264`, `LeavesAlone`).
- `handlers.go:161` and the worker write the status without asking what it was, so a
  late write of another run reopens a fixed error (`FixedIsFinal`).
- `config.go:64-66` promises all errors in one pass; `Load` returns the first
  that is invalid, and what is missing only when nothing is (`Reports`).
- A flat key whose value is nil hides nested keys of the same path (`Flat`).
- Nothing relates the poller's lookback to its interval. With the defaults, 120 s
  and 60 s, one failed poll can cost a document: it shows up just after a search,
  the next poll fails, and the one after looks back to that search only, not to
  when the document was logged. `LookbackNeeded` says how long a lookback bridges
  how many failures.

**Bounds.** `MCFaults`: one error, no manual retry, `MaxRetry` 1 (two attempts:
one that is retried and one that is the last), one slot; one GitLab reply lost,
one deadline, one crash and one shutdown, in any order. A failed statement after
the MR exists is there one under an expired context; faults of the database, of
Redis and of its replies are in `MCIngest`, `MCRetries`, `MCConflict` and
`MCLostReply`. `MCTwoRuns` and `MCRetries`: one error, one manual retry,
`MaxRetry` 1, two slots, so that two runs of one error overlap at every pair of
labels. `MCIngest`: three reports with one fingerprint, one reader of the
details of any of them, `MaxRetry` 0, one fault each of database, Redis, reply
and crash. The code's `MaxRetry` is 3 and its concurrency 2; the guards compare
a count with a bound, so that a first and a last attempt show every case, and
errors with different fingerprints share no state but the slots and the budgets.

`MCProcess`: interval, timeout and delay are one unit each, cron has two
goroutines, enough for two polls to overlap, and a page is one
document, so that two documents compete and polls are skipped; one failure, at
any poll or hit. The lookback is `LookbackNeeded`, and one unit less
violates `NothingOverlooked`: a poll may start just before a document shows up
and keep the next ones away until it times out, and a failure repeats that. The
horizon lets a document leave the window.

`MCInputs`: a path has up to eight names, more than the six that are tried, the
repository up to two of its suffixes, and one push may come at any request. A
trace has up to five lines, three of which count; a piece of source code up to
four tokens, between eight texts before and eight after, which are every kind of
beginning and end that the search and the trims of `StripFences` tell apart; a path of keys three parts in all four nestings, together or not,
with four values, and with objects in the place of values. Environments are all combinations of the ways in which a
variable can be set.

`MCLLM`: a unit of time is two minutes of requests, so that a request takes at
most 4 units and a run 10: two HTTP timeouts and a half, as in the code. Waits
are longer than in the code (1 and 2, at most 3), so that they meet the deadline
too. `MaxRetries` 2 and `MaxRetry` 1 give a first, a middle and a last attempt, and
one shutdown comes at any point; crashes take retries and need no bound.
Responses: one for each branch of `Outcome` that the properties tell apart, with
a `retry-after` below and one above the cap.

**Deadlock** is checked in every run; `Quiet` is the step of a server with
nothing to do.

**Fairness** (`FairSpec`). Weak fairness of each run's next call, of the calls
of an `Ingest` or a retry that has started, and of asynq's loops (dequeue,
forward, recover). The code justifies it: HTTP clients have timeouts, the other
calls the context of the run, detached writes 5 seconds, and the loops of asynq
poll. Nothing is assumed about calls that have not started, about the model's
answers, or about faults. A shutdown that has begun ends by its timeouts (`Exit`). `MCFaults` and
`MCTwoRuns` run under `FairSpec`. In `LLMRun`, weak fairness of everything but
`Settled`: a request ends by its HTTP timeout or the deadline, a sleep by its timer
or the deadline, and asynq runs the task again. In `Process`, weak fairness of the
main goroutine and of each poll, whose requests end with its context; none of
signals, of the HTTP server's end, of documents or of time.

## 5. Proofs

`LogaiTypes` proves `TypeCorrect == Spec => []TypeOK`. The step with substance is
`Fail`: the retry count stays within `0..MaxRetry`, which makes attempt numbers
and so job names well-typed.

`LogaiRecords` proves `RecordsInvariant == Spec => []RecordsInv` and from it
`RecordsAgree`, `FixedErrorsAreBacked`, `DetailIsBacked` and `OneTask`, for any
number of reports, retries, readers, slots and faults. None of them is inductive.
That a run at label `fixed` may write `fixed` depends on what it wrote at earlier
labels, and that nobody else has touched those rows since, although its task may
have been given back and started again. `RecordsInv` says so label by label:

- `CallsInv`: a task stands for a stored row, a call enqueues once, and a run
  holds its task active, or goes on for one that the server has put back;
- `ControlInv`: label and stage fit together;
- `JobsInv`: rows of passed stages succeeded, that of the current stage is
  running, those of later stages and later runs are absent;
- `TriageInv`: the risk columns are filled before the triage job is closed;
- `MergeRequestsInv`: the MR is opened before it is stored, and stored before
  the job is closed;
- `ReadersInv`: what backs a fixed error was there when its row was read, and
  stays; hence the order of the reads.

The argument has a frame and a focus. `WorkerLocal` shows what a worker's step
leaves alone (rows and runs of other tasks, what is already stored), so each part
of the invariant has to be shown only for the task that moved. `IngestLocal` and
`RetryLocal` do the same for the API calls, of which the invariant sees only that
a task that never was becomes pending. A restart ends all runs and changes
no record. `OneTask` adds that stored rows have distinct fingerprints.

`LogaiRecords` also proves `RunsInvariant == Spec => []RunsInv`: a task has been started as
often as asynq has counted retries, once more while it runs or after it has
ended, and at most once more per shutdown. From it follow `AttemptsAreRuns`, and
`RunBoundIsSlack`: the bound on runs, which only names the rows of the model, never
keeps a task from running.

`LogaiFaults` and `LogaiLifecycle` prove the properties of the second group. A
model can only leave a kind of fault out by a budget of zero; the theorems say
more: whatever the budgets are, the property holds as long as no fault of those
kinds *has happened* (`Spared`). Faults are never given back (`SparedStep`), so
the hypothesis at the end of a step holds at its beginning.

| Theorem | Property | Spared |
|---|---|---|
| `JobRowsClose` | `JobsClosed` | failed statements, crashes |
| `StatusTellsTruth` | `StatusTellsRetries` | the same and shutdowns |
| `NobodyStranded` | `NeverStranded` | the same and shutdowns |
| `ImplementsLifecycle` | `LifecycleSpec` | the same, shutdowns and refused enqueues |
| `FixedStays` | `FixedIsFinal` | lost replies of Redis, crashes, shutdowns |
| `ExtraMRsArePaid` | `ExtraMRsCostFaults` | none |

All use `SteadyInv`: a run is in progress exactly as long as its task is active,
unless somebody interrupted it, and its context ends only while it runs.

- `JobsClosed` is inductive with `RecordsInv`, which says which rows an open run
  has.
- `SoleInv`, for `StatusTellsTruth`: an error that no retry was queued for is
  `new` before its first run, and again from the moment a run decides that it
  will be repeated until the next one begins.
- `FinalInv`, for `FixedStays`: some task has fixed a fixed error (`HasFixed`): it
  stored the records of a complete run, and is done or about to return success.
  `FixKept` shows that no step takes that back, and `FixerReturns` that such a task
  only returns and writes no status: whoever reopens the error is another task, the
  ingestion or the operator.
- `ImplementsLifecycle` maps each call to the abstract step it is, by what it does
  to the set of calls and tasks that owe the error a result: a call that starts
  to owe accepts or reopens, one that stops finishes, all others stutter
  (`OwingMoves`). `NobodyStranded` follows: in `ErrorLifecycle` an open error is
  owed something (`OpenIsOwed`). The one concrete step with no abstract
  counterpart, `Drops`, is the failed enqueue of a retry, its exception.
- `PaidInv`, for `ExtraMRsArePaid`, counts: the MRs of earlier runs of a task are no
  more than the faults so far. The MR of the current run is free, until the run
  is bound to be repeated (its outcome is a failure, or it was cut short): then
  it must have been paid for. So each label says whether the run's MR counts
  already, and a run that opens one without a fault is shown to end in success.

`ProcessProofs` proves `TypeCorrect`, `NoOverlap`, `ResourcesOpen` and
`NothingIsOverlooked` for any documents, times, page size and failures. `NoOverlap`
rests on the token: whoever polls has taken it, and only one can, of however many
goroutines. `ResourcesOpen`
rests on `StepInv`, which says for each statement of `run` which parts may be on
and what is deferred. `NothingIsOverlooked` follows one document. `ClockInv` bounds
what is due by the clock; `AwaitedInv` bounds when the poll that will find the
document ends: it starts within an interval of the end of any poll that came too
early, and every failure so far delays it by an interval and a timeout. The lookback has to be as long as that (`Bridged`, a condition on the
failures that have happened; `LookbackSuffices` restates it for their maximum,
`LookbackNeeded`). With the defaults, 120 s and 60 s, and the timeout of 30 s it
holds only while no poll has failed and OpenSearch shows documents at once, which
is why it is a hypothesis and no assumption on the constants.

`LLMProofs` proves the safety properties of `LLMRun` for any times, retries and
set of responses: `LLMTypeCorrect`, `LLMGivesUpWhenSpent`, `LLMCostIsBounded`,
`LLMVerdictIsFinal`, `LLMLeavesAlone`. The inductive invariant `IInv` adds
`VerdictInv` (a verdict leads from the loop's error straight out of the queue),
`PaceInv` (the stamp of the last answer is fresh when a sleep begins, and old
enough when it ends) and `CostInv` (requests so far, against those that the runs,
interrupted ones included, stages and attempts so far account for). That `2^n` is a natural number is
proved from the count of subsets.

`InputProofs` proves `StableFilesAreFound`, `FixesFilesOfTheTrace`,
`ConfigurationsAreUsable` and `TracesAreFound`, for any
inputs. `ResolveInv` says that a candidate that was tried is not in the repository,
or was pushed since, and what an answer says about the number of candidates tried;
it is inductive. `CandidatesAreSuffixes` relates candidates and suffixes, and so
answer and path. `ReadInv` says that what was read is what the code makes of an
input; the rest is about operators.

`TracesAreFound` is about a recursive search, `LookupFindsSpelling`, in four
steps. The prover has no induction for predicates, so `Induction` states it for
sets of numbers, from the well-foundedness of `<`, and `Recursion` says that
functions defined along the numbers exist; hence `TableExists`, without which
nothing is known of the function in `LookupString`. `FlattenAppend` and `NextKey`
say what keys spell: where n parts of the path have been read, the next key is
what follows in the path. By induction from the last part of the path to the
first, what the search returns stands where the keys spell the path
(`FoundIsSpelled`), and it returns something if there is text wherever they do
(`SpelledIsFound`).

`TextProofs` proves `ObjectsAreUnwrapped` and `FingerprintsTellErrors`, whatever the
texts are and however long, and `FramesDecide`, which says of two traces under one
message that their fingerprints are the same if and only if their frames are: the
fingerprint keeps all of the first three lines, and nothing else. `ReadInv` again
reduces both properties to operators.

- `StripFencesUnwraps` is about places. `WrappedAt` says where the tokens of an
  object are in the reply, `StripsFence` and `StripsProse` which token each search
  and each trim of the code finds, however many fences and braces there are;
  hence which cut is left, and whether it is the object, for any text before and
  after it. Where it is not, another token is shown to be found.
- The lines that count are the first of `Filled`, a recursive function over the
  trace. `FilledConcat`, by induction over the second part, lets a trace be cut
  at the changed line (`FilledReplaced`, `FilledWithBlank`); `FramesAreFilled`
  relates the result to the number by which the property counts frames.
- That a changed frame changes the text which is hashed needs `JoinLines` to be
  injective (`JoinLinesInjective`): no line is blank or holds a line end, so that
  the last line end of a text tells its last line from the rest (`LastLineEnd`),
  and by induction all lines.

- `TitlesTell` is about a report without message: its title changes with its first
  frame. The place of the first line end gives away how long the title was.

The hash itself is the identity here, so that two reports share a fingerprint only
if the hashed texts are the same. Message and frames are hashed without anything
between them, which is why `FramesDecide` is about one message.

Assumptions, each TLC-evaluated: durations and retry counts are natural numbers
and responses have the stated form (`TimesAssumption`, `ResponsesAssumption`,
`RetryAssumption`); `Errors` and `Retries` are disjoint
(`CallsAssumption`), `MaxRetry` is a natural number, `WorkerConcurrency` a
positive one, and the budgets are natural numbers; interval, lookback and page
are positive, the other constants of the poller natural numbers, and cron has a
goroutine, which is not that of the first poll (`PollerAssumption`). Inputs are of their kind: a path is a sequence of strings
(`PathsAssumption`), an environment says of every variable how it is set and a
provider is one of the known ones or unknown (`EnvironmentsAssumption`), the keys
that lead to a value of a document have parts (`HitsAssumption`), and so has the
name of the field of the trace (`FieldAssumption`; a name that is not configured
has a default). The trace of a report is cut into lines, which hold no line end
(`ErrorsAssumption`). A reply of the model is an object, from brace to brace, with
any text before and after it (`RepliesAssumption`).

Only model-checked: the liveness properties (`EveryTaskEnds`, `EveryErrorSettles`,
`TaskSettles`, `ShutdownEnds`), since fairness and ENABLED are beyond the prover.
Every other property of a passing run is a theorem. The five claims that are not
kept are refuted by TLC.

## 6. Not modelled

- Logging, wording of prompts, MRs and messages, HTTP and JSON formatting, Docker
  files.
- `GET /errors`, `GET /merge-requests`, `/health` and `queryInt`: each is one read,
  or none, whose answer no part of the system uses.
- Of `Load`, the `.env` file and the variables that no check reads.
- The checks of the webhook before `Ingest`, of the secret, and of the size and the
  form of the body: each answers at once, and changes nothing.
- What a handler does that has outlived its server, once the database is closed:
  its statements fail, and the process exits.
- A retry of the model calls by `POST /retry` is a task of its own, to which the
  properties of `LLMRun` apply anew.
- The order of `created_at`, by which `GET /errors/{id}` picks one of several MRs.
- That two runs of an error in one second ask for one branch name: it is one of
  the errors that `CreateBranch` may report anyway.
- The end-to-end harness (`e2e/`), a client of the system with a mock of GitLab.

## 7. Plan

1. *Done*: the core: store, queue, pipeline, ingestion, retry, composition, abstract
   lifecycle, types, records; shutdown, reads of the details, numbers of runs.
2. *Done*: `LLMClient`, `LLMRun` and their proofs.
3. *Done*: `Poller`, `Process` and their proofs.
4. *Done*: `Inputs`.
5. *Done*: proofs of what needs some faults to be spared, of the refinement, of
   `ExtraMRsCostFaults` and of `NothingOverlooked`.
6. *Done*: proofs about the inputs: configuration, file resolution, documents.
7. *Done*: proofs about texts: fingerprints and replies.
8. The endpoints that list, with `queryInt`.
