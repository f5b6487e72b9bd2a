# RepoGuardian: specification and proofs

RepoGuardian reviews GitHub pull requests with language-model agents: a review
is planned into units, agents look at them and submit candidate findings, other
agents verify the candidates, a report is built and, on demand, published to the
pull request. All state that matters lives in one SQLite database; the work is
done by asyncio workers of one or more processes that lease jobs from a table.

This directory holds TLA+ modules that follow the Python code under
`src/backend/app`, TLC configurations that check them on small instances, and
theorems that TLAPS proves for every instance. File names below are relative to
`src/backend/app`.

## 1. The system

| Component (source) | State | Operations | Interacts with | Hard parts | Correct when |
|---|---|---|---|---|---|
| Job queue and worker (`services/review/task_queue.py`) | table `worker_jobs`; per process the running handler, its heartbeat task, the stop flag | enqueue, claim (buries exhausted jobs), heartbeat, complete, fail, cancel_task, run_forever, stop | store (reaps runs of buried jobs), review and publication services (handlers) | processes race through transactions; clocks read before the write lock; leases expire; a heartbeat outlives its handler in a thread; crash, shutdown | one holder per lease, attempts are fencing tokens and bounded, nothing but the gap in `fail()` brings a finished job back, every job settles |
| Review store (`review/store.py`, `models/orm.py`) | tables of runs, work items, candidates, requests, intents, deliveries | create, begin, claim, submit, deliver, finish_work, skip, save_report, fail_run, settle, cancel, supersede, retry, delete, reap | everything | every method is one transaction fenced by a lease; methods called in sequence are not atomic together | settled work is never redone, "completed" means everything was reviewed, one active job per run, no job for a dead run |
| Orchestrator (`review/orchestrator.py`) | a task per agent, a snapshot of the work items | look, skip, start, wait, drain at the hard deadline, report, overview | store, agents | snapshot older than the clock it is compared with; cancelled agents leave calls in threads | agents own the items they work on; it stops in time with legal facts |
| Agents (`review/agent.py`, `review/tools.py`) | conversation, tickets, counters | deliver, submit, finish | store, budget, model | ends in any order, at any deadline | a result counts only for the attempt it was made for |
| Review service (`services/review/review_service.py`) | handler of a job, cancel events, active workspaces | create, _handle_job, cancel, retry, delete, close | queue, store, webhook | error paths that end a handler "as if done" | an accepted review ends |
| Budget (`review/budget.py`, `store.py` 304-486) | request rows: reserved, settled, unknown | can_start, reserve, reserve_grouping, freeze_grouping, settle | agents, overview, grouping | checks and reservations in separate transactions; crash with a request under way | calls and tokens within the limits, room kept for verification and overview |
| Semantic grouping (`review/grouping.py`) | one request, the frozen grouping | ask once, freeze or fall back | budget, planner | crash between asking and freezing | asked at most once per run |
| Publication (`services/publication/*`, `services/review/sticky_summary.py`) | attempts, items, batches, a slot per pull request with a lease of its own | create, acquire, execute, recover, reconcile, upsert, retry | queue, GitHub | lost answers, two leases, newer review overtakes older one | nothing posted twice, the newest summary wins, unknown outcomes are reconciled |
| Webhook and create intents (`services/review/incremental_webhook.py`) | deliveries, intents | claim delivery, limit, create, finish | review service | redelivery after a crash; counted, then created | one review per event, idempotent creation |
| Prepared workspaces (`services/workspaces/prepared_workspaces.py`), cleanup (`tools/workspace_cleanup.py`), maintenance | file lock, table of clones, directories, active paths | publish, copy, touch, prune, maintain, reap | git, review service | rename before insert; removal that fails; clone not yet active | a directory in use is never removed, bounds kept |
| Parser pool (`languages/isolation.py`) | slots, idle workers, generation, failure records | run, retry, close, quarantine | adapters | closing while workers are lent out | every process closed once, every slot returned |
| Evidence, retrieval, context, planner, diff parser, relations | caches, cursors | pure computation over text | agents | boundaries of pages and budgets | complete and within limits |
| GitHub client, git, model providers, API, configuration, frontend | none of their own | I/O | outside | lost and late answers | - |

How they meet: a user (or a webhook) creates a run, its work items and its job
in one transaction. A worker claims the job, prepares a workspace, may group the
units, `begin`s the run and lets the orchestrator start agents. Agents reach the
database only through store methods that check the lease. When nothing is left
to start, the report is built, the overview is generated by one more model call
and the report is saved; the handler returns and the worker completes the job.
A user may cancel, retry or delete the run at any moment, a newer head
supersedes it, and two deadlines (review cutoff, hard) pass meanwhile.

The places where this is hard to test are listed in `PROJECT.json` under
"hazards", each with its line and with the properties that would notice.

## 2. Modules

| Module | What it is |
|---|---|
| `JobQueue` | the queue and the worker loop, in full |
| `FencedLease` | what the queue promises: one holder, epochs, only the latest epoch completes a job or decides on its failure, which is recorded later |
| `ReviewLifecycle` | runs, work items, orchestrator, agents, handler and callers; EXTENDS `JobQueue` and composes its actions |
| `ReviewPromise` | what a review promises, without jobs, leases or deadlines |
| `BudgetGate` | the requests of one run: reservations, shares, settlement; grouping, agents and overview as those who ask |
| `AgentRounds` | one attempt of an agent: packet, requests, tool calls side by side, what was received, limits |
| `Publication` | deliveries to one pull request: attempts, jobs, slot, batches, sticky summary, a GitHub that loses answers |
| `PublicationPromise` | what the publisher promises a pull request |
| `ReviewIntake` | webhook deliveries and API calls that create reviews, and stop obsolete ones |
| `ParserPool` | the parser processes, their threads, closing and quarantine |
| `Workspaces` | clones, prepared workspaces, the lock file, maintenance and the reaper |
| `GitSnapshot` | one clone and its git processes, while branches move |
| `ReviewPlan` | how a change is cut into units, with and without the grouping model |
| `Increments` | a chain of reviews of successive heads that reuse one another |
| `Retrieval` | pages and cursors of searches, paths and hunks |
| `MCJobQueue`, `MCReviewLifecycle`, `MCReviewStories`, `MCBudgetGate`, `MCIncrements`, `MCReviewInputs`, `MCServices`, `MCSettling` | instances for TLC |
| `JobQueueProofs`, `LifecycleProofs`, `PromiseProofs`, `BudgetProofs`, `InputProofs`, `IntakeProofs`, `PublicationProofs`, `ServiceProofs` | theorems and proofs |

Modules that share state are composed: `ReviewLifecycle` EXTENDS `JobQueue`, and a
step of a handler or a caller is a conjunction of a queue action and a change of
the review tables where the code has one transaction. Modules that share none meet
through what they take for granted of each other: `BudgetGate`, `Publication` and
`AgentRounds` take a grant of a job for a token, which `JobQueue` shows; a run of
`ReviewIntake` is one of `ReviewLifecycle`.

### JobQueue

`job` is the table `worker_jobs`, one record per row. Timestamps are count-downs:
`left` is `lease_until - now` (0 is the instant of expiry; the code's mixed `<`
and `<=` are kept), `wait` is `available_at - now`. `Tick` ages all rows. A
`worker` is one life of a process: phase of `run_once`, the claimed job, its
attempt, whether its heartbeat task runs, whether `stop()` was called. `stray`
holds the heartbeats whose task was cancelled while the database call was in a
thread. Every transaction carries the age `d` of the clock value it uses (up to
`ClockLag`), since claim, heartbeat, complete and fail read the time before they
wait for the write lock.

`Enqueue`, `EnqueueKnownKey`, `EnqueuePublication`: `enqueue`. `ClaimJob` and
`ClaimNothing`: `claim` with its burying. `Heartbeat`, `StrayHeartbeat`:
`heartbeat` and `_heartbeat`. `Complete`, `Fail`: the receipts of `run_once`.
`CancelJob`: the update done by cancel and supersede. `ReopenPublication`: the
row part of `publication_repository.retry`. `Start`, `Stop`, `Kill`,
`CancelHandler`, `HandlerEnds`: the process.

`fail()` reads its row with a SELECT, which takes no SQLite write lock, and
writes by id. With the constant `FailRaces` TRUE the two halves are two actions
(`FailReads`, `FailWrites`), besides the `Fail` in which nobody commits in between or the
lease is gone already; with FALSE `Fail` is all of it. Every run about the queue has the
gap, and every theorem about the queue holds with it and without it. What the gap breaks is
`LeaseRespected`, the comment at the end of `run_once`; `QueueRaceReplaced` shows it. What holds nevertheless is said by
`LeaseEndsInOrder` (a running lease is never given to somebody else; a late verdict is one
that was reached while its attempt was the latest), `BroughtBackByOvertaken` (nothing else
brings back a finished job or leaves one to retry without attempts) and `ImplementsLeases`.

The queue was also made to enqueue a known key (`EnqueueKnownKey`): `enqueue` has that
branch, although no caller in the repository repeats the key of a job that died.

### ReviewLifecycle

`run` and `work` are the tables; `jobOf` the task and kind of a job; `deadline`
which deadlines of a run passed; `handler` the program counter of `_handle_job`
and the orchestrator in each process with the memory they have (snapshot still to
deal with, agents, status of the report that was built); `late` the store calls
that cancelled coroutines left in a thread. A store call is a record
(`lease, op, item, try, value`); `Commit` is its transaction: `Fence` is `_guard`,
`SameAttempt` is `_attempt`, `Stored` and `RowAfter` what it writes. The same
definition serves calls that are awaited, calls of agents and calls left behind.

Abstractions:

- A candidate and its verification item are one item, since one transaction
  writes both. `clean` means the material is complete and nothing is unresolved.
- Model and tools are a choice: an agent may deliver, submit and end in any order
  (`AgentRounds` has its rounds).
- Budget admission is a choice (`Refuse`); `BudgetGate` says when it is made;
  grouping, discussions, reuse from earlier reviews and the pending-publication
  check of retry and delete are left out.
- `build_report` reads three times in a row; the reads are one step
  (`BuildFacts`), and so are `assert_active` and the read after it. The report saved before the overview
  (`orchestrator.py:87`) changes no status and is left out: `report` is the
  finished one.
- The three reads of `fail_run` and its save are one step.
- Deadlines pass independently of leases: the two clocks differ by orders of
  magnitude, any interleaving is allowed.
- At most `LateCap` calls are left behind at a time, one per cancellation.
- `Create` and `Supersede` stop the older heads among any runs there are (`seen`), since
  `created_at` is taken some time before the row is written.
- The composition leaves out three things of the queue, which `JobQueue` alone covers. *Abandoned
  heartbeats*: `ReviewNext` has no `StrayHeartbeat`, and `Reports` leaves `stray` as it is. All
  they can do is to move the end of a lease that is still theirs (`AttemptIsAToken`). *The
  gap in `fail()`*: `ReviewNext` has neither `FailReads` nor `FailWrites`. With the gap an overtaken
  `fail()` may take the lease from the process that replaced it, which then writes nothing
  more, and may leave the job in "retry" although its run is over or its attempts are used up:
  an active job that nobody claims, because of which the run cannot be deleted, or never ends.
  What speaks of such a job (`OneLiveJob`, `StrandedByItsHandler`, `ReviewsEnd`) is shown for
  receipts that nobody overtakes. *Enqueueing a known key* (`EnqueueKnownKey`), which no caller does.
  Clock lag is 0 in the composed runs; the theorems hold for any.

### BudgetGate

`request` is the table `review_requests` of one run in order of insertion; a row
carries kind, item, attempt, grant, state and the tokens reserved and used.
`item` has the status and attempt number of the work items, `grouping` and
`clock` the plan and the deadlines, `step` the place of the handler (grouping,
begin, review, overview, closing), `agent`, `chosen` and `packet` what the
orchestrator's coroutines are about to do, `awaiting` the requests whose answer
is outstanding, `parsing` those answered and not yet understood.

`Admits` is `_admit_request`, the same for everybody who asks; `MayStart` is
`can_start`, which only looks, and `AskGrouping`, `Ask` and `AskOverview` are the
transactions that admit and insert. Between the two any other agent may ask.
`Answer`, `Fails`, `Parsed` and `Garbled` are the ways a request ends, each with its
`settle`; a settlement of a grant that is over leaves the row as it is. `Pack` is
the verifier that reads the usage and cuts its first packet to it. `TakeOver`,
`FailRun` and `Retry` end or replace the grant of the job.

Abstractions:

- `epoch` stands for the lease: that a grant is a token is proved of `JobQueue`.
  Coroutines of a former grant only settle here; that their other calls are
  fenced too is shown by `ReviewLifecycle` (`LateCallsAreFenced`).
- Sizes are in thousands of tokens. First packets of verifiers have the size the
  code gives them, the overview the whole of its share, other requests any of
  `Estimates`. A usage of 0 stands for an unknown one.
- The limits are set (a run without limits admits everything). The limit on output
  tokens is left out: each request reserves the same amount, so it is a second
  limit on calls. An answer with an invalid usage is an answer that fails.
- A failed item counts as an interrupted one, a cancelled run as one that failed
  and cannot be retried. Whether a retry is of a complete run is not looked at, and
  whether the overview is reused for equal facts is a choice: both only add steps.

### AgentRounds

`AgentRunner.run` with `RequestGate` and `AgentContext` (`review/agent.py`,
`review/tools.py`): `context` keeps what was sent (`pending`) apart from what was
received (`visible`), `count` the counters of the gate, `running` the tool calls of
the last answer, which run side by side, `saved` what the store learns. The model
answers anything. Whether a request is reserved and whether a result tells anything
new is a choice. `told` and `received` are history: the conversation, and what it
held in the last request that was answered.

### Publication

`state`, `item`, `note`, `batch` are the tables of attempts, inline items, the summary
item and batches, `slot` is `GitHubSummarySlot` with its lease and its pending intent,
`job` the worker job of an attempt (its lease is a Boolean: `JobQueue` grants it),
`handler` the program counter of `PublicationDelivery.execute` with the local
variables of the publisher, `wire`, `sticky` and `posted` are GitHub: requests under
way, the summary comments and the reviews with their markers. GitHub may carry out
or refuse a request at any time after it was sent, also after the process that
sent it is gone, and may lose the answer; people edit or withdraw comments, push,
retry. `summary_finish` compares `latest_order` once more than the model does: only the holder
of the slot changes it, and `upsert` compared it with the slot held. `faults` counts mishaps,
each kind of which can be switched on by `Mishaps`.

### ReviewIntake

`request` is where each handler of a webhook delivery or an API call stands, with
what it read before its last await; `delivery` and `run` are the tables;
`live` the head GitHub shows. Every awaited thread call or GitHub request is a step.
`Store` is the transaction of `ReviewStore.create` in which they all meet.

### ParserPool and Workspaces

In `ParserPool` a step is what a thread does under one lock or one call that may
block or fail: `caller` is the thread in `analyze_isolated`, `process` the worker
processes, `idle`, `registered` and `generation` the module's globals, `doomed` what a
running `close_parser_workers` still has to close.

In `Workspaces` a request has a task and, while the task awaits it, a thread that
does not stop when the task is cancelled. `guard` is the lock file with how far its
holder is in `_prune`, in `publish` or in `copy`; `prepared` is the table and `dir`
the disk. A crash stops everything and leaves files and rows.

### What goes into a review

- `GitSnapshot`: `clone_and_diff` as a sequence of git commands, each a process with
  two pipes that a thread drains while it looks at the cancel event and the clock.
- `ReviewPlan`: `plan_review`, the bundles of related files, packing into units, the
  answer of the grouping model (`grouped_plan`) and the checks of `freeze_grouping`.
- `Increments`: `refine_plan`, `previous`, `history` and the reuse in `create` over a
  chain of reviews. One hunk per path, one claim per hunk, one draft at a time.
- `Retrieval`: pages of `search`, `find_paths` and `diff_page`, with the cursors and
  the windows of files; an agent uses any cursor it was given.

## 3. Runs

Every run ends within minutes on two workers. "Why enough" says why the bounds
make the interesting case happen.

| Run | Question | Bounds, and why enough |
|---|---|---|
| `QueueRaces` | attempts within the budget, attempts as fencing tokens, completion only by the latest attempt, although others commit inside `fail()` | 1 job, 2 processes, 3 attempts, lease 2, lag 1: two claims may happen inside one gap, and an old heartbeat meets two later attempts |
| `QueueRaceReplaced` | violation: the gap in `fail()` takes a fresh lease away | lag 2 lets the lease expire inside the gap |
| `Settling` | what must come to rest: review jobs settle; leases end in order, nothing but an overtaken `fail()` brings a job back, the queue implements `FencedLease`; calls of the parser pool and of git end; leftovers on the disk go | review jobs and a publication job that is reopened until 3 grants, 2 processes each, one of which may crash: a job that died on its last attempt can only be buried by the claim of the other process, the two overtake one another in `fail()` and one claims with a clock that is behind; 2 callers for 1 slot with an accident or a closing; 1 request, 2 directories and 1 trouble; 2 commits and 1 push |
| `ReviewRecovery` | a review is taken up after a crash or a lost lease: settled work stays, nothing old gets through, it ends | 2 processes, 2 attempts, 1 unit, 1 call left behind: the call of attempt 1 meets attempt 2 |
| `ReviewStories` | types, complete means reviewed, one live job, only its own handler leaves a review open without a job, complete reports lost to exceptions only, the promise, in two stories (below) | 2 jobs (first and retry), 1 unit, 1 candidate, crash and cutoff; 2 runs of 2 heads with a shutdown and exceptions |
| `ReviewWork` | agents own the items they work on, through both deadlines | 2 units, 2 candidates, 2 agents at a time: an agent works while another item is skipped |
| `ReviewDeadlineStrands` | violation: a submission at the hard deadline leaves the run open for ever | 1 of everything |
| `ReviewOverviewDemotes` | violation: a failed overview retry demotes a complete run | 2 jobs, exceptions |
| `ReviewInputs` | limits and shares of the budget, one grouping, receipts final; plans cover the scope; reuse is grounded; the snapshot is the declared one; pages miss nothing | 1 unit, 1 candidate, 4 calls, 8 thousand tokens, 2 grants: calls and tokens run out with requests of every kind outstanding; 4 files with up to 3 relations; 3 reviews and 2 pushes: a unit is passed on twice; all graphs of 4 commits: two merge bases; 3 files and windows of 2: a page ends inside a window, at its end, and a window at a file that does not fit |
| `BudgetFuse` | violation: an interrupted item is held to the calls of its former attempt | the bounds of the budget in `ReviewInputs` |
| `IncrementsForget` | violation: a defect is forgotten by the third review | 3 reviews, 2 pushes |
| `Services` | publication: unknown requests hold the slot, posted comments are accounted for, success is visible, the promise; intake: exact, reviews of the webhook stand; parser processes are owned; the cache is whole, a request keeps its workspace; agents cite what they received and are bounded | 2 deliveries of 2 findings in batches of 1, 1 mishap of every kind, 1 retry: a lost answer, then another delivery takes the slot; 2 requests, 2 deliveries, 3 pushes, 2 faults; 2 callers, 3 processes, 1 slot; 2 requests and 3 commits in three stories (below); 6 model calls, 2 tool calls side by side |

Several components in one run: `MCServices`, `MCReviewInputs` and `MCSettling` put
modules that share no variable side by side. A variable (`part`, `about`) says which
of them a behaviour is about; only that one moves, so the state space is the sum and
not the product of theirs, and a property of one is checked on the behaviours of
that one. Nothing is lost: a step of one component can neither enable nor disturb one
of another. The same modules narrow some components further:

- `MCReviewStories` tells two stories, chosen by the head of the first run: one review
  with candidates, crashes, cutoff and all retries, without exceptions and shutdowns
  (`OneReview`); or two reviews that replace one another, with a shutdown and exceptions
  but no crash (`TwoReviews`). `Told` is a state constraint: a
  behaviour is followed until it leaves its story.
- `MCServices`: workspaces under three bounds (`Within`): everything goes wrong with one
  commit, two tasks race for one, one task goes through many; only one of two
  deliveries is tried more than once; agents make a sixth request only when stalled.
- `MCReviewInputs`: relations only when all files are included; up to three; base and head
  are the two newest commits; one query at a time; reviews in turn (`MCIncrements`).
- `MCSettling`: one pool sees accidents or a closing, not both.

The proofs know none of these bounds. The inductive invariants were also checked with TLC on
other instances of their modules before they were proved (two requests for one commit,
one request for two commits with two troubles, both stories with late calls, and so on).

Symmetry over jobs, processes, units, candidates, callers and deliveries is used in
safety runs only, and no property names one of them.

### Fairness

- Queue (`FairQueueSpec`, `FairReviewSpec`): weak fairness of polling and claiming of a
  live process, a handler's own steps, the end of an agent (model calls and tool calls are
  counted and have timeouts), the report of a handler that ended, and time. None for
  heartbeats, crashes, shutdowns, callers, deadlines, exceptions or calls left behind.
  At least one process is neither mortal nor stopped: with all of them down nothing in
  the code could finish a job.
- `ParserPool`: the threads run, and the deadline of a call passes. A worker owes nothing.
- `Workspaces`: the threads and the maintenance loop run, directories grow old.
  `LeftoversGo` assumes that maintenance finds the lock free now and then
  (`[]<>(maint.pc = "sweep")`): it tries once in a round and does not wait.
- `GitSnapshot`: the thread runs, time passes, and a process that was told to stop goes (it is
  killed after two seconds), with its children and so its pipes.

## 4. Findings

- **`fail()` is not atomic** (`task_queue.py:213`). A claim or a cancellation
  between its SELECT and its UPDATE is overwritten: the fresh lease of another
  process is taken away (`QueueRaceReplaced`), or a cancelled job comes back as
  "retry" and blocks the deletion of its review. If the overwritten grant was the
  last one, the row is "retry" without attempts, which neither claim nor the
  burying looks at: `ReviewJobsSettle` lists it as the one way not to settle, and
  `BroughtBackByOvertaken` says that nothing else leads there. `review_task_access.py` documents the cure the other methods use:
  write first.
- **A run can be stranded** in "running" without a job. (a) `submit` raises
  `ReviewStopped` at the hard deadline, which the handler takes for a
  cancellation; the job is completed (`ReviewDeadlineStrands`). (b) A shutdown
  during the last attempt makes the job a dead letter; only claim reaps runs, and
  only those of leased jobs. (c) `store.get` raising in the last attempt does the
  same. (d) A heartbeat that read its clock and then waited for the write lock may renew
  a lease after `_guard` (`store.py:67`, which locks first and reads the clock then) found it
  lost: the handler has returned for it, `complete` succeeds, nothing was decided. All four
  violate the same `RunHasDriver`. There is no fifth way in `ReviewLifecycle`:
  `StrandedByItsHandler`, checked in `ReviewStories` and proved without hypotheses
  (`OnlyHandlersStrand`), says of each step that leaves a live review without a job which of
  the four it was; crashes on every attempt, lost leases, buried jobs, callers and newer
  heads are none. (An overtaken `fail()` may leave a run with a job that nobody claims, see
  above; that is a question of the queue.) `UndisturbedReviewsHaveDrivers` adds that without them
  there always is a job.
- **An overview retry can demote a complete review** (`store.py:700`,
  `ReviewOverviewDemotes`): an exception before the overview ends in `fail_run`,
  which sets "partial" or "failed" whatever the facts are. Nothing else loses a complete report
  (`OutcomeLostOnlyByExceptions`, checked and proved).
- **An interrupted item may be refused for ever** (`store.py:357`, `BudgetFuse`).
  The calls of an attempt are found by `attempt_id`, which `begin` and `retry`
  leave in place when they queue an item again; only `claim` replaces it. So
  `can_start` counts the calls of the old attempt, and an item that ended with its
  calls used up is refused with "agent_model_limit" and skipped, retry after retry,
  although the fuse is meant per attempt. For the same reason an item that
  never ran (`attempt_id` None) is charged for the grouping and overview requests
  there were, which have none either.
- **A confirmed defect can be forgotten** (`store.py:557`, `IncrementsForget`). What the
  next review has to verify again comes from the findings of the previous report alone.
  When that review reused the unit and did not get to verify the claim, the claim is no
  finding of it, and the review after it reuses the unit without knowing of the defect.

Observations that are no findings, since no document says otherwise:

- `_admit_request` protects a verification with the size of its packet, while the request
  adds 1,024 tokens for guidance (`agent.py:96`). A packet that fills the limit it was cut
  to can therefore be refused when a run is down to the protected share.
  `PackedCheckIsAdmitted` says what does hold: with room for the margin, reviewers
  cannot take a verifier's chance. It speaks of the first verifier only, since verifiers
  protect nothing for each other.
- A publication job that loses its process on its last attempt stays leased for ever:
  only jobs of reviews and overviews are buried (`task_queue.py:109`,
  `publication_worker.py:216`). A user has to retry the attempt.
- `finish_webhook_delivery` overwrites the row whatever it says by then; a review asked for
  through the API that is delayed can be stopped by the webhook review of an older head;
  a force push back to an old head reuses the run of that head although it was superseded.
- `material_failures` is never cleared by `read_diff` (`store.py:262`), and a fixed defect
  whose lines changed cannot be seeded, so its review stays partial (`report.py:41`).
- A cache that cannot be published fails the whole request (`review_service.py:148`), and
  a cancellation during the second fetch is reported as a failure of git.

## 5. Proofs

All theorems hold for every value of the constants that satisfies the named assumptions
(`JobQueueConstants`, `LifecycleAssumption` and so on: sets disjoint or finite, numbers natural, some positive),
which TLC evaluates in the runs.

### Queue

`JobQueueProofs` proves for every set of jobs and processes, every lease length,
lag, back-off and budget, with or without the gap in `fail()`:

- `QueueInvariance`: `QueueInv` is an invariant. It is the conjunction of
  `QueueTypeOK`; `RowsConsistent` (a leased row has an owner, others have neither
  owner nor lease); `AttemptsWithinBudget`; `AttemptsWereGranted` (nobody, also
  no abandoned heartbeat, carries an attempt above the row's); `PendingVerdicts`
  (only racing failures carry a verdict); and `AttemptIsAToken`. The last one is
  what matters: two processes never hold the same attempt. It is not
  inductive alone: a claim hands out `attempts + 1`, which is new only because
  nobody carries more than `attempts` - hence `AttemptsWereGranted`, which in
  turn needs attempts never to go down when a row is replaced.
- The argument runs through three step shapes: `RowsStep` (rows stay good, attempts
  do not decrease), `WorkersStep` (nobody claims a new attempt but the
  claimer), `StraysStep`; each action is shown to have them, and the shapes keep
  the invariant once and for all.
- `QueueTypeCorrect`, `AttemptsBounded`, `AttemptsAreTokens`: its consequences.

It then shows that a step gives each row one of nine fates (`RowFate`), and each process a
`Career` as far as the gap of `fail()` is concerned: it enters it, leaves it with its second
half or with its death, or keeps its job, attempt and verdict. From the two follow, again with
or without the gap:

- `CompletionIsFenced` and `LeasesEndInOrder`, step by step;
- `OnlyOvertakenBringsBack`, for which `OvertakenInvariance` is needed: whoever still holds a
  completed job holds an older attempt than the one that completed it, and whoever
  decided to retry had an attempt left when it decided;
- `QueueImplementsLeases`, the refinement to `FencedLease`: the holder is the owner of a row
  whose lease still runs, the epoch is `attempts`, and `decided` are the processes in the
  gap about that job. The first half of `fail()` is `Decide`, the second `Record`, a crash in
  between `Forget`.

### Life cycle of reviews

`LifecycleProofs` proves `LifecycleInvariance` for any runs, items, jobs, processes, agents
and calls left behind. `LifecycleInv` is the conjunction of

- `QueueInv`, by the proofs above: each step of the life cycle contains a step of the queue;
- `LifecycleTypeOK`;
- `RunOK`: what a stored report says of the work of its run, a complete one above all;
- `JobOK` and `OneActiveJob`: which job belongs to which run, and that at most one of
  them is waiting or running, none when the run is over;
- `HandlerOK`: for a handler whose lease still grips, its program counter and its memory fit
  the tables (`Fits`, `Agrees`): agents work on items that are running in their very attempt;
- `LateOK`: calls left behind, and those of handlers whose lease is gone, are of attempts
  that cannot get through the fence any more, or agree with what is stored.

The difficulty is that a lease is lost by time and not by a step of its holder, and that a
slow heartbeat may bring it back. `Grip` is therefore the fence without its clock: what
a handler knows stays true as long as the row is leased to its attempt, expired or not.
A step is `Onward` (the run goes on under the same grip) or spares the handler (`Spared`), and
both keep `HandlerOK` once and for all. A call that was left behind shares a lease with
its own handler only past the hard deadline, when that handler has no agents (`EndPC`).

Consequences: `LifecycleTypeCorrect`, `CompletedIsReviewed`, `ReviewHasOneLiveJob`,
`AgentsHoldTheirItems`, and the action property `LateCallsChangeNothing`.
`PromiseProofs` maps each step to `ReviewPromise` (`LifecycleKeepsPromise`): what a
transaction writes is one of Begin, Discover, Settle, Conclude, Stop, Reopen, Erase,
Create, for one run, while every other run rests or is stopped with it.

Two more questions are settled there on top of `LifecycleInv`, from one account of what a step
makes of runs, jobs and processes (`StepGoes`): each row, and each process, has a few fates.

- *What becomes of a complete report?* `OutcomeInv` (`ReportsStayTrue`): a complete
  report is about complete work, also when it is still to be saved by a handler
  or by a call that was left behind, and nobody with the lease is about to save less over one.
  The last part is what makes it inductive: a handler reads the outcome in one transaction
  and saves the report in another. Hence `OnlyExceptionsLoseOutcomes`.
- *Who takes a review further?* `RunHasDriver` is false of the code (section 4), so the theorem
  names what breaks it. `Undisturbed`: no handler was interrupted in its last attempt with the lease
  (`BrokenOff`: an exception or a shutdown), and none with the lease has an agent at the hard deadline
  (`CutShort`). `LostIsLost`: no process gets a lost lease back, or reports with one. Then
  `DriverInv` is inductive: `RunHasDriver`, and a handler that is over by itself has lost its lease (`EndOK`), so
  that what it reports changes no job; the rest is a run that ends in the same transaction as its
  job, or a job that is granted again. This is `UndisturbedReviewsHaveDrivers`.
- *And who leaves it without one?* That theorem has hypotheses, this one has none:
  `OnlyHandlersStrand`. A step that takes the last job from a live review is a report of
  its handler (`GivesUp`), and `LeaversOK` (`LeaversAreInOrder`) says how it got there: one that
  reported its exception to the review ended the review, or another attempt has the job; and one that
  returned with the lease and no outcome had an agent at the hard deadline. The last holds for
  `ClockLag = 0` only, since it takes that a lost lease is never back (`LostStaysLost`); with a
  stale clock the property allows the return, which is way (d) of section 4.

### Budget

`BudgetProofs` proves, for any units, candidates, limits, sizes, grants and retries:

- `GateInvariance`: `GateInv`, the conjunction of types, `ItemsInv` (which attempt an
  item is in, by its status), `StepsInv` (nothing of the review is under way before
  the grouping is frozen), `RowsInv` (a row belongs to an attempt its item was in, or
  to no item), `OneGrouping` and `CallsWithinLimits`. The limit of calls per attempt
  needs `RowsInv`: a new attempt starts with no calls only because no row carries a
  later attempt than its item. Three step shapes carry it: a step that asks nothing
  (`QuietStep`), one that begins an attempt (`ClaimStep`), one that inserts an admitted
  row (`ReserveStep`).
- `CallsStayWithinLimits`, `GroupingIsAskedOnce`: its consequences;
  `ReceiptsStayFinal`: rows are only appended, or settled by the grant that made them.
- The sum of the costs of all rows is a recursive function. The lemmas `Induction` (a set of
  numbers with 0 and all successors is `Nat`, by a least counterexample) and `Recursion` (a
  function defined along an interval exists) give what is needed of it: `TotalAppend`
  (a row adds what it reserves) and `TotalDecreases` (rows that each cost no more sum up to no
  more).
- `TokenInvariance`: `TokenInv` consists of `AgentsInv`, `OverviewInv` (what is committed fits;
  an overview fits until the job under way asked for one) and `ChecksInv` (as long as no verifier and
  no overview asked: whoever was let through has a call and a token left beside the
  overview, and a packet's limit is left). Neither of the two properties is
  inductive: between `can_start` and `claim`, and between the cutting of a packet and its
  request, others ask, and what they leave is what `PendingChecks` protects. A verifier that was
  let through is among them until it asks (`RequestsKeepTokens`). All of it holds
  while no answer used more than its estimate (`Low`): only then does a settlement lower
  the total (`SettleLowers`), and once lost it never comes back.
  Hence `InputStaysWithinLimit` and `SharesStayProtected`.

### Intake

`IntakeProofs`: `IntakeInv` consists of types, `RequestsInv` and `RunsInv`. The key is
`JudgeOK` with `Yields`: whoever may stop other reviews found its own head to be the live one
after it last read the clock, so a review that it may stop and that was created
later belongs to a later push. `BoundsInv` adds that heads and tasks are ones there were
(`IntakeTypesHold`). From the first `IntakeStaysExact` (one run for a key, answers name the run,
the hourly limit) and the action property `WebhookReviewsStand`.

### Publication

`PublicationProofs`: `PublicationInv` says that at most one request is under way, that it
holds the slot of the pull request for its attempt, and where its sender may be
(`MayBeUnheard`): not where it would take the request for refused. Every other claim
about what is on GitHub needs the slot pending for nobody or for the one who claims. With it:
`UnknownHoldsSlotTheorem`, `PostedIsAccountedTheorem`, the action property `SuccessIsVisibleTheorem`, and
`KeepsPromiseTheorem`, the refinement of `PublicationPromise`: a review that GitHub applies is
`Comment`, an applied summary or a withdrawal `Summarize`, every other step `Record` or a stutter.

### Agents, parser pool, workspaces

`ServiceProofs`:

- `RoundsInvariance`: what is visible was received, what is pending is in the conversation,
  hunks come whole, every required hunk is delivered or missing; counters are bounded through
  `late <= closing`. Hence `SavedMaterialWasReceived` and `AgentsAreBounded`.
- `PoolInvariance`: there is a slot for every worker that is used, idle or about to be
  registered (`SeatsInv`), and what each thread holds at each of its steps (`HandOK`). Hence
  `ProcessesStayOwned`. Types need more (`PoolTypesHold`): a worker that is idle or waited for
  may still serve (`ServedInv`), as it is retired with its last answer; what is quarantined or
  cached was asked for (`BooksInv`). A worker must be allowed one request at least
  (`MaxRequests`, 256 in `isolation.py:37`).
- `WorkspacesInvariance`: what a request says of its directory, its cancel event and its row
  (`ClientOK`); busy requests have distinct directories (`OwnDirs`); the lock has one
  holder, who alone removes, and the copied source is the only copy in use of its
  commits (`GuardInv`); ready rows have whole directories, and room is reserved from the
  rename to the insertion (`RowsInv`). The lemma `Unclaimed` is the heart: what is
  pruned, reaped or swept is claimed by nobody. Hence `CacheStaysWhole`, `WorkspaceIsKept`.
- `ServicesAreTyped`: in the composition `MCServices` each part behaves as its own module says
  (`PartsBehave`), so the types proved of the parts hold of the whole, `ServicesTypeOK`.

### Git snapshot

`InputProofs`: `Reached` follows parents as often as there are commits. `ReachedIsClosed` and
`ReachedIsLeast` show that it is the least set that holds the start and the parents of each of
its commits: parents are smaller, so a commit that is missing after n steps is at most
`CommitCount - n`, and none is missing in the end (by lemma `Induction`).
`GitInvariance`: the clone holds each commit with all before it (`Closed`), and each
step claims only what was looked up before it - the head is there when merge bases are asked for,
both ends are there and have one base when the difference is taken
(`Present`, `Compared`). Hence `SnapshotStaysDeclared`.

### Planning, reuse, reading

Also in `InputProofs`. The loops of these components are recursive functions over `0 .. n`;
lemma `Recursion` gives that such a function exists and `Induction` what it
computes.

- `PlanInvariance`, for any change, selection, relations and limits: filling and packing keep
  `Packing` (units small, apart, inside the scope; what is assigned is what is in a unit),
  and at the end every included file is assigned (`PackingCloses`, `UnitsCover`). The bundles of related
  files and the answer of the model only have to be finite lists, since `plan_review` drops what it
  does not know and what it has placed. `AnyAnswerCovers` says so for any answer, not only for
  those of the bound `Answers`. Two more facts make the invariant inductive: the keys of the plan are those of
  the selection, and no plan is refused. Hence `PlansCover`.
- `IncrementsInvariance`: whatever a unit takes over is `Linked` to the review that it names:
  an earlier one that has these hunks as reviewed, in the same frame, with the same file and
  only documents changed since; units of a review are apart. It holds of the
  draft too (`PiecesOK`), which is made some pushes before it is stored. `ReuseIsGrounded` speaks of the *first* review of
  the chain: `OriginsExist` shows the walk back to be well defined, as `from` is smaller
  than the review that has it, and `OriginGrounded` composes the links. That needs `Linked` to be
  transitive, and it is since the frames are equal and the changed
  paths between the ends are among those of the two parts. Hence `ReuseStaysGrounded`.
- `ReadInvariance`: a cursor was shown exactly the items before its position (`StartsOK`), and a search has counted the
  files that were too large up to the end of its window and those that were hidden
  up to its file (`SearchOK`): the two counts stop at different places, which is why neither the
  number it reports nor the property alone is inductive. `PageIs` is the step: a page takes a prefix
  of what is left. It needs `MaxFileBytes <= WindowBytes` (no window is empty, `WindowIs`) and
  `PageLimit > 0`. Hence `PagesStayComplete`.

### Only model-checked

- Liveness (`ReviewJobsSettle`, `EveryCallEnds`, `LeftoversGo`, `ReviewsEnd`): fairness and
  ENABLED are out of the prover's reach.

Every invariant and every action property of a run that passes is stated by a theorem, without
hypotheses beyond the assumptions on the constants. The properties of the runs that expect a violation
are false.

## 6. Plan

Nothing that is checked and within the prover's reach is left to prove. What could follow is
more of the model: the gap in `fail()` and abandoned heartbeats in `ReviewLifecycle`, and the
parts of section 7 that keep state.

## 7. Not modelled, and why

- Text: prompts, rendering, plan hashes, syntax trees, Markdown. I/O: HTTP and subprocesses,
  except as steps that may fail. The frontend and the API layer hold no state.
- Artifacts and their retention, the cache of sources of the evidence reader, the diff parser and
  the mapping of findings to lines (data: any outcome is allowed where it matters).
- `Workspaces`: one server process (the times after which clones of other processes count as
  left over exceed the timeouts of a review only for default settings); sizes, for which the
  limit on entries stands; maintenance takes the lock only if it is free.
- `AgentRounds`: compaction of messages, discussions, symbol tools.
- `ReviewPlan`: the order of units and their risk.
- `GitSnapshot`: children of a stopped git process are taken to be gone with it.
- A worker loop that dies of a database error is not modelled apart from a crash: the
  process stops polling in both cases.
- The authenticity of webhook requests and path policies are outside of this development.
