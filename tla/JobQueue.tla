------------------------------ MODULE JobQueue ------------------------------
(***************************************************************************)
(* The leased job queue of the backend and the processes that drain it:    *)
(* DatabaseTaskQueue and ReviewWorker of                                   *)
(* src/backend/app/services/review/task_queue.py.                          *)
(*                                                                         *)
(* Every method of the queue is one SQLite transaction, so it is one       *)
(* action.  Its clock however is read BEFORE the transaction gets the      *)
(* write lock: an action takes the age d of that reading, and compares     *)
(* timestamps with the time d ticks ago.  Timestamps are kept as           *)
(* count-downs ("left" = lease_until - now, "wait" = available_at - now),  *)
(* clipped where no reading can tell the values apart, so that time never  *)
(* has to be bounded.  The one method that reads the row before it writes  *)
(* is fail(), whose SELECT opens no SQLite transaction: FailReads and      *)
(* FailWrites are its two halves, Fail both of them with nothing between.  *)
(*                                                                         *)
(* A worker is one process: a process that dies is replaced by another     *)
(* member of the set, as the code draws a fresh worker_id at every start.  *)
(***************************************************************************)
EXTENDS Integers, FiniteSets

CONSTANTS
    ReviewJob,          \* jobs of kind "review" and "overview"
    PublicationJob,     \* jobs of kind "github_publication"
    ReviewWorker,       \* processes draining the review kinds
    PublicationWorker,  \* processes draining the publication kind
    Mortal,             \* the workers that may be killed
    Stoppable,          \* the workers that may be shut down in order
    Nobody,             \* the NULL of lease_owner
    LeaseTicks,         \* repoguardian_worker_lease_seconds
    ClockLag,           \* longest wait for the write lock (busy_timeout)
    BackoffCap,         \* the 60 seconds of min(2 ** attempts, 60)
    RetryAfter,         \* delay asked for by a rate limited GitHub call
    MaxAttempts,        \* repoguardian_worker_max_attempts
    PublicationAttempts,\* max_attempts of a publication job, and of its retry
    AttemptCap,         \* bound: reopening stops at this many attempts
    EnqueueAgain,       \* whether a caller repeats an idempotency key
    FailRaces           \* whether others commit between the halves of fail()

ASSUME JobQueueConstants ==
    /\ ReviewJob \cap PublicationJob = {}
    /\ ReviewWorker \cap PublicationWorker = {}
    /\ Nobody \notin ReviewWorker \cup PublicationWorker
    /\ LeaseTicks \in Nat \ {0}
    /\ ClockLag \in Nat
    /\ BackoffCap \in Nat
    /\ RetryAfter \in Nat
    /\ MaxAttempts \in Nat \ {0}
    /\ PublicationAttempts \in Nat \ {0}
    /\ AttemptCap \in Nat
    /\ EnqueueAgain \in BOOLEAN
    /\ FailRaces \in BOOLEAN

Job    == ReviewJob \cup PublicationJob
Worker == ReviewWorker \cup PublicationWorker
Age    == 0 .. ClockLag       \* how old a clock reading may be when it is used

VARIABLES
    job,      \* the worker_jobs table
    worker,   \* run_once of every process: its claimed job and where it stands
    stray     \* heartbeat calls abandoned by their coroutine, still in a thread

queueVars == <<job, worker, stray>>

-----------------------------------------------------------------------------
Expired == -(ClockLag + 1)    \* every reading finds this lease in the past
Ready   == -ClockLag          \* every reading finds this available_at reached

JobStatus == {"absent", "queued", "leased", "retry", "completed",
              "dead_letter", "cancelled"}
Active    == {"queued", "retry", "leased"}

JobRow == [status : JobStatus, owner : Worker \cup {Nobody}, left : Int,
           wait : Int, attempts : Nat, max : Nat, older : SUBSET Job]

\* Where a process stands: not started; polling; inside queue.claim; its
\* handler runs; the handler ended in one of five ways; between the halves of
\* fail(); left the loop; killed.
Failed == {"raised", "throttled", "fatal", "cancelled"}
Ended == {"returned"} \cup Failed
Holding == {"running", "failing"} \cup Ended
Phase == {"down", "idle", "claiming", "stopped", "killed"} \cup Holding

\* What fail() decided from the row it has read.
Verdict == [status : {"none", "retry", "dead_letter"}, delay : Int]
NoVerdict == [status |-> "none", delay |-> 0]

WorkerState == [phase : Phase, job : Job \cup {Nobody}, attempt : Nat,
                beating : BOOLEAN, stopping : BOOLEAN, verdict : Verdict]

Ticket == [owner : Worker, job : Job, attempt : Nat]

NoJob == [status |-> "absent", owner |-> Nobody, left |-> Expired,
          wait |-> Ready, attempts |-> 0, max |-> 0, older |-> {}]

NoWork(phase, stopping) ==
    [phase |-> phase, job |-> Nobody, attempt |-> 0, beating |-> FALSE,
     stopping |-> stopping, verdict |-> NoVerdict]

QueueTypeOK ==
    /\ job \in [Job -> JobRow]
    /\ worker \in [Worker -> WorkerState]
    /\ stray \subseteq Ticket

QueueInit ==
    /\ job = [j \in Job |-> NoJob]
    /\ worker = [w \in Worker |-> NoWork("down", FALSE)]
    /\ stray = {}

-----------------------------------------------------------------------------
(* Rows *)

Serves(w) == IF w \in ReviewWorker THEN ReviewJob ELSE PublicationJob

\* Slip: the fence looks at the lease, not at whose lease it is.
OwnsSomeLease(w, j, attempt, d) == job[j].status = "leased" /\ job[j].left > -d

\* The fence: only the latest claim of the job, and only inside its lease.
Owns(w, j, attempt, d) ==
    /\ job[j].status = "leased"
    /\ job[j].owner = w
    /\ job[j].attempts = attempt
    /\ job[j].left > -d

\* A row that nobody holds any more.
Unleased(row, status) ==
    [row EXCEPT !.status = status, !.owner = Nobody, !.left = Expired]

Backoff(n) == IF 2^n < BackoffCap THEN 2^n ELSE BackoffCap

NewRow(max) ==
    [status |-> "queued", owner |-> Nobody, left |-> Expired, wait |-> 0,
     attempts |-> 0, max |-> max,
     older |-> {k \in Job : job[k].status # "absent"}]

-----------------------------------------------------------------------------
(* The calls that create, stop and revive jobs *)

\* enqueue: a new idempotency key makes a row, a known one revives a dead row.
Enqueue(j) ==
    /\ job[j].status = "absent"
    /\ job' = [job EXCEPT ![j] = NewRow(MaxAttempts)]
    /\ UNCHANGED <<worker, stray>>

\* Slip: a revived job starts counting its attempts again.
EnqueueKnownKeyAfresh(j) ==
    /\ EnqueueAgain
    /\ job[j].status = "dead_letter"
    /\ job' = [job EXCEPT ![j] = [job[j] EXCEPT !.status = "retry", !.wait = 0,
                                                !.attempts = 0]]
    /\ UNCHANGED <<worker, stray>>

EnqueueKnownKey(j) ==
    /\ EnqueueAgain
    /\ job[j].status = "dead_letter"
    /\ job' = [job EXCEPT ![j] = [job[j] EXCEPT !.status = "retry", !.wait = 0]]
    /\ UNCHANGED <<worker, stray>>

EnqueuePublication(j) ==
    /\ job[j].status = "absent"
    /\ job' = [job EXCEPT ![j] = NewRow(PublicationAttempts)]
    /\ UNCHANGED <<worker, stray>>

\* Slips: the job is reopened with its attempts at zero, or under a live lease.
ReopenPublicationAfresh(j) ==
    /\ job[j].status # "absent"
    /\ ~(job[j].status = "leased" /\ job[j].left > 0)
    /\ job' = [job EXCEPT ![j] = [Unleased(job[j], "retry") EXCEPT
                                     !.wait = 0, !.attempts = 0]]
    /\ UNCHANGED <<worker, stray>>

ReopenPublicationAnyway(j) ==
    /\ job[j].status # "absent"
    /\ job[j].attempts + PublicationAttempts <= AttemptCap
    /\ job' = [job EXCEPT ![j] =
                  [Unleased(job[j], "retry") EXCEPT
                      !.wait = 0,
                      !.max = job[j].attempts + PublicationAttempts]]
    /\ UNCHANGED <<worker, stray>>

\* PublicationRepository.retry, as far as the job row goes.
ReopenPublication(j) ==
    /\ job[j].status # "absent"
    /\ ~(job[j].status = "leased" /\ job[j].left > 0)
    /\ job[j].attempts + PublicationAttempts <= AttemptCap
    /\ job' = [job EXCEPT ![j] =
                  [Unleased(job[j], "retry") EXCEPT
                      !.wait = 0,
                      !.max = job[j].attempts + PublicationAttempts]]
    /\ UNCHANGED <<worker, stray>>

\* The job rows that ReviewStore.cancel and _supersede stop.
CancelJob(j) ==
    /\ job[j].status \in Active
    /\ job' = [job EXCEPT ![j] = Unleased(@, "cancelled")]
    /\ UNCHANGED <<worker, stray>>

-----------------------------------------------------------------------------
(* claim *)

StartClaim(w) ==
    /\ worker[w].phase = "idle"
    /\ worker' = [worker EXCEPT ![w].phase = "claiming"]
    /\ UNCHANGED <<job, stray>>

\* Slips: nothing is buried, or jobs whose lease still runs.
BuriedNever(d) == {}

BuriedEarly(d) ==
    {j \in ReviewJob : job[j].status = "leased" /\ job[j].attempts >= job[j].max}

\* The dead rows that the first UPDATE of the transaction buries.
Buried(d) ==
    {j \in ReviewJob : /\ job[j].status = "leased"
                       /\ job[j].left <= -d
                       /\ job[j].attempts >= job[j].max}

AfterBurial(d) ==
    [j \in Job |-> IF j \in Buried(d) THEN Unleased(job[j], "dead_letter")
                                      ELSE job[j]]

\* Slips: no limit on attempts, or no look at the running lease.
EligibleForever(j, d) ==
    /\ \/ job[j].status \in {"queued", "retry"}
       \/ job[j].status = "leased" /\ job[j].left < -d
    /\ job[j].wait <= -d

EligibleDespiteLease(j, d) ==
    /\ job[j].status \in Active
    /\ job[j].wait <= -d
    /\ job[j].attempts < job[j].max

Eligible(j, d) ==
    /\ \/ job[j].status \in {"queued", "retry"}
       \/ job[j].status = "leased" /\ job[j].left < -d
    /\ job[j].wait <= -d
    /\ job[j].attempts < job[j].max

\* ORDER BY priority DESC, created_at: every caller leaves priority at 0.
Oldest(S) == {j \in S : job[j].older \cap S = {}}

\* live: the jobs whose review is neither cancelled nor deleted (the join).
Candidates(w, d, live) == {j \in Serves(w) \cap live : Eligible(j, d)}

Granted(w, j, d) ==
    [job[j] EXCEPT !.status = "leased", !.owner = w, !.left = LeaseTicks - d,
                   !.attempts = @ + 1]

ClaimJob(w, d, live) ==
    /\ worker[w].phase = "claiming"
    /\ \E j \in Oldest(Candidates(w, d, live)) :
          /\ job' = [AfterBurial(d) EXCEPT ![j] = Granted(w, j, d)]
          /\ worker' = [worker EXCEPT ![w] =
                           [@ EXCEPT !.phase = "running", !.job = j,
                                     !.attempt = job[j].attempts + 1,
                                     !.beating = TRUE]]
    /\ UNCHANGED stray

\* Where run_forever goes after run_once.
AfterRunOnce(w) ==
    NoWork(IF worker[w].stopping THEN "stopped" ELSE "idle", worker[w].stopping)

ClaimNothing(w, d, live) ==
    /\ worker[w].phase = "claiming"
    /\ Candidates(w, d, live) = {}
    /\ job' = AfterBurial(d)
    /\ worker' = [worker EXCEPT ![w] = AfterRunOnce(w)]
    /\ UNCHANGED stray

-----------------------------------------------------------------------------
(* The handler and its heartbeat *)

\* The handler coroutine ends by itself: normally, with an exception that is
\* retried, one that carries a delay, or one that is not retried.
HandlerEnds(w, how) ==
    /\ worker[w].phase = "running"
    /\ how \in {"returned", "raised", "throttled", "fatal"}
    /\ how = "throttled" => w \in PublicationWorker
    /\ how = "fatal" => w \in ReviewWorker
    /\ worker' = [worker EXCEPT ![w].phase = how]
    /\ UNCHANGED <<job, stray>>

Renewed(j, d) == [job EXCEPT ![j].left = LeaseTicks - d]

Heartbeat(w, d) ==
    LET j == worker[w].job
        owns == Owns(w, j, worker[w].attempt, d)
    IN  /\ worker[w].phase \in Holding
        /\ worker[w].beating
        /\ job' = IF owns THEN Renewed(j, d) ELSE job
        /\ worker' = IF owns THEN worker ELSE
              [worker EXCEPT ![w].phase = IF @ = "running" THEN "cancelled" ELSE @,
                             ![w].beating = FALSE]
        /\ UNCHANGED stray

\* The thread of an abandoned heartbeat gets to its transaction.
StrayHeartbeat(t, d) ==
    /\ t \in stray
    /\ stray' = stray \ {t}
    /\ job' = IF Owns(t.owner, t.job, t.attempt, d) THEN Renewed(t.job, d) ELSE job
    /\ UNCHANGED worker

\* cancel_task: the handler of a review that was cancelled in this process.
CancelHandler(w) ==
    /\ worker[w].phase = "running"
    /\ job[worker[w].job].status = "cancelled"
    /\ worker' = [worker EXCEPT ![w].phase = "cancelled"]
    /\ UNCHANGED <<job, stray>>

-----------------------------------------------------------------------------
(* The receipt of the handler's outcome *)

\* The "finally" of run_once; a heartbeat call in flight outlives its task.
Release(w) ==
    LET t == [owner |-> w, job |-> worker[w].job, attempt |-> worker[w].attempt]
    IN  /\ worker' = [worker EXCEPT ![w] = AfterRunOnce(w)]
        /\ stray' \in {stray} \cup (IF worker[w].beating THEN {stray \cup {t}} ELSE {})

Complete(w, d) ==
    LET j == worker[w].job
    IN  /\ worker[w].phase = "returned"
        /\ job' = IF Owns(w, j, worker[w].attempt, d)
                     THEN [job EXCEPT ![j] = Unleased(@, "completed")] ELSE job
        /\ Release(w)

\* fail: one more try after a delay while attempts are left, else a dead row.
VerdictOn(w, row) ==
    [status |-> IF worker[w].phase # "fatal" /\ row.attempts < row.max
                   THEN "retry" ELSE "dead_letter",
     delay  |-> IF worker[w].phase = "throttled" THEN RetryAfter
                                                 ELSE Backoff(row.attempts)]

\* Slip: a dead row gets a status that no other query knows.
FailedRowMisnamed(row, verdict, d) ==
    [Unleased(row, IF verdict.status = "retry" THEN "retry" ELSE "failed")
        EXCEPT !.wait = verdict.delay - d]

FailedRow(row, verdict, d) ==
    [Unleased(row, verdict.status) EXCEPT !.wait = verdict.delay - d]

Fail(w, d) ==
    LET j == worker[w].job
    IN  /\ worker[w].phase \in Failed
        /\ job' = IF Owns(w, j, worker[w].attempt, d)
                     THEN [job EXCEPT ![j] = FailedRow(@, VerdictOn(w, @), d)]
                     ELSE job
        /\ Release(w)

FailReads(w, d) ==
    LET j == worker[w].job
    IN  /\ FailRaces
        /\ worker[w].phase \in Failed
        /\ Owns(w, j, worker[w].attempt, d)
        /\ worker' = [worker EXCEPT ![w] =
                         [@ EXCEPT !.phase = "failing", !.verdict = VerdictOn(w, job[j])]]
        /\ UNCHANGED <<job, stray>>

\* The UPDATE names the row by its id alone.
FailWrites(w, d) ==
    LET j == worker[w].job
    IN  /\ worker[w].phase = "failing"
        /\ job' = [job EXCEPT ![j] = FailedRow(@, worker[w].verdict, d)]
        /\ Release(w)

-----------------------------------------------------------------------------
(* Processes and time *)

Start(w) ==
    /\ worker[w].phase = "down"
    /\ worker' = [worker EXCEPT ![w] = NoWork("idle", FALSE)]
    /\ UNCHANGED <<job, stray>>

\* ReviewService.close cancels the handler it finds running; the publication
\* service only leaves the loop.  A claim in flight is waited for by both.
Stop(w) ==
    /\ w \in Stoppable
    /\ worker[w].phase \in {"idle", "claiming"} \cup Holding
    /\ ~worker[w].stopping
    /\ worker' = [worker EXCEPT
          ![w].stopping = TRUE,
          ![w].phase = CASE @ = "idle" -> "stopped"
                         [] @ = "running" /\ w \in ReviewWorker -> "cancelled"
                         [] OTHER -> @]
    /\ UNCHANGED <<job, stray>>

\* The process dies: its coroutines and threads are gone, the rows stay.
Kill(w) ==
    /\ w \in Mortal
    /\ worker[w].phase \in {"idle", "claiming"} \cup Holding
    /\ worker' = [worker EXCEPT ![w] = NoWork("killed", FALSE)]
    /\ stray' = {t \in stray : t.owner # w}
    /\ UNCHANGED job

Down(n, floor) == IF n > floor THEN n - 1 ELSE n

Tick ==
    /\ job' = [j \in Job |-> [job[j] EXCEPT !.left = Down(@, Expired),
                                           !.wait = Down(@, Ready)]]
    /\ UNCHANGED <<worker, stray>>

-----------------------------------------------------------------------------
WorkerStep(w) ==
    \/ Start(w) \/ StartClaim(w) \/ Stop(w) \/ Kill(w) \/ CancelHandler(w)
    \/ \E how \in Ended : HandlerEnds(w, how)
    \/ \E d \in Age : \/ ClaimJob(w, d, Job) \/ ClaimNothing(w, d, Job)
                      \/ Heartbeat(w, d) \/ Complete(w, d) \/ Fail(w, d)
                      \/ FailReads(w, d) \/ FailWrites(w, d)

QueueNext ==
    \/ \E j \in ReviewJob : Enqueue(j) \/ EnqueueKnownKey(j) \/ CancelJob(j)
    \/ \E j \in PublicationJob : EnqueuePublication(j) \/ ReopenPublication(j)
    \/ \E w \in Worker : WorkerStep(w)
    \/ \E t \in stray, d \in Age : StrayHeartbeat(t, d)
    \/ Tick

QueueSpec == QueueInit /\ [][QueueNext]_queueVars

(***************************************************************************)
(* Fairness.  The loop of run_forever has no exit but stop() and every     *)
(* await of run_once ends: claim, complete and fail are bounded by the     *)
(* busy timeout, and the handlers by the hard deadline of the review and   *)
(* by the HTTP timeouts of the publisher.  Nothing is assumed of a         *)
(* heartbeat, a stop, a crash or a caller.                                 *)
(***************************************************************************)
WorkerProgress(w) ==
    /\ WF_queueVars(Start(w))
    /\ WF_queueVars(StartClaim(w))
    /\ WF_queueVars(\E d \in Age : ClaimJob(w, d, Job) \/ ClaimNothing(w, d, Job))
    /\ WF_queueVars(\E how \in Ended : HandlerEnds(w, how))
    /\ WF_queueVars(\E d \in Age : Complete(w, d) \/ Fail(w, d) \/ FailWrites(w, d))

FairQueueSpec ==
    QueueSpec /\ WF_queueVars(Tick) /\ \A w \in Worker : WorkerProgress(w)
-----------------------------------------------------------------------------
(* Safety *)

\* A job is never claimed more often than it may be: neither expiry, nor
\* retry after a failure, nor reaping by several processes adds an attempt.
AttemptsWithinBudget == \A j \in Job : job[j].attempts <= job[j].max

\* The attempt number is a fencing token: two processes that believe they run
\* the same job run different attempts of it, and no abandoned heartbeat
\* carries the attempt of a running one.  (The fence compares owner and
\* attempt, and a process may claim again the job it has just lost.)
AttemptIsAToken ==
    /\ \A v, w \in Worker :
          /\ worker[v].phase \in Holding /\ worker[w].phase \in Holding
          /\ worker[v].job = worker[w].job
          /\ worker[v].attempt = worker[w].attempt
          => v = w
    /\ \A w \in Worker, t \in stray :
          worker[w].phase \in Holding /\ worker[w].job = t.job
          => worker[w].attempt # t.attempt

\* What replacements rely on (the comment at the end of run_once): while a
\* lease runs, the row leaves it by the holder's own receipt or by a
\* cancellation only.  The gap in fail() breaks this.
LeaseRespected ==
    [][\A j \in Job :
          /\ job[j].status = "leased" /\ job[j].left > 0
          /\ <<job'[j].status, job'[j].owner, job'[j].attempts>>
                # <<job[j].status, job[j].owner, job[j].attempts>>
          => \/ job'[j].status = "cancelled"
             \/ \E w \in Worker : /\ w = job[j].owner
                                  /\ worker[w].phase \in Ended \cup {"failing"}
                                  /\ worker[w].job = j
                                  /\ worker[w].attempt = job[j].attempts]_queueVars

\* What holds of a running lease in spite of the gap: nobody is granted a job
\* whose lease runs, and nobody reopens it.  The lease ends with the job held
\* by nobody: by the receipt of the latest attempt, by a cancellation, or by
\* the UPDATE of a fail() with the verdict it reached while its own attempt
\* was the latest.
LeaseEndsInOrder ==
    [][\A j \in Job :
          /\ job[j].status = "leased" /\ job[j].left > 0
          /\ <<job'[j].status, job'[j].owner, job'[j].attempts>>
                # <<job[j].status, job[j].owner, job[j].attempts>>
          => /\ job'[j].owner = Nobody /\ job'[j].attempts = job[j].attempts
             /\ \/ job'[j].status = "cancelled"
                \/ \E w \in Worker :
                      /\ worker[w].job = j
                      /\ \/ /\ worker[w].phase \in Ended
                            /\ worker[w].attempt = job[j].attempts
                         \/ /\ worker[w].phase = "failing"
                            /\ worker[w].attempt <= job[j].attempts
                            /\ job'[j].status = worker[w].verdict.status]_queueVars

\* A job is recorded as completed only for a handler that returned normally
\* in the latest attempt: a process that was replaced cannot complete the job
\* under its replacement.
CompletedByLatestAttempt ==
    [][\A j \in Job :
          job[j].status # "completed" /\ job'[j].status = "completed"
          => \E w \in Worker : /\ worker[w].phase = "returned"
                               /\ worker[w].job = j
                               /\ worker[w].attempt = job[j].attempts]_queueVars

\* Nothing but the gap in fail() brings a review job back: one that completed
\* or was cancelled leaves that status, and one without attempts left waits
\* for another claim, only by the UPDATE of a fail() whose SELECT saw the row
\* before.  It then carries an attempt that still had a successor, older than
\* the one that completed the job or was the last.
BroughtBackByOvertaken ==
    [][\A j \in ReviewJob :
          \/ job[j].status \in {"completed", "cancelled"} /\ job'[j].status # job[j].status
          \/ /\ job[j].status \notin {"dead_letter", "retry"} /\ job'[j].status = "retry"
             /\ job'[j].attempts >= job'[j].max
          => \E w \in Worker :
                /\ worker[w].phase = "failing" /\ worker[w].job = j
                /\ job'[j].status = worker[w].verdict.status
                /\ job'[j].status = "retry" => worker[w].attempt < job[j].max
                /\ job[j].status = "completed" => worker[w].attempt < job[j].attempts]_queueVars

(* The invariant by which the above are proved, in named parts. *)

\* The columns of a row agree: an owner and a lease exactly while leased.
RowsConsistent ==
    \A j \in Job :
        /\ job[j].status = "leased" => job[j].owner # Nobody
        /\ job[j].status # "leased" => job[j].owner = Nobody /\ job[j].left = Expired
        /\ job[j].status = "absent" => job[j].attempts = 0

\* A process or an abandoned heartbeat carries an attempt that was granted.
AttemptsWereGranted ==
    /\ \A w \in Worker :
          worker[w].phase \in Holding
          => worker[w].job \in Job /\ worker[w].attempt <= job[worker[w].job].attempts
    /\ \A t \in stray : t.attempt <= job[t.job].attempts

\* fail() is between its halves only where others may commit in between, and
\* then it has decided on a status.
PendingVerdicts ==
    \A w \in Worker :
        worker[w].phase = "failing" => FailRaces /\ worker[w].verdict.status # "none"

\* All of it: what is true at every moment, and kept by every step.
QueueInv ==
    /\ QueueTypeOK
    /\ RowsConsistent
    /\ AttemptsWereGranted
    /\ PendingVerdicts
    /\ AttemptsWithinBudget
    /\ AttemptIsAToken

(* Liveness *)

\* In "retry" with its attempts used up: no claim takes the row, none buries it.
OutOfTries(j) == job[j].status = "retry" /\ job[j].attempts >= job[j].max

\* A review job that was accepted ends, whatever crashes, lost leases and
\* slow heartbeats happen on the way, while one process keeps polling; or the
\* gap in fail() leaves it behind (nothing else does: BroughtBackByOvertaken).
ReviewJobsSettle ==
    \A j \in ReviewJob :
        job[j].status \in Active ~> job[j].status \notin Active \/ OutOfTries(j)

-----------------------------------------------------------------------------
(* The queue grants fenced leases: it implements FencedLease. *)

LeaseState(row) ==
    CASE row.status = "absent"      -> "none"
      [] row.status \in Active      -> "open"
      [] row.status = "completed"   -> "completed"
      [] row.status = "dead_letter" -> "dead"
      [] row.status = "cancelled"   -> "cancelled"

Leases == INSTANCE FencedLease WITH
    state  <- [j \in Job |-> LeaseState(job[j])],
    epoch  <- [j \in Job |-> job[j].attempts],
    last   <- [j \in Job |-> job[j].owner],
    holder <- [j \in Job |-> IF job[j].left > 0 THEN job[j].owner ELSE Nobody],
    decided <- [j \in Job |-> {w \in Worker : /\ worker[w].phase = "failing"
                                             /\ worker[w].job = j}]

\* Every step of the queue is a step of the abstract lease of each job.
ImplementsLeases == Leases!LeaseSpec
=============================================================================
