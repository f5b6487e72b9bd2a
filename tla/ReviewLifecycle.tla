-------------------------- MODULE ReviewLifecycle --------------------------
(***************************************************************************)
(* One review from its creation to its end: the rows of a run              *)
(* (src/backend/app/review/store.py), the orchestrator that schedules its  *)
(* work items (orchestrator.py), the agents it starts (agent.py), and the  *)
(* callers that cancel, supersede, retry and delete it, on top of the      *)
(* leased queue of JobQueue.                                               *)
(*                                                                         *)
(* A method of the store is one transaction, fenced by the lease it was    *)
(* given.  Coroutines call it in a thread: a coroutine that is cancelled   *)
(* leaves the call behind, and it commits later or never.  Such calls are  *)
(* data here ("late"), so that they outlive the handler, its lease and     *)
(* even the next handler of the same process.                              *)
(***************************************************************************)
EXTENDS JobQueue

CONSTANTS
    Run,             \* the reviews, all of one pull request
    Head,            \* head commits of that pull request
    Unit,            \* review work items of a run, one per planned unit
    Candidate,       \* candidates of a run; each has one verification item
    Concurrency,     \* limits.concurrency: agents at a time
    LateCap,         \* bound: calls left behind at a time
    Deadlines,       \* bound: the deadlines that may pass, of {"cutoff", "hard"}
    Mishaps          \* where exceptions nobody planned for may come from:
                     \* "lookup" (store.get), "work" (the rest of the handler)

ASSUME LifecycleConstants ==
    /\ Unit \cap Candidate = {}
    /\ Concurrency \in Nat \ {0}
    /\ LateCap \in Nat
    /\ Deadlines \subseteq {"cutoff", "hard"}
    /\ Mishaps \subseteq {"lookup", "work"}
    /\ PublicationJob = {}

\* A candidate and its verification item are written together, so the item
\* stands for both: the candidate is verified when its item is completed.
Item == Unit \cup Candidate

VARIABLES
    run,        \* the review_tasks table
    work,       \* the work items of every run
    jobOf,      \* the task_id and the kind of a worker job
    deadline,   \* which deadlines of a run are over
    handler,    \* _handle_job and the orchestrator in every process
    late        \* store calls left behind in a thread

lifecycleVars == <<run, work, jobOf, deadline, handler, late>>
vars == <<queueVars, lifecycleVars>>

-----------------------------------------------------------------------------
TERMINAL == {"completed", "partial", "failed", "cancelled"}

\* A lease of nobody is told from every review and from every way to end.
ASSUME NobodyIsNone == Nobody \notin Run \cup TERMINAL

Live     == {"queued", "running"}

WorkStatus == {"absent", "queued", "running", "completed", "failed",
               "interrupted", "skipped"}

\* clean: every required material was delivered, no investigation left open.
WorkItem == [status : WorkStatus, try : Nat, clean : BOOLEAN]
NoItem   == [status |-> "absent", try |-> 0, clean |-> FALSE]
NewItem  == [status |-> "queued", try |-> 0, clean |-> FALSE]

Lease == [job : ReviewJob, owner : ReviewWorker, attempt : Nat]

\* A call of the store by a handler: which item it names, the attempt of that
\* item it was made for, and what it stores.
Call == [lease : Lease, op : {"begin", "claim", "skip", "deliver", "submit",
                              "finish", "save"},
         item : Item \cup {Nobody}, try : Nat,
         value : Item \cup WorkStatus \cup TERMINAL \cup {Nobody}]

PC == {"none", "start", "preparing", "begin", "loop", "judge", "dispatch",
       "waiting", "draining", "facts", "overview"}

Agent  == [state : {"none", "working", "done", "stopped"}, try : Nat]
NoTask == [state |-> "none", try |-> 0]

\* todo: the items of the snapshot not dealt with yet; outcome: the status in
\* the report that was built.
Handler   == [pc : PC, todo : SUBSET Item, agent : [Item -> Agent],
              outcome : TERMINAL \cup {Nobody}]
NoHandler == [pc |-> "none", todo |-> {}, agent |-> [i \in Item |-> NoTask],
              outcome |-> Nobody]

LifecycleTypeOK ==
    /\ QueueTypeOK
    /\ run \in [Run -> [status : Live \cup TERMINAL \cup {"absent"},
                        report : TERMINAL \cup {Nobody}, head : Head \cup {Nobody},
                        deleted : BOOLEAN]]
    /\ work \in [Run -> [Item -> WorkItem]]
    /\ jobOf \in [ReviewJob -> [run : Run \cup {Nobody},
                                kind : {"review", "overview"}]]
    /\ deadline \in [Run -> {"open", "cutoff", "hard"}]
    /\ handler \in [ReviewWorker -> Handler]
    /\ late \subseteq Call

LifecycleInit ==
    /\ QueueInit
    /\ run = [r \in Run |-> [status |-> "absent", report |-> Nobody, head |-> Nobody,
                             deleted |-> FALSE]]
    /\ work = [r \in Run |-> [i \in Item |-> NoItem]]
    /\ jobOf = [j \in ReviewJob |-> [run |-> Nobody, kind |-> "review"]]
    /\ deadline = [r \in Run |-> "open"]
    /\ handler = [w \in ReviewWorker |-> NoHandler]
    /\ late = {}

-----------------------------------------------------------------------------
(* Rows *)

JobsOf(r) == {j \in ReviewJob : jobOf[j].run = r}

HasActiveJob(r) == \E j \in JobsOf(r) : job[j].status \in Active

\* The join in claim: no job of a cancelled or deleted review is granted.
LiveJobs ==
    {j \in ReviewJob : /\ jobOf[j].run # Nobody
                       /\ run[jobOf[j].run].status # "cancelled"
                       /\ ~run[jobOf[j].run].deleted}

\* Slip: some process holds the job, whoever the caller is.
FenceOnAnyLease(lease) ==
    LET r == jobOf[lease.job].run
    IN  /\ ~run[r].deleted
        /\ run[r].status \notin TERMINAL
        /\ job[lease.job].status = "leased" /\ job[lease.job].left > 0

\* _guard: the review is alive and not finished, the lease is the job's.
Fence(lease) ==
    LET r == jobOf[lease.job].run
    IN  /\ ~run[r].deleted
        /\ run[r].status \notin TERMINAL
        /\ Owns(lease.owner, lease.job, lease.attempt, 0)

\* Slips: a candidate nobody verified, or missing material, goes unnoticed.
OutcomeOfUnits(items) ==
    IF \A u \in Unit : items[u].status = "completed" /\ items[u].clean
    THEN "completed" ELSE "partial"

OutcomeOfEndings(items) ==
    IF \A i \in Item : items[i].status \in {"absent", "completed"}
    THEN "completed" ELSE "partial"

\* build_report: the status that the facts of a review amount to.
Outcome(items) ==
    IF /\ \A u \in Unit : items[u].status = "failed"
       /\ \A c \in Candidate : items[c].status = "absent"
    THEN "failed"
    ELSE IF /\ \A u \in Unit : items[u].status = "completed" /\ items[u].clean
            /\ \A c \in Candidate : items[c].status \in {"absent", "completed"}
         THEN "completed" ELSE "partial"

HasCandidate(items) == \E c \in Candidate : items[c].status # "absent"

-----------------------------------------------------------------------------
(* The calls of the store *)

\* Slip: work that is done is done again.
RequeuedToo(items, from) ==
    [i \in Item |-> IF items[i].status \in from \cup {"completed"}
                       THEN [items[i] EXCEPT !.status = "queued"] ELSE items[i]]

Requeued(items, from) ==
    [i \in Item |-> IF items[i].status \in from
                       THEN [items[i] EXCEPT !.status = "queued"] ELSE items[i]]

Marked(items, i, status) == [items EXCEPT ![i].status = status]

\* _attempt: the item is still running in the attempt the call was made for.
SameAttempt(items, c) ==
    items[c.item].status = "running" /\ items[c.item].try = c.try

\* What the checks of a method besides the fence accept.
Accepts(r, c) ==
    /\ c.op \in {"deliver", "submit", "finish"} => SameAttempt(work[r], c)
    /\ c.op \in {"deliver", "submit"} => deadline[r] # "hard"

\* The work items after the method.
Stored(r, c) ==
    LET items == work[r] IN
    CASE c.op = "begin" -> Requeued(items, {"running"})
      [] c.op = "claim" /\ items[c.item].status = "queued" ->
            [items EXCEPT ![c.item] = [status |-> "running", try |-> @.try + 1,
                                       clean |-> FALSE]]
      [] c.op = "skip" /\ items[c.item].status \in {"queued", "running"} ->
            Marked(items, c.item, "skipped")
      [] c.op = "deliver" -> [items EXCEPT ![c.item].clean = TRUE]
      [] c.op = "submit" /\ items[c.value].status = "absent" ->
            [items EXCEPT ![c.value] = NewItem]
      [] c.op = "finish" ->
            Marked(items, c.item, IF c.value = "completed" /\ deadline[r] = "hard"
                                     THEN "interrupted" ELSE c.value)
      [] OTHER -> items

\* A report is saved as the last one of the run.
WithReport(row, status) == [row EXCEPT !.status = status, !.report = status]

\* The row of the run after the method.
RowAfter(r, c) ==
    CASE c.op = "begin" -> [run[r] EXCEPT !.status = "running"]
      [] c.op = "save" -> WithReport(run[r], c.value)
      [] OTHER -> run[r]

Works(c) == Fence(c.lease) /\ Accepts(jobOf[c.lease.job].run, c)

\* The transaction of a call: all of it or nothing.
Commit(c) ==
    LET r == jobOf[c.lease.job].run
    IN  /\ run' = IF Works(c) THEN [run EXCEPT ![r] = RowAfter(r, c)] ELSE run
        /\ work' = IF Works(c) THEN [work EXCEPT ![r] = Stored(r, c)] ELSE work

-----------------------------------------------------------------------------
(* A handler, seen from its process *)

RunOf(w)   == jobOf[worker[w].job].run
LeaseOf(w) == [job |-> worker[w].job, owner |-> w, attempt |-> worker[w].attempt]

At(w, pc) == worker[w].phase = "running" /\ handler[w].pc = pc

OwnCall(w, op, i, value) ==
    [lease |-> LeaseOf(w), op |-> op, item |-> i, try |-> 0, value |-> value]

AgentCall(w, op, i, value) ==
    [lease |-> LeaseOf(w), op |-> op, item |-> i, try |-> handler[w].agent[i].try,
     value |-> value]

Busy(w)    == {i \in Item : handler[w].agent[i].state # "none"}
Working(w) == {i \in Item : handler[w].agent[i].state = "working"}

\* Candidates get a fresh id, also against the calls still under way.
FreshCandidates(r) ==
    {c \in Candidate : work[r][c].status = "absent" /\ \A l \in late : l.value # c}

AgentCalls(w) ==
    {AgentCall(w, "deliver", u, Nobody) : u \in Working(w) \cap Unit}
    \cup {AgentCall(w, "submit", u, c) :
            u \in Working(w) \cap Unit, c \in FreshCandidates(RunOf(w))}
    \cup {AgentCall(w, "finish", i, s) :
            i \in Working(w), s \in {"completed", "failed", "interrupted"}}

OrchestratorCalls(w) ==
    CASE handler[w].pc = "begin"    -> {OwnCall(w, "begin", Nobody, Nobody)}
      [] handler[w].pc = "dispatch" -> {OwnCall(w, op, i, Nobody) :
                                          op \in {"claim", "skip"}, i \in handler[w].todo}
      [] handler[w].pc = "draining" -> {OwnCall(w, "skip", i, Nobody) : i \in handler[w].todo}
      [] handler[w].pc = "overview" -> {OwnCall(w, "save", Nobody, handler[w].outcome)}
      [] OTHER -> {}

\* Coroutines are cancelled: one of their calls may still be in its thread.
LeftBehind(calls) ==
    late' \in {late} \cup {late \cup {c} : c \in IF Cardinality(late) < LateCap
                                                    THEN calls ELSE {}}

HandlerGone(w, calls) ==
    handler' = [handler EXCEPT ![w] = NoHandler] /\ LeftBehind(calls)

\* ReviewStopped or LeaseLost reached _handle_job: it returns as if it were done.
Returns(w) == HandlerEnds(w, "returned") /\ HandlerGone(w, AgentCalls(w))

GoesOn(w, next) == handler' = [handler EXCEPT ![w] = next] /\ UNCHANGED <<queueVars, late>>

\* One awaited call: the handler goes on, or the fence ends it.
Awaits(w, call, next) ==
    /\ Commit(call)
    /\ IF Fence(call.lease) THEN GoesOn(w, next) ELSE Returns(w)
    /\ UNCHANGED <<jobOf, deadline>>

\* assert_active: a call that only checks.
Checks(w, next) ==
    /\ IF Fence(LeaseOf(w)) THEN GoesOn(w, next) ELSE Returns(w)
    /\ UNCHANGED <<run, work, jobOf, deadline>>

-----------------------------------------------------------------------------
(* _handle_job *)

LookUp(w) ==
    LET row == run[RunOf(w)]
    IN  /\ At(w, "start")
        /\ IF row.deleted \/ row.status \in TERMINAL
              THEN Returns(w)
              ELSE GoesOn(w, [handler[w] EXCEPT !.pc = "preparing"])
        /\ UNCHANGED <<run, work, jobOf, deadline>>

\* The workspace, the grouping and the context of the review are ready.
Prepared(w) ==
    /\ At(w, "preparing")
    /\ GoesOn(w, [handler[w] EXCEPT !.pc = "begin"])
    /\ UNCHANGED <<run, work, jobOf, deadline>>

\* An overview job starts from the facts of the report it finds.
Begin(w) ==
    /\ At(w, "begin")
    /\ Awaits(w, OwnCall(w, "begin", Nobody, Nobody),
              IF jobOf[worker[w].job].kind = "review"
                 THEN [handler[w] EXCEPT !.pc = "loop"]
                 ELSE [handler[w] EXCEPT !.pc = "overview",
                                         !.outcome = run[RunOf(w)].report])

\* fail_run: a report of what there is, past the facts of build_report.
FailedStatus(items) == IF HasCandidate(items) THEN "partial" ELSE "failed"

\* Any other exception: the run is failed here and now, if the fence allows.
\* store.get is outside of the try block.
Throws(w) ==
    /\ worker[w].phase = "running"
    /\ (IF handler[w].pc = "start" THEN "lookup" ELSE "work") \in Mishaps
    /\ LET r == RunOf(w)
           fails == handler[w].pc # "start" /\ Fence(LeaseOf(w))
       IN  /\ run' = IF fails THEN [run EXCEPT ![r] = WithReport(@, FailedStatus(work[r]))]
                              ELSE run
           /\ HandlerEnds(w, IF fails THEN "fatal" ELSE "raised")
    /\ HandlerGone(w, AgentCalls(w))
    /\ UNCHANGED <<work, jobOf, deadline>>

-----------------------------------------------------------------------------
(* The loop of the orchestrator *)

Look(w) ==
    /\ At(w, "loop")
    /\ Checks(w, [handler[w] EXCEPT
                     !.pc = "judge",
                     !.todo = {i \in Item : work[RunOf(w)][i].status \in {"queued", "running"}}])

\* Slip: the items are skipped under agents that still work on them.
JudgeSparingAgents(w) ==
    /\ At(w, "judge")
    /\ handler' = [handler EXCEPT
          ![w].pc = IF deadline[RunOf(w)] = "hard" THEN "draining" ELSE "dispatch",
          ![w].todo = IF deadline[RunOf(w)] = "hard" THEN @ ELSE @ \ Busy(w)]
    /\ UNCHANGED <<queueVars, run, work, jobOf, deadline, late>>

\* The snapshot is already taken when the deadline is compared.
Judge(w) ==
    /\ At(w, "judge")
    /\ IF deadline[RunOf(w)] = "hard"
       THEN /\ handler' = [handler EXCEPT ![w].pc = "draining",
                                          ![w].agent = NoHandler.agent]
            /\ LeftBehind(AgentCalls(w))
       ELSE /\ handler' = [handler EXCEPT ![w].pc = "dispatch", ![w].todo = @ \ Busy(w)]
            /\ UNCHANGED late
    /\ UNCHANGED <<queueVars, run, work, jobOf, deadline>>

Drain(w) ==
    /\ At(w, "draining")
    /\ \/ \E i \in handler[w].todo :
             Awaits(w, OwnCall(w, "skip", i, Nobody), [handler[w] EXCEPT !.todo = @ \ {i}])
       \/ /\ handler[w].todo = {}
          /\ GoesOn(w, [handler[w] EXCEPT !.pc = "facts"])
          /\ UNCHANGED <<run, work, jobOf, deadline>>

SkipPastCutoff(w) ==
    /\ At(w, "dispatch")
    /\ deadline[RunOf(w)] # "open"
    /\ \E u \in handler[w].todo \cap Unit :
          Awaits(w, OwnCall(w, "skip", u, Nobody), [handler[w] EXCEPT !.todo = @ \ {u}])

\* Verification comes before discovery.
Foremost(items) == IF items \cap Candidate # {} THEN items \cap Candidate ELSE items

HasRoom(w) == Cardinality(Busy(w)) < Concurrency

\* can_start finds no budget: the item is given up if nothing else can free any.
Refuse(w) ==
    /\ At(w, "dispatch")
    /\ HasRoom(w)
    /\ \E i \in Foremost(handler[w].todo) :
          LET next == [handler[w] EXCEPT !.todo = @ \ {i}]
          IN  IF Busy(w) = {}
              THEN Awaits(w, OwnCall(w, "skip", i, Nobody), next)
              ELSE GoesOn(w, next) /\ UNCHANGED <<run, work, jobOf, deadline>>

StartAgent(w) ==
    /\ At(w, "dispatch")
    /\ HasRoom(w)
    /\ \E i \in Foremost(handler[w].todo) :
          LET item == work[RunOf(w)][i]
              started == [state |-> "working", try |-> item.try + 1]
          IN  /\ deadline[RunOf(w)] # "hard"
              /\ i \in Unit => deadline[RunOf(w)] = "open"
              /\ Awaits(w, OwnCall(w, "claim", i, Nobody),
                        [handler[w] EXCEPT
                            !.todo = @ \ {i},
                            !.agent[i] = IF item.status = "queued" THEN started ELSE @])

Dispatched(w) ==
    /\ At(w, "dispatch")
    /\ handler[w].todo = {} \/ ~HasRoom(w)
    /\ GoesOn(w, [handler[w] EXCEPT !.todo = {},
                                    !.pc = IF Busy(w) = {} THEN "facts" ELSE "waiting"])
    /\ UNCHANGED <<run, work, jobOf, deadline>>

\* asyncio.wait: an agent that was stopped ends the whole handler.
Await(w) ==
    /\ At(w, "waiting")
    /\ IF \E i \in Item : handler[w].agent[i].state = "stopped"
       THEN Returns(w)
       ELSE GoesOn(w, [handler[w] EXCEPT
                          !.pc = "loop",
                          !.agent = [i \in Item |-> IF @[i].state = "done" THEN NoTask
                                                                           ELSE @[i]]])
    /\ UNCHANGED <<run, work, jobOf, deadline>>

BuildFacts(w) ==
    /\ At(w, "facts")
    /\ Checks(w, [handler[w] EXCEPT !.pc = "overview",
                                    !.outcome = Outcome(work[RunOf(w)])])

\* The overview is there, or failed by itself: the report is final.
Save(w) ==
    /\ At(w, "overview")
    /\ Commit(OwnCall(w, "save", Nobody, handler[w].outcome))
    /\ Returns(w)
    /\ UNCHANGED <<jobOf, deadline>>

-----------------------------------------------------------------------------
(* Agents *)

AgentIs(w, i, state) ==
    /\ handler' = [handler EXCEPT ![w].agent[i].state = state]
    /\ UNCHANGED <<queueVars, jobOf, deadline, late>>

Submit(w, u) ==
    /\ worker[w].phase = "running" /\ u \in Working(w) \cap Unit
    /\ \E c \in FreshCandidates(RunOf(w)) :
          LET call == AgentCall(w, "submit", u, c) IN Works(call) /\ Commit(call)
    /\ UNCHANGED <<queueVars, jobOf, deadline, handler, late>>

Deliver(w, u) ==
    /\ worker[w].phase = "running" /\ u \in Working(w) \cap Unit
    /\ LET call == AgentCall(w, "deliver", u, Nobody) IN Works(call) /\ Commit(call)
    /\ UNCHANGED <<queueVars, jobOf, deadline, handler, late>>

Finish(w, i, status) ==
    LET call == AgentCall(w, "finish", i, status)
    IN  /\ worker[w].phase = "running" /\ i \in Working(w)
        /\ Works(call) /\ Commit(call)
        /\ AgentIs(w, i, "done")

\* LeaseLost from any call; ReviewStopped also from a submission that comes
\* after the hard deadline.
AgentStops(w, i) ==
    /\ worker[w].phase = "running" /\ i \in Working(w)
    /\ \/ ~Works(AgentCall(w, "finish", i, "completed"))
       \/ i \in Unit /\ deadline[RunOf(w)] = "hard"
    /\ AgentIs(w, i, "stopped")
    /\ UNCHANGED <<run, work>>

LateCall(c) ==
    /\ c \in late
    /\ late' = late \ {c}
    /\ Commit(c)
    /\ UNCHANGED <<queueVars, jobOf, deadline, handler>>

-----------------------------------------------------------------------------
(* Callers of the service *)

Untouched == UNCHANGED <<worker, stray, handler, late>>

\* Slip: the reason is stored where the status belongs.
StoppedByReason(rs) ==
    [r \in Run |-> IF r \in rs THEN [run[r] EXCEPT !.status = "review_superseded"] ELSE run[r]]

\* The rows of runs that a newer head makes obsolete, cancelled together.
Stopped(rs) ==
    [r \in Run |-> IF r \in rs THEN [run[r] EXCEPT !.status = "cancelled"] ELSE run[r]]

\* Slip: a job that a process holds at the moment is left to that process.
JobsStoppedUnlessLeased(rs) ==
    [j \in Job |-> IF job[j].status \in {"queued", "retry"} /\ jobOf[j].run \in rs
                      THEN Unleased(job[j], "cancelled") ELSE job[j]]

JobsStopped(rs) ==
    [j \in Job |-> IF job[j].status \in Active /\ jobOf[j].run \in rs
                      THEN Unleased(job[j], "cancelled") ELSE job[j]]

\* Slip: reviews that are over are superseded as well.
ObsoleteInAnyStatus(head) ==
    {r \in Run : run[r].status # "absent" /\ ~run[r].deleted /\ run[r].head # head}

Obsolete(head) == {r \in Run : /\ run[r].status \in Live /\ ~run[r].deleted
                               /\ run[r].head # head}

\* The job that enqueue adds in the transaction of its caller.
Enqueued(jobs, j) == [jobs EXCEPT ![j] = NewRow(MaxAttempts)]

\* _supersede stops the reviews created up to some moment.  created_at is taken
\* well before the row is written, so rows need not come in that order, and any
\* of them may be the ones seen.
Create(r, head, seen) ==
    LET old == Obsolete(head) \cap seen
    IN  /\ run[r].status = "absent"
        /\ run' = [Stopped(old) EXCEPT
                      ![r] = [status |-> "queued", report |-> Nobody, head |-> head,
                              deleted |-> FALSE]]
        /\ work' = [work EXCEPT ![r] = [i \in Item |-> IF i \in Unit THEN NewItem ELSE NoItem]]
        /\ \E j \in ReviewJob :
              /\ job[j].status = "absent"
              /\ job' = Enqueued(JobsStopped(old), j)
              /\ jobOf' = [jobOf EXCEPT ![j] = [run |-> r, kind |-> "review"]]
        /\ UNCHANGED deadline /\ Untouched

\* stop_obsolete: only the runs created before the head was looked up.
Supersede(head, seen) ==
    LET old == Obsolete(head) \cap seen
    IN  /\ old # {}
        /\ run' = Stopped(old)
        /\ job' = JobsStopped(old)
        /\ UNCHANGED <<work, jobOf, deadline>> /\ Untouched

Cancel(r) ==
    /\ run[r].status \in Live
    /\ run' = Stopped({r})
    /\ job' = JobsStopped({r})
    /\ UNCHANGED <<work, jobOf, deadline>> /\ Untouched

\* Slip: the run has ended, so nobody looks whether its job has.
ReviveAtOnce(r, kind) ==
    /\ ~run[r].deleted
    /\ deadline[r] # "hard"
    /\ run' = [run EXCEPT ![r].status = "queued"]
    /\ \E j \in ReviewJob :
          /\ job[j].status = "absent"
          /\ job' = Enqueued(job, j)
          /\ jobOf' = [jobOf EXCEPT ![j] = [run |-> r, kind |-> kind]]
    /\ UNCHANGED deadline /\ Untouched

\* What both retries require and do: a run that ended, in time, without a job.
Revive(r, kind) ==
    /\ ~run[r].deleted
    /\ deadline[r] # "hard"
    /\ ~HasActiveJob(r)
    /\ run' = [run EXCEPT ![r].status = "queued"]
    /\ \E j \in ReviewJob :
          /\ job[j].status = "absent"
          /\ job' = Enqueued(job, j)
          /\ jobOf' = [jobOf EXCEPT ![j] = [run |-> r, kind |-> kind]]
    /\ UNCHANGED deadline /\ Untouched

Retry(r) ==
    /\ run[r].status \in {"partial", "failed"}
    /\ Revive(r, "review")
    /\ work' = [work EXCEPT ![r] = Requeued(@, WorkStatus \ {"absent", "completed"})]

RetryOverview(r) ==
    /\ run[r].status \in {"completed", "partial", "failed"}
    /\ Revive(r, "overview")
    /\ UNCHANGED work

Delete(r) ==
    /\ run[r].status \in TERMINAL
    /\ ~run[r].deleted
    /\ ~HasActiveJob(r)
    /\ run' = [run EXCEPT ![r].deleted = TRUE]
    /\ work' = [work EXCEPT ![r] = [i \in Item |-> NoItem]]
    /\ UNCHANGED <<job, jobOf, deadline>> /\ Untouched

-----------------------------------------------------------------------------
(* Processes: the steps of JobQueue with what they mean for the reviews *)

\* reap_exhausted: the runs of buried jobs end with what they have.
Exhausted(items) ==
    [i \in Item |-> IF items[i].status \in {"queued", "running"}
                       THEN [items[i] EXCEPT !.status = "interrupted"] ELSE items[i]]

\* Slip: a run whose job died counts as partial at best.
ReapedStatusAtBest(items) == IF HasCandidate(items) THEN "partial" ELSE "failed"

ReapedStatus(items) ==
    IF ~HasCandidate(items) /\ \A i \in Item : items[i].status # "completed"
    THEN "failed" ELSE Outcome(items)

\* Slip: the job is buried, its run is forgotten.
ReapNothing(d) == UNCHANGED <<run, work>>

Reap(d) ==
    LET reaped == {r \in Run : /\ \E j \in JobsOf(r) : j \in Buried(d)
                               /\ run[r].status \in Live /\ ~run[r].deleted}
    IN  /\ work' = [r \in Run |-> IF r \in reaped THEN Exhausted(work[r]) ELSE work[r]]
        /\ run' = [r \in Run |-> IF r \in reaped
                                    THEN WithReport(run[r], ReapedStatus(work'[r]))
                                    ELSE run[r]]

ClaimReview(w, d) ==
    /\ ClaimJob(w, d, LiveJobs)
    /\ Reap(d)
    /\ handler' = [handler EXCEPT ![w].pc = "start"]
    /\ UNCHANGED <<jobOf, deadline, late>>

ClaimNoReview(w, d) ==
    /\ ClaimNothing(w, d, LiveJobs)
    /\ Reap(d)
    /\ UNCHANGED <<jobOf, deadline, handler, late>>

\* A step that may cancel the handler with all its agents.
MayInterrupt(w, step) ==
    /\ step
    /\ IF worker[w].phase = "running" /\ worker'[w].phase = "cancelled"
          THEN HandlerGone(w, AgentCalls(w) \cup OrchestratorCalls(w))
          ELSE UNCHANGED <<handler, late>>
    /\ UNCHANGED <<run, work, jobOf, deadline>>

\* An abandoned heartbeat renews nothing: its attempt is over.
Reports(w, d) ==
    /\ UNCHANGED <<stray, lifecycleVars>>
    /\ Complete(w, d) \/ Fail(w, d)

Dies(w) ==
    /\ Kill(w)
    /\ handler' = [handler EXCEPT ![w] = NoHandler]
    /\ late' = {c \in late : c.lease.owner # w}
    /\ UNCHANGED <<run, work, jobOf, deadline>>

Polls(w) == (Start(w) \/ StartClaim(w)) /\ UNCHANGED lifecycleVars

DeadlinePasses(r) ==
    /\ run[r].status # "absent"
    /\ \E next \in Deadlines :
          /\ <<deadline[r], next>> \in {<<"open", "cutoff">>, <<"cutoff", "hard">>}
          /\ deadline' = [deadline EXCEPT ![r] = next]
    /\ UNCHANGED <<queueVars, run, work, jobOf, handler, late>>

TimePasses == Tick /\ UNCHANGED lifecycleVars

-----------------------------------------------------------------------------
OrchestratorStep(w) ==
    \/ Look(w) \/ Judge(w) \/ Drain(w) \/ SkipPastCutoff(w) \/ Refuse(w)
    \/ StartAgent(w) \/ Dispatched(w) \/ Await(w) \/ BuildFacts(w) \/ Save(w)

HandlerStep(w) ==
    LookUp(w) \/ Prepared(w) \/ Begin(w) \/ Throws(w) \/ OrchestratorStep(w)

AgentEnds(w, i) ==
    AgentStops(w, i) \/ \E s \in {"completed", "failed", "interrupted"} : Finish(w, i, s)

ProcessStep(w) ==
    \/ Polls(w) \/ Dies(w)
    \/ \E d \in Age : ClaimReview(w, d) \/ ClaimNoReview(w, d) \/ Reports(w, d)
                      \/ MayInterrupt(w, Heartbeat(w, d))
    \/ MayInterrupt(w, Stop(w)) \/ MayInterrupt(w, CancelHandler(w))

CallerStep(r) ==
    \/ \E h \in Head, seen \in SUBSET Run : Create(r, h, seen)
    \/ Cancel(r) \/ Retry(r) \/ RetryOverview(r) \/ Delete(r)

ReviewNext ==
    \/ \E r \in Run : CallerStep(r) \/ DeadlinePasses(r)
    \/ \E h \in Head, seen \in SUBSET Run : Supersede(h, seen)
    \/ \E w \in ReviewWorker : ProcessStep(w) \/ HandlerStep(w)
    \/ \E w \in ReviewWorker, u \in Unit : Submit(w, u) \/ Deliver(w, u)
    \/ \E w \in ReviewWorker, i \in Item : AgentEnds(w, i)
    \/ \E c \in late : LateCall(c)
    \/ TimePasses

ReviewSpec == LifecycleInit /\ [][ReviewNext]_vars

(***************************************************************************)
(* Fairness.  An agent ends: its model calls and tool calls are counted    *)
(* and each has a timeout.  The orchestrator awaits only those and short   *)
(* transactions.  A call left behind, a mishap, a deadline, a shutdown and *)
(* a caller need never come.                                               *)
(***************************************************************************)
ReviewProgress(w) ==
    /\ WF_vars(Polls(w))
    /\ WF_vars(\E d \in Age : ClaimReview(w, d) \/ ClaimNoReview(w, d))
    /\ WF_vars(HandlerStep(w))
    /\ \A i \in Item : WF_vars(AgentEnds(w, i))
    /\ WF_vars(\E d \in Age : Reports(w, d))

FairReviewSpec ==
    ReviewSpec /\ WF_vars(TimePasses) /\ \A w \in ReviewWorker : ReviewProgress(w)

-----------------------------------------------------------------------------
(* Safety *)

\* Reviewed with all its material, or verified.
Settled(items) ==
    {i \in Item : items[i].status = "completed" /\ (i \in Unit => items[i].clean)}

\* A review is called completed only when every unit was reviewed with all its
\* material and every candidate was verified, also when the report was built
\* before a model call and saved after it.
CompletedMeansReviewed ==
    \A r \in Run :
        run[r].status = "completed" /\ ~run[r].deleted =>
            \A i \in Item : work[r][i].status # "absent" => i \in Settled(work[r])

\* A review has one job at most that any process may run.
OneActiveJob ==
    \A r \in Run : \A j, k \in JobsOf(r) :
        job[j].status \in Active /\ job[k].status \in Active => j = k

\* No process has work to do for a review that was cancelled or deleted: such
\* a job could neither be granted nor ever end.
ActiveJobsAreLive ==
    \A j \in ReviewJob : job[j].status \in Active => j \in LiveJobs

\* Both together: whatever a process may run is the one job of a live review.
OneLiveJob == OneActiveJob /\ ActiveJobsAreLive

\* A review that is not over has a job that will take it further.
RunHasDriver ==
    \A r \in Run : run[r].status \in Live => HasActiveJob(r)

\* Open, and no job will take it further.
Stranded(r) == run[r].status \in Live /\ ~HasActiveJob(r)

\* Who may strand a review: its own handler, when its last attempt ends in an
\* exception outside of fail_run or is cancelled by a shutdown; or when it
\* returned without an outcome, stopped by the hard deadline or taken for
\* stopped by a stale clock.  Nothing else does: no crash, lost lease, buried
\* job, retry, deletion or newer head, and no exception that fail_run reports.
StrandedByItsHandler ==
    [][\A r \in Run : ~Stranded(r) /\ Stranded(r)' =>
          \E w \in ReviewWorker :
             /\ \/ /\ worker[w].phase \in {"raised", "cancelled"}
                   /\ job[worker[w].job].attempts >= job[worker[w].job].max
                \/ /\ worker[w].phase = "returned"
                   /\ deadline[r] = "hard" \/ ClockLag > 0
             /\ RunOf(w) = r /\ worker'[w].phase # worker[w].phase]_vars

\* What an agent has in memory agrees with the database for as long as its
\* lease holds: its item is running, in the very attempt the agent makes.
AgentsOwnTheirItems ==
    \A w \in ReviewWorker :
        worker[w].phase = "running" /\ Fence(LeaseOf(w)) =>
            \A i \in Working(w) :
                /\ work[RunOf(w)][i].status = "running"
                /\ work[RunOf(w)][i].try = handler[w].agent[i].try

\* Once a newer attempt of a job runs, a call that an older one left behind in
\* a thread, of the same process even, changes nothing.
LateCallsAreFenced ==
    [][\A c \in late \ late' :
          (\E w \in ReviewWorker : /\ worker[w].phase = "running"
                                   /\ worker[w].job = c.lease.job
                                   /\ worker[w].attempt > c.lease.attempt)
          => UNCHANGED <<run, work>>]_vars

\* A retry of the overview adds text to a complete review; whatever becomes of
\* it, the review stays complete.
OverviewKeepsOutcome ==
    [][\A r \in Run : run[r].report = "completed" => run'[r].report = "completed"]_vars

\* What may take a complete report away is an exception nobody planned for, and
\* nothing else: no lost lease, no crash, no late call, no dead job.
OutcomeLostOnlyByExceptions ==
    [][\A r \in Run :
          run[r].report = "completed" /\ run'[r].report # "completed" =>
              \E w \in ReviewWorker : /\ worker[w].phase = "running" /\ RunOf(w) = r
                                      /\ worker'[w].phase = "fatal"]_vars

(* Liveness *)

\* A review that was accepted ends, whatever processes crash and whatever
\* leases are lost on the way, while one process keeps polling.
ReviewsEnd ==
    \A r \in Run : run[r].status \in Live ~> run[r].status \notin Live

-----------------------------------------------------------------------------
(* A review keeps its promise: the lifecycle implements ReviewPromise. *)

Promise == INSTANCE ReviewPromise WITH
    Scope   <- Unit,
    status  <- [r \in Run |-> IF run[r].deleted THEN "erased" ELSE run[r].status],
    known   <- [r \in Run |-> {i \in Item : work[r][i].status # "absent"}],
    settled <- [r \in Run |-> Settled(work[r])]

\* Every step of handlers, agents, callers and left-behind calls is a step of
\* the promise for each review.
KeepsPromise == Promise!PromiseSpec
=============================================================================
