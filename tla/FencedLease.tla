---------------------------- MODULE FencedLease ----------------------------
(***************************************************************************)
(* What the job queue promises, without clocks, rows or processes: every   *)
(* job has at most one holder at a time, every grant opens a new epoch,    *)
(* and only the worker of the latest epoch completes the job or takes a    *)
(* decision about it.  A failure is decided on at once and recorded later, *)
(* whatever became of the job in the meantime; each is recorded once, and  *)
(* it neither completes the job nor gives it to anybody.                   *)
(***************************************************************************)
EXTENDS Integers

CONSTANTS Job, Worker, Nobody

VARIABLES
    state,   \* what became of the job
    epoch,   \* how often it was granted
    last,    \* the worker that the latest epoch belongs to
    holder,  \* that worker while its lease runs
    decided  \* the workers whose failure is decided on and not yet recorded

leaseVars == <<state, epoch, last, holder, decided>>

LeaseInit ==
    /\ state = [j \in Job |-> "none"]
    /\ epoch = [j \in Job |-> 0]
    /\ last = [j \in Job |-> Nobody]
    /\ holder = [j \in Job |-> Nobody]
    /\ decided = [j \in Job |-> {}]

\* The next values of job j's lease, and of the decisions about it.
Lease(j, s, e, l, h) ==
    state'[j] = s /\ epoch'[j] = e /\ last'[j] = l /\ holder'[j] = h

Becomes(j, s, e, l, h) == Lease(j, s, e, l, h) /\ decided'[j] = decided[j]

Unleased(j, s) == Becomes(j, s, epoch[j], Nobody, Nobody)

SameLease(j) == Lease(j, state[j], epoch[j], last[j], holder[j])

Create(j) == state[j] = "none" /\ Becomes(j, "open", 0, Nobody, Nobody)

\* Nobody holds the job: a worker gets it, in a new epoch.  A lease that is
\* shorter than the wait for the database may be over when it is written.
Grant(j) ==
    /\ state[j] = "open" /\ holder[j] = Nobody
    /\ \E w \in Worker, h \in Worker \cup {Nobody} :
          /\ h \in {w, Nobody}
          /\ Becomes(j, "open", epoch[j] + 1, w, h)

Expire(j) == Becomes(j, state[j], epoch[j], last[j], Nobody)

\* A renewal on its way when the lease ran out still counts, as long as no
\* other worker was granted the job.
Resume(j) == state[j] = "open" /\ Becomes(j, "open", epoch[j], last[j], last[j])

\* The worker of the latest epoch reports.
Report(j) ==
    /\ state[j] = "open" /\ last[j] # Nobody
    /\ \E s \in {"open", "completed", "dead"} : Unleased(j, s)

\* The worker of the latest epoch decides that it failed; it has one such
\* decision under way at most.
Decide(j) ==
    /\ state[j] = "open" /\ last[j] # Nobody /\ last[j] \notin decided[j]
    /\ SameLease(j)
    /\ decided'[j] = decided[j] \cup {last[j]}

\* A decision is recorded, over whatever was granted or reported since ...
Record(j) ==
    \E w \in decided[j], s \in {"open", "dead"} :
        /\ Lease(j, s, epoch[j], Nobody, Nobody)
        /\ decided'[j] = decided[j] \ {w}

\* ... or dies with its worker.
Forget(j) ==
    \E w \in decided[j] : SameLease(j) /\ decided'[j] = decided[j] \ {w}

Bury(j) == state[j] = "open" /\ last[j] # Nobody /\ holder[j] = Nobody /\ Unleased(j, "dead")

Cancel(j) == state[j] = "open" /\ Unleased(j, "cancelled")

\* A caller asks for the job again, while nobody holds it.
Reopen(j) == state[j] # "none" /\ holder[j] = Nobody /\ Unleased(j, "open")

JobStep(j) ==
    \/ Create(j) \/ Grant(j) \/ Expire(j) \/ Resume(j) \/ Report(j)
    \/ Decide(j) \/ Record(j) \/ Forget(j) \/ Bury(j) \/ Cancel(j) \/ Reopen(j)

Same(j) == SameLease(j) /\ decided'[j] = decided[j]

\* One transaction may bury several jobs and grant another one.
LeaseNext == \A j \in Job : JobStep(j) \/ Same(j)

LeaseSpec == LeaseInit /\ [][LeaseNext]_leaseVars
=============================================================================
