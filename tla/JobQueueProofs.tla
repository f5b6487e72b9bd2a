--------------------------- MODULE JobQueueProofs ---------------------------
(***************************************************************************)
(* Proofs about JobQueue, for any number of jobs and processes, any lease, *)
(* any clock lag and any retry budget.                                     *)
(***************************************************************************)
EXTENDS JobQueue, TLAPS

USE JobQueueConstants DEF Job, Worker, Age

-----------------------------------------------------------------------------
(* Rows: what the operators that write a row return *)

\* The part of the invariant that speaks of one row.
GoodRow(row) ==
    /\ row \in JobRow
    /\ row.status = "leased" => row.owner # Nobody
    /\ row.status # "leased" => row.owner = Nobody /\ row.left = Expired
    /\ row.status = "absent" => row.attempts = 0
    /\ row.attempts <= row.max

\* A row with one column replaced by a value of that column is a row.
LEMMA SetColumn ==
  ASSUME NEW row \in JobRow
  PROVE  /\ \A x \in JobStatus : [row EXCEPT !.status = x] \in JobRow
         /\ \A x \in Worker \cup {Nobody} : [row EXCEPT !.owner = x] \in JobRow
         /\ \A x \in Int : [row EXCEPT !.left = x] \in JobRow
         /\ \A x \in Int : [row EXCEPT !.wait = x] \in JobRow
         /\ \A x \in Nat : [row EXCEPT !.attempts = x] \in JobRow
         /\ \A x \in Nat : [row EXCEPT !.max = x] \in JobRow
  BY DEF JobRow

\* Backoff is a delay.
LEMMA BackoffType == \A n \in Nat : Backoff(n) \in Int
  <1>1. \A n \in Nat : 2^n \in Int
    OBVIOUS
  <1> QED BY <1>1 DEF Backoff

\* A row that loses its lease keeps its attempts and has no owner.
LEMMA UnleasedRow ==
  ASSUME NEW row, GoodRow(row),
         NEW status \in JobStatus \ {"leased", "absent"}
  PROVE  /\ GoodRow(Unleased(row, status))
         /\ Unleased(row, status).status = status
         /\ Unleased(row, status).owner = Nobody
         /\ Unleased(row, status).left = Expired
         /\ Unleased(row, status).attempts = row.attempts
         /\ Unleased(row, status).max = row.max
  <1> DEFINE r1 == [row EXCEPT !.status = status]
             r2 == [r1 EXCEPT !.owner = Nobody]
             r3 == [r2 EXCEPT !.left = Expired]
  <1>0. Expired \in Int
    BY DEF Expired
  <1>1. r1 \in JobRow
    BY SetColumn DEF GoodRow
  <1>2. r2 \in JobRow
    <2> HIDE DEF r1
    <2> QED BY <1>1, SetColumn
  <1>3. r3 \in JobRow
    <2> HIDE DEF r2
    <2> QED BY <1>0, <1>2, SetColumn
  <1>4. r3 = Unleased(row, status)
    BY DEF Unleased
  <1> HIDE DEF r3
  <1>5. Unleased(row, status) \in JobRow
    BY <1>3, <1>4
  <1>6. /\ Unleased(row, status).status = status
        /\ Unleased(row, status).owner = Nobody
        /\ Unleased(row, status).left = Expired
        /\ Unleased(row, status).attempts = row.attempts
        /\ Unleased(row, status).max = row.max
    BY DEF Unleased, GoodRow, JobRow
  <1> QED BY <1>5, <1>6 DEF GoodRow

\* A new row is queued, unowned and unattempted.
LEMMA NewRowIsGood ==
  ASSUME NEW max \in Nat
  PROVE  /\ GoodRow(NewRow(max))
         /\ NewRow(max).status = "queued"
         /\ NewRow(max).owner = Nobody
         /\ NewRow(max).left = Expired
         /\ NewRow(max).attempts = 0
  <1> DEFINE older == {k \in Job : job[k].status # "absent"}
             r == [status |-> "queued", owner |-> Nobody, left |-> Expired,
                   wait |-> 0, attempts |-> 0, max |-> max, older |-> older]
  <1>1. NewRow(max) = r
    BY DEF NewRow
  <1>2. older \in SUBSET Job
    OBVIOUS
  <1> HIDE DEF older
  <1>3. r \in JobRow
    BY <1>2 DEF JobRow, JobStatus, Expired
  <1>4. /\ r.status = "queued" /\ r.owner = Nobody /\ r.left = Expired
        /\ r.attempts = 0 /\ r.max = max
    OBVIOUS
  <1> HIDE DEF r
  <1> QED BY <1>1, <1>3, <1>4 DEF GoodRow

\* A claimed row is leased to its worker in a new attempt.
LEMMA GrantedRow ==
  ASSUME NEW w \in Worker, NEW j \in Job, NEW d \in Age,
         GoodRow(job[j]), job[j].attempts < job[j].max
  PROVE  /\ GoodRow(Granted(w, j, d))
         /\ Granted(w, j, d).status = "leased"
         /\ Granted(w, j, d).owner = w
         /\ Granted(w, j, d).left = LeaseTicks - d
         /\ Granted(w, j, d).attempts = job[j].attempts + 1
         /\ Granted(w, j, d).max = job[j].max
  <1> DEFINE row == job[j]
             n == row.attempts + 1
             r1 == [row EXCEPT !.status = "leased"]
             r2 == [r1 EXCEPT !.owner = w]
             r3 == [r2 EXCEPT !.left = LeaseTicks - d]
             r4 == [r3 EXCEPT !.attempts = n]
  <1>0. row \in JobRow /\ n \in Nat
    BY DEF GoodRow, JobRow
  <1>1. r1 \in JobRow
    BY <1>0, SetColumn DEF JobStatus
  <1>2. r2 \in JobRow
    <2> HIDE DEF r1
    <2> QED BY <1>1, SetColumn
  <1>3. r3 \in JobRow
    <2> HIDE DEF r2
    <2>1. LeaseTicks - d \in Int
      OBVIOUS
    <2> QED BY <1>2, <2>1, SetColumn
  <1>4. r4 \in JobRow
    <2> HIDE DEF r3, n
    <2> QED BY <1>0, <1>3, SetColumn
  <1>5. r4 = Granted(w, j, d)
    BY DEF Granted
  <1> HIDE DEF r4
  <1>6. Granted(w, j, d) \in JobRow
    BY <1>4, <1>5
  <1>7. /\ Granted(w, j, d).status = "leased"
        /\ Granted(w, j, d).owner = w
        /\ Granted(w, j, d).left = LeaseTicks - d
        /\ Granted(w, j, d).attempts = job[j].attempts + 1
        /\ Granted(w, j, d).max = job[j].max
    BY DEF Granted, GoodRow, JobRow
  <1> QED BY <1>0, <1>6, <1>7 DEF GoodRow, JobRow

\* A failed row is unowned, in the status and after the delay of the verdict.
LEMMA FailedRowIsGood ==
  ASSUME NEW row, GoodRow(row), NEW verdict \in Verdict,
         verdict.status # "none", NEW d \in Age
  PROVE  /\ GoodRow(FailedRow(row, verdict, d))
         /\ FailedRow(row, verdict, d).status = verdict.status
         /\ FailedRow(row, verdict, d).status \in {"retry", "dead_letter"}
         /\ FailedRow(row, verdict, d).owner = Nobody
         /\ FailedRow(row, verdict, d).left = Expired
         /\ FailedRow(row, verdict, d).attempts = row.attempts
         /\ FailedRow(row, verdict, d).max = row.max
  <1> DEFINE u == Unleased(row, verdict.status)
             x == verdict.delay - d
  <1>1. verdict.status \in {"retry", "dead_letter"} /\ x \in Int
    BY DEF Verdict
  <1>2. /\ GoodRow(u) /\ u.status = verdict.status /\ u.owner = Nobody
        /\ u.left = Expired /\ u.attempts = row.attempts /\ u.max = row.max
    BY <1>1, UnleasedRow DEF JobStatus
  <1>3. FailedRow(row, verdict, d) = [u EXCEPT !.wait = x]
    BY DEF FailedRow
  <1> HIDE DEF u, x
  <1>4. [u EXCEPT !.wait = x] \in JobRow
    BY <1>1, <1>2, SetColumn DEF GoodRow
  <1> QED BY <1>1, <1>2, <1>3, <1>4 DEF GoodRow, JobRow

\* Renewing a lease, and letting time pass, change the count-downs only.
LEMMA RenewedRow ==
  ASSUME NEW row, GoodRow(row), row.status = "leased", NEW x \in Int
  PROVE  GoodRow([row EXCEPT !.left = x])
  <1>1. [row EXCEPT !.left = x] \in JobRow
    BY SetColumn DEF GoodRow
  <1> QED BY <1>1 DEF GoodRow, JobRow

\* Time passing ages the two count-downs of a row and touches nothing else.
LEMMA TickedRow ==
  ASSUME NEW row, GoodRow(row)
  PROVE  LET t == [row EXCEPT !.left = Down(@, Expired), !.wait = Down(@, Ready)]
         IN  /\ GoodRow(t)
             /\ t.status = row.status /\ t.owner = row.owner
             /\ t.left = Down(row.left, Expired)
             /\ t.attempts = row.attempts
             /\ t.max = row.max
  <1> DEFINE l == Down(row.left, Expired)
             x == Down(row.wait, Ready)
             r1 == [row EXCEPT !.left = l]
             t == [r1 EXCEPT !.wait = x]
  <1>1. l \in Int /\ x \in Int /\ (row.left = Expired => l = Expired)
    BY DEF GoodRow, JobRow, Down, Expired, Ready
  <1>2. /\ t.status = row.status /\ t.owner = row.owner
        /\ t.left = l /\ t.attempts = row.attempts /\ t.max = row.max
    BY DEF GoodRow, JobRow
  <1>3. t = [row EXCEPT !.left = Down(@, Expired), !.wait = Down(@, Ready)]
    BY DEF GoodRow, JobRow
  <1>4. r1 \in JobRow
    <2> HIDE DEF l
    <2> QED BY <1>1, SetColumn DEF GoodRow
  <1>5. t \in JobRow
    <2> HIDE DEF r1, x
    <2> QED BY <1>1, <1>4, SetColumn
  <1> HIDE DEF t, l
  <1>6. GoodRow(t)
    BY <1>1, <1>2, <1>5 DEF GoodRow
  <1>7. /\ t.status = row.status /\ t.owner = row.owner
        /\ t.left = Down(row.left, Expired) /\ t.attempts = row.attempts
        /\ t.max = row.max
    BY <1>2 DEF l
  <1> QED BY <1>3, <1>6, <1>7

\* enqueue of a known key, and the retry of a publication, reopen the row.
LEMMA RevivedRow ==
  ASSUME NEW row, GoodRow(row), row.status = "dead_letter",
         NEW new, new = [row EXCEPT !.status = "retry", !.wait = 0]
  PROVE  /\ GoodRow(new) /\ new.status = "retry" /\ new.owner = Nobody
         /\ new.left = Expired /\ new.attempts = row.attempts /\ new.max = row.max
  <1> DEFINE r1 == [row EXCEPT !.status = "retry"]
             r == [r1 EXCEPT !.wait = 0]
  <1>1. r1 \in JobRow
    BY SetColumn DEF GoodRow, JobStatus
  <1>2. r \in JobRow
    <2> HIDE DEF r1
    <2> QED BY <1>1, SetColumn
  <1>3. /\ r.status = "retry" /\ r.owner = row.owner /\ r.left = row.left
        /\ r.attempts = row.attempts /\ r.max = row.max
    BY DEF GoodRow, JobRow
  <1>4. r = new
    OBVIOUS
  <1> HIDE DEF r
  <1>5. GoodRow(r)
    BY <1>2, <1>3 DEF GoodRow
  <1> QED BY <1>3, <1>4, <1>5 DEF GoodRow

\* The retry of a publication frees the row and raises its allowance.
LEMMA ReopenedRow ==
  ASSUME NEW row, GoodRow(row),
         NEW new, new = [Unleased(row, "retry") EXCEPT
                            !.wait = 0, !.max = row.attempts + PublicationAttempts]
  PROVE  /\ GoodRow(new) /\ new.status = "retry" /\ new.owner = Nobody
         /\ new.left = Expired /\ new.attempts = row.attempts
  <1> DEFINE u == Unleased(row, "retry")
             m == row.attempts + PublicationAttempts
             r1 == [u EXCEPT !.wait = 0]
             r == [r1 EXCEPT !.max = m]
  <1>1. /\ GoodRow(u) /\ u.status = "retry" /\ u.owner = Nobody
        /\ u.left = Expired /\ u.attempts = row.attempts
    BY UnleasedRow DEF JobStatus
  <1>2. m \in Nat /\ row.attempts <= m
    BY DEF GoodRow, JobRow
  <1> HIDE DEF u, m
  <1>3. r1 \in JobRow
    BY <1>1, SetColumn DEF GoodRow
  <1>4. r \in JobRow
    <2> HIDE DEF r1
    <2> QED BY <1>2, <1>3, SetColumn
  <1>5. /\ r.status = u.status /\ r.owner = u.owner /\ r.left = u.left
        /\ r.attempts = u.attempts /\ r.max = m
    BY <1>1 DEF GoodRow, JobRow
  <1>6. r = [u EXCEPT !.wait = 0, !.max = m]
    OBVIOUS
  <1> HIDE DEF r
  <1>7. GoodRow(r)
    BY <1>1, <1>2, <1>4, <1>5 DEF GoodRow
  <1>8. r = new
    BY <1>6 DEF u, m
  <1> QED BY <1>1, <1>5, <1>7, <1>8

-----------------------------------------------------------------------------
(* Processes: what the operators that write a process's state return *)

\* A process's state with one field replaced stays a process's state.
LEMMA SetField ==
  ASSUME NEW s \in WorkerState
  PROVE  /\ \A x \in Phase : [s EXCEPT !.phase = x] \in WorkerState
         /\ \A x \in Job \cup {Nobody} : [s EXCEPT !.job = x] \in WorkerState
         /\ \A x \in Nat : [s EXCEPT !.attempt = x] \in WorkerState
         /\ \A x \in BOOLEAN : [s EXCEPT !.beating = x] \in WorkerState
         /\ \A x \in BOOLEAN : [s EXCEPT !.stopping = x] \in WorkerState
         /\ \A x \in Verdict : [s EXCEPT !.verdict = x] \in WorkerState
  BY DEF WorkerState

\* A process without a job is in the phase it was given.
LEMMA NoWorkType ==
  ASSUME NEW phase \in Phase, NEW stopping \in BOOLEAN
  PROVE  /\ NoWork(phase, stopping) \in WorkerState
         /\ NoWork(phase, stopping).phase = phase
  BY DEF NoWork, WorkerState, NoVerdict, Verdict

\* The verdict of fail() is a decision, with a delay.
LEMMA VerdictType ==
  ASSUME NEW w \in Worker, NEW row \in JobRow
  PROVE  VerdictOn(w, row) \in Verdict /\ VerdictOn(w, row).status # "none"
  <1>1. Backoff(row.attempts) \in Int
    BY BackoffType DEF JobRow
  <1> QED BY <1>1 DEF VerdictOn, Verdict

-----------------------------------------------------------------------------
(* What every step but a claim does to the invariant *)

\* Rows stay good and no attempt number decreases.
RowsStep ==
    /\ job' \in [Job -> JobRow]
    /\ \A j \in Job : GoodRow(job'[j]) /\ job[j].attempts <= job'[j].attempts

\* Whoever holds a claim after the step held the same one before it.
WorkersStep ==
    /\ worker' \in [Worker -> WorkerState]
    /\ \A w \in Worker :
          worker'[w].phase \in Holding
          => /\ worker[w].phase \in Holding
             /\ worker'[w].job = worker[w].job
             /\ worker'[w].attempt = worker[w].attempt
    /\ PendingVerdicts'

\* The heartbeat a process holds, as it would be abandoned.
TicketOf(w) ==
    [owner |-> w, job |-> worker[w].job, attempt |-> worker[w].attempt]

\* A heartbeat is abandoned only by a process that gives up its claim.
StraysStep ==
    \A t \in stray' :
        \/ t \in stray
        \/ \E w \in Worker : /\ worker[w].phase \in Holding
                            /\ worker'[w].phase \notin Holding
                            /\ t = TicketOf(w)

\* The rows of the invariant, as one fact per row.
LEMMA InvRows ==
  ASSUME QueueInv
  PROVE  \A j \in Job : GoodRow(job[j])
  BY DEF QueueInv, QueueTypeOK, RowsConsistent, AttemptsWithinBudget, GoodRow

\* The ticket of a holding process is a ticket of a granted attempt.
LEMMA TicketType ==
  ASSUME QueueInv, NEW w \in Worker, worker[w].phase \in Holding
  PROVE  /\ TicketOf(w) \in Ticket
         /\ TicketOf(w).job = worker[w].job
         /\ TicketOf(w).attempt = worker[w].attempt
  <1>1. worker[w].job \in Job /\ worker[w].attempt \in Nat
    BY DEF QueueInv, QueueTypeOK, WorkerState, AttemptsWereGranted
  <1> QED BY <1>1 DEF TicketOf, Ticket

\* Steps of this kind keep the invariant.
LEMMA StepKeepsInv ==
  ASSUME QueueInv, RowsStep, WorkersStep, StraysStep
  PROVE  QueueInv'
  <1>1. QueueTypeOK'
    <2>1. stray' \subseteq Ticket
      BY TicketType DEF StraysStep, QueueInv, QueueTypeOK
    <2> QED BY <2>1 DEF RowsStep, WorkersStep, QueueTypeOK
  <1>2. RowsConsistent' /\ AttemptsWithinBudget'
    BY DEF RowsStep, GoodRow, RowsConsistent, AttemptsWithinBudget
  <1>3. PendingVerdicts'
    BY DEF WorkersStep
  <1>4. AttemptsWereGranted'
    <2>1. ASSUME NEW w \in Worker, worker'[w].phase \in Holding
          PROVE  worker'[w].job \in Job /\ worker'[w].attempt <= job'[worker'[w].job].attempts
      <3>1. /\ worker[w].phase \in Holding
            /\ worker'[w].job = worker[w].job /\ worker'[w].attempt = worker[w].attempt
        BY <2>1 DEF WorkersStep
      <3>2. worker[w].job \in Job /\ worker[w].attempt <= job[worker[w].job].attempts
        BY <3>1 DEF QueueInv, AttemptsWereGranted
      <3>3. /\ worker[w].attempt \in Nat
            /\ job[worker[w].job].attempts \in Nat
            /\ job'[worker[w].job].attempts \in Nat
        BY <3>2 DEF QueueInv, QueueTypeOK, WorkerState, JobRow, RowsStep
      <3> QED BY <3>1, <3>2, <3>3 DEF RowsStep
    <2>2. ASSUME NEW t \in stray'
          PROVE  t.attempt <= job'[t.job].attempts
      <3>1. t \in Ticket /\ t.attempt <= job[t.job].attempts
        BY <2>2, TicketType DEF StraysStep, QueueInv, QueueTypeOK, AttemptsWereGranted
      <3>2. /\ t.attempt \in Nat /\ t.job \in Job
            /\ job[t.job].attempts \in Nat /\ job'[t.job].attempts \in Nat
        BY <3>1 DEF Ticket, QueueInv, QueueTypeOK, JobRow, RowsStep
      <3> QED BY <3>1, <3>2 DEF RowsStep
    <2> QED BY <2>1, <2>2 DEF AttemptsWereGranted
  <1>5. AttemptIsAToken'
    <2>1. ASSUME NEW v \in Worker, NEW w \in Worker,
                 worker'[v].phase \in Holding, worker'[w].phase \in Holding,
                 worker'[v].job = worker'[w].job,
                 worker'[v].attempt = worker'[w].attempt
          PROVE  v = w
      BY <2>1 DEF WorkersStep, QueueInv, AttemptIsAToken
    <2>2. ASSUME NEW w \in Worker, NEW t \in stray',
                 worker'[w].phase \in Holding, worker'[w].job = t.job
          PROVE  worker'[w].attempt # t.attempt
      <3>1. CASE t \in stray
        BY <2>2, <3>1 DEF WorkersStep, QueueInv, AttemptIsAToken
      <3>2. CASE \E v \in Worker : /\ worker[v].phase \in Holding
                                   /\ worker'[v].phase \notin Holding
                                   /\ t = TicketOf(v)
        <4>1. PICK v \in Worker : /\ worker[v].phase \in Holding
                                  /\ worker'[v].phase \notin Holding
                                  /\ t = TicketOf(v)
          BY <3>2
        <4>2. v # w /\ t.job = worker[v].job /\ t.attempt = worker[v].attempt
          BY <2>2, <4>1, TicketType
        <4> QED BY <2>2, <4>1, <4>2 DEF WorkersStep, QueueInv, AttemptIsAToken
      <3> QED BY <3>1, <3>2 DEF StraysStep
    <2> QED BY <2>1, <2>2 DEF AttemptIsAToken
  <1> QED BY <1>1, <1>2, <1>3, <1>4, <1>5 DEF QueueInv

\* The table is left alone, or one of its rows replaced by a good one.
LEMMA RowsKept ==
  ASSUME QueueInv, job' = job
  PROVE  RowsStep
  <1>1. \A j \in Job : job[j].attempts <= job[j].attempts
    BY DEF QueueInv, QueueTypeOK, JobRow
  <1> QED BY <1>1, InvRows DEF RowsStep, QueueInv, QueueTypeOK

\* One row is replaced by a good one whose attempts did not go down.
LEMMA RowReplaced ==
  ASSUME QueueInv, NEW j \in Job, NEW row, GoodRow(row),
         job[j].attempts <= row.attempts,
         job' = [job EXCEPT ![j] = row]
  PROVE  RowsStep
  <1>1. \A k \in Job : job[k].attempts <= job[k].attempts
    BY DEF QueueInv, QueueTypeOK, JobRow
  <1>2. \A k \in Job : job'[k] = IF k = j THEN row ELSE job[k]
    BY DEF QueueInv, QueueTypeOK
  <1>3. job' \in [Job -> JobRow]
    BY DEF QueueInv, QueueTypeOK, GoodRow
  <1> QED BY <1>1, <1>2, <1>3, InvRows DEF RowsStep

\* The processes are left alone, or one of them replaced.
LEMMA WorkersKept ==
  ASSUME QueueInv, worker' = worker
  PROVE  WorkersStep
  BY DEF WorkersStep, QueueInv, QueueTypeOK, PendingVerdicts

\* One process is replaced by a well-typed one that claims nothing new.
LEMMA WorkerReplaced ==
  ASSUME QueueInv, NEW w \in Worker, NEW s \in WorkerState,
         s.phase \in Holding => /\ worker[w].phase \in Holding
                                /\ s.job = worker[w].job
                                /\ s.attempt = worker[w].attempt,
         s.phase = "failing" => FailRaces /\ s.verdict.status # "none",
         worker' = [worker EXCEPT ![w] = s]
  PROVE  WorkersStep
  <1>1. \A v \in Worker : worker'[v] = IF v = w THEN s ELSE worker[v]
    BY DEF QueueInv, QueueTypeOK
  <1>2. worker' \in [Worker -> WorkerState]
    BY DEF QueueInv, QueueTypeOK
  <1>3. PendingVerdicts'
    BY <1>1 DEF PendingVerdicts, QueueInv
  <1> QED BY <1>1, <1>2, <1>3 DEF WorkersStep

\* A process moves on to another phase with what it has.
LEMMA PhaseMoved ==
  ASSUME QueueInv, NEW w \in Worker, NEW p \in Phase, NEW b \in BOOLEAN,
         p \in Holding => worker[w].phase \in Holding,
         p = "failing" => worker[w].phase = "failing",
         worker' = [worker EXCEPT ![w].phase = p, ![w].beating = b]
  PROVE  WorkersStep
  <1> DEFINE r1 == [worker[w] EXCEPT !.phase = p]
             s == [r1 EXCEPT !.beating = b]
  <1>1. worker[w] \in WorkerState
    BY DEF QueueInv, QueueTypeOK
  <1>2. r1 \in WorkerState
    BY <1>1, SetField
  <1>3. s \in WorkerState
    <2> HIDE DEF r1
    <2> QED BY <1>2, SetField
  <1>4. /\ s.phase = p /\ s.job = worker[w].job /\ s.attempt = worker[w].attempt
        /\ s.verdict = worker[w].verdict
    BY <1>1 DEF WorkerState
  <1>5. worker' = [worker EXCEPT ![w] = s]
    BY DEF QueueInv, QueueTypeOK
  <1> HIDE DEF s
  <1>6. p = "failing" => FailRaces /\ worker[w].verdict.status # "none"
    BY DEF QueueInv, PendingVerdicts
  <1> QED BY <1>3, <1>4, <1>5, <1>6, WorkerReplaced

\* A process moves on to another phase and changes nothing else.
LEMMA PhaseSet ==
  ASSUME QueueInv, NEW w \in Worker, NEW p \in Phase,
         p \in Holding => worker[w].phase \in Holding,
         p # "failing",
         worker' = [worker EXCEPT ![w].phase = p]
  PROVE  WorkersStep
  <1> DEFINE s == [worker[w] EXCEPT !.phase = p]
  <1>1. worker[w] \in WorkerState
    BY DEF QueueInv, QueueTypeOK
  <1>2. s \in WorkerState
    BY <1>1, SetField
  <1>3. s.phase = p /\ s.job = worker[w].job /\ s.attempt = worker[w].attempt
    BY <1>1 DEF WorkerState
  <1>4. worker' = [worker EXCEPT ![w] = s]
    BY DEF QueueInv, QueueTypeOK
  <1> HIDE DEF s
  <1> QED BY <1>2, <1>3, <1>4, WorkerReplaced

\* The end of run_once gives the claim up, and may abandon its heartbeat.
LEMMA Released ==
  ASSUME QueueInv, NEW w \in Worker, worker[w].phase \in Holding, Release(w)
  PROVE  WorkersStep /\ StraysStep
  <1> DEFINE p == IF worker[w].stopping THEN "stopped" ELSE "idle"
             s == AfterRunOnce(w)
  <1>1. worker[w].stopping \in BOOLEAN
    BY DEF QueueInv, QueueTypeOK, WorkerState
  <1>2. s \in WorkerState /\ s.phase = p
    BY <1>1, NoWorkType DEF AfterRunOnce, Phase
  <1>3. p \notin Holding
    BY DEF Holding, Ended, Failed
  <1>4. worker' = [worker EXCEPT ![w] = s]
    BY DEF Release
  <1>5. worker'[w].phase \notin Holding
    BY <1>2, <1>3, <1>4 DEF QueueInv, QueueTypeOK
  <1>6. WorkersStep
    <2> HIDE DEF s
    <2> QED BY <1>2, <1>3, <1>4, WorkerReplaced DEF Holding
  <1>7. \A t \in stray' : t \in stray \/ t = TicketOf(w)
    BY DEF Release, TicketOf
  <1> QED BY <1>5, <1>6, <1>7 DEF StraysStep

-----------------------------------------------------------------------------
(* One lemma per action *)

\* enqueue() of a review: a new row with no attempts.
LEMMA EnqueueKeepsInv ==
  ASSUME QueueInv, NEW j \in ReviewJob, Enqueue(j)
  PROVE  QueueInv'
  <1> DEFINE row == NewRow(MaxAttempts)
  <1>1. GoodRow(row) /\ row.attempts = 0
    BY NewRowIsGood
  <1>2. job[j].attempts = 0
    BY InvRows DEF Enqueue, GoodRow
  <1>3. job' = [job EXCEPT ![j] = row]
    BY DEF Enqueue
  <1> HIDE DEF row
  <1>4. RowsStep
    <2>1. job[j].attempts <= row.attempts
      BY <1>1, <1>2
    <2> QED BY <1>1, <1>3, <2>1, RowReplaced
  <1>5. WorkersStep /\ StraysStep
    BY WorkersKept DEF Enqueue, StraysStep
  <1> QED BY <1>4, <1>5, StepKeepsInv

\* enqueue() of a publication: the same with its own allowance.
LEMMA EnqueuePublicationKeepsInv ==
  ASSUME QueueInv, NEW j \in PublicationJob, EnqueuePublication(j)
  PROVE  QueueInv'
  <1> DEFINE row == NewRow(PublicationAttempts)
  <1>1. GoodRow(row) /\ row.attempts = 0
    BY NewRowIsGood
  <1>2. job[j].attempts = 0
    BY InvRows DEF EnqueuePublication, GoodRow
  <1>3. job' = [job EXCEPT ![j] = row]
    BY DEF EnqueuePublication
  <1> HIDE DEF row
  <1>4. RowsStep
    <2>1. job[j].attempts <= row.attempts
      BY <1>1, <1>2
    <2> QED BY <1>1, <1>3, <2>1, RowReplaced
  <1>5. WorkersStep /\ StraysStep
    BY WorkersKept DEF EnqueuePublication, StraysStep
  <1> QED BY <1>4, <1>5, StepKeepsInv

\* enqueue() of a key it knows: a dead row becomes due again.
LEMMA EnqueueKnownKeyKeepsInv ==
  ASSUME QueueInv, NEW j \in ReviewJob, EnqueueKnownKey(j)
  PROVE  QueueInv'
  <1> DEFINE row == [job[j] EXCEPT !.status = "retry", !.wait = 0]
  <1>1. GoodRow(row) /\ row.attempts = job[j].attempts
    BY InvRows, RevivedRow DEF EnqueueKnownKey
  <1>2. job' = [job EXCEPT ![j] = row]
    BY DEF EnqueueKnownKey
  <1> HIDE DEF row
  <1>3. job[j].attempts <= row.attempts
    BY <1>1 DEF GoodRow, JobRow
  <1>4. RowsStep
    BY <1>1, <1>2, <1>3, RowReplaced
  <1>5. WorkersStep /\ StraysStep
    BY WorkersKept DEF EnqueueKnownKey, StraysStep
  <1> QED BY <1>4, <1>5, StepKeepsInv

\* The retry of a publication whose job nobody holds.
LEMMA ReopenPublicationKeepsInv ==
  ASSUME QueueInv, NEW j \in PublicationJob, ReopenPublication(j)
  PROVE  QueueInv'
  <1> DEFINE row == [Unleased(job[j], "retry") EXCEPT
                        !.wait = 0, !.max = job[j].attempts + PublicationAttempts]
  <1>1. GoodRow(row) /\ row.attempts = job[j].attempts
    BY InvRows, ReopenedRow
  <1>2. job' = [job EXCEPT ![j] = row]
    BY DEF ReopenPublication
  <1> HIDE DEF row
  <1>3. job[j].attempts <= row.attempts
    BY <1>1 DEF GoodRow, JobRow
  <1>4. RowsStep
    BY <1>1, <1>2, <1>3, RowReplaced
  <1>5. WorkersStep /\ StraysStep
    BY WorkersKept DEF ReopenPublication, StraysStep
  <1> QED BY <1>4, <1>5, StepKeepsInv

\* Cancelling or superseding a review takes its job from everybody.
LEMMA CancelJobKeepsInv ==
  ASSUME QueueInv, NEW j \in ReviewJob, CancelJob(j)
  PROVE  QueueInv'
  <1> DEFINE row == Unleased(job[j], "cancelled")
  <1>1. GoodRow(row) /\ row.attempts = job[j].attempts
    BY InvRows, UnleasedRow DEF JobStatus
  <1>2. job' = [job EXCEPT ![j] = row]
    BY DEF CancelJob, QueueInv, QueueTypeOK
  <1> HIDE DEF row
  <1>3. job[j].attempts <= row.attempts
    BY <1>1 DEF GoodRow, JobRow
  <1>4. RowsStep
    BY <1>1, <1>2, <1>3, RowReplaced
  <1>5. WorkersStep /\ StraysStep
    BY WorkersKept DEF CancelJob, StraysStep
  <1> QED BY <1>4, <1>5, StepKeepsInv

\* The rows after the first UPDATE of claim.
LEMMA BurialRows ==
  ASSUME QueueInv, NEW d \in Age
  PROVE  /\ AfterBurial(d) \in [Job -> JobRow]
         /\ \A j \in Job : /\ GoodRow(AfterBurial(d)[j])
                           /\ AfterBurial(d)[j].attempts = job[j].attempts
  <1>1. \A j \in Job : AfterBurial(d)[j] = IF j \in Buried(d)
                                           THEN Unleased(job[j], "dead_letter")
                                           ELSE job[j]
    BY DEF AfterBurial
  <1>2. \A j \in Job : /\ GoodRow(Unleased(job[j], "dead_letter"))
                       /\ Unleased(job[j], "dead_letter").attempts = job[j].attempts
    BY InvRows, UnleasedRow DEF JobStatus
  <1>3. \A j \in Job : GoodRow(job[j])
    BY InvRows
  <1>4. \A j \in Job : /\ GoodRow(AfterBurial(d)[j])
                       /\ AfterBurial(d)[j].attempts = job[j].attempts
    BY <1>1, <1>2, <1>3
  <1>5. AfterBurial(d) \in [Job -> JobRow]
    BY <1>4 DEF AfterBurial, GoodRow
  <1> QED BY <1>4, <1>5

\* A claim that only buries the exhausted jobs.
LEMMA ClaimNothingKeepsInv ==
  ASSUME QueueInv, NEW w \in Worker, NEW d \in Age, NEW live, ClaimNothing(w, d, live)
  PROVE  QueueInv'
  <1>1. RowsStep
    <2>1. job' = AfterBurial(d)
      BY DEF ClaimNothing
    <2>2. \A j \in Job : job[j].attempts <= job[j].attempts
      BY DEF QueueInv, QueueTypeOK, JobRow
    <2> QED BY <2>1, <2>2, BurialRows DEF RowsStep
  <1>2. WorkersStep
    <2> DEFINE p == IF worker[w].stopping THEN "stopped" ELSE "idle"
               s == AfterRunOnce(w)
    <2>1. worker[w].stopping \in BOOLEAN
      BY DEF QueueInv, QueueTypeOK, WorkerState
    <2>2. s \in WorkerState /\ s.phase = p
      BY <2>1, NoWorkType DEF AfterRunOnce, Phase
    <2>3. s.phase \notin Holding
      BY <2>2 DEF Holding, Ended, Failed
    <2>4. worker' = [worker EXCEPT ![w] = s]
      BY DEF ClaimNothing
    <2> HIDE DEF s
    <2> QED BY <2>2, <2>3, <2>4, WorkerReplaced DEF Holding
  <1>3. StraysStep
    BY DEF ClaimNothing, StraysStep
  <1> QED BY <1>1, <1>2, <1>3, StepKeepsInv

\* The loop of a process begins to claim.
LEMMA StartClaimKeepsInv ==
  ASSUME QueueInv, NEW w \in Worker, StartClaim(w)
  PROVE  QueueInv'
  <1>1. WorkersStep
    BY PhaseSet DEF StartClaim, Phase, Holding, Ended, Failed
  <1>2. RowsStep /\ StraysStep
    BY RowsKept DEF StartClaim, StraysStep
  <1> QED BY <1>1, <1>2, StepKeepsInv

\* The handler returns or raises.
LEMMA HandlerEndsKeepsInv ==
  ASSUME QueueInv, NEW w \in Worker, NEW how, HandlerEnds(w, how)
  PROVE  QueueInv'
  <1>1. how \in Phase /\ how # "failing" /\ worker[w].phase \in Holding
    BY DEF HandlerEnds, Phase, Holding, Ended, Failed
  <1>2. WorkersStep
    BY <1>1, PhaseSet DEF HandlerEnds
  <1>3. RowsStep /\ StraysStep
    BY RowsKept DEF HandlerEnds, StraysStep
  <1> QED BY <1>2, <1>3, StepKeepsInv

\* The handler is cancelled by a lost lease or by the user.
LEMMA CancelHandlerKeepsInv ==
  ASSUME QueueInv, NEW w \in Worker, CancelHandler(w)
  PROVE  QueueInv'
  <1>1. WorkersStep
    BY PhaseSet DEF CancelHandler, Phase, Holding, Ended, Failed
  <1>2. RowsStep /\ StraysStep
    BY RowsKept DEF CancelHandler, StraysStep
  <1> QED BY <1>1, <1>2, StepKeepsInv

\* A renewal writes the lease of a leased row.
LEMMA RenewalKeepsRows ==
  ASSUME QueueInv, NEW w, NEW j \in Job, NEW n, NEW d \in Age, Owns(w, j, n, d),
         job' = Renewed(j, d)
  PROVE  RowsStep
  <1> DEFINE row == [job[j] EXCEPT !.left = LeaseTicks - d]
  <1>0. LeaseTicks - d \in Int /\ GoodRow(job[j]) /\ job[j].status = "leased"
    BY InvRows DEF Owns
  <1>1. GoodRow(row)
    BY <1>0, RenewedRow
  <1>2. row.attempts = job[j].attempts /\ job[j].attempts \in Nat
    <2>1. job[j] \in JobRow
      BY InvRows DEF GoodRow
    <2> QED BY <2>1 DEF JobRow
  <1>3. job' = [job EXCEPT ![j] = row]
    BY DEF Renewed
  <1> HIDE DEF row
  <1>4. job[j].attempts <= row.attempts
    BY <1>2
  <1> QED BY <1>1, <1>3, <1>4, RowReplaced

\* A process that holds a claim holds a job of the table.
LEMMA HeldJob ==
  ASSUME QueueInv, NEW w \in Worker, worker[w].phase \in Holding
  PROVE  worker[w].job \in Job /\ worker[w].attempt \in Nat
  BY DEF QueueInv, QueueTypeOK, WorkerState, AttemptsWereGranted

\* A heartbeat renews the lease, or finds it lost and ends the handler.
LEMMA HeartbeatKeepsInv ==
  ASSUME QueueInv, NEW w \in Worker, NEW d \in Age, Heartbeat(w, d)
  PROVE  QueueInv'
  <1> DEFINE j == worker[w].job
             n == worker[w].attempt
             p == IF worker[w].phase = "running" THEN "cancelled" ELSE worker[w].phase
  <1>1. worker[w].phase \in Holding /\ j \in Job
    BY HeldJob DEF Heartbeat
  <1>2. StraysStep
    BY DEF Heartbeat, StraysStep
  <1>3. CASE Owns(w, j, n, d)
    <2>1. job' = Renewed(j, d) /\ worker' = worker
      BY <1>3 DEF Heartbeat
    <2> HIDE DEF j, n
    <2>2. RowsStep
      BY <1>1, <1>3, <2>1, RenewalKeepsRows
    <2> QED BY <1>2, <2>1, <2>2, WorkersKept, StepKeepsInv
  <1>4. CASE ~Owns(w, j, n, d)
    <2>1. job' = job /\ worker' = [worker EXCEPT ![w].phase = p, ![w].beating = FALSE]
      BY <1>4 DEF Heartbeat
    <2>2. p \in Phase /\ (p = "failing" => worker[w].phase = "failing")
      BY <1>1 DEF Phase, Holding, Ended, Failed
    <2> HIDE DEF p
    <2>3. WorkersStep
      BY <1>1, <2>1, <2>2, PhaseMoved
    <2> QED BY <1>2, <2>1, <2>3, RowsKept, StepKeepsInv
  <1> QED BY <1>3, <1>4

\* An abandoned heartbeat commits, or finds its lease gone.
LEMMA StrayHeartbeatKeepsInv ==
  ASSUME QueueInv, NEW t \in stray, NEW d \in Age, StrayHeartbeat(t, d)
  PROVE  QueueInv'
  <1>1. t.job \in Job
    BY DEF QueueInv, QueueTypeOK, Ticket
  <1>2. WorkersStep /\ StraysStep
    BY WorkersKept DEF StrayHeartbeat, StraysStep
  <1>3. RowsStep
    BY <1>1, RenewalKeepsRows, RowsKept DEF StrayHeartbeat
  <1> QED BY <1>2, <1>3, StepKeepsInv

\* complete() reports a handler that returned.
LEMMA CompleteKeepsInv ==
  ASSUME QueueInv, NEW w \in Worker, NEW d \in Age, Complete(w, d)
  PROVE  QueueInv'
  <1> DEFINE j == worker[w].job
             row == Unleased(job[j], "completed")
  <1>1. worker[w].phase \in Holding /\ j \in Job
    BY HeldJob DEF Complete, Holding, Ended
  <1>2. WorkersStep /\ StraysStep
    BY <1>1, Released DEF Complete
  <1>3. RowsStep
    <2>1. GoodRow(row) /\ row.attempts = job[j].attempts
      BY <1>1, InvRows, UnleasedRow DEF JobStatus
    <2>2. job' = job \/ job' = [job EXCEPT ![j] = row]
      BY DEF Complete
    <2> HIDE DEF row, j
    <2>3. job[j].attempts <= row.attempts
      BY <2>1 DEF GoodRow, JobRow
    <2> QED BY <1>1, <2>1, <2>2, <2>3, RowsKept, RowReplaced
  <1> QED BY <1>2, <1>3, StepKeepsInv

\* fail() reports a handler that raised, with nobody in between.
LEMMA FailKeepsInv ==
  ASSUME QueueInv, NEW w \in Worker, NEW d \in Age, Fail(w, d)
  PROVE  QueueInv'
  <1> DEFINE j == worker[w].job
             v == VerdictOn(w, job[j])
             row == FailedRow(job[j], v, d)
  <1>1. worker[w].phase \in Holding /\ j \in Job
    BY HeldJob DEF Fail, Holding, Ended
  <1>2. WorkersStep /\ StraysStep
    BY <1>1, Released DEF Fail
  <1>3. RowsStep
    <2>1. GoodRow(job[j])
      BY <1>1, InvRows
    <2>2. v \in Verdict /\ v.status # "none"
      BY <2>1, VerdictType DEF GoodRow
    <2>3. job' = job \/ job' = [job EXCEPT ![j] = row]
      BY DEF Fail
    <2> HIDE DEF v, j
    <2>4. GoodRow(row) /\ row.attempts = job[j].attempts
      BY <2>1, <2>2, FailedRowIsGood
    <2> HIDE DEF row
    <2>5. job[j].attempts <= row.attempts
      BY <2>4 DEF GoodRow, JobRow
    <2> QED BY <1>1, <2>3, <2>4, <2>5, RowsKept, RowReplaced
  <1> QED BY <1>2, <1>3, StepKeepsInv

\* The first half of fail(): the lease is checked, a verdict is drawn.
LEMMA FailReadsKeepsInv ==
  ASSUME QueueInv, NEW w \in Worker, NEW d \in Age, FailReads(w, d)
  PROVE  QueueInv'
  <1> DEFINE j == worker[w].job
             v == VerdictOn(w, job[j])
             r1 == [worker[w] EXCEPT !.phase = "failing"]
             s == [r1 EXCEPT !.verdict = v]
  <1>1. worker[w].phase \in Holding /\ j \in Job /\ worker[w] \in WorkerState
    BY HeldJob DEF FailReads, Holding, Ended, QueueInv, QueueTypeOK
  <1>2. v \in Verdict /\ v.status # "none"
    BY <1>1, InvRows, VerdictType DEF GoodRow
  <1>3. worker' = [worker EXCEPT ![w] = s]
    BY DEF FailReads
  <1> HIDE DEF v
  <1>4. r1 \in WorkerState
    BY <1>1, SetField DEF Phase, Holding
  <1>5. /\ s.phase = "failing" /\ s.job = worker[w].job
        /\ s.attempt = worker[w].attempt /\ s.verdict = v
    BY <1>1 DEF WorkerState
  <1>6. s \in WorkerState
    <2> HIDE DEF r1
    <2> QED BY <1>2, <1>4, SetField
  <1> HIDE DEF s
  <1>7. WorkersStep
    BY <1>1, <1>2, <1>3, <1>5, <1>6, WorkerReplaced DEF FailReads
  <1>8. RowsStep /\ StraysStep
    BY RowsKept DEF FailReads, StraysStep
  <1> QED BY <1>7, <1>8, StepKeepsInv

\* The second half of fail(): the verdict is written over whatever is there.
LEMMA FailWritesKeepsInv ==
  ASSUME QueueInv, NEW w \in Worker, NEW d \in Age, FailWrites(w, d)
  PROVE  QueueInv'
  <1> DEFINE j == worker[w].job
             v == worker[w].verdict
             row == FailedRow(job[j], v, d)
  <1>1. worker[w].phase \in Holding /\ j \in Job
    BY HeldJob DEF FailWrites, Holding
  <1>2. WorkersStep /\ StraysStep
    BY <1>1, Released DEF FailWrites
  <1>3. RowsStep
    <2>1. GoodRow(job[j])
      BY <1>1, InvRows
    <2>2. v \in Verdict /\ v.status # "none"
      BY DEF FailWrites, QueueInv, QueueTypeOK, WorkerState, PendingVerdicts
    <2>3. job' = [job EXCEPT ![j] = row]
      BY DEF FailWrites
    <2> HIDE DEF v, j
    <2>4. GoodRow(row) /\ row.attempts = job[j].attempts
      BY <2>1, <2>2, FailedRowIsGood
    <2> HIDE DEF row
    <2>5. job[j].attempts <= row.attempts
      BY <2>4 DEF GoodRow, JobRow
    <2> QED BY <1>1, <2>3, <2>4, <2>5, RowReplaced
  <1> QED BY <1>2, <1>3, StepKeepsInv

\* A process starts.
LEMMA StartKeepsInv ==
  ASSUME QueueInv, NEW w \in Worker, Start(w)
  PROVE  QueueInv'
  <1> DEFINE s == NoWork("idle", FALSE)
  <1>1. s \in WorkerState /\ s.phase = "idle"
    BY NoWorkType DEF Phase
  <1>2. worker' = [worker EXCEPT ![w] = s]
    BY DEF Start
  <1> HIDE DEF s
  <1>3. WorkersStep
    BY <1>1, <1>2, WorkerReplaced DEF Holding, Ended, Failed
  <1>4. RowsStep /\ StraysStep
    BY RowsKept DEF Start, StraysStep
  <1> QED BY <1>3, <1>4, StepKeepsInv

\* A process is told to shut down.
LEMMA StopKeepsInv ==
  ASSUME QueueInv, NEW w \in Worker, Stop(w)
  PROVE  QueueInv'
  <1> DEFINE p == CASE worker[w].phase = "idle" -> "stopped"
                    [] worker[w].phase = "running" /\ w \in ReviewWorker -> "cancelled"
                    [] OTHER -> worker[w].phase
             r1 == [worker[w] EXCEPT !.stopping = TRUE]
             s == [r1 EXCEPT !.phase = p]
  <1>1. worker[w] \in WorkerState
    BY DEF QueueInv, QueueTypeOK
  <1>2. worker' = [worker EXCEPT ![w] = s]
    BY DEF Stop, QueueInv, QueueTypeOK
  <1>3. /\ p \in Phase
        /\ p \in Holding => worker[w].phase \in Holding
        /\ p = "failing" => worker[w].phase = "failing"
    BY <1>1 DEF WorkerState, Phase, Holding, Ended, Failed
  <1> HIDE DEF p
  <1>4. r1 \in WorkerState
    BY <1>1, SetField
  <1>5. /\ s.phase = p /\ s.job = worker[w].job
        /\ s.attempt = worker[w].attempt /\ s.verdict = worker[w].verdict
    BY <1>1 DEF WorkerState
  <1>6. s \in WorkerState
    <2> HIDE DEF r1
    <2> QED BY <1>3, <1>4, SetField
  <1> HIDE DEF s
  <1>7. p = "failing" => FailRaces /\ worker[w].verdict.status # "none"
    BY <1>3 DEF QueueInv, PendingVerdicts
  <1>8. WorkersStep
    BY <1>2, <1>3, <1>5, <1>6, <1>7, WorkerReplaced
  <1>9. RowsStep /\ StraysStep
    BY RowsKept DEF Stop, StraysStep
  <1> QED BY <1>8, <1>9, StepKeepsInv

\* A process dies and forgets everything it had in memory.
LEMMA KillKeepsInv ==
  ASSUME QueueInv, NEW w \in Worker, Kill(w)
  PROVE  QueueInv'
  <1> DEFINE s == NoWork("killed", FALSE)
  <1>1. s \in WorkerState /\ s.phase = "killed"
    BY NoWorkType DEF Phase
  <1>2. worker' = [worker EXCEPT ![w] = s]
    BY DEF Kill
  <1> HIDE DEF s
  <1>3. WorkersStep
    BY <1>1, <1>2, WorkerReplaced DEF Holding, Ended, Failed
  <1>4. RowsStep /\ StraysStep
    BY RowsKept DEF Kill, StraysStep
  <1> QED BY <1>3, <1>4, StepKeepsInv

\* A tick ages every row by one.
LEMMA TickKeepsInv ==
  ASSUME QueueInv, Tick
  PROVE  QueueInv'
  <1> DEFINE t(j) == [job[j] EXCEPT !.left = Down(@, Expired), !.wait = Down(@, Ready)]
  <1>1. \A j \in Job : GoodRow(t(j)) /\ t(j).attempts = job[j].attempts
    BY InvRows, TickedRow
  <1>2. job' = [j \in Job |-> t(j)]
    BY DEF Tick
  <1>3. \A j \in Job : job[j].attempts <= job[j].attempts
    BY DEF QueueInv, QueueTypeOK, JobRow
  <1> HIDE DEF t
  <1>4. RowsStep
    BY <1>1, <1>2, <1>3 DEF RowsStep, GoodRow
  <1>5. WorkersStep /\ StraysStep
    BY WorkersKept DEF Tick, StraysStep
  <1> QED BY <1>4, <1>5, StepKeepsInv

\* A claim adds a holder, and the number it gets is above every number that
\* was given out for the job before.
LEMMA ClaimJobKeepsInv ==
  ASSUME QueueInv, NEW w \in Worker, NEW d \in Age, NEW live, ClaimJob(w, d, live)
  PROVE  QueueInv'
  <1>1. PICK j \in Oldest(Candidates(w, d, live)) :
          /\ job' = [AfterBurial(d) EXCEPT ![j] = Granted(w, j, d)]
          /\ worker' = [worker EXCEPT ![w] =
                           [@ EXCEPT !.phase = "running", !.job = j,
                                     !.attempt = job[j].attempts + 1,
                                     !.beating = TRUE]]
    BY DEF ClaimJob
  <1>2. j \in Job /\ job[j].attempts < job[j].max /\ worker[w].phase = "claiming"
    BY DEF Oldest, Candidates, Serves, Eligible, ClaimJob
  <1>3. stray' = stray
    BY DEF ClaimJob
  <1> DEFINE n == job[j].attempts + 1
             r1 == [worker[w] EXCEPT !.phase = "running"]
             r2 == [r1 EXCEPT !.job = j]
             r3 == [r2 EXCEPT !.attempt = n]
             s == [r3 EXCEPT !.beating = TRUE]
  <1>4. worker[w] \in WorkerState /\ job[j].attempts \in Nat
    BY <1>2 DEF QueueInv, QueueTypeOK, JobRow
  <1>5. r1 \in WorkerState
    BY <1>4, SetField DEF Phase, Holding
  <1>6. r2 \in WorkerState
    <2> HIDE DEF r1
    <2> QED BY <1>2, <1>5, SetField
  <1>7. r3 \in WorkerState
    <2> HIDE DEF r2
    <2> QED BY <1>4, <1>6, SetField
  <1>8. s \in WorkerState
    <2> HIDE DEF r3
    <2> QED BY <1>7, SetField
  <1>9. s.phase = "running" /\ s.job = j /\ s.attempt = n
    BY <1>4 DEF WorkerState
  <1>10. worker' = [worker EXCEPT ![w] = s]
    BY <1>1
  <1> HIDE DEF s
  <1>11. /\ worker' \in [Worker -> WorkerState]
         /\ \A v \in Worker : worker'[v] = IF v = w THEN s ELSE worker[v]
    BY <1>8, <1>10 DEF QueueInv, QueueTypeOK
  <1>12. /\ GoodRow(Granted(w, j, d))
         /\ Granted(w, j, d).attempts = n
    BY <1>2, InvRows, GrantedRow
  <1>13. /\ job' \in [Job -> JobRow]
         /\ \A k \in Job : job'[k] = IF k = j THEN Granted(w, j, d) ELSE AfterBurial(d)[k]
    BY <1>1, <1>2, <1>12, BurialRows DEF GoodRow
  <1>14. \A k \in Job : GoodRow(job'[k])
    BY <1>12, <1>13, BurialRows
  <1>15. \A k \in Job : job'[k].attempts = IF k = j THEN n ELSE job[k].attempts
    BY <1>12, <1>13, BurialRows
  <1>16. \A k \in Job : job[k].attempts \in Nat /\ job[k].attempts <= job'[k].attempts
    BY <1>4, <1>15 DEF QueueInv, QueueTypeOK, JobRow
  <1>17. QueueTypeOK'
    BY <1>3, <1>11, <1>13 DEF QueueTypeOK, QueueInv
  <1>18. RowsConsistent' /\ AttemptsWithinBudget'
    BY <1>14 DEF GoodRow, RowsConsistent, AttemptsWithinBudget
  <1>19. PendingVerdicts'
    BY <1>9, <1>11 DEF PendingVerdicts, QueueInv
  <1>20. AttemptsWereGranted'
    <2>1. ASSUME NEW v \in Worker, worker'[v].phase \in Holding
          PROVE  worker'[v].job \in Job /\ worker'[v].attempt <= job'[worker'[v].job].attempts
      <3>1. CASE v = w
        BY <1>2, <1>4, <1>9, <1>11, <1>15, <3>1
      <3>2. CASE v # w
        <4>1. worker'[v] = worker[v] /\ worker[v].phase \in Holding
          BY <1>11, <2>1, <3>2
        <4>2. worker[v].job \in Job /\ worker[v].attempt \in Nat
          BY <4>1, HeldJob
        <4>3. worker[v].attempt <= job[worker[v].job].attempts
          BY <4>1 DEF QueueInv, AttemptsWereGranted
        <4>4. job'[worker[v].job].attempts \in Nat
          BY <1>13, <4>2 DEF JobRow
        <4> QED BY <1>16, <4>1, <4>2, <4>3, <4>4
      <3> QED BY <3>1, <3>2
    <2>2. ASSUME NEW t \in stray'
          PROVE  t.attempt <= job'[t.job].attempts
      <3>1. t \in stray /\ t.attempt \in Nat /\ t.job \in Job
        BY <1>3, <2>2 DEF QueueInv, QueueTypeOK, Ticket
      <3>2. t.attempt <= job[t.job].attempts
        BY <3>1 DEF QueueInv, AttemptsWereGranted
      <3>3. job'[t.job].attempts \in Nat
        BY <1>13, <3>1 DEF JobRow
      <3> QED BY <1>16, <3>1, <3>2, <3>3
    <2> QED BY <2>1, <2>2 DEF AttemptsWereGranted
  <1>21. AttemptIsAToken'
    <2>1. \A v \in Worker : /\ v # w /\ worker'[v].phase \in Holding /\ worker'[v].job = j
                            => worker'[v].attempt # n
      <3>1. \A v \in Worker : /\ worker[v].phase \in Holding /\ worker[v].job = j
                              => worker[v].attempt \in Nat /\ worker[v].attempt <= job[j].attempts
        BY HeldJob DEF QueueInv, AttemptsWereGranted
      <3> QED BY <1>4, <1>11, <3>1
    <2>2. \A t \in stray : t.job = j => t.attempt # n
      <3>1. \A t \in stray : t.attempt \in Nat /\ t.attempt <= job[t.job].attempts
        BY DEF QueueInv, QueueTypeOK, Ticket, AttemptsWereGranted
      <3> QED BY <1>4, <3>1
    <2>3. ASSUME NEW v \in Worker, NEW u \in Worker,
                 worker'[v].phase \in Holding, worker'[u].phase \in Holding,
                 worker'[v].job = worker'[u].job,
                 worker'[v].attempt = worker'[u].attempt
          PROVE  v = u
      <3>1. CASE v = w \/ u = w
        BY <1>9, <1>11, <2>1, <2>3, <3>1
      <3>2. CASE v # w /\ u # w
        BY <1>11, <2>3, <3>2 DEF QueueInv, AttemptIsAToken
      <3> QED BY <3>1, <3>2
    <2>4. ASSUME NEW v \in Worker, NEW t \in stray',
                 worker'[v].phase \in Holding, worker'[v].job = t.job
          PROVE  worker'[v].attempt # t.attempt
      <3>1. CASE v = w
        BY <1>3, <1>9, <1>11, <2>2, <2>4, <3>1
      <3>2. CASE v # w
        BY <1>3, <1>11, <2>4, <3>2 DEF QueueInv, AttemptIsAToken
      <3> QED BY <3>1, <3>2
    <2> QED BY <2>3, <2>4 DEF AttemptIsAToken
  <1> QED BY <1>17, <1>18, <1>19, <1>20, <1>21 DEF QueueInv

-----------------------------------------------------------------------------
(* The invariant holds in every reachable state *)

\* An empty table and idle processes satisfy the inductive invariant.
LEMMA InitInv == QueueInit => QueueInv
  <1> SUFFICES ASSUME QueueInit PROVE QueueInv
    OBVIOUS
  <1>1. NoJob \in JobRow
    BY DEF NoJob, JobRow, JobStatus, Expired, Ready
  <1>2. NoWork("down", FALSE) \in WorkerState /\ NoWork("down", FALSE).phase = "down"
    BY NoWorkType DEF Phase
  <1>3. QueueTypeOK
    BY <1>1, <1>2 DEF QueueInit, QueueTypeOK
  <1>4. RowsConsistent /\ AttemptsWithinBudget
    BY DEF QueueInit, NoJob, RowsConsistent, AttemptsWithinBudget
  <1>5. AttemptsWereGranted /\ PendingVerdicts /\ AttemptIsAToken
    BY <1>2 DEF QueueInit, AttemptsWereGranted, PendingVerdicts, AttemptIsAToken,
                Holding, Ended, Failed
  <1> QED BY <1>3, <1>4, <1>5 DEF QueueInv

\* Every step of the queue, and every stutter, keeps the inductive invariant.
LEMMA NextKeepsInv == QueueInv /\ [QueueNext]_queueVars => QueueInv'
  <1> SUFFICES ASSUME QueueInv, [QueueNext]_queueVars PROVE QueueInv'
    OBVIOUS
  <1>1. ASSUME NEW j \in ReviewJob, Enqueue(j) \/ EnqueueKnownKey(j) \/ CancelJob(j)
        PROVE  QueueInv'
    BY <1>1, EnqueueKeepsInv, EnqueueKnownKeyKeepsInv, CancelJobKeepsInv
  <1>2. ASSUME NEW j \in PublicationJob, EnqueuePublication(j) \/ ReopenPublication(j)
        PROVE  QueueInv'
    BY <1>2, EnqueuePublicationKeepsInv, ReopenPublicationKeepsInv
  <1>3. ASSUME NEW w \in Worker, WorkerStep(w)
        PROVE  QueueInv'
    <2>1. CASE Start(w) \/ StartClaim(w) \/ Stop(w) \/ Kill(w) \/ CancelHandler(w)
      BY <2>1, StartKeepsInv, StartClaimKeepsInv, StopKeepsInv, KillKeepsInv,
         CancelHandlerKeepsInv
    <2>2. ASSUME NEW how \in Ended, HandlerEnds(w, how) PROVE QueueInv'
      BY <2>2, HandlerEndsKeepsInv
    <2>3. ASSUME NEW d \in Age, ClaimJob(w, d, Job) \/ ClaimNothing(w, d, Job)
          PROVE  QueueInv'
      BY <2>3, ClaimJobKeepsInv, ClaimNothingKeepsInv
    <2>4. ASSUME NEW d \in Age, Heartbeat(w, d) \/ Complete(w, d) \/ Fail(w, d)
                                 \/ FailReads(w, d) \/ FailWrites(w, d)
          PROVE  QueueInv'
      BY <2>4, HeartbeatKeepsInv, CompleteKeepsInv, FailKeepsInv, FailReadsKeepsInv,
         FailWritesKeepsInv
    <2> QED BY <1>3, <2>1, <2>2, <2>3, <2>4 DEF WorkerStep
  <1>4. ASSUME NEW t \in stray, NEW d \in Age, StrayHeartbeat(t, d)
        PROVE  QueueInv'
    BY <1>4, StrayHeartbeatKeepsInv
  <1>5. CASE Tick
    BY <1>5, TickKeepsInv
  <1>6. CASE UNCHANGED queueVars
    <2>1. RowsStep /\ WorkersStep /\ StraysStep
      BY <1>6, RowsKept, WorkersKept DEF queueVars, StraysStep
    <2> QED BY <2>1, StepKeepsInv
  <1> QED BY <1>1, <1>2, <1>3, <1>4, <1>5, <1>6 DEF QueueNext

\* The invariant, for any number of jobs and processes, and with the window
\* of fail() open: rows stay consistent, attempts stay within the budget of
\* the job, and attempt numbers stay unique among those who carry one.
THEOREM QueueInvariance == QueueSpec => []QueueInv
  <1>1. QueueInit => QueueInv
    BY InitInv
  <1>2. QueueInv /\ [QueueNext]_queueVars => QueueInv'
    BY NextKeepsInv
  <1> QED BY <1>1, <1>2, PTL DEF QueueSpec

\* Every row, process and abandoned heartbeat keeps its type.
THEOREM QueueTypeCorrect == QueueSpec => []QueueTypeOK
  <1>1. QueueInv => QueueTypeOK
    BY DEF QueueInv
  <1> QED BY <1>1, QueueInvariance, PTL

\* No job is claimed more often than its max_attempts column allows.
THEOREM AttemptsBounded == QueueSpec => []AttemptsWithinBudget
  <1>1. QueueInv => AttemptsWithinBudget
    BY DEF QueueInv
  <1> QED BY <1>1, QueueInvariance, PTL

\* The attempt number identifies the claim: no two processes, and no process
\* and an abandoned heartbeat, carry the same attempt of a job.
THEOREM AttemptsAreTokens == QueueSpec => []AttemptIsAToken
  <1>1. QueueInv => AttemptIsAToken
    BY DEF QueueInv
  <1> QED BY <1>1, QueueInvariance, PTL

-----------------------------------------------------------------------------
(* The nine things that can happen to a row *)

\* Status, owner and attempts stay; the count-downs may run.
Aged(j) ==
    /\ job'[j].status = job[j].status /\ job'[j].owner = job[j].owner
    /\ job'[j].attempts = job[j].attempts /\ job'[j].max = job[j].max
    /\ job'[j].left \in {job[j].left, Down(job[j].left, Expired)}

Created(j) ==
    /\ job[j].status = "absent" /\ job'[j].status = "queued"
    /\ job'[j].owner = Nobody /\ job'[j].left = Expired /\ job'[j].attempts = 0

Taken(j) ==
    \E w \in Worker, d \in Age :
        /\ Eligible(j, d)
        /\ job'[j].status = "leased" /\ job'[j].owner = w
        /\ job'[j].left = LeaseTicks - d
        /\ job'[j].attempts = job[j].attempts + 1 /\ job'[j].max = job[j].max

\* The row gets the status s, loses owner and lease and keeps its attempts;
\* only a publication job may be allowed more of them.
LetGo(j, s) ==
    /\ job'[j].status = s /\ job'[j].owner = Nobody
    /\ job'[j].left = Expired /\ job'[j].attempts = job[j].attempts
    /\ j \in ReviewJob => job'[j].max = job[j].max

Dead(j) == job[j].status = "leased" /\ job[j].left <= 0 /\ LetGo(j, "dead_letter")

Extended(j) ==
    /\ job[j].status = "leased" /\ job'[j].status = "leased"
    /\ job'[j].owner = job[j].owner /\ job'[j].attempts = job[j].attempts
    /\ job'[j].max = job[j].max

\* The holder of the latest attempt reports how it went, and lets go.
ReportedInTime(j) ==
    \E w \in Worker, s \in {"completed", "retry", "dead_letter"} :
        /\ job[j].status = "leased" /\ job[j].owner = w
        /\ worker[w].phase \in Ended /\ worker[w].job = j
        /\ worker[w].attempt = job[j].attempts
        /\ worker'[w].phase \notin Holding
        /\ s = "completed" => worker[w].phase = "returned"
        /\ s = "retry" => job[j].attempts < job[j].max
        /\ LetGo(j, s)

\* The second half of fail(), whatever became of the row since the first.
ReportedLate(j) ==
    \E w \in Worker :
        /\ worker[w].phase = "failing" /\ worker[w].job = j
        /\ worker'[w].phase \notin Holding
        /\ worker[w].verdict.status \in {"retry", "dead_letter"}
        /\ LetGo(j, worker[w].verdict.status)

CalledOff(j) == j \in ReviewJob /\ job[j].status \in Active /\ LetGo(j, "cancelled")

Reopened(j) ==
    /\ job[j].status # "absent" /\ ~(job[j].status = "leased" /\ job[j].left > 0)
    /\ j \in ReviewJob => job[j].status = "dead_letter"
    /\ LetGo(j, "retry")

Fate(j) ==
    \/ Aged(j) \/ Created(j) \/ Taken(j) \/ Dead(j) \/ Extended(j)
    \/ ReportedInTime(j) \/ ReportedLate(j) \/ CalledOff(j) \/ Reopened(j)

\* A row that an action leaves alone ages by nothing.
LEMMA KeptRow ==
  ASSUME NEW j \in Job, job'[j] = job[j]
  PROVE  Fate(j)
  BY DEF Fate, Aged

\* The row that an action replaces, the others being left alone.
LEMMA OneRow ==
  ASSUME QueueInv, NEW j \in Job, NEW row, job' = [job EXCEPT ![j] = row],
         job'[j] = row => Fate(j)
  PROVE  \A k \in Job : Fate(k)
  <1>1. \A k \in Job : job'[k] = IF k = j THEN row ELSE job[k]
    BY DEF QueueInv, QueueTypeOK
  <1> QED BY <1>1, KeptRow

\* An action that leaves the table alone ages every row by nothing.
LEMMA NoRow ==
  ASSUME job' = job
  PROVE  \A k \in Job : Fate(k)
  BY KeptRow

\* enqueue() creates one row.
LEMMA CreationFate ==
  ASSUME QueueInv, NEW j \in Job, NEW max \in Nat, job[j].status = "absent",
         job' = [job EXCEPT ![j] = NewRow(max)]
  PROVE  \A k \in Job : Fate(k)
  <1> DEFINE row == NewRow(max)
  <1>1. /\ row.status = "queued" /\ row.owner = Nobody
        /\ row.left = Expired /\ row.attempts = 0
    BY NewRowIsGood
  <1> HIDE DEF row
  <1>2. job'[j] = row => Fate(j)
    BY <1>1 DEF Fate, Created
  <1>3. job' = [job EXCEPT ![j] = row]
    BY DEF row
  <1> QED BY <1>2, <1>3, OneRow

\* enqueue() of a known key reopens one dead row.
LEMMA KnownKeyFate ==
  ASSUME QueueInv, NEW j \in ReviewJob, EnqueueKnownKey(j)
  PROVE  \A k \in Job : Fate(k)
  <1> DEFINE row == [job[j] EXCEPT !.status = "retry", !.wait = 0]
  <1>0. j \in Job /\ job[j].status = "dead_letter"
    BY DEF EnqueueKnownKey
  <1>1. /\ row.status = "retry" /\ row.owner = Nobody
        /\ row.left = Expired /\ row.attempts = job[j].attempts /\ row.max = job[j].max
    BY <1>0, InvRows, RevivedRow
  <1>2. job' = [job EXCEPT ![j] = row]
    BY DEF EnqueueKnownKey
  <1> HIDE DEF row
  <1>3. job'[j] = row => Fate(j)
    BY <1>0, <1>1 DEF Fate, Reopened, LetGo
  <1> QED BY <1>0, <1>2, <1>3, OneRow

\* The retry of a publication reopens one row whose lease is over.
LEMMA ReopeningFate ==
  ASSUME QueueInv, NEW j \in PublicationJob, ReopenPublication(j)
  PROVE  \A k \in Job : Fate(k)
  <1> DEFINE row == [Unleased(job[j], "retry") EXCEPT
                        !.wait = 0, !.max = job[j].attempts + PublicationAttempts]
  <1>0. /\ j \in Job /\ j \notin ReviewJob /\ job[j].status # "absent"
        /\ ~(job[j].status = "leased" /\ job[j].left > 0)
    BY DEF ReopenPublication
  <1>1. /\ row.status = "retry" /\ row.owner = Nobody
        /\ row.left = Expired /\ row.attempts = job[j].attempts
    BY <1>0, InvRows, ReopenedRow
  <1>2. job' = [job EXCEPT ![j] = row]
    BY DEF ReopenPublication
  <1> HIDE DEF row
  <1>3. job'[j] = row => Fate(j)
    BY <1>0, <1>1 DEF Fate, Reopened, LetGo
  <1> QED BY <1>0, <1>2, <1>3, OneRow

\* What Unleased does to a row, as the fate of the row.
LEMMA LetGoRow ==
  ASSUME QueueInv, NEW j \in Job, NEW s \in JobStatus \ {"leased", "absent"},
         job'[j] = Unleased(job[j], s)
  PROVE  LetGo(j, s)
  BY InvRows, UnleasedRow DEF LetGo

\* A cancellation stops the job of one review.
LEMMA CancelFate ==
  ASSUME QueueInv, NEW j \in ReviewJob, CancelJob(j)
  PROVE  \A k \in Job : Fate(k)
  <1> DEFINE row == Unleased(job[j], "cancelled")
  <1>0. j \in Job
    OBVIOUS
  <1>1. job' = [job EXCEPT ![j] = row]
    BY DEF CancelJob
  <1>2. job'[j] = row => LetGo(j, "cancelled")
    BY <1>0, LetGoRow DEF JobStatus
  <1> HIDE DEF row
  <1>3. job'[j] = row => Fate(j)
    BY <1>2 DEF CancelJob, Fate, CalledOff
  <1> QED BY <1>0, <1>1, <1>3, OneRow

\* A claim buries only jobs whose lease is over.
LEMMA BurialFate ==
  ASSUME QueueInv, NEW d \in Age, NEW j \in Job, job'[j] = AfterBurial(d)[j]
  PROVE  Fate(j)
  <1>1. CASE j \in Buried(d)
    <2>1. job'[j] = Unleased(job[j], "dead_letter")
      BY <1>1 DEF AfterBurial
    <2>2. LetGo(j, "dead_letter")
      BY <2>1, LetGoRow DEF JobStatus
    <2>3. job[j].status = "leased" /\ job[j].left <= -d
      BY <1>1 DEF Buried
    <2>4. job[j].left \in Int /\ d \in Int /\ d >= 0
      BY DEF QueueInv, QueueTypeOK, JobRow
    <2>5. job[j].left <= 0
      BY <2>3, <2>4
    <2> QED BY <2>2, <2>3, <2>5 DEF Fate, Dead
  <1>2. CASE j \notin Buried(d)
    BY <1>2, KeptRow DEF AfterBurial
  <1> QED BY <1>1, <1>2

\* A claim grants one row the next attempt and buries others.
LEMMA ClaimFate ==
  ASSUME QueueInv, NEW w \in Worker, NEW d \in Age, NEW live,
         ClaimJob(w, d, live) \/ ClaimNothing(w, d, live)
  PROVE  \A k \in Job : Fate(k)
  <1>1. CASE ClaimNothing(w, d, live)
    <2>1. job' = AfterBurial(d)
      BY <1>1 DEF ClaimNothing
    <2> QED BY <2>1, BurialFate
  <1>2. CASE ClaimJob(w, d, live)
    <2>1. PICK j \in Oldest(Candidates(w, d, live)) :
            job' = [AfterBurial(d) EXCEPT ![j] = Granted(w, j, d)]
      BY <1>2 DEF ClaimJob
    <2>2. j \in Job /\ Eligible(j, d)
      <3>1. j \in Candidates(w, d, live)
        BY DEF Oldest
      <3> QED BY <3>1 DEF Candidates, Serves
    <2>3. job[j].attempts < job[j].max
      BY <2>2 DEF Eligible
    <2>4. \A k \in Job : job'[k] = IF k = j THEN Granted(w, j, d) ELSE AfterBurial(d)[k]
      BY <2>1, BurialRows
    <2>5. /\ Granted(w, j, d).status = "leased" /\ Granted(w, j, d).owner = w
          /\ Granted(w, j, d).left = LeaseTicks - d
          /\ Granted(w, j, d).attempts = job[j].attempts + 1
          /\ Granted(w, j, d).max = job[j].max
      BY <2>2, <2>3, InvRows, GrantedRow
    <2>6. Fate(j)
      BY <2>2, <2>4, <2>5 DEF Fate, Taken
    <2> QED BY <2>4, <2>6, BurialFate
  <1> QED BY <1>1, <1>2

\* A heartbeat extends the lease of its own grant.
LEMMA RenewalFate ==
  ASSUME QueueInv, NEW w, NEW j \in Job, NEW n, NEW d \in Age, Owns(w, j, n, d),
         job' = Renewed(j, d)
  PROVE  \A k \in Job : Fate(k)
  <1> DEFINE row == [job[j] EXCEPT !.left = LeaseTicks - d]
  <1>1. job[j] \in JobRow /\ job[j].status = "leased"
    BY DEF Owns, QueueInv, QueueTypeOK
  <1>2. /\ row.status = "leased" /\ row.owner = job[j].owner
        /\ row.attempts = job[j].attempts /\ row.max = job[j].max
    BY <1>1 DEF JobRow
  <1>3. job' = [job EXCEPT ![j] = row]
    BY DEF Renewed
  <1> HIDE DEF row
  <1>4. job'[j] = row => Fate(j)
    BY <1>1, <1>2 DEF Fate, Extended
  <1> QED BY <1>3, <1>4, OneRow

\* Whoever lets go of its claim holds nothing afterwards.
LEMMA LetsGo ==
  ASSUME QueueInv, NEW w \in Worker, Release(w)
  PROVE  worker'[w].phase \notin Holding
  <1>1. worker[w].stopping \in BOOLEAN
    BY DEF QueueInv, QueueTypeOK, WorkerState
  <1>2. AfterRunOnce(w).phase \in {"stopped", "idle"}
    BY <1>1, NoWorkType DEF AfterRunOnce, Phase
  <1>3. worker'[w] = AfterRunOnce(w)
    BY DEF Release, QueueInv, QueueTypeOK
  <1> QED BY <1>2, <1>3 DEF Holding, Ended, Failed

\* complete() is a report of the holder, or changes nothing.
LEMMA CompletionFate ==
  ASSUME QueueInv, NEW w \in Worker, NEW d \in Age, Complete(w, d)
  PROVE  \A k \in Job : Fate(k)
  <1> DEFINE j == worker[w].job
             row == Unleased(job[j], "completed")
  <1>1. j \in Job
    BY HeldJob DEF Complete, Holding, Ended
  <1>2. CASE ~Owns(w, j, worker[w].attempt, d)
    BY <1>2, NoRow DEF Complete
  <1>3. CASE Owns(w, j, worker[w].attempt, d)
    <2>1. job' = [job EXCEPT ![j] = row]
      BY <1>3 DEF Complete
    <2>2. job'[j] = row => LetGo(j, "completed")
      BY <1>1, LetGoRow DEF JobStatus
    <2>3. worker'[w].phase \notin Holding
      BY LetsGo DEF Complete
    <2>4. job'[j] = row => ReportedInTime(j)
      BY <1>3, <2>2, <2>3 DEF ReportedInTime, Owns, Complete, Ended
    <2> HIDE DEF j, row
    <2> QED BY <1>1, <2>1, <2>4, OneRow DEF Fate
  <1> QED BY <1>2, <1>3

\* fail() without a gap is a report of the holder, or changes nothing.
LEMMA FailureFate ==
  ASSUME QueueInv, NEW w \in Worker, NEW d \in Age, Fail(w, d)
  PROVE  \A k \in Job : Fate(k)
  <1> DEFINE j == worker[w].job
             v == VerdictOn(w, job[j])
             row == FailedRow(job[j], v, d)
  <1>1. j \in Job /\ GoodRow(job[j])
    BY HeldJob, InvRows DEF Fail, Holding, Ended
  <1>2. CASE ~Owns(w, j, worker[w].attempt, d)
    BY <1>2, NoRow DEF Fail
  <1>3. CASE Owns(w, j, worker[w].attempt, d)
    <2>1. v \in Verdict /\ v.status # "none"
      BY <1>1, VerdictType DEF GoodRow
    <2>2. job' = [job EXCEPT ![j] = row]
      BY <1>3 DEF Fail
    <2>3. /\ job[j].status = "leased" /\ job[j].owner = w
          /\ worker[w].phase \in Ended /\ worker[w].job = j
          /\ worker[w].attempt = job[j].attempts
      BY <1>3 DEF Fail, Owns, Ended
    <2>4. worker'[w].phase \notin Holding
      BY LetsGo DEF Fail
    <2>5. v.status = "retry" => job[j].attempts < job[j].max
      BY DEF VerdictOn
    <2> HIDE DEF v, j
    <2>6. /\ row.status \in {"retry", "dead_letter"} /\ row.owner = Nobody
          /\ row.left = Expired /\ row.attempts = job[j].attempts
          /\ row.max = job[j].max /\ row.status = v.status
      BY <1>1, <2>1, FailedRowIsGood
    <2> HIDE DEF row
    <2>7. job'[j] = row => ReportedInTime(j)
      BY <2>3, <2>4, <2>5, <2>6 DEF ReportedInTime, LetGo
    <2> QED BY <1>1, <2>2, <2>7, OneRow DEF Fate
  <1> QED BY <1>2, <1>3

\* fail() whose row was read earlier may overwrite somebody else.
LEMMA LateFailureFate ==
  ASSUME QueueInv, NEW w \in Worker, NEW d \in Age, FailWrites(w, d)
  PROVE  \A k \in Job : Fate(k)
  <1> DEFINE j == worker[w].job
             v == worker[w].verdict
             row == FailedRow(job[j], v, d)
  <1>1. j \in Job /\ GoodRow(job[j])
    BY HeldJob, InvRows DEF FailWrites, Holding
  <1>2. v \in Verdict /\ v.status # "none" /\ worker[w].phase = "failing"
    BY DEF FailWrites, QueueInv, QueueTypeOK, WorkerState, PendingVerdicts
  <1>3. job' = [job EXCEPT ![j] = row]
    BY DEF FailWrites
  <1>4. worker'[w].phase \notin Holding
    BY LetsGo DEF FailWrites
  <1> HIDE DEF v
  <1>5. /\ row.status \in {"retry", "dead_letter"} /\ row.owner = Nobody
        /\ row.left = Expired /\ row.attempts = job[j].attempts
        /\ row.max = job[j].max /\ row.status = v.status
    BY <1>1, <1>2, FailedRowIsGood
  <1> HIDE DEF row
  <1>6. job'[j] = row => ReportedLate(j)
    BY <1>2, <1>4, <1>5 DEF ReportedLate, LetGo, v
  <1> HIDE DEF j
  <1> QED BY <1>1, <1>3, <1>6, OneRow DEF Fate

\* A tick ages every row.
LEMMA TickFate ==
  ASSUME QueueInv, Tick
  PROVE  \A k \in Job : Fate(k)
  <1> SUFFICES ASSUME NEW j \in Job PROVE Aged(j)
    BY DEF Fate
  <1>1. job'[j] = [job[j] EXCEPT !.left = Down(@, Expired), !.wait = Down(@, Ready)]
    BY DEF Tick
  <1>2. GoodRow(job[j])
    BY InvRows
  <1> QED BY <1>1, <1>2, TickedRow DEF Aged

\* Every step does one of the nine things to every row.
LEMMA RowFate ==
  ASSUME QueueInv, [QueueNext]_queueVars
  PROVE  \A k \in Job : Fate(k)
  <1>1. ASSUME NEW j \in ReviewJob, Enqueue(j) \/ EnqueueKnownKey(j) \/ CancelJob(j)
        PROVE  \A k \in Job : Fate(k)
    <2>1. j \in Job /\ MaxAttempts \in Nat
      OBVIOUS
    <2>2. CASE Enqueue(j)
      BY <2>1, <2>2, CreationFate DEF Enqueue
    <2> QED BY <1>1, <2>2, KnownKeyFate, CancelFate
  <1>2. ASSUME NEW j \in PublicationJob, EnqueuePublication(j) \/ ReopenPublication(j)
        PROVE  \A k \in Job : Fate(k)
    <2>1. j \in Job /\ PublicationAttempts \in Nat
      OBVIOUS
    <2>2. CASE EnqueuePublication(j)
      BY <2>1, <2>2, CreationFate DEF EnqueuePublication
    <2> QED BY <1>2, <2>2, ReopeningFate
  <1>3. ASSUME NEW w \in Worker, WorkerStep(w)
        PROVE  \A k \in Job : Fate(k)
    <2>1. CASE Start(w) \/ StartClaim(w) \/ Stop(w) \/ Kill(w) \/ CancelHandler(w)
      BY <2>1, NoRow DEF Start, StartClaim, Stop, Kill, CancelHandler
    <2>2. ASSUME NEW how \in Ended, HandlerEnds(w, how) PROVE \A k \in Job : Fate(k)
      BY <2>2, NoRow DEF HandlerEnds
    <2>3. ASSUME NEW d \in Age, ClaimJob(w, d, Job) \/ ClaimNothing(w, d, Job)
          PROVE  \A k \in Job : Fate(k)
      BY <2>3, ClaimFate
    <2>4. ASSUME NEW d \in Age, Heartbeat(w, d)
          PROVE  \A k \in Job : Fate(k)
      <3>1. worker[w].job \in Job
        BY <2>4, HeldJob DEF Heartbeat
      <3> QED BY <2>4, <3>1, NoRow, RenewalFate DEF Heartbeat
    <2>5. ASSUME NEW d \in Age, Complete(w, d) \/ Fail(w, d) \/ FailReads(w, d)
                                \/ FailWrites(w, d)
          PROVE  \A k \in Job : Fate(k)
      BY <2>5, CompletionFate, FailureFate, LateFailureFate, NoRow DEF FailReads
    <2> QED BY <1>3, <2>1, <2>2, <2>3, <2>4, <2>5 DEF WorkerStep
  <1>4. ASSUME NEW t \in stray, NEW d \in Age, StrayHeartbeat(t, d)
        PROVE  \A k \in Job : Fate(k)
    <2>1. t.job \in Job
      BY DEF QueueInv, QueueTypeOK, Ticket
    <2> QED BY <1>4, <2>1, NoRow, RenewalFate DEF StrayHeartbeat
  <1>5. CASE Tick
    BY <1>5, TickFate
  <1>6. CASE UNCHANGED queueVars
    BY <1>6, NoRow DEF queueVars
  <1> QED BY <1>1, <1>2, <1>3, <1>4, <1>5, <1>6 DEF QueueNext

-----------------------------------------------------------------------------
(* What the holder of a lease may rely on *)

\* A row becomes "completed" in no other way than by the report of a holder.
LEMMA StepCompletes ==
  ASSUME QueueInv, [QueueNext]_queueVars, NEW j \in Job,
         job[j].status # "completed", job'[j].status = "completed"
  PROVE  \E w \in Worker : /\ worker[w].phase = "returned"
                           /\ worker[w].job = j
                           /\ worker[w].attempt = job[j].attempts
  <1>1. Fate(j)
    BY RowFate
  <1>2. ReportedInTime(j)
    BY <1>1 DEF Fate, Aged, Created, Taken, Dead, Extended, ReportedLate, CalledOff,
                Reopened, LetGo
  <1> QED BY <1>2 DEF ReportedInTime, LetGo

\* Only a handler that returned normally, in the latest attempt of the job,
\* has the job recorded as completed; also while failures race.
THEOREM CompletionIsFenced == QueueSpec => CompletedByLatestAttempt
  <1>1. QueueInv /\ [QueueNext]_queueVars
          => [\A j \in Job :
                 job[j].status # "completed" /\ job'[j].status = "completed"
                 => \E w \in Worker : /\ worker[w].phase = "returned"
                                      /\ worker[w].job = j
                                      /\ worker[w].attempt = job[j].attempts]_queueVars
    BY StepCompletes
  <1> QED BY <1>1, QueueInvariance, PTL DEF QueueSpec, CompletedByLatestAttempt

\* Of the fates of a row, only cancellation and the two kinds of report end a
\* running lease, and none of them hands the job on.
LEMMA StepEndsLease ==
  ASSUME QueueInv, [QueueNext]_queueVars, NEW j \in Job,
         job[j].status = "leased", job[j].left > 0,
         <<job'[j].status, job'[j].owner, job'[j].attempts>>
            # <<job[j].status, job[j].owner, job[j].attempts>>
  PROVE  /\ job'[j].owner = Nobody /\ job'[j].attempts = job[j].attempts
         /\ \/ job'[j].status = "cancelled"
            \/ \E w \in Worker :
                  /\ worker[w].job = j
                  /\ \/ /\ worker[w].phase \in Ended
                        /\ worker[w].attempt = job[j].attempts
                     \/ /\ worker[w].phase = "failing"
                        /\ worker[w].attempt <= job[j].attempts
                        /\ job'[j].status = worker[w].verdict.status
  <1>1. Fate(j)
    BY RowFate
  <1>2. job[j].left \in Int
    BY DEF QueueInv, QueueTypeOK, JobRow
  <1>3. ~Aged(j) /\ ~Extended(j) /\ ~Created(j) /\ ~Reopened(j)
    BY DEF Aged, Extended, Created, Reopened
  <1>4. ~Dead(j)
    BY <1>2 DEF Dead
  <1>5. ~Taken(j)
    <2> SUFFICES ASSUME NEW d \in Age, Eligible(j, d) PROVE FALSE
      BY DEF Taken
    <2>1. job[j].left < -d /\ d \in Int /\ d >= 0
      BY DEF Eligible
    <2> QED BY <1>2, <2>1
  <1>6. CASE ReportedInTime(j) \/ CalledOff(j)
    BY <1>6 DEF ReportedInTime, CalledOff, LetGo
  <1>7. CASE ReportedLate(j)
    <2>1. PICK w \in Worker : /\ worker[w].phase = "failing" /\ worker[w].job = j
                              /\ LetGo(j, worker[w].verdict.status)
      BY <1>7 DEF ReportedLate
    <2>2. worker[w].attempt <= job[j].attempts
      BY <2>1 DEF QueueInv, AttemptsWereGranted, Holding
    <2> QED BY <2>1, <2>2 DEF LetGo
  <1> QED BY <1>1, <1>3, <1>4, <1>5, <1>6, <1>7 DEF Fate

\* Nobody is granted a job whose lease runs: the lease ends with the job held
\* by nobody, through the receipt of the latest attempt, a cancellation, or a
\* verdict that an attempt reached while it was the latest.
THEOREM LeasesEndInOrder == QueueSpec => LeaseEndsInOrder
  <1>1. QueueInv /\ [QueueNext]_queueVars
          => [\A j \in Job :
                /\ job[j].status = "leased" /\ job[j].left > 0
                /\ <<job'[j].status, job'[j].owner, job'[j].attempts>>
                      # <<job[j].status, job[j].owner, job[j].attempts>>
                => /\ job'[j].owner = Nobody /\ job'[j].attempts = job[j].attempts
                   /\ \/ job'[j].status = "cancelled"
                      \/ \E w \in Worker :
                            /\ worker[w].job = j
                            /\ \/ /\ worker[w].phase \in Ended
                                  /\ worker[w].attempt = job[j].attempts
                               \/ /\ worker[w].phase = "failing"
                                  /\ worker[w].attempt <= job[j].attempts
                                  /\ job'[j].status = worker[w].verdict.status]_queueVars
    BY StepEndsLease
  <1> QED BY <1>1, QueueInvariance, PTL DEF QueueSpec, LeaseEndsInOrder

-----------------------------------------------------------------------------
(* What can happen to a process *)

\* It goes on with the claim it holds, and with the verdict of its fail().
HoldsOn(w) ==
    /\ worker[w].phase \in Holding
    /\ worker'[w].job = worker[w].job /\ worker'[w].attempt = worker[w].attempt
    /\ worker'[w].phase = "failing"
       => \/ worker[w].phase = "failing" /\ worker'[w].verdict = worker[w].verdict
          \/ \E d \in Age : FailReads(w, d)

\* It was granted a job, which is leased now.
IsGranted(w) ==
    /\ worker'[w].phase = "running"
    /\ worker'[w].job \in Job /\ job'[worker'[w].job].status = "leased"

\* The gap of fail() ends with its second half, or with the process.
LeavesGap(w) == Kill(w) \/ \E d \in Age : FailWrites(w, d)

Career(w) ==
    /\ worker'[w].phase \in Holding => HoldsOn(w) \/ IsGranted(w)
    /\ worker[w].phase = "failing" /\ worker'[w].phase # "failing" => LeavesGap(w)

\* A process that a step leaves alone goes on.
LEMMA KeptWorker ==
  ASSUME NEW w \in Worker, worker'[w] = worker[w]
  PROVE  Career(w)
  BY DEF Career, HoldsOn

\* The process that a step replaces, the others being left alone.
LEMMA OneWorker ==
  ASSUME QueueInv, NEW w \in Worker, NEW s, worker' = [worker EXCEPT ![w] = s],
         worker'[w] = s => Career(w)
  PROVE  \A v \in Worker : Career(v)
  <1>1. \A v \in Worker : worker'[v] = IF v = w THEN s ELSE worker[v]
    BY DEF QueueInv, QueueTypeOK
  <1> QED BY <1>1, KeptWorker

\* A process whose phase is replaced by one outside the gap of fail().
LEMMA PhaseCareer ==
  ASSUME QueueInv, NEW w \in Worker, NEW p, worker' = [worker EXCEPT ![w].phase = p],
         p \in Holding => worker[w].phase \in Holding,
         p # "failing", worker[w].phase # "failing"
  PROVE  \A v \in Worker : Career(v)
  <1> DEFINE s == [worker[w] EXCEPT !.phase = p]
  <1>1. s.phase = p /\ s.job = worker[w].job /\ s.attempt = worker[w].attempt
    BY DEF QueueInv, QueueTypeOK, WorkerState
  <1>2. worker' = [worker EXCEPT ![w] = s]
    BY DEF QueueInv, QueueTypeOK
  <1> HIDE DEF s
  <1>3. worker'[w] = s => Career(w)
    BY <1>1 DEF Career, HoldsOn
  <1> QED BY <1>2, <1>3, OneWorker

\* A process that is left without a job.
LEMMA RestCareer ==
  ASSUME QueueInv, NEW w \in Worker, NEW s, worker' = [worker EXCEPT ![w] = s],
         s.phase \notin Holding, worker[w].phase = "failing" => LeavesGap(w)
  PROVE  \A v \in Worker : Career(v)
  <1>1. worker'[w] = s => Career(w)
    BY DEF Career
  <1> QED BY <1>1, OneWorker

\* Every step does one of these to every process.
LEMMA WorkerCareer ==
  ASSUME QueueInv, [QueueNext]_queueVars
  PROVE  \A v \in Worker : Career(v)
  <1>0. \A w \in Worker : /\ AfterRunOnce(w).phase \notin Holding
                          /\ NoWork("idle", FALSE).phase \notin Holding
                          /\ NoWork("killed", FALSE).phase \notin Holding
    BY DEF AfterRunOnce, NoWork, Holding, Ended, Failed
  <1>1. CASE worker' = worker
    BY <1>1, KeptWorker
  <1>2. ASSUME NEW w \in Worker, WorkerStep(w)
        PROVE  \A v \in Worker : Career(v)
    <2>1. CASE Start(w)
      <3>1. worker' = [worker EXCEPT ![w] = NoWork("idle", FALSE)] /\ worker[w].phase # "failing"
        BY <2>1 DEF Start
      <3> QED BY <1>0, <3>1, RestCareer
    <2>2. CASE StartClaim(w)
      <3>1. worker' = [worker EXCEPT ![w].phase = "claiming"] /\ worker[w].phase # "failing"
        BY <2>2 DEF StartClaim
      <3> QED BY <3>1, PhaseCareer DEF Holding, Ended, Failed
    <2>3. CASE Stop(w)
      <3> DEFINE p == CASE worker[w].phase = "idle" -> "stopped"
                        [] worker[w].phase = "running" /\ w \in ReviewWorker -> "cancelled"
                        [] OTHER -> worker[w].phase
                 s == [[worker[w] EXCEPT !.stopping = TRUE] EXCEPT !.phase = p]
      <3>1. worker' = [worker EXCEPT ![w] = s]
        BY <2>3 DEF Stop, QueueInv, QueueTypeOK
      <3>2. /\ p \in Holding => worker[w].phase \in Holding
            /\ p = "failing" <=> worker[w].phase = "failing"
        BY DEF Holding, Ended, Failed
      <3> HIDE DEF p
      <3>3. /\ s.phase = p /\ s.job = worker[w].job
            /\ s.attempt = worker[w].attempt /\ s.verdict = worker[w].verdict
        BY DEF QueueInv, QueueTypeOK, WorkerState
      <3> HIDE DEF s
      <3>4. worker'[w] = s => Career(w)
        BY <3>2, <3>3 DEF Career, HoldsOn
      <3> QED BY <3>1, <3>4, OneWorker
    <2>4. CASE Kill(w)
      <3>1. worker' = [worker EXCEPT ![w] = NoWork("killed", FALSE)]
        BY <2>4 DEF Kill
      <3> QED BY <1>0, <2>4, <3>1, RestCareer DEF LeavesGap
    <2>5. CASE CancelHandler(w)
      <3>1. worker' = [worker EXCEPT ![w].phase = "cancelled"] /\ worker[w].phase = "running"
        BY <2>5 DEF CancelHandler
      <3> QED BY <3>1, PhaseCareer DEF Holding
    <2>6. ASSUME NEW how \in Ended, HandlerEnds(w, how) PROVE \A v \in Worker : Career(v)
      <3>1. worker' = [worker EXCEPT ![w].phase = how] /\ worker[w].phase = "running"
        BY <2>6 DEF HandlerEnds
      <3>2. how # "failing"
        BY DEF Ended, Failed
      <3> QED BY <3>1, <3>2, PhaseCareer DEF Holding
    <2>7. ASSUME NEW d \in Age, ClaimJob(w, d, Job) PROVE \A v \in Worker : Career(v)
      <3>1. PICK j \in Oldest(Candidates(w, d, Job)) :
              /\ job' = [AfterBurial(d) EXCEPT ![j] = Granted(w, j, d)]
              /\ worker' = [worker EXCEPT ![w] =
                               [@ EXCEPT !.phase = "running", !.job = j,
                                         !.attempt = job[j].attempts + 1,
                                         !.beating = TRUE]]
        BY <2>7 DEF ClaimJob
      <3> DEFINE s == [worker[w] EXCEPT !.phase = "running", !.job = j,
                                        !.attempt = job[j].attempts + 1,
                                        !.beating = TRUE]
      <3>2. j \in Job /\ Eligible(j, d)
        <4>1. j \in Candidates(w, d, Job)
          BY DEF Oldest
        <4> QED BY <4>1 DEF Candidates, Serves
      <3>3. Granted(w, j, d).status = "leased"
        BY <3>2, InvRows, GrantedRow DEF Eligible
      <3>4. job'[j] = Granted(w, j, d)
        BY <3>1, <3>2, BurialRows
      <3>5. s.phase = "running" /\ s.job = j
        BY DEF QueueInv, QueueTypeOK, WorkerState
      <3>6. worker' = [worker EXCEPT ![w] = s]
        BY <3>1
      <3>7. worker[w].phase # "failing"
        BY <2>7 DEF ClaimJob
      <3> HIDE DEF s
      <3>8. worker'[w] = s => Career(w)
        BY <3>2, <3>3, <3>4, <3>5, <3>7 DEF Career, IsGranted
      <3> QED BY <3>6, <3>8, OneWorker
    <2>8. ASSUME NEW d \in Age, ClaimNothing(w, d, Job) PROVE \A v \in Worker : Career(v)
      <3>1. worker' = [worker EXCEPT ![w] = AfterRunOnce(w)] /\ worker[w].phase # "failing"
        BY <2>8 DEF ClaimNothing
      <3> QED BY <1>0, <3>1, RestCareer
    <2>9. ASSUME NEW d \in Age, Heartbeat(w, d) PROVE \A v \in Worker : Career(v)
      <3> DEFINE p == IF worker[w].phase = "running" THEN "cancelled" ELSE worker[w].phase
                 s == [[worker[w] EXCEPT !.phase = p] EXCEPT !.beating = FALSE]
      <3>1. worker' = worker \/ worker' = [worker EXCEPT ![w] = s]
        BY <2>9 DEF Heartbeat, QueueInv, QueueTypeOK
      <3>2. /\ worker[w].phase \in Holding
            /\ p = "failing" <=> worker[w].phase = "failing"
        BY <2>9 DEF Heartbeat
      <3> HIDE DEF p
      <3>3. /\ s.phase = p /\ s.job = worker[w].job
            /\ s.attempt = worker[w].attempt /\ s.verdict = worker[w].verdict
        BY DEF QueueInv, QueueTypeOK, WorkerState
      <3> HIDE DEF s
      <3>4. worker'[w] = s => Career(w)
        BY <3>2, <3>3 DEF Career, HoldsOn
      <3> QED BY <1>1, <3>1, <3>4, OneWorker
    <2>10. ASSUME NEW d \in Age, Complete(w, d) \/ Fail(w, d) \/ FailWrites(w, d)
           PROVE  \A v \in Worker : Career(v)
      <3>1. worker' = [worker EXCEPT ![w] = AfterRunOnce(w)]
        BY <2>10 DEF Complete, Fail, FailWrites, Release
      <3>2. worker[w].phase = "failing" => LeavesGap(w)
        BY <2>10 DEF Complete, Fail, Failed, LeavesGap
      <3> QED BY <1>0, <3>1, <3>2, RestCareer
    <2>11. ASSUME NEW d \in Age, FailReads(w, d) PROVE \A v \in Worker : Career(v)
      <3> DEFINE x == VerdictOn(w, job[worker[w].job])
                 s == [worker[w] EXCEPT !.phase = "failing", !.verdict = x]
      <3>1. worker' = [worker EXCEPT ![w] = s]
        BY <2>11 DEF FailReads
      <3>2. worker[w].phase \in Holding /\ worker[w].phase # "failing"
        BY <2>11 DEF FailReads, Holding, Ended, Failed
      <3>3. s.phase = "failing" /\ s.job = worker[w].job /\ s.attempt = worker[w].attempt
        BY DEF QueueInv, QueueTypeOK, WorkerState
      <3> HIDE DEF s
      <3>4. worker'[w] = s => Career(w)
        BY <2>11, <3>2, <3>3 DEF Career, HoldsOn
      <3> QED BY <3>1, <3>4, OneWorker
    <2> QED BY <1>2, <2>1, <2>2, <2>3, <2>4, <2>5, <2>6, <2>7, <2>8, <2>9, <2>10, <2>11
            DEF WorkerStep
  <1>3. CASE \/ \E j \in ReviewJob : Enqueue(j) \/ EnqueueKnownKey(j) \/ CancelJob(j)
             \/ \E j \in PublicationJob : EnqueuePublication(j) \/ ReopenPublication(j)
             \/ \E t \in stray, d \in Age : StrayHeartbeat(t, d)
             \/ Tick
             \/ UNCHANGED queueVars
    <2>1. worker' = worker
      BY <1>3 DEF Enqueue, EnqueueKnownKey, CancelJob, EnqueuePublication,
                  ReopenPublication, StrayHeartbeat, Tick, queueVars
    <2> QED BY <1>1, <2>1
  <1> QED BY <1>2, <1>3 DEF QueueNext

-----------------------------------------------------------------------------
(* What a fail() can do to a job that went on without it *)

\* Whoever holds a review job that was completed holds an older attempt than
\* the one that completed it, and a fail() that decided to retry did so with
\* attempts left.
OvertakenOK(w) ==
    LET row == job[worker[w].job]
    IN  worker[w].phase \in Holding /\ worker[w].job \in ReviewJob
        => /\ row.status # "absent"
           /\ row.status = "completed" => worker[w].attempt < row.attempts
           /\ worker[w].phase = "failing" /\ worker[w].verdict.status = "retry"
              => worker[w].attempt < row.max

OvertakenInv == \A w \in Worker : OvertakenOK(w)

\* What a step does to the row of a review job somebody holds.
LEMMA HeldReviewRow ==
  ASSUME QueueInv, [QueueNext]_queueVars, NEW j \in ReviewJob, job[j].status # "absent"
  PROVE  /\ job'[j].status # "absent" /\ job'[j].max = job[j].max
         /\ job'[j].status = "completed"
            => /\ job'[j].attempts = job[j].attempts
               /\ \/ job[j].status = "completed"
                  \/ \E v \in Worker : /\ worker[v].phase \in Holding
                                       /\ worker'[v].phase \notin Holding
                                       /\ worker[v].job = j
                                       /\ worker[v].attempt = job[j].attempts
  <1>1. Fate(j) /\ job[j].attempts \in Nat
    BY RowFate DEF QueueInv, QueueTypeOK, JobRow
  <1>2. CASE Aged(j)
    BY <1>1, <1>2 DEF Aged
  <1>3. CASE Taken(j)
    BY <1>1, <1>3 DEF Taken
  <1>4. CASE Dead(j) \/ Extended(j) \/ CalledOff(j) \/ Reopened(j)
    BY <1>1, <1>4 DEF Dead, Extended, CalledOff, Reopened, LetGo
  <1>5. CASE ReportedInTime(j)
    BY <1>1, <1>5 DEF ReportedInTime, LetGo, Holding
  <1>6. CASE ReportedLate(j)
    BY <1>1, <1>6 DEF ReportedLate, LetGo
  <1> QED BY <1>1, <1>2, <1>3, <1>4, <1>5, <1>6 DEF Fate, Created

\* Every step keeps it: an attempt that is under way when another one completes
\* the job is an older one, and the allowance of a review job never changes.
LEMMA StepKeepsOvertaken ==
  ASSUME QueueInv, QueueInv', OvertakenInv, [QueueNext]_queueVars
  PROVE  OvertakenInv'
  <1> SUFFICES ASSUME NEW w \in Worker, worker'[w].phase \in Holding,
                      worker'[w].job \in ReviewJob
               PROVE  OvertakenOK(w)'
    BY DEF OvertakenInv, OvertakenOK
  <1> DEFINE j == worker'[w].job
  <1>0. j \in Job
    OBVIOUS
  <1>1. HoldsOn(w) \/ IsGranted(w)
    BY WorkerCareer DEF Career
  <1>2. CASE IsGranted(w)
    BY <1>2 DEF IsGranted, OvertakenOK
  <1>3. CASE HoldsOn(w)
    <2>1. /\ worker[w].phase \in Holding /\ worker[w].job = j
          /\ worker'[w].attempt = worker[w].attempt /\ worker[w].attempt \in Nat
      BY <1>3, HeldJob DEF HoldsOn
    <2>2. /\ job[j].status # "absent"
          /\ job[j].status = "completed" => worker[w].attempt < job[j].attempts
      BY <2>1 DEF OvertakenInv, OvertakenOK
    <2>3. /\ job'[j].status # "absent" /\ job'[j].max = job[j].max
          /\ job'[j].status = "completed"
             => /\ job'[j].attempts = job[j].attempts
                /\ \/ job[j].status = "completed"
                   \/ \E v \in Worker : /\ worker[v].phase \in Holding
                                        /\ worker'[v].phase \notin Holding
                                        /\ worker[v].job = j
                                        /\ worker[v].attempt = job[j].attempts
      BY <2>2, HeldReviewRow
    <2>4. job'[j].status = "completed" => worker[w].attempt < job'[j].attempts
      <3> SUFFICES ASSUME job'[j].status = "completed", job[j].status # "completed"
                   PROVE  worker[w].attempt < job[j].attempts
        BY <2>2, <2>3
      <3>1. PICK v \in Worker : /\ worker[v].phase \in Holding
                                /\ worker'[v].phase \notin Holding
                                /\ worker[v].job = j
                                /\ worker[v].attempt = job[j].attempts
        BY <2>3
      <3>2. v # w
        BY <3>1
      <3>3. worker[w].attempt # job[j].attempts
        BY <2>1, <3>1, <3>2 DEF QueueInv, AttemptIsAToken
      <3>4. worker[w].attempt <= job[j].attempts /\ job[j].attempts \in Nat
        BY <1>0, <2>1 DEF QueueInv, AttemptsWereGranted, QueueTypeOK, JobRow
      <3> QED BY <2>1, <3>3, <3>4
    <2>5. worker'[w].phase = "failing" /\ worker'[w].verdict.status = "retry"
          => worker[w].attempt < job[j].max
      <3> SUFFICES ASSUME worker'[w].phase = "failing", worker'[w].verdict.status = "retry"
                   PROVE  worker[w].attempt < job[j].max
        OBVIOUS
      <3>1. CASE worker[w].phase = "failing" /\ worker'[w].verdict = worker[w].verdict
        BY <2>1, <3>1 DEF OvertakenInv, OvertakenOK
      <3>2. ASSUME NEW d \in Age, FailReads(w, d) PROVE worker[w].attempt < job[j].max
        <4>1. worker[w].attempt = job[j].attempts
          BY <2>1, <3>2 DEF FailReads, Owns
        <4>2. worker'[w].verdict = VerdictOn(w, job[j])
          <5> DEFINE x == VerdictOn(w, job[worker[w].job])
                     s == [worker[w] EXCEPT !.phase = "failing", !.verdict = x]
          <5>1. worker'[w] = s
            BY <3>2 DEF FailReads, QueueInv, QueueTypeOK
          <5>2. s.verdict = x
            BY DEF QueueInv, QueueTypeOK, WorkerState
          <5> QED BY <2>1, <5>1, <5>2
        <4>3. VerdictOn(w, job[j]).status = "retry" => job[j].attempts < job[j].max
          BY DEF VerdictOn
        <4> QED BY <4>1, <4>2, <4>3
      <3> QED BY <1>3, <3>1, <3>2 DEF HoldsOn
    <2> QED BY <2>1, <2>3, <2>4, <2>5 DEF OvertakenOK
  <1> QED BY <1>1, <1>2, <1>3

\* It holds in every reachable state.
THEOREM OvertakenInvariance == QueueSpec => []OvertakenInv
  <1>1. QueueInit => OvertakenInv
    <2> SUFFICES ASSUME QueueInit, NEW w \in Worker PROVE worker[w].phase \notin Holding
      BY DEF OvertakenInv, OvertakenOK
    <2> QED BY DEF QueueInit, NoWork, Holding, Ended, Failed
  <1>2. QueueInv /\ QueueInv' /\ OvertakenInv /\ [QueueNext]_queueVars => OvertakenInv'
    BY StepKeepsOvertaken
  <1> QED BY <1>1, <1>2, QueueInvariance, PTL DEF QueueSpec

\* Of the fates of a row, only the second half of a fail() brings it back.
LEMMA StepBringsBack ==
  ASSUME QueueInv, OvertakenInv, [QueueNext]_queueVars, NEW j \in ReviewJob,
         \/ job[j].status \in {"completed", "cancelled"} /\ job'[j].status # job[j].status
         \/ /\ job[j].status \notin {"dead_letter", "retry"} /\ job'[j].status = "retry"
            /\ job'[j].attempts >= job'[j].max
  PROVE  \E w \in Worker :
            /\ worker[w].phase = "failing" /\ worker[w].job = j
            /\ job'[j].status = worker[w].verdict.status
            /\ job'[j].status = "retry" => worker[w].attempt < job[j].max
            /\ job[j].status = "completed" => worker[w].attempt < job[j].attempts
  <1>1. Fate(j) /\ job[j].attempts \in Nat /\ job[j].max \in Nat
    BY RowFate DEF QueueInv, QueueTypeOK, JobRow
  <1>2. ~Aged(j) /\ ~Created(j) /\ ~Taken(j) /\ ~Dead(j) /\ ~Extended(j)
    BY DEF Aged, Created, Taken, Eligible, Dead, Extended, LetGo
  <1>3. ~CalledOff(j) /\ ~Reopened(j)
    BY DEF CalledOff, Reopened, Active, LetGo
  <1>4. ~ReportedInTime(j)
    BY <1>1 DEF ReportedInTime, LetGo
  <1>5. ReportedLate(j)
    BY <1>1, <1>2, <1>3, <1>4 DEF Fate
  <1>6. PICK w \in Worker : /\ worker[w].phase = "failing" /\ worker[w].job = j
                            /\ LetGo(j, worker[w].verdict.status)
    BY <1>5 DEF ReportedLate
  <1>7. OvertakenOK(w) /\ worker[w].phase \in Holding
    BY <1>6 DEF OvertakenInv, Holding
  <1> QED BY <1>6, <1>7 DEF OvertakenOK, LetGo

\* A review job that is over, or has no attempts left, comes back through the
\* gap in fail() only, by an attempt that the job had gone on without.
THEOREM OnlyOvertakenBringsBack == QueueSpec => BroughtBackByOvertaken
  <1>1. QueueInv /\ OvertakenInv /\ [QueueNext]_queueVars
          => [\A j \in ReviewJob :
                \/ job[j].status \in {"completed", "cancelled"} /\ job'[j].status # job[j].status
                \/ /\ job[j].status \notin {"dead_letter", "retry"} /\ job'[j].status = "retry"
                   /\ job'[j].attempts >= job'[j].max
                => \E w \in Worker :
                      /\ worker[w].phase = "failing" /\ worker[w].job = j
                      /\ job'[j].status = worker[w].verdict.status
                      /\ job'[j].status = "retry" => worker[w].attempt < job[j].max
                      /\ job[j].status = "completed"
                         => worker[w].attempt < job[j].attempts]_queueVars
    BY StepBringsBack
  <1> QED BY <1>1, QueueInvariance, OvertakenInvariance, PTL
          DEF QueueSpec, BroughtBackByOvertaken

-----------------------------------------------------------------------------
(* Refinement of FencedLease *)

\* The holder of a row: its owner, while its lease runs.
HolderOf(row) == IF row.left > 0 THEN row.owner ELSE Nobody

\* The processes in the gap of a fail() about job j.
DecidedOn(j) == {w \in Worker : worker[w].phase = "failing" /\ worker[w].job = j}

\* Each fate of a row is a step of the abstract lease of its job, in a step of
\* the queue that neither opens nor leaves a gap.
LEMMA FateIsLeaseStep ==
  ASSUME QueueInv, QueueInv', NEW j \in Job, Fate(j), ~ReportedLate(j),
         DecidedOn(j)' = DecidedOn(j)
  PROVE  Leases!JobStep(j) \/ Leases!Same(j)
  <1> DEFINE row == job[j]
             new == job'[j]
  <1>1. GoodRow(row) /\ GoodRow(new) /\ row.left \in Int /\ new.left \in Int
    <2>1. GoodRow(row)
      BY InvRows
    <2>2. GoodRow(new)
      BY DEF QueueInv, QueueTypeOK, RowsConsistent, AttemptsWithinBudget, GoodRow
    <2> QED BY <2>1, <2>2 DEF GoodRow, JobRow
  <1>2. Expired <= 0 /\ Expired \in Int
    BY DEF Expired
  <1>3. CASE Aged(j)
    <2>1. LeaseState(new) = LeaseState(row)
      BY <1>3 DEF Aged, LeaseState
    <2>2. HolderOf(new) \in {HolderOf(row), Nobody}
      BY <1>1, <1>3 DEF Aged, Down, HolderOf
    <2>3. new.attempts = row.attempts /\ new.owner = row.owner
      BY <1>3 DEF Aged
    <2>4. CASE HolderOf(new) = HolderOf(row)
      BY <2>1, <2>3, <2>4 DEF Leases!Same, Leases!SameLease, Leases!Becomes, Leases!Lease, HolderOf, DecidedOn
    <2>5. CASE HolderOf(new) = Nobody
      <3>1. Leases!Expire(j)
        BY <2>1, <2>3, <2>5 DEF Leases!Expire, Leases!Becomes, Leases!Lease, HolderOf, DecidedOn
      <3> QED BY <3>1 DEF Leases!JobStep
    <2> QED BY <2>2, <2>4, <2>5
  <1>4. CASE Created(j)
    <2>1. LeaseState(row) = "none" /\ LeaseState(new) = "open"
      BY <1>4 DEF Created, LeaseState, Active
    <2>2. new.attempts = 0 /\ new.owner = Nobody /\ HolderOf(new) = Nobody
      BY <1>2, <1>4 DEF Created, HolderOf
    <2>3. Leases!Create(j)
      BY <2>1, <2>2 DEF Leases!Create, Leases!Becomes, Leases!Lease, HolderOf, DecidedOn
    <2> QED BY <2>3 DEF Leases!JobStep
  <1>5. CASE Taken(j)
    <2>1. PICK w \in Worker, d \in Age :
            /\ Eligible(j, d)
            /\ new.status = "leased" /\ new.owner = w
            /\ new.left = LeaseTicks - d /\ new.attempts = row.attempts + 1
      BY <1>5 DEF Taken
    <2>2. LeaseState(row) = "open" /\ LeaseState(new) = "open"
      BY <2>1 DEF Eligible, LeaseState, Active
    <2>3. HolderOf(row) = Nobody
      BY <1>1, <1>2, <2>1 DEF Eligible, HolderOf, GoodRow
    <2>4. HolderOf(new) \in {w, Nobody} /\ HolderOf(new) \in Worker \cup {Nobody}
      BY <2>1 DEF HolderOf
    <2>5. Leases!Grant(j)
      BY <2>1, <2>2, <2>3, <2>4 DEF Leases!Grant, Leases!Becomes, Leases!Lease, HolderOf, DecidedOn
    <2> QED BY <2>5 DEF Leases!JobStep
  <1>6. CASE Dead(j)
    <2>1. LeaseState(row) = "open" /\ LeaseState(new) = "dead"
      BY <1>6 DEF Dead, LetGo, LeaseState, Active
    <2>2. row.owner # Nobody /\ HolderOf(row) = Nobody
      BY <1>1, <1>6 DEF Dead, GoodRow, HolderOf
    <2>3. new.attempts = row.attempts /\ new.owner = Nobody /\ HolderOf(new) = Nobody
      BY <1>2, <1>6 DEF Dead, LetGo, HolderOf
    <2>4. Leases!Bury(j)
      BY <2>1, <2>2, <2>3 DEF Leases!Bury, Leases!Unleased, Leases!Becomes, Leases!Lease, HolderOf, DecidedOn
    <2> QED BY <2>4 DEF Leases!JobStep
  <1>7. CASE Extended(j)
    <2>1. LeaseState(row) = "open" /\ LeaseState(new) = "open"
      BY <1>7 DEF Extended, LeaseState, Active
    <2>2. HolderOf(new) \in {row.owner, Nobody}
      BY <1>7 DEF Extended, HolderOf
    <2>3. new.attempts = row.attempts /\ new.owner = row.owner
      BY <1>7 DEF Extended
    <2>4. CASE HolderOf(new) = row.owner
      <3>1. Leases!Resume(j)
        BY <2>1, <2>3, <2>4 DEF Leases!Resume, Leases!Becomes, Leases!Lease, HolderOf, DecidedOn
      <3> QED BY <3>1 DEF Leases!JobStep
    <2>5. CASE HolderOf(new) = Nobody
      <3>1. Leases!Expire(j)
        BY <2>1, <2>3, <2>5 DEF Leases!Expire, Leases!Becomes, Leases!Lease, HolderOf, DecidedOn
      <3> QED BY <3>1 DEF Leases!JobStep
    <2> QED BY <2>2, <2>4, <2>5
  <1>8. CASE ReportedInTime(j)
    <2>1. PICK s \in {"completed", "retry", "dead_letter"} :
            row.status = "leased" /\ LetGo(j, s)
      BY <1>8 DEF ReportedInTime
    <2>2. LeaseState(row) = "open" /\ LeaseState(new) \in {"open", "completed", "dead"}
      BY <2>1 DEF LetGo, LeaseState, Active
    <2>3. row.owner # Nobody
      BY <1>1, <2>1 DEF GoodRow
    <2>4. new.attempts = row.attempts /\ new.owner = Nobody /\ HolderOf(new) = Nobody
      BY <1>2, <2>1 DEF LetGo, HolderOf
    <2>5. Leases!Report(j)
      BY <2>2, <2>3, <2>4 DEF Leases!Report, Leases!Unleased, Leases!Becomes, Leases!Lease, HolderOf, DecidedOn
    <2> QED BY <2>5 DEF Leases!JobStep
  <1>9. CASE CalledOff(j)
    <2>1. LeaseState(row) = "open" /\ LeaseState(new) = "cancelled"
      BY <1>9 DEF CalledOff, LetGo, LeaseState, Active
    <2>2. new.attempts = row.attempts /\ new.owner = Nobody /\ HolderOf(new) = Nobody
      BY <1>2, <1>9 DEF CalledOff, LetGo, HolderOf
    <2>3. Leases!Cancel(j)
      BY <2>1, <2>2 DEF Leases!Cancel, Leases!Unleased, Leases!Becomes, Leases!Lease, HolderOf, DecidedOn
    <2> QED BY <2>3 DEF Leases!JobStep
  <1>10. CASE Reopened(j)
    <2>1. LeaseState(row) # "none" /\ LeaseState(new) = "open"
      BY <1>1, <1>10 DEF Reopened, LetGo, LeaseState, Active, GoodRow, JobRow, JobStatus
    <2>2. HolderOf(row) = Nobody
      BY <1>1, <1>2, <1>10 DEF Reopened, GoodRow, HolderOf
    <2>3. new.attempts = row.attempts /\ new.owner = Nobody /\ HolderOf(new) = Nobody
      BY <1>2, <1>10 DEF Reopened, LetGo, HolderOf
    <2>4. Leases!Reopen(j)
      BY <2>1, <2>2, <2>3 DEF Leases!Reopen, Leases!Unleased, Leases!Becomes, Leases!Lease, HolderOf, DecidedOn
    <2> QED BY <2>4 DEF Leases!JobStep
  <1> QED BY <1>3, <1>4, <1>5, <1>6, <1>7, <1>8, <1>9, <1>10 DEF Fate

\* The abstract lease of a job whose row and holder stay as they are.
LEMMA SameRowSameLease ==
  ASSUME NEW j \in Job, job'[j] = job[j]
  PROVE  Leases!SameLease(j)
  BY DEF Leases!SameLease, Leases!Lease

\* The first half of a fail() is a decision of the worker of the latest epoch.
LEMMA ReadingDecides ==
  ASSUME QueueInv, NEW w \in Worker, NEW d \in Age, FailReads(w, d), NEW j \in Job
  PROVE  Leases!JobStep(j) \/ Leases!Same(j)
  <1> DEFINE x == VerdictOn(w, job[worker[w].job])
             s == [worker[w] EXCEPT !.phase = "failing", !.verdict = x]
  <1>1. job' = job
    BY DEF FailReads
  <1>2. \A v \in Worker : worker'[v] = IF v = w THEN s ELSE worker[v]
    BY DEF FailReads, QueueInv, QueueTypeOK
  <1>3. s.phase = "failing" /\ s.job = worker[w].job
    BY DEF QueueInv, QueueTypeOK, WorkerState
  <1>4. worker[w].phase # "failing"
    BY DEF FailReads, Failed
  <1> HIDE DEF s
  <1>5. Leases!SameLease(j)
    BY <1>1, SameRowSameLease
  <1>6. CASE worker[w].job = j
    <2>1. DecidedOn(j)' = DecidedOn(j) \cup {w} /\ w \notin DecidedOn(j)
      BY <1>2, <1>3, <1>4, <1>6 DEF DecidedOn
    <2>2. LeaseState(job[j]) = "open" /\ job[j].owner = w /\ w # Nobody
      BY <1>6 DEF FailReads, Owns, LeaseState, Active
    <2>3. Leases!Decide(j)
      BY <1>5, <2>1, <2>2 DEF Leases!Decide, DecidedOn
    <2> QED BY <2>3 DEF Leases!JobStep
  <1>7. CASE worker[w].job # j
    <2>1. DecidedOn(j)' = DecidedOn(j)
      BY <1>2, <1>3, <1>4, <1>7 DEF DecidedOn
    <2> QED BY <1>5, <2>1 DEF Leases!Same, DecidedOn
  <1> QED BY <1>6, <1>7

\* The second half records it, whatever became of the job.
LEMMA WritingRecords ==
  ASSUME QueueInv, NEW w \in Worker, NEW d \in Age, FailWrites(w, d), NEW j \in Job
  PROVE  Leases!JobStep(j) \/ Leases!Same(j)
  <1> DEFINE k == worker[w].job
             v == worker[w].verdict
             row == FailedRow(job[k], v, d)
             s == AfterRunOnce(w)
  <1>1. k \in Job /\ GoodRow(job[k]) /\ worker[w].phase = "failing"
    BY HeldJob, InvRows DEF FailWrites, Holding
  <1>2. v \in Verdict /\ v.status # "none"
    BY DEF FailWrites, QueueInv, QueueTypeOK, WorkerState, PendingVerdicts
  <1>3. job' = [job EXCEPT ![k] = row]
    BY DEF FailWrites
  <1>4. \A u \in Worker : worker'[u] = IF u = w THEN s ELSE worker[u]
    BY DEF FailWrites, Release, QueueInv, QueueTypeOK
  <1>5. s.phase # "failing"
    BY DEF AfterRunOnce, NoWork
  <1> HIDE DEF v, s
  <1>6. /\ row.status \in {"retry", "dead_letter"} /\ row.owner = Nobody
        /\ row.left = Expired /\ row.attempts = job[k].attempts
    BY <1>1, <1>2, FailedRowIsGood
  <1> HIDE DEF row
  <1>7. job'[j] = IF j = k THEN row ELSE job[j]
    BY <1>3 DEF QueueInv, QueueTypeOK
  <1>8. CASE j = k
    <2>1. DecidedOn(j)' = DecidedOn(j) \ {w} /\ w \in DecidedOn(j)
      BY <1>1, <1>4, <1>5, <1>8 DEF DecidedOn
    <2>2. LeaseState(job'[j]) \in {"open", "dead"}
      BY <1>6, <1>7, <1>8 DEF LeaseState, Active
    <2>3. /\ job'[j].attempts = job[j].attempts /\ job'[j].owner = Nobody
          /\ HolderOf(job'[j]) = Nobody
      BY <1>6, <1>7, <1>8 DEF HolderOf
    <2>4. Leases!Record(j)
      BY <2>1, <2>2, <2>3 DEF Leases!Record, Leases!Lease, HolderOf, DecidedOn
    <2> QED BY <2>4 DEF Leases!JobStep
  <1>9. CASE j # k
    <2>1. DecidedOn(j)' = DecidedOn(j)
      BY <1>1, <1>4, <1>5, <1>9 DEF DecidedOn
    <2>2. Leases!SameLease(j)
      BY <1>7, <1>9, SameRowSameLease
    <2> QED BY <2>1, <2>2 DEF Leases!Same, DecidedOn
  <1> QED BY <1>8, <1>9

\* A process that dies in the gap takes its decision with it.
LEMMA DyingForgets ==
  ASSUME QueueInv, NEW w \in Worker, Kill(w), NEW j \in Job
  PROVE  Leases!JobStep(j) \/ Leases!Same(j)
  <1>1. \A v \in Worker : worker'[v] = IF v = w THEN NoWork("killed", FALSE) ELSE worker[v]
    BY DEF Kill, QueueInv, QueueTypeOK
  <1>2. NoWork("killed", FALSE).phase # "failing"
    BY DEF NoWork
  <1>3. DecidedOn(j)' = DecidedOn(j) \ {w}
    BY <1>1, <1>2 DEF DecidedOn
  <1>4. Leases!SameLease(j)
    BY SameRowSameLease DEF Kill
  <1>5. CASE w \in DecidedOn(j)
    <2>1. Leases!Forget(j)
      BY <1>3, <1>4, <1>5 DEF Leases!Forget, DecidedOn
    <2> QED BY <2>1 DEF Leases!JobStep
  <1>6. CASE w \notin DecidedOn(j)
    <2>1. DecidedOn(j)' = DecidedOn(j)
      BY <1>3, <1>6
    <2> QED BY <1>4, <2>1 DEF Leases!Same, DecidedOn
  <1> QED BY <1>5, <1>6

\* Every step of the queue is a step, or none, of the lease of every job.
LEMMA StepIsLeaseStep ==
  ASSUME QueueInv, QueueInv', [QueueNext]_queueVars, NEW j \in Job
  PROVE  Leases!JobStep(j) \/ Leases!Same(j)
  <1>1. CASE \E w \in Worker, d \in Age : FailReads(w, d) \/ FailWrites(w, d)
    BY <1>1, ReadingDecides, WritingRecords
  <1>2. CASE \E w \in Worker : Kill(w)
    BY <1>2, DyingForgets
  <1>3. CASE /\ ~\E w \in Worker, d \in Age : FailReads(w, d) \/ FailWrites(w, d)
             /\ ~\E w \in Worker : Kill(w)
    <2>1. \A w \in Worker :
            /\ worker[w].phase = "failing" => worker'[w].phase = "failing"
            /\ worker'[w].phase = "failing"
               => worker[w].phase = "failing" /\ worker'[w].job = worker[w].job
      BY <1>3, WorkerCareer DEF Career, HoldsOn, IsGranted, LeavesGap, Holding
    <2>2. DecidedOn(j)' = DecidedOn(j)
      BY <2>1 DEF DecidedOn
    <2>3. ~ReportedLate(j)
      BY <2>1 DEF ReportedLate, Holding
    <2> QED BY <2>2, <2>3, RowFate, FateIsLeaseStep
  <1> QED BY <1>1, <1>2, <1>3

\* The queue implements fenced leases: one holder of a job at a time, a new
\* epoch with every grant, and the fate of the job decided by the worker of
\* the latest epoch, by a cancellation, or when nobody holds the job; a failure
\* that was decided on is recorded once, and may be recorded late.
THEOREM QueueImplementsLeases == QueueSpec => ImplementsLeases
  <1>1. QueueInit => Leases!LeaseInit
    <2> SUFFICES ASSUME QueueInit PROVE Leases!LeaseInit
      OBVIOUS
    <2>1. \A j \in Job : /\ job[j].attempts = 0 /\ job[j].owner = Nobody
                         /\ job[j].status = "absent"
      BY DEF QueueInit, NoJob
    <2>2. \A j \in Job : LeaseState(job[j]) = "none"
      BY <2>1 DEF LeaseState, Active
    <2>3. \A j \in Job : DecidedOn(j) = {}
      BY DEF QueueInit, NoWork, DecidedOn
    <2> QED BY <2>1, <2>2, <2>3 DEF Leases!LeaseInit, DecidedOn
  <1>2. QueueInv /\ QueueInv' /\ [QueueNext]_queueVars => [Leases!LeaseNext]_Leases!leaseVars
    BY StepIsLeaseStep DEF Leases!LeaseNext
  <1> QED BY <1>1, <1>2, QueueInvariance, PTL DEF QueueSpec, ImplementsLeases, Leases!LeaseSpec
=============================================================================
