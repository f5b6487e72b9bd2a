--------------------------- MODULE LifecycleProofs ---------------------------
(***************************************************************************)
(* Proofs about ReviewLifecycle, for any number of reviews, items, jobs    *)
(* and processes, any concurrency and any number of calls left behind:     *)
(* the invariant of the review life cycle and the safety properties that   *)
(* follow from it.                                                         *)
(***************************************************************************)
EXTENDS ReviewLifecycle, JobQueueProofs

USE JobQueueConstants DEF Job, Worker, Age

-----------------------------------------------------------------------------
(* The inductive invariant, in named parts *)

Reported == {"completed", "partial", "failed"}
EarlyPC  == {"start", "preparing", "begin"}
EndPC    == {"draining", "facts", "overview"}
Endings  == {"completed", "failed", "interrupted"}

AllSettled(items) == \A i \in Item : items[i].status # "absent" => i \in Settled(items)

\* The columns of a run agree, and a complete report is about settled work.
RunOK(r) ==
    /\ run[r].status = "absent" => ~run[r].deleted /\ run[r].report = Nobody
    /\ run[r].deleted => run[r].status \in TERMINAL
    /\ run[r].report \in Reported \cup {Nobody}
    /\ run[r].status \in Reported => run[r].report = run[r].status
    /\ run[r].report = "completed" => AllSettled(work[r])

\* A job belongs to a review that exists; one of an overview, to a review
\* that has a report; one that may still be run, to a live review.
JobOK(j) ==
    /\ job[j].status = "absent" <=> jobOf[j].run = Nobody
    /\ jobOf[j].run # Nobody => run[jobOf[j].run].status # "absent"
    /\ jobOf[j].kind = "overview" =>
          jobOf[j].run # Nobody /\ run[jobOf[j].run].report # Nobody
    /\ job[j].status \in Active => j \in LiveJobs

\* The lease is the latest of its job, which has not been given up: the fence
\* without its clock, which a slow heartbeat may still turn back.
Grip(lease) ==
    /\ job[lease.job].status = "leased"
    /\ job[lease.job].owner = lease.owner
    /\ job[lease.job].attempts = lease.attempt

\* A call names what calls of its kind name.
CallForm(c) ==
    /\ c \in Call
    /\ c.op \in {"claim", "skip", "deliver", "submit", "finish"} => c.item \in Item
    /\ c.op = "submit" => c.value \in Candidate
    /\ c.op = "finish" => c.value \in Endings
    /\ c.op = "save" => c.value \in Reported

\* A call was made for a granted attempt; a report that it saves as complete
\* is about settled work; as long as its lease lasts the review has begun.
CallOK(c) ==
    LET r == jobOf[c.lease.job].run
    IN  /\ CallForm(c)
        /\ r # Nobody
        /\ c.lease.attempt <= job[c.lease.job].attempts
        /\ c.op = "save" /\ c.value = "completed" => AllSettled(work[r])
        /\ c.op # "begin" /\ Grip(c.lease) => run[r].status # "queued"

IsLeaseOf(lease, w) ==
    /\ lease.owner = w
    /\ lease.job = worker[w].job
    /\ lease.attempt = worker[w].attempt

\* A handler shares its lease with a call it left behind only when its agents
\* are gone: past the hard deadline.
LateOK(c) ==
    /\ CallOK(c)
    /\ \A w \in ReviewWorker :
          worker[w].phase = "running" /\ IsLeaseOf(c.lease, w) => handler[w].pc \in EndPC

NoAgents(h) == \A i \in Item : h.agent[i].state = "none"

\* A handler of a review's job with the memory h is somewhere it may be; what
\* it is about to save is true.
Fits(w, h) ==
    /\ worker[w].job \in ReviewJob /\ RunOf(w) # Nobody
    /\ h.pc \in EarlyPC \cup EndPC => NoAgents(h)
    /\ h.pc = "dispatch" => \A i \in h.todo : h.agent[i].state = "none"
    /\ h.pc = "overview" => /\ h.outcome \in Reported
                            /\ h.outcome = "completed" => AllSettled(work[RunOf(w)])

\* While its attempt is the latest, the memory h agrees with the database.
Agrees(w, h) ==
    Grip(LeaseOf(w)) =>
        /\ h.pc \notin EarlyPC => run[RunOf(w)].status # "queued"
        /\ \A i \in Item : h.agent[i].state = "working" =>
              /\ work[RunOf(w)][i].status = "running"
              /\ work[RunOf(w)][i].try = h.agent[i].try

HandlerOK(w) ==
    IF worker[w].phase = "running" THEN Fits(w, handler[w]) /\ Agrees(w, handler[w])
                                   ELSE handler[w] = NoHandler

LifecycleInv ==
    /\ QueueInv
    /\ LifecycleTypeOK
    /\ \A r \in Run : RunOK(r)
    /\ \A j \in ReviewJob : JobOK(j)
    /\ OneActiveJob
    /\ \A w \in ReviewWorker : HandlerOK(w)
    /\ \A c \in late : LateOK(c)

-----------------------------------------------------------------------------
(* Types of the rows *)

RunRow == [status : Live \cup TERMINAL \cup {"absent"}, report : TERMINAL \cup {Nobody},
           head : Head \cup {Nobody}, deleted : BOOLEAN]
JobLink == [run : Run \cup {Nobody}, kind : {"review", "overview"}]
Items == [Item -> WorkItem]

\* A row of the run table with one column replaced stays a row.
LEMMA SetRunColumn ==
  ASSUME NEW row \in RunRow
  PROVE  /\ \A x \in Live \cup TERMINAL \cup {"absent"} :
               LET new == [row EXCEPT !.status = x]
               IN  /\ new \in RunRow /\ new.status = x /\ new.report = row.report
                   /\ new.deleted = row.deleted /\ new.head = row.head
         /\ \A x \in TERMINAL \cup {Nobody} :
               LET new == [row EXCEPT !.report = x]
               IN  /\ new \in RunRow /\ new.status = row.status /\ new.report = x
                   /\ new.deleted = row.deleted /\ new.head = row.head
         /\ \A x \in BOOLEAN :
               LET new == [row EXCEPT !.deleted = x]
               IN  /\ new \in RunRow /\ new.status = row.status
                   /\ new.report = row.report /\ new.deleted = x
                   /\ new.head = row.head
  BY DEF RunRow

\* A saved report is the status of its run.
LEMMA ReportedRow ==
  ASSUME NEW row \in RunRow, NEW status \in TERMINAL
  PROVE  /\ WithReport(row, status) \in RunRow
         /\ WithReport(row, status).status = status
         /\ WithReport(row, status).report = status
         /\ WithReport(row, status).deleted = row.deleted
  <1> DEFINE r1 == [row EXCEPT !.status = status]
             r2 == [r1 EXCEPT !.report = status]
  <1>1. r1 \in RunRow /\ r1.status = status /\ r1.deleted = row.deleted
    BY SetRunColumn
  <1>2. /\ r2 \in RunRow /\ r2.status = status /\ r2.report = status
        /\ r2.deleted = row.deleted
    <2> HIDE DEF r1
    <2> QED BY <1>1, SetRunColumn
  <1>3. r2 = WithReport(row, status)
    BY DEF WithReport
  <1> QED BY <1>2, <1>3

\* A work item with one field replaced stays a work item.
LEMMA SetItemField ==
  ASSUME NEW item \in WorkItem
  PROVE  /\ \A x \in WorkStatus :
               LET new == [item EXCEPT !.status = x]
               IN  /\ new \in WorkItem /\ new.status = x
                   /\ new.try = item.try /\ new.clean = item.clean
         /\ \A x \in BOOLEAN :
               LET new == [item EXCEPT !.clean = x]
               IN  /\ new \in WorkItem /\ new.status = item.status
                   /\ new.try = item.try /\ new.clean = x
  BY DEF WorkItem

\* New items and the absence of items are well typed.
LEMMA NewItemType ==
  /\ NewItem \in WorkItem /\ NewItem.status = "queued"
  /\ NoItem \in WorkItem /\ NoItem.status = "absent"
  BY DEF NewItem, NoItem, WorkItem, WorkStatus

-----------------------------------------------------------------------------
(* What a call of the store writes *)

Known(items) == {i \in Item : items[i].status # "absent"}

\* Settled work is work that is known, and all of it when nothing is open.
LEMMA SettledIsKnown ==
  ASSUME NEW items
  PROVE  /\ Settled(items) \subseteq Known(items)
         /\ AllSettled(items) <=> Known(items) = Settled(items)
  BY DEF Settled, Known, AllSettled

\* Requeueing items that are not completed forgets and settles nothing.
LEMMA RequeuedFacts ==
  ASSUME NEW items \in Items, NEW from \in SUBSET (WorkStatus \ {"absent", "completed"})
  PROVE  /\ Requeued(items, from) \in Items
         /\ Known(Requeued(items, from)) = Known(items)
         /\ Settled(Requeued(items, from)) = Settled(items)
  <1> DEFINE new == Requeued(items, from)
             q(i) == [items[i] EXCEPT !.status = "queued"]
  <1>1. \A i \in Item : items[i] \in WorkItem
    BY DEF Items
  <1>2. ASSUME NEW i \in Item
        PROVE  q(i) \in WorkItem /\ q(i).status = "queued" /\ q(i).clean = items[i].clean
    <2>1. items[i] \in WorkItem /\ "queued" \in WorkStatus
      BY <1>1 DEF WorkStatus
    <2> QED BY <2>1, SetItemField
  <1>3. /\ DOMAIN new = Item
        /\ \A i \in Item : new[i] = IF items[i].status \in from THEN q(i) ELSE items[i]
        /\ new = [i \in Item |-> new[i]]
    BY DEF Requeued
  <1> HIDE DEF new, q
  <1>4. \A i \in Item : /\ new[i] \in WorkItem
                        /\ new[i].status = "absent" <=> items[i].status = "absent"
                        /\ new[i].status = "completed" <=> items[i].status = "completed"
                        /\ new[i].clean = items[i].clean
    BY <1>1, <1>2, <1>3
  <1>5. new \in Items
    BY <1>3, <1>4 DEF Items
  <1>6. Known(new) = Known(items) /\ Settled(new) = Settled(items)
    BY <1>4 DEF Known, Settled
  <1> QED BY <1>5, <1>6 DEF new

\* Work that is given up is neither forgotten nor settled.
LEMMA ExhaustedFacts ==
  ASSUME NEW items \in Items
  PROVE  /\ Exhausted(items) \in Items
         /\ Known(Exhausted(items)) = Known(items)
         /\ Settled(Exhausted(items)) = Settled(items)
  <1> DEFINE new == Exhausted(items)
             q(i) == [items[i] EXCEPT !.status = "interrupted"]
  <1>1. \A i \in Item : items[i] \in WorkItem
    BY DEF Items
  <1>2. ASSUME NEW i \in Item
        PROVE  q(i) \in WorkItem /\ q(i).status = "interrupted" /\ q(i).clean = items[i].clean
    <2>1. items[i] \in WorkItem /\ "interrupted" \in WorkStatus
      BY <1>1 DEF WorkStatus
    <2> QED BY <2>1, SetItemField
  <1>3. /\ DOMAIN new = Item
        /\ \A i \in Item : new[i] = IF items[i].status \in {"queued", "running"}
                                    THEN q(i) ELSE items[i]
        /\ new = [i \in Item |-> new[i]]
    BY DEF Exhausted
  <1> HIDE DEF new, q
  <1>4. \A i \in Item : /\ new[i] \in WorkItem
                        /\ new[i].status = "absent" <=> items[i].status = "absent"
                        /\ new[i].status = "completed" <=> items[i].status = "completed"
                        /\ new[i].clean = items[i].clean
    BY <1>1, <1>2, <1>3
  <1>5. new \in Items
    BY <1>3, <1>4 DEF Items
  <1>6. Known(new) = Known(items) /\ Settled(new) = Settled(items)
    BY <1>4 DEF Known, Settled
  <1> QED BY <1>5, <1>6 DEF new

\* The items after a call that writes one item: all but that one stay.
LEMMA OneItem ==
  ASSUME NEW items \in Items, NEW i \in Item, NEW item \in WorkItem,
         NEW new, new = [items EXCEPT ![i] = item]
  PROVE  new \in Items /\ \A k \in Item : new[k] = IF k = i THEN item ELSE items[k]
  BY DEF Items

\* An item that changes its status without being completed or forgotten.
LEMMA MarkedFacts ==
  ASSUME NEW items \in Items, NEW i \in Item, NEW status \in WorkStatus \ {"absent"},
         items[i].status \notin {"absent", "completed"}
  PROVE  LET new == Marked(items, i, status)
         IN  /\ new \in Items
             /\ Known(new) = Known(items)
             /\ Settled(new) = Settled(items) \/ Settled(new) = Settled(items) \cup {i}
             /\ status # "completed" => Settled(new) = Settled(items)
             /\ i \in Known(items)
             /\ \A k \in Item \ {i} : new[k] = items[k]
  <1> DEFINE new == Marked(items, i, status)
             item == [items[i] EXCEPT !.status = status]
  <1>1. items[i] \in WorkItem
    BY DEF Items
  <1>2. item \in WorkItem /\ item.status = status
    BY <1>1, SetItemField
  <1>3. new = [items EXCEPT ![i] = item]
    BY DEF Marked
  <1> HIDE DEF new, item
  <1>4. new \in Items /\ \A k \in Item : new[k] = IF k = i THEN item ELSE items[k]
    BY <1>2, <1>3 DEF Items
  <1>5. Known(new) = Known(items) /\ i \in Known(items)
    BY <1>2, <1>4 DEF Known
  <1>6. Settled(new) = Settled(items) \/ Settled(new) = Settled(items) \cup {i}
    BY <1>2, <1>4 DEF Settled
  <1>7. status # "completed" => Settled(new) = Settled(items)
    BY <1>2, <1>4 DEF Settled
  <1> QED BY <1>4, <1>5, <1>6, <1>7 DEF new

\* What a call that passes its checks makes of the items: it discovers one,
\* settles one, or leaves what is known and settled alone; an agent's item it
\* does not name keeps its status and its attempt.
LEMMA StoredFacts ==
  ASSUME NEW r \in Run, work[r] \in Items, NEW c, CallForm(c), Accepts(r, c)
  PROVE  LET items == work[r]
             new == Stored(r, c)
         IN  /\ new \in Items
             /\ \/ Known(new) = Known(items) /\ Settled(new) = Settled(items)
                \/ /\ c.op = "submit" /\ c.value \in Candidate
                   /\ SameAttempt(items, c) /\ c.item \in Item
                   /\ Known(new) = Known(items) \cup {c.value}
                   /\ Settled(new) = Settled(items)
                \/ /\ c.op = "finish" /\ c.item \in Known(items)
                   /\ SameAttempt(items, c) /\ c.item \in Item
                   /\ Known(new) = Known(items)
                   /\ Settled(new) = Settled(items) \cup {c.item}
             /\ \A i \in Item :
                   /\ c.op # "begin" /\ items[i].status = "running"
                   /\ c.op \in {"claim", "skip", "finish"} => i # c.item
                   => new[i].status = "running" /\ new[i].try = items[i].try
  <1> DEFINE items == work[r]
             new == Stored(r, c)
             Same == Known(new) = Known(items) /\ Settled(new) = Settled(items)
             Kept == \A i \in Item : /\ items[i].status = "running"
                                     /\ c.op \in {"claim", "skip", "finish"} => i # c.item
                                     => new[i].status = "running" /\ new[i].try = items[i].try
  <1>0. /\ c.op \in {"begin", "claim", "skip", "deliver", "submit", "finish", "save"}
        /\ items \in Items
        /\ \A i \in Item : items[i] \in WorkItem
    BY DEF CallForm, Call, Items
  <1>1. CASE c.op = "begin"
    <2>1. new = Requeued(items, {"running"})
      BY <1>1 DEF Stored
    <2>2. {"running"} \in SUBSET (WorkStatus \ {"absent", "completed"})
      BY DEF WorkStatus
    <2>3. new \in Items /\ Same
      BY <1>0, <2>1, <2>2, RequeuedFacts
    <2> QED BY <1>1, <2>3
  <1>2. CASE new = items
    BY <1>0, <1>2
  <1>3. CASE c.op = "claim" /\ items[c.item].status = "queued"
    <2> DEFINE n == items[c.item].try + 1
               item == [status |-> "running", try |-> n, clean |-> FALSE]
    <2>1. c.item \in Item
      BY <1>3 DEF CallForm
    <2>2. n \in Nat
      BY <1>0, <2>1 DEF WorkItem
    <2>3. item \in WorkItem /\ item.status = "running"
      <3> HIDE DEF n
      <3> QED BY <2>2 DEF WorkItem, WorkStatus
    <2>4. new = [items EXCEPT ![c.item] = item]
      BY <1>3 DEF Stored
    <2> HIDE DEF item, new
    <2>5. new \in Items /\ \A k \in Item : new[k] = IF k = c.item THEN item ELSE items[k]
      BY <1>0, <2>1, <2>3, <2>4, OneItem
    <2>6. Same
      BY <1>3, <2>1, <2>3, <2>5 DEF Known, Settled
    <2>7. Kept
      BY <1>3, <2>5
    <2> QED BY <2>5, <2>6, <2>7 DEF new
  <1>4. CASE c.op = "skip" /\ items[c.item].status \in {"queued", "running"}
    <2>1. c.item \in Item /\ new = Marked(items, c.item, "skipped")
      BY <1>4 DEF CallForm, Stored
    <2>2. "skipped" \in WorkStatus \ {"absent"}
      BY DEF WorkStatus
    <2> HIDE DEF new
    <2>3. new \in Items /\ Same /\ \A k \in Item \ {c.item} : new[k] = items[k]
      BY <1>0, <1>4, <2>1, <2>2, MarkedFacts
    <2>4. Kept
      BY <1>4, <2>3
    <2> QED BY <2>3, <2>4 DEF new
  <1>5. CASE c.op = "deliver"
    <2> DEFINE item == [items[c.item] EXCEPT !.clean = TRUE]
    <2>1. c.item \in Item /\ SameAttempt(items, c)
      BY <1>5 DEF CallForm, Accepts
    <2>2. /\ item \in WorkItem /\ item.status = items[c.item].status
          /\ item.try = items[c.item].try
      BY <1>0, <2>1, SetItemField
    <2>3. new = [items EXCEPT ![c.item] = item]
      BY <1>5 DEF Stored
    <2> HIDE DEF item, new
    <2>4. new \in Items /\ \A k \in Item : new[k] = IF k = c.item THEN item ELSE items[k]
      BY <1>0, <2>1, <2>2, <2>3, OneItem
    <2>5. Same
      BY <2>1, <2>2, <2>4 DEF Known, Settled, SameAttempt
    <2>6. Kept
      BY <2>2, <2>4
    <2> QED BY <2>4, <2>5, <2>6 DEF new
  <1>6. CASE c.op = "submit" /\ items[c.value].status = "absent"
    <2>1. /\ c.item \in Item /\ SameAttempt(items, c)
          /\ c.value \in Candidate /\ c.value \in Item
      BY <1>6 DEF CallForm, Accepts, Item
    <2>2. new = [items EXCEPT ![c.value] = NewItem]
      BY <1>6 DEF Stored
    <2> HIDE DEF new
    <2>3. new \in Items /\ \A k \in Item : new[k] = IF k = c.value THEN NewItem ELSE items[k]
      BY <1>0, <2>1, <2>2, NewItemType, OneItem
    <2>4. Known(new) = Known(items) \cup {c.value}
      BY <2>1, <2>3, NewItemType DEF Known
    <2>5. Settled(new) = Settled(items)
      BY <1>6, <2>1, <2>3, NewItemType DEF Settled
    <2>6. Kept
      BY <1>6, <2>3
    <2> QED BY <1>6, <2>1, <2>3, <2>4, <2>5, <2>6 DEF new
  <1>7. CASE c.op = "finish"
    <2> DEFINE status == IF c.value = "completed" /\ deadline[r] = "hard"
                         THEN "interrupted" ELSE c.value
    <2>1. c.item \in Item /\ SameAttempt(items, c)
      BY <1>7 DEF CallForm, Accepts
    <2>2. status \in WorkStatus \ {"absent"}
      BY <1>7 DEF CallForm, Endings, WorkStatus
    <2>3. new = Marked(items, c.item, status)
      BY <1>7 DEF Stored
    <2>4. items[c.item].status \notin {"absent", "completed"}
      BY <2>1 DEF SameAttempt
    <2> HIDE DEF status, new
    <2>5. /\ new \in Items /\ Known(new) = Known(items)
          /\ \/ Settled(new) = Settled(items)
             \/ Settled(new) = Settled(items) \cup {c.item}
          /\ c.item \in Known(items)
          /\ \A k \in Item \ {c.item} : new[k] = items[k]
      BY <1>0, <2>1, <2>2, <2>3, <2>4, MarkedFacts
    <2>6. Kept
      BY <1>7, <2>5
    <2> QED BY <1>7, <2>1, <2>5, <2>6 DEF new
  <1>8. \/ new = items
        \/ c.op \in {"begin", "deliver", "finish"}
        \/ c.op = "claim" /\ items[c.item].status = "queued"
        \/ c.op = "skip" /\ items[c.item].status \in {"queued", "running"}
        \/ c.op = "submit" /\ items[c.value].status = "absent"
    BY <1>0 DEF Stored
  <1> QED BY <1>0, <1>1, <1>2, <1>3, <1>4, <1>5, <1>6, <1>7, <1>8

-----------------------------------------------------------------------------
(* What a step of the queue does to the rows of jobs that exist already *)

SameLease(j) ==
    /\ job[j].status = "leased"
    /\ job'[j].owner = job[j].owner
    /\ job'[j].attempts = job[j].attempts

\* No job appears or comes back to life, and a lease is kept or a later one.
QuietRow(j) ==
    /\ job'[j].status = "absent" <=> job[j].status = "absent"
    /\ job'[j].status \in Active => job[j].status \in Active
    /\ job[j].attempts <= job'[j].attempts
    /\ job'[j].status = "leased" => SameLease(j) \/ job[j].attempts < job'[j].attempts

QuietJobs == \A j \in ReviewJob : QuietRow(j)

\* The row of a review job is a row.
LEMMA ReviewRow ==
  ASSUME QueueInv, NEW j \in ReviewJob
  PROVE  j \in Job /\ GoodRow(job[j]) /\ job[j] \in JobRow /\ job[j].attempts \in Nat
  <1>1. j \in Job /\ GoodRow(job[j])
    BY InvRows
  <1> QED BY <1>1 DEF GoodRow, JobRow

\* A row that is left alone is quiet.
LEMMA KeptIsQuiet ==
  ASSUME QueueInv, NEW j \in ReviewJob, job'[j] = job[j]
  PROVE  QuietRow(j)
  BY ReviewRow DEF QuietRow, SameLease

\* A table that is left alone is quiet.
LEMMA KeptJobs ==
  ASSUME QueueInv, job' = job
  PROVE  QuietJobs
  BY KeptIsQuiet DEF QuietJobs

\* A job that loses its lease, or is retried after it, is quiet.
LEMMA LostLeaseIsQuiet ==
  ASSUME QueueInv, NEW j \in ReviewJob,
         job'[j].attempts = job[j].attempts,
         job'[j].status \notin {"leased", "absent"},
         job[j].status \in Active
  PROVE  QuietRow(j)
  BY ReviewRow DEF QuietRow, Active

\* The rows that a claim buries are quiet.
LEMMA BurialIsQuiet ==
  ASSUME QueueInv, NEW j \in ReviewJob, NEW d \in Age, job'[j] = AfterBurial(d)[j]
  PROVE  QuietRow(j)
  <1>1. j \in Job /\ GoodRow(job[j])
    BY ReviewRow
  <1>2. CASE j \in Buried(d)
    <2>1. job'[j] = Unleased(job[j], "dead_letter") /\ job[j].status = "leased"
      BY <1>1, <1>2 DEF AfterBurial, Buried
    <2>2. job'[j].attempts = job[j].attempts /\ job'[j].status = "dead_letter"
      BY <1>1, <2>1, UnleasedRow DEF JobStatus
    <2> QED BY <2>1, <2>2, LostLeaseIsQuiet DEF Active
  <1>3. CASE j \notin Buried(d)
    BY <1>1, <1>3, KeptIsQuiet DEF AfterBurial
  <1> QED BY <1>2, <1>3

\* A claim that grants nothing is quiet.
LEMMA ClaimNothingIsQuiet ==
  ASSUME QueueInv, NEW w \in Worker, NEW d \in Age, NEW live, ClaimNothing(w, d, live)
  PROVE  QuietJobs
  BY BurialIsQuiet DEF QuietJobs, ClaimNothing

\* A claim gives one job a new attempt, which the worker runs.
LEMMA ClaimJobFacts ==
  ASSUME QueueInv, NEW w \in ReviewWorker, NEW d \in Age, NEW live, ClaimJob(w, d, live)
  PROVE  /\ QuietJobs
         /\ worker[w].phase = "claiming"
         /\ \A v \in ReviewWorker \ {w} : worker'[v] = worker[v]
         /\ worker'[w].phase = "running"
         /\ worker'[w].job \in ReviewJob \cap live
         /\ job[worker'[w].job].status \in Active
         /\ worker'[w].attempt = job[worker'[w].job].attempts + 1
  <1>1. PICK j \in Oldest(Candidates(w, d, live)) :
          /\ job' = [AfterBurial(d) EXCEPT ![j] = Granted(w, j, d)]
          /\ worker' = [worker EXCEPT ![w] =
                           [@ EXCEPT !.phase = "running", !.job = j,
                                     !.attempt = job[j].attempts + 1,
                                     !.beating = TRUE]]
    BY DEF ClaimJob
  <1>2. /\ j \in ReviewJob /\ j \in live /\ j \in Job
        /\ job[j].attempts < job[j].max /\ job[j].status \in Active
        /\ worker[w].phase = "claiming" /\ w \in Worker
    BY DEF Oldest, Candidates, Serves, Eligible, Active, ClaimJob
  <1>3. worker[w] \in WorkerState /\ worker \in [Worker -> WorkerState]
    BY <1>2 DEF QueueInv, QueueTypeOK
  <1>4. \A v \in ReviewWorker \ {w} : worker'[v] = worker[v]
    BY <1>1, <1>3
  <1>5. /\ worker'[w].phase = "running" /\ worker'[w].job = j
        /\ worker'[w].attempt = job[j].attempts + 1
    BY <1>1, <1>2, <1>3 DEF WorkerState
  <1>6. DOMAIN AfterBurial(d) = Job
    BY DEF AfterBurial
  <1>7. \A k \in ReviewJob \ {j} : QuietRow(k)
    <2>1. \A k \in ReviewJob \ {j} : job'[k] = AfterBurial(d)[k]
      BY <1>1, <1>6
    <2> QED BY <2>1, BurialIsQuiet
  <1>8. QuietRow(j)
    <2>1. job'[j] = Granted(w, j, d)
      BY <1>1, <1>2, <1>6
    <2>2. GoodRow(job[j]) /\ job[j].attempts \in Nat
      BY <1>2, ReviewRow
    <2>3. job'[j].attempts = job[j].attempts + 1 /\ job'[j].status = "leased"
      BY <1>2, <2>1, <2>2, GrantedRow
    <2> QED BY <1>2, <2>2, <2>3 DEF QuietRow, Active
  <1> QED BY <1>2, <1>4, <1>5, <1>7, <1>8 DEF QuietJobs

\* A heartbeat renews a lease or does nothing to the table.
LEMMA HeartbeatIsQuiet ==
  ASSUME QueueInv, NEW w \in Worker, NEW d \in Age, Heartbeat(w, d)
  PROVE  QuietJobs
  <1> DEFINE j == worker[w].job
             row == [job[j] EXCEPT !.left = LeaseTicks - d]
  <1>1. CASE job' = job
    BY <1>1, KeptJobs
  <1>2. CASE job' = Renewed(j, d) /\ job[j].status = "leased"
    <2>1. j \in Job /\ job[j] \in JobRow /\ job \in [Job -> JobRow]
      BY HeldJob DEF Heartbeat, QueueInv, QueueTypeOK
    <2>2. /\ row.status = job[j].status /\ row.owner = job[j].owner
          /\ row.attempts = job[j].attempts
      BY <2>1 DEF JobRow
    <2>3. job' = [job EXCEPT ![j] = row]
      BY <1>2 DEF Renewed
    <2> HIDE DEF row, j
    <2>4. \A k \in ReviewJob \ {j} : job'[k] = job[k]
      BY <2>1, <2>3
    <2>5. j \in ReviewJob => QuietRow(j)
      <3>1. job'[j] = row
        BY <2>1, <2>3
      <3> QED BY <1>2, <2>2, <3>1, ReviewRow DEF QuietRow, SameLease
    <2> QED BY <2>4, <2>5, KeptIsQuiet DEF QuietJobs
  <1> QED BY <1>1, <1>2 DEF Heartbeat, Owns

\* A receipt ends a lease or does nothing to the table.
LEMMA ReceiptIsQuiet ==
  ASSUME QueueInv, NEW w \in Worker, NEW d \in Age, Complete(w, d) \/ Fail(w, d)
  PROVE  QuietJobs
  <1> DEFINE j == worker[w].job
             v == VerdictOn(w, job[j])
             done == Unleased(job[j], "completed")
             over == FailedRow(job[j], v, d)
  <1>1. worker[w].phase \in Holding /\ j \in Job /\ GoodRow(job[j]) /\ job \in [Job -> JobRow]
    BY HeldJob, InvRows DEF Complete, Fail, Holding, Ended, QueueInv, QueueTypeOK
  <1>2. CASE job' = job
    BY <1>2, KeptJobs
  <1>3. ASSUME job[j].status = "leased",
               NEW row, job' = [job EXCEPT ![j] = row],
               row.attempts = job[j].attempts, row.status \notin {"leased", "absent"}
        PROVE  QuietJobs
    <2> HIDE DEF j
    <2>1. \A k \in ReviewJob \ {j} : job'[k] = job[k]
      BY <1>1, <1>3
    <2>2. j \in ReviewJob => QuietRow(j)
      <3>1. job'[j] = row
        BY <1>1, <1>3
      <3> QED BY <1>3, <3>1, LostLeaseIsQuiet DEF Active
    <2> QED BY <2>1, <2>2, KeptIsQuiet DEF QuietJobs
  <1>4. CASE Owns(w, j, worker[w].attempt, d) /\ Complete(w, d)
    <2>1. done.attempts = job[j].attempts /\ done.status = "completed"
      BY <1>1, UnleasedRow DEF JobStatus
    <2>2. job' = [job EXCEPT ![j] = done] /\ job[j].status = "leased"
      BY <1>4 DEF Complete, Owns
    <2> HIDE DEF done, j
    <2> QED BY <1>3, <2>1, <2>2
  <1>5. CASE Owns(w, j, worker[w].attempt, d) /\ Fail(w, d)
    <2>1. v \in Verdict /\ v.status # "none"
      BY <1>1, VerdictType DEF GoodRow
    <2>2. job' = [job EXCEPT ![j] = over] /\ job[j].status = "leased"
      BY <1>5 DEF Fail, Owns
    <2> HIDE DEF v, j
    <2>3. over.attempts = job[j].attempts /\ over.status \in {"retry", "dead_letter"}
      BY <1>1, <2>1, FailedRowIsGood
    <2> HIDE DEF over
    <2> QED BY <1>3, <2>2, <2>3
  <1> QED BY <1>2, <1>4, <1>5 DEF Complete, Fail

\* Time passing is quiet.
LEMMA TickIsQuiet ==
  ASSUME QueueInv, Tick
  PROVE  QuietJobs
  <1> DEFINE t(j) == [job[j] EXCEPT !.left = Down(@, Expired), !.wait = Down(@, Ready)]
  <1>1. \A j \in Job : /\ t(j).status = job[j].status /\ t(j).owner = job[j].owner
                       /\ t(j).attempts = job[j].attempts
    BY InvRows, TickedRow
  <1>2. job' = [j \in Job |-> t(j)]
    BY DEF Tick
  <1> HIDE DEF t
  <1> QED BY <1>1, <1>2, ReviewRow DEF QuietJobs, QuietRow, SameLease

-----------------------------------------------------------------------------
(* What every step keeps of the facts that jobs, handlers and calls rely on *)

\* Reviews, reports and settled work stay; a job stays with its review, its
\* lease is kept or replaced by a later one, and while it is leased its review
\* is not queued again; a job that may be run belongs to a live review.
Onward ==
    /\ \A r \in Run : run[r].status # "absent" =>
          /\ run'[r].status # "absent"
          /\ run[r].report # Nobody => run'[r].report # Nobody
          /\ AllSettled(work[r]) => AllSettled(work'[r])
    /\ \A j \in ReviewJob : job[j].status # "absent" =>
          LET r == jobOf[j].run
          IN  /\ QuietRow(j)
              /\ jobOf'[j] = jobOf[j]
              /\ job'[j].status \in Active => run'[r].status # "cancelled" /\ ~run'[r].deleted
              /\ job[j].status = "leased" /\ run'[r].status = "queued"
                    => run[r].status = "queued"

NoNewJobs ==
    \A j \in ReviewJob : job[j].status = "absent" =>
        job'[j].status = "absent" /\ jobOf'[j] = jobOf[j]

\* The job j is added for the review r, which has no other to be run.
OneNewJob(j, r) ==
    /\ job[j].status = "absent" /\ job'[j].status = "queued"
    /\ jobOf'[j].run = r
    /\ run'[r].status \notin {"absent", "cancelled"} /\ ~run'[r].deleted
    /\ jobOf'[j].kind = "overview" => run'[r].report # Nobody
    /\ \A k \in ReviewJob \ {j} : job[k].status = "absent" =>
          job'[k].status = "absent" /\ jobOf'[k] = jobOf[k]
    /\ \A k \in ReviewJob \ {j} : jobOf[k].run = r => job'[k].status \notin Active

\* A job that exists belongs to a review that exists.
LEMMA JobRun ==
  ASSUME LifecycleInv, NEW j \in ReviewJob
  PROVE  /\ job[j].status # "absent" <=> jobOf[j].run \in Run
         /\ jobOf[j].run # Nobody <=> jobOf[j].run \in Run
         /\ job[j].status # "absent" => run[jobOf[j].run].status # "absent"
         /\ job[j].status \in Active => job[j].status # "absent"
  BY NobodyIsNone DEF LifecycleInv, LifecycleTypeOK, JobOK, Active

\* What one step makes of a job that exists.
LEMMA JobStays ==
  ASSUME LifecycleInv, Onward, NEW j \in ReviewJob, job[j].status # "absent"
  PROVE  JobOK(j)'
  <1> DEFINE r == jobOf[j].run
  <1>1. r \in Run /\ r # Nobody /\ run[r].status # "absent" /\ jobOf'[j] = jobOf[j]
    BY JobRun DEF Onward
  <1>2. run'[r].status # "absent" /\ job'[j].status # "absent"
    BY <1>1 DEF Onward, QuietRow
  <1>3. jobOf[j].kind = "overview" => run'[r].report # Nobody
    BY <1>1 DEF Onward, LifecycleInv, JobOK
  <1>4. job'[j].status \in Active => run'[r].status # "cancelled" /\ ~run'[r].deleted
    BY DEF Onward
  <1> QED BY <1>1, <1>2, <1>3, <1>4 DEF JobOK, LiveJobs

\* A step that adds no job keeps what is said of jobs.
LEMMA JobsStay ==
  ASSUME LifecycleInv, Onward, NoNewJobs
  PROVE  (\A j \in ReviewJob : JobOK(j)') /\ OneActiveJob'
  <1>1. ASSUME NEW j \in ReviewJob
        PROVE  JobOK(j)'
    <2>1. CASE job[j].status # "absent"
      BY <2>1, JobStays
    <2>2. CASE job[j].status = "absent"
      <3>1. job'[j].status = "absent" /\ jobOf'[j].run = Nobody /\ jobOf'[j].kind # "overview"
        BY <2>2 DEF NoNewJobs, LifecycleInv, JobOK
      <3> QED BY <3>1 DEF JobOK, Active
    <2> QED BY <2>1, <2>2
  <1>2. ASSUME NEW j \in ReviewJob, job'[j].status \in Active
        PROVE  job[j].status \in Active /\ jobOf'[j] = jobOf[j]
    <2>1. job[j].status # "absent"
      BY <1>2 DEF NoNewJobs, Active
    <2> QED BY <1>2, <2>1 DEF Onward, QuietRow
  <1>3. OneActiveJob'
    <2> SUFFICES ASSUME NEW r \in Run, NEW j \in ReviewJob, NEW k \in ReviewJob,
                        jobOf'[j].run = r, jobOf'[k].run = r,
                        job'[j].status \in Active, job'[k].status \in Active
                 PROVE  j = k
      BY DEF OneActiveJob, JobsOf
    <2> QED BY <1>2 DEF LifecycleInv, OneActiveJob, JobsOf
  <1> QED BY <1>1, <1>3

\* So does one that adds a job to a review without one.
LEMMA JobsGrow ==
  ASSUME LifecycleInv, Onward, NEW j \in ReviewJob, NEW r \in Run, OneNewJob(j, r)
  PROVE  (\A k \in ReviewJob : JobOK(k)') /\ OneActiveJob'
  <1>1. JobOK(j)'
    <2>1. j \in LiveJobs'
      BY NobodyIsNone DEF OneNewJob, LiveJobs
    <2>2. r # Nobody
      BY NobodyIsNone
    <2> QED BY <2>1, <2>2 DEF OneNewJob, JobOK
  <1>2. ASSUME NEW k \in ReviewJob \ {j}
        PROVE  JobOK(k)'
    <2>1. CASE job[k].status # "absent"
      BY <2>1, JobStays
    <2>2. CASE job[k].status = "absent"
      <3>1. job'[k].status = "absent" /\ jobOf'[k].run = Nobody /\ jobOf'[k].kind # "overview"
        BY <2>2 DEF OneNewJob, LifecycleInv, JobOK
      <3> QED BY <3>1 DEF JobOK, Active
    <2> QED BY <2>1, <2>2
  <1>3. ASSUME NEW k \in ReviewJob \ {j}, job'[k].status \in Active
        PROVE  job[k].status \in Active /\ jobOf'[k] = jobOf[k] /\ jobOf[k].run # r
    <2>1. job[k].status # "absent"
      BY <1>3 DEF OneNewJob, Active
    <2> QED BY <1>3, <2>1 DEF Onward, QuietRow, OneNewJob
  <1>4. OneActiveJob'
    <2> SUFFICES ASSUME NEW s \in Run, NEW k \in ReviewJob, NEW l \in ReviewJob,
                        jobOf'[k].run = s, jobOf'[l].run = s,
                        job'[k].status \in Active, job'[l].status \in Active
                 PROVE  k = l
      BY DEF OneActiveJob, JobsOf
    <2>1. CASE k # j /\ l # j
      BY <1>3, <2>1 DEF LifecycleInv, OneActiveJob, JobsOf
    <2>2. CASE k = j \/ l = j
      BY <1>3, <2>2 DEF OneNewJob
    <2> QED BY <2>1, <2>2
  <1> QED BY <1>1, <1>2, <1>4

\* A lease that is the latest after a step was the latest before it.
LEMMA GripStays ==
  ASSUME LifecycleInv, Onward, NEW lease, lease.job \in ReviewJob, lease.attempt \in Nat,
         job[lease.job].status # "absent",
         lease.attempt <= job[lease.job].attempts,
         Grip(lease)'
  PROVE  /\ Grip(lease)
         /\ run'[jobOf[lease.job].run].status = "queued"
              => run[jobOf[lease.job].run].status = "queued"
  <1> DEFINE j == lease.job
  <1>1. QuietRow(j) /\ job[j].attempts \in Nat
    BY ReviewRow DEF Onward, LifecycleInv
  <1>2. job'[j].status = "leased" /\ job'[j].owner = lease.owner
        /\ job'[j].attempts = lease.attempt
    BY DEF Grip
  <1>3. SameLease(j)
    BY <1>1, <1>2 DEF QuietRow
  <1>4. Grip(lease) /\ job[j].status = "leased"
    BY <1>2, <1>3 DEF Grip, SameLease
  <1> QED BY <1>4 DEF Onward

\* What is said of a call stays true while it waits in its thread.
LEMMA CallStays ==
  ASSUME LifecycleInv, QueueInv', Onward, NEW c, CallOK(c)
  PROVE  CallOK(c)'
  <1> DEFINE j == c.lease.job
             r == jobOf[j].run
  <1>1. /\ CallForm(c) /\ r # Nobody /\ c.lease.attempt <= job[j].attempts
        /\ c.op = "save" /\ c.value = "completed" => AllSettled(work[r])
        /\ c.op # "begin" /\ Grip(c.lease) => run[r].status # "queued"
    BY DEF CallOK
  <1>2. j \in ReviewJob /\ c.lease.attempt \in Nat
    BY <1>1 DEF CallForm, Call, Lease
  <1>3. r \in Run /\ job[j].status # "absent" /\ run[r].status # "absent"
    BY <1>1, <1>2, JobRun
  <1>4. jobOf'[j] = jobOf[j] /\ QuietRow(j)
    BY <1>2, <1>3 DEF Onward
  <1>5. CallForm(c)'
    BY <1>1 DEF CallForm
  <1>6. c.lease.attempt <= job'[j].attempts
    <2>1. job[j].attempts \in Nat /\ job[j].attempts <= job'[j].attempts
      BY <1>2, <1>4, ReviewRow DEF QuietRow, LifecycleInv
    <2>2. job'[j].attempts \in Nat
      BY <1>2 DEF QueueInv, QueueTypeOK, JobRow
    <2> QED BY <1>1, <1>2, <2>1, <2>2
  <1>7. c.op = "save" /\ c.value = "completed" => AllSettled(work'[r])
    BY <1>1, <1>3 DEF Onward
  <1>8. c.op # "begin" /\ Grip(c.lease)' => run'[r].status # "queued"
    BY <1>1, <1>2, <1>3, GripStays
  <1> QED BY <1>1, <1>4, <1>5, <1>6, <1>7, <1>8 DEF CallOK

-----------------------------------------------------------------------------
(* What every step keeps of handlers and of the calls they left behind *)

\* The process w runs the same attempt of the same job after the step.
SameClaim(w) ==
    /\ worker[w].phase = "running" /\ worker'[w].phase = "running"
    /\ worker'[w].job = worker[w].job /\ worker'[w].attempt = worker[w].attempt

\* While its attempt stays the latest, the items of the agents in h keep running.
Spared(w, h) ==
    Grip(LeaseOf(w)) /\ Grip(LeaseOf(w))' =>
        \A i \in Item :
            h.agent[i].state = "working" /\ work[RunOf(w)][i].status = "running" =>
                /\ work'[RunOf(w)][i].status = "running"
                /\ work'[RunOf(w)][i].try = work[RunOf(w)][i].try

\* The lease of a process that runs a handler.
LEMMA RunningLease ==
  ASSUME LifecycleInv, NEW w \in ReviewWorker, worker[w].phase = "running"
  PROVE  /\ LeaseOf(w) \in Lease
         /\ LeaseOf(w).job = worker[w].job
         /\ LeaseOf(w).owner = w
         /\ LeaseOf(w).attempt = worker[w].attempt
         /\ worker[w].job \in ReviewJob
         /\ worker[w].attempt \in Nat
         /\ worker[w].attempt <= job[worker[w].job].attempts
         /\ RunOf(w) \in Run /\ run[RunOf(w)].status # "absent"
         /\ job[worker[w].job].status # "absent"
  <1>1. worker[w].phase \in Holding
    BY DEF Holding
  <1>2. worker[w].attempt \in Nat /\ worker[w].attempt <= job[worker[w].job].attempts
    BY <1>1, HeldJob DEF LifecycleInv, QueueInv, AttemptsWereGranted
  <1>3. worker[w].job \in ReviewJob /\ RunOf(w) # Nobody
    BY DEF LifecycleInv, HandlerOK, Fits
  <1>4. RunOf(w) \in Run /\ job[worker[w].job].status # "absent"
        /\ run[RunOf(w)].status # "absent"
    BY <1>3, JobRun DEF RunOf
  <1> QED BY <1>2, <1>3, <1>4 DEF LeaseOf, Lease

\* Its review is the same after a step.
LEMMA SameRun ==
  ASSUME LifecycleInv, Onward, NEW w \in ReviewWorker, SameClaim(w)
  PROVE  RunOf(w)' = RunOf(w) /\ LeaseOf(w)' = LeaseOf(w)
  <1>1. worker[w].job \in ReviewJob /\ job[worker[w].job].status # "absent"
    BY RunningLease DEF SameClaim
  <1> QED BY <1>1 DEF Onward, SameClaim, RunOf, LeaseOf

\* What fits a handler goes on fitting it.
LEMMA FitsStays ==
  ASSUME LifecycleInv, Onward, NEW w \in ReviewWorker, SameClaim(w),
         NEW h, Fits(w, h)
  PROVE  Fits(w, h)'
  <1>1. RunOf(w)' = RunOf(w) /\ worker'[w].job = worker[w].job
    BY SameRun DEF SameClaim
  <1>2. RunOf(w) \in Run /\ run[RunOf(w)].status # "absent"
    BY RunningLease DEF SameClaim
  <1>3. AllSettled(work[RunOf(w)]) => AllSettled(work'[RunOf(w)])
    BY <1>2 DEF Onward
  <1> QED BY <1>1, <1>3 DEF Fits

\* What agrees with the database goes on to, if its items are spared.
LEMMA AgreesStays ==
  ASSUME LifecycleInv, Onward, NEW w \in ReviewWorker, SameClaim(w),
         NEW h, Agrees(w, h), Spared(w, h)
  PROVE  Agrees(w, h)'
  <1> SUFFICES ASSUME Grip(LeaseOf(w))'
               PROVE  /\ h.pc \notin EarlyPC => run'[RunOf(w)].status # "queued"
                      /\ \A i \in Item : h.agent[i].state = "working" =>
                            /\ work'[RunOf(w)][i].status = "running"
                            /\ work'[RunOf(w)][i].try = h.agent[i].try
    BY SameRun DEF Agrees
  <1> DEFINE l == LeaseOf(w)
  <1>1. /\ l.job = worker[w].job /\ l.job \in ReviewJob /\ l.attempt \in Nat
        /\ job[l.job].status # "absent" /\ l.attempt <= job[l.job].attempts
    BY RunningLease DEF SameClaim
  <1>2. \A k : k = l => Grip(k)'
    BY SameRun
  <1> HIDE DEF l
  <1>3. /\ Grip(l)
        /\ run'[jobOf[l.job].run].status = "queued" => run[jobOf[l.job].run].status = "queued"
    BY <1>1, <1>2, GripStays
  <1>4. jobOf[l.job].run = RunOf(w)
    BY <1>1 DEF RunOf
  <1> QED BY <1>3, <1>4 DEF Agrees, Spared, l

\* A handler that the step leaves alone stays as it should be.
LEMMA HandlerStays ==
  ASSUME LifecycleInv, Onward, NEW w \in ReviewWorker,
         worker'[w] = worker[w], handler'[w] = handler[w],
         worker[w].phase = "running" => Spared(w, handler[w])
  PROVE  HandlerOK(w)'
  <1>1. CASE worker[w].phase = "running"
    <2> DEFINE h == handler[w]
    <2>1. SameClaim(w) /\ Fits(w, h) /\ Agrees(w, h) /\ Spared(w, h)
      BY <1>1 DEF SameClaim, LifecycleInv, HandlerOK
    <2>2. \A k : k = h => Fits(w, k)' /\ Agrees(w, k)'
      <3> HIDE DEF h
      <3> QED BY <2>1, FitsStays, AgreesStays
    <2> QED BY <1>1, <2>2 DEF HandlerOK
  <1>2. CASE worker[w].phase # "running"
    BY <1>2 DEF LifecycleInv, HandlerOK
  <1> QED BY <1>1, <1>2

\* A step of the process w, as the other processes and the calls see it: w
\* stays with its claim and does not go back behind the hard deadline, or it
\* holds a later one than any call; it leaves behind calls of its own only, and
\* while it runs only past the hard deadline.
Moves(w) ==
    /\ \A v \in ReviewWorker \ {w} : worker'[v] = worker[v] /\ handler'[v] = handler[v]
    /\ worker'[w].phase = "running" =>
          \/ SameClaim(w) /\ (handler[w].pc \in EndPC => handler'[w].pc \in EndPC)
          \/ \A c \in late : c.lease.job = worker'[w].job => c.lease.attempt # worker'[w].attempt
    /\ \A c \in late' \ late :
          /\ CallOK(c)
          /\ c.lease.owner = w
          /\ worker'[w].phase = "running" => handler'[w].pc \in EndPC

\* The calls left behind stay as they should be.
LEMMA LateStays ==
  ASSUME LifecycleInv, QueueInv', Onward, NEW w \in ReviewWorker, Moves(w)
  PROVE  \A c \in late' : LateOK(c)'
  <1> SUFFICES ASSUME NEW c \in late' PROVE LateOK(c)'
    OBVIOUS
  <1>1. CallOK(c)
    BY DEF Moves, LifecycleInv, LateOK
  <1>2. CallOK(c)'
    <2>1. \A k : CallOK(k) => CallOK(k)'
      BY CallStays
    <2> QED BY <1>1, <2>1
  <1>3. ASSUME NEW v \in ReviewWorker, worker'[v].phase = "running", IsLeaseOf(c.lease, v)'
        PROVE  handler'[v].pc \in EndPC
    <2>1. c.lease.owner = v /\ c.lease.job = worker'[v].job /\ c.lease.attempt = worker'[v].attempt
      BY <1>3 DEF IsLeaseOf
    <2>2. CASE c \notin late
      BY <1>3, <2>1, <2>2 DEF Moves
    <2>3. CASE c \in late /\ v # w
      BY <1>3, <2>1, <2>3 DEF Moves, LifecycleInv, LateOK, IsLeaseOf
    <2>4. CASE c \in late /\ v = w
      <3>1. SameClaim(w) /\ (handler[w].pc \in EndPC => handler'[w].pc \in EndPC)
        BY <1>3, <2>1, <2>4 DEF Moves
      <3>2. handler[w].pc \in EndPC
        BY <2>1, <2>4, <3>1 DEF LifecycleInv, LateOK, IsLeaseOf, SameClaim
      <3> QED BY <2>4, <3>1, <3>2
    <2> QED BY <2>2, <2>3, <2>4
  <1> QED BY <1>2, <1>3 DEF LateOK

\* All parts together: a step of one process keeps the invariant.
LEMMA ProcessKeepsInv ==
  ASSUME LifecycleInv, QueueInv', LifecycleTypeOK', \A r \in Run : RunOK(r)',
         Onward, NoNewJobs,
         NEW w \in ReviewWorker, Moves(w), HandlerOK(w)',
         \A v \in ReviewWorker \ {w} : worker[v].phase = "running" => Spared(v, handler[v])
  PROVE  LifecycleInv'
  <1>1. (\A j \in ReviewJob : JobOK(j)') /\ OneActiveJob'
    BY JobsStay
  <1>2. \A v \in ReviewWorker : HandlerOK(v)'
    BY HandlerStays DEF Moves
  <1>3. \A c \in late' : LateOK(c)'
    BY LateStays
  <1> QED BY <1>1, <1>2, <1>3 DEF LifecycleInv

\* So does a step that no process takes part in.
LEMMA CallerKeepsInv ==
  ASSUME LifecycleInv, QueueInv', LifecycleTypeOK', \A r \in Run : RunOK(r)',
         Onward, (\A j \in ReviewJob : JobOK(j)') /\ OneActiveJob',
         worker' = worker, handler' = handler, late' \subseteq late,
         \A v \in ReviewWorker : worker[v].phase = "running" => Spared(v, handler[v])
  PROVE  LifecycleInv'
  <1>1. \A v \in ReviewWorker : HandlerOK(v)'
    BY HandlerStays
  <1>2. ASSUME NEW c \in late'
        PROVE  LateOK(c)'
    <2>1. LateOK(c)
      BY DEF LifecycleInv
    <2>2. \A k : CallOK(k) => CallOK(k)'
      BY CallStays
    <2>3. \A v \in ReviewWorker : IsLeaseOf(c.lease, v)' => IsLeaseOf(c.lease, v)
      BY DEF IsLeaseOf
    <2> QED BY <2>1, <2>2, <2>3 DEF LateOK
  <1> QED BY <1>1, <1>2 DEF LifecycleInv

-----------------------------------------------------------------------------
(* The transactions of the store *)

\* The tables of runs and items are well typed.
LEMMA TableTypes ==
  ASSUME LifecycleInv
  PROVE  run \in [Run -> RunRow] /\ work \in [Run -> Items]
  BY DEF LifecycleInv, LifecycleTypeOK, RunRow, Items

\* A step that leaves runs and items alone keeps what is said of them.
LEMMA TablesKept ==
  ASSUME LifecycleInv, QuietJobs, run' = run, work' = work, jobOf' = jobOf
  PROVE  /\ Onward /\ NoNewJobs
         /\ \A r \in Run : RunOK(r)'
         /\ \A w \in ReviewWorker : \A h : Spared(w, h)
  <1>1. Onward
    <2>1. \A j \in ReviewJob : job'[j].status \in Active =>
              run[jobOf[j].run].status # "cancelled" /\ ~run[jobOf[j].run].deleted
      BY DEF QuietJobs, QuietRow, LifecycleInv, JobOK, LiveJobs
    <2> QED BY <2>1 DEF Onward, QuietJobs
  <1>2. NoNewJobs
    BY DEF NoNewJobs, QuietJobs, QuietRow
  <1>3. \A r \in Run : RunOK(r)'
    BY DEF LifecycleInv, RunOK
  <1>4. \A w \in ReviewWorker : \A h : Spared(w, h)
    BY DEF Spared
  <1> QED BY <1>1, <1>2, <1>3, <1>4

\* What a call that works writes into the row of its run: a beginning makes it
\* running, a report ends it, anything else leaves it alone.
LEMMA WorksFacts ==
  ASSUME LifecycleInv, NEW c, CallOK(c), Works(c)
  PROVE  LET r == jobOf[c.lease.job].run
         IN  /\ r \in Run /\ c.lease.job \in ReviewJob
             /\ CallForm(c) /\ Accepts(r, c)
             /\ run[r].status \in Live /\ ~run[r].deleted
             /\ Grip(c.lease)
             /\ RowAfter(r, c) \in RunRow
             /\ RowAfter(r, c).deleted = run[r].deleted
             /\ c.op = "begin" => /\ RowAfter(r, c).status = "running"
                                  /\ RowAfter(r, c).report = run[r].report
             /\ c.op = "save" => /\ RowAfter(r, c).status = c.value
                                 /\ RowAfter(r, c).report = c.value
             /\ c.op \notin {"begin", "save"} => RowAfter(r, c) = run[r]
  <1> DEFINE r == jobOf[c.lease.job].run
  <1>1. CallForm(c) /\ c.lease.job \in ReviewJob /\ r # Nobody
    BY DEF CallOK, CallForm, Call, Lease
  <1>2. r \in Run /\ run[r].status # "absent"
    BY <1>1, JobRun
  <1>3. run[r] \in RunRow
    BY <1>2, TableTypes
  <1>4. Accepts(r, c) /\ ~run[r].deleted /\ run[r].status \notin TERMINAL /\ Grip(c.lease)
    BY DEF Works, Fence, Owns, Grip
  <1>5. run[r].status \in Live
    BY <1>2, <1>3, <1>4 DEF RunRow
  <1>6. CASE c.op = "begin"
    <2>1. "running" \in Live \cup TERMINAL \cup {"absent"}
      BY DEF Live
    <2>2. PICK row \in RunRow : row = run[r]
      BY <1>3
    <2>3. PICK new : new = [row EXCEPT !.status = "running"]
      OBVIOUS
    <2>4. new \in RunRow /\ new.status = "running" /\ new.report = row.report /\ new.deleted = row.deleted
      BY <2>1, <2>3, SetRunColumn
    <2>5. RowAfter(r, c) = new
      BY <1>6, <2>2, <2>3 DEF RowAfter
    <2> QED BY <1>1, <1>2, <1>4, <1>5, <1>6, <2>2, <2>4, <2>5
  <1>7. CASE c.op = "save"
    <2>1. c.value \in TERMINAL
      BY <1>1, <1>7 DEF CallForm, Reported, TERMINAL
    <2>2. PICK row \in RunRow : row = run[r]
      BY <1>3
    <2>3. PICK new : new = WithReport(row, c.value)
      OBVIOUS
    <2>4. new \in RunRow /\ new.status = c.value /\ new.report = c.value /\ new.deleted = row.deleted
      BY <2>1, <2>3, ReportedRow
    <2>5. RowAfter(r, c) = new
      BY <1>7, <2>2, <2>3 DEF RowAfter
    <2> QED BY <1>1, <1>2, <1>4, <1>5, <1>7, <2>2, <2>4, <2>5
  <1>8. CASE c.op \notin {"begin", "save"}
    <2>1. RowAfter(r, c) = run[r]
      BY <1>8 DEF RowAfter
    <2> QED BY <1>1, <1>2, <1>3, <1>4, <1>5, <1>8, <2>1
  <1> QED BY <1>6, <1>7, <1>8

\* Settled work stays settled under a call that passes its checks: an open
\* item is needed to discover or to settle another.
LEMMA StoredSettled ==
  ASSUME NEW r \in Run, work[r] \in Items, NEW c, CallForm(c), Accepts(r, c),
         AllSettled(work[r])
  PROVE  AllSettled(Stored(r, c))
  <1> DEFINE items == work[r]
             new == Stored(r, c)
  <1>1. Known(items) = Settled(items)
    BY SettledIsKnown
  <1>2. \A i \in Item : ~(SameAttempt(items, c) /\ c.item = i)
    BY DEF AllSettled, Settled, SameAttempt
  <1>3. Known(new) = Known(items) /\ Settled(new) = Settled(items)
    <2> HIDE DEF new
    <2> QED BY <1>2, StoredFacts DEF new
  <1> HIDE DEF new, items
  <1>4. Known(new) = Settled(new)
    BY <1>1, <1>3
  <1> QED BY <1>4, SettledIsKnown DEF new

\* A call commits, or changes nothing: what it keeps.
LEMMA CommitFacts ==
  ASSUME LifecycleInv, NEW c, CallOK(c), Commit(c), job' = job, jobOf' = jobOf
  PROVE  /\ run' \in [Run -> RunRow] /\ work' \in [Run -> Items]
         /\ \A r \in Run : RunOK(r)'
         /\ Onward /\ NoNewJobs
  <1> DEFINE r == jobOf[c.lease.job].run
             row == RowAfter(r, c)
             new == Stored(r, c)
  <1>0. QuietJobs /\ run \in [Run -> RunRow] /\ work \in [Run -> Items]
    BY KeptJobs, TableTypes DEF LifecycleInv
  <1>1. CASE ~Works(c)
    <2>1. run' = run /\ work' = work
      BY <1>1 DEF Commit
    <2> QED BY <1>0, <2>1, TablesKept
  <1>2. CASE Works(c)
    <2>1. /\ r \in Run /\ CallForm(c) /\ Accepts(r, c)
          /\ run[r].status \in Live /\ ~run[r].deleted
          /\ row \in RunRow /\ row.deleted = run[r].deleted
          /\ c.op = "begin" => row.status = "running" /\ row.report = run[r].report
          /\ c.op = "save" => row.status = c.value /\ row.report = c.value
          /\ c.op \notin {"begin", "save"} => row = run[r]
      BY <1>2, WorksFacts
    <2>2. new \in Items
      BY <1>0, <2>1, StoredFacts
    <2>3. AllSettled(work[r]) => AllSettled(new)
      BY <1>0, <2>1, StoredSettled
    <2>4. run' = [run EXCEPT ![r] = row] /\ work' = [work EXCEPT ![r] = new]
      BY <1>2 DEF Commit
    <2>5. c.op = "save" => /\ c.value \in Reported
                           /\ c.value = "completed" => AllSettled(work[r])
      BY DEF CallOK, CallForm
    <2> HIDE DEF r, row, new
    <2>6. /\ run' \in [Run -> RunRow] /\ work' \in [Run -> Items]
          /\ \A s \in Run : /\ run'[s] = IF s = r THEN row ELSE run[s]
                            /\ work'[s] = IF s = r THEN new ELSE work[s]
      BY <1>0, <2>1, <2>2, <2>4
    <2>7. /\ row.status \notin {"absent", "cancelled"} /\ ~row.deleted
          /\ row.status = "queued" => run[r].status = "queued"
          /\ row.report \in Reported \cup {Nobody}
          /\ run[r].report # Nobody => row.report # Nobody
          /\ row.status \in Reported => row.report = row.status
          /\ row.report = "completed" => AllSettled(new)
      <3>1. /\ run[r].report \in Reported \cup {Nobody}
            /\ run[r].status \in Reported => run[r].report = run[r].status
            /\ run[r].report = "completed" => AllSettled(work[r])
        BY <2>1 DEF LifecycleInv, RunOK
      <3>2. CASE c.op = "begin"
        BY <2>1, <2>3, <3>1, <3>2 DEF Reported
      <3>3. CASE c.op = "save"
        BY <2>1, <2>3, <2>5, <3>3, NobodyIsNone DEF Reported, TERMINAL
      <3>4. CASE c.op \notin {"begin", "save"}
        <4>1. row = run[r]
          BY <2>1, <3>4
        <4>2. run[r].status \notin {"absent", "cancelled"}
          BY <2>1 DEF Live
        <4> QED BY <2>1, <2>3, <3>1, <4>1, <4>2
      <3> QED BY <3>2, <3>3, <3>4
    <2>8. \A s \in Run : RunOK(s)'
      <3>1. \A s \in Run : s = r => RunOK(s)'
        BY <2>1, <2>6, <2>7 DEF RunOK
      <3>2. \A s \in Run \ {r} : RunOK(s)'
        BY <2>6 DEF RunOK, LifecycleInv
      <3> QED BY <3>1, <3>2
    <2>9. NoNewJobs
      BY DEF NoNewJobs
    <2>10. Onward
      <3>1. \A s \in Run : run[s].status # "absent" =>
               /\ run'[s].status # "absent"
               /\ run[s].report # Nobody => run'[s].report # Nobody
               /\ AllSettled(work[s]) => AllSettled(work'[s])
        BY <2>3, <2>6, <2>7
      <3>2. ASSUME NEW j \in ReviewJob, job[j].status # "absent"
            PROVE  LET s == jobOf[j].run
                   IN  /\ QuietRow(j)
                       /\ jobOf'[j] = jobOf[j]
                       /\ job'[j].status \in Active => run'[s].status # "cancelled" /\ ~run'[s].deleted
                       /\ job[j].status = "leased" /\ run'[s].status = "queued"
                             => run[s].status = "queued"
        <4> DEFINE s == jobOf[j].run
        <4>1. s \in Run
          BY <3>2, JobRun
        <4>2. job[j].status \in Active => run[s].status # "cancelled" /\ ~run[s].deleted
          BY DEF LifecycleInv, JobOK, LiveJobs
        <4> QED BY <1>0, <2>6, <2>7, <4>1, <4>2 DEF QuietJobs
      <3> QED BY <3>1, <3>2 DEF Onward
    <2> QED BY <2>6, <2>8, <2>9, <2>10
  <1> QED BY <1>1, <1>2

\* A call leaves the agents of every process alone whose lease it does not
\* carry: the review has no other job, and the job no other latest attempt.
LEMMA CommitSparesOthers ==
  ASSUME LifecycleInv, NEW c, CallOK(c), Commit(c),
         NEW w \in ReviewWorker, worker[w].phase = "running",
         ~IsLeaseOf(c.lease, w), NEW h
  PROVE  Spared(w, h)
  <1>1. CASE ~Works(c) \/ RunOf(w) # jobOf[c.lease.job].run
    <2>1. work'[RunOf(w)] = work[RunOf(w)]
      BY <1>1, TableTypes DEF Commit
    <2> QED BY <2>1 DEF Spared
  <1>2. CASE Works(c) /\ RunOf(w) = jobOf[c.lease.job].run
    <2>1. /\ worker[w].job \in ReviewJob /\ RunOf(w) \in Run
          /\ LeaseOf(w).job = worker[w].job /\ LeaseOf(w).owner = w
          /\ LeaseOf(w).attempt = worker[w].attempt
      BY RunningLease
    <2>2. c.lease.job \in ReviewJob /\ Grip(c.lease)
      BY <1>2, WorksFacts
    <2>3. ~Grip(LeaseOf(w))
      <3> SUFFICES ASSUME Grip(LeaseOf(w)) PROVE FALSE
        OBVIOUS
      <3>1. job[worker[w].job].status \in Active /\ job[c.lease.job].status \in Active
        BY <2>1, <2>2 DEF Grip, Active
      <3>2. worker[w].job = c.lease.job
        BY <1>2, <2>1, <2>2, <3>1 DEF LifecycleInv, OneActiveJob, JobsOf, RunOf
      <3> QED BY <2>1, <2>2, <3>2 DEF Grip, IsLeaseOf
    <2> QED BY <2>3 DEF Spared
  <1> QED BY <1>1, <1>2

\* A handler's own call leaves the agents alone whose items it does not name.
LEMMA CommitSparesOwn ==
  ASSUME LifecycleInv, NEW c, CallOK(c), Commit(c),
         NEW w \in ReviewWorker, worker[w].phase = "running", NEW h,
         c.op = "begin" => NoAgents(h),
         \A i \in Item : h.agent[i].state = "working" /\ c.op \in {"claim", "skip", "finish"}
             => i # c.item
  PROVE  Spared(w, h)
  <1>1. CASE ~Works(c) \/ RunOf(w) # jobOf[c.lease.job].run
    <2>1. work'[RunOf(w)] = work[RunOf(w)]
      BY <1>1, TableTypes DEF Commit
    <2> QED BY <2>1 DEF Spared
  <1>2. CASE Works(c) /\ RunOf(w) = jobOf[c.lease.job].run
    <2> DEFINE r == RunOf(w)
    <2>1. r \in Run /\ CallForm(c) /\ Accepts(r, c) /\ work[r] \in Items
      BY <1>2, WorksFacts, TableTypes
    <2>2. work'[r] = Stored(r, c)
      BY <1>2, <2>1, TableTypes DEF Commit
    <2> HIDE DEF r
    <2>3. \A i \in Item :
             /\ c.op # "begin" /\ work[r][i].status = "running"
             /\ c.op \in {"claim", "skip", "finish"} => i # c.item
             => work'[r][i].status = "running" /\ work'[r][i].try = work[r][i].try
      BY <2>1, <2>2, StoredFacts
    <2>4. \A i \in Item : h.agent[i].state = "working" => c.op # "begin"
      BY DEF NoAgents
    <2> QED BY <2>3, <2>4 DEF Spared, r
  <1> QED BY <1>1, <1>2

-----------------------------------------------------------------------------
(* The calls of a handler *)

\* A call that a handler makes is as a call should be.
LEMMA CallOfHandler ==
  ASSUME LifecycleInv, NEW w \in ReviewWorker, worker[w].phase = "running",
         NEW c, CallForm(c), c.lease = LeaseOf(w),
         c.op = "save" /\ c.value = "completed" => AllSettled(work[RunOf(w)]),
         c.op # "begin" => handler[w].pc \notin EarlyPC
  PROVE  CallOK(c) /\ IsLeaseOf(c.lease, w) /\ c.lease.owner = w
  <1>1. /\ c.lease.job = worker[w].job /\ c.lease.owner = w
        /\ c.lease.attempt = worker[w].attempt
        /\ worker[w].attempt <= job[worker[w].job].attempts
        /\ RunOf(w) \in Run
    BY RunningLease
  <1>2. jobOf[c.lease.job].run = RunOf(w) /\ RunOf(w) # Nobody
    BY <1>1, NobodyIsNone DEF RunOf
  <1>3. Agrees(w, handler[w])
    BY DEF LifecycleInv, HandlerOK
  <1>4. c.op # "begin" /\ Grip(c.lease) => run[RunOf(w)].status # "queued"
    BY <1>3 DEF Agrees
  <1> QED BY <1>1, <1>2, <1>4 DEF CallOK, IsLeaseOf

\* The handler of every process is well typed.
LEMMA HandlerType ==
  ASSUME LifecycleInv, NEW w \in ReviewWorker
  PROVE  /\ handler \in [ReviewWorker -> Handler] /\ handler[w] \in Handler
         /\ \A i \in Item : handler[w].agent[i] \in Agent /\ handler[w].agent[i].try \in Nat
         /\ worker[w].phase = "running" =>
               Fits(w, handler[w]) /\ Agrees(w, handler[w])
  <1>1. handler \in [ReviewWorker -> Handler]
    BY DEF LifecycleInv, LifecycleTypeOK
  <1>2. \A i \in Item : handler[w].agent[i] \in Agent
    BY <1>1 DEF Handler
  <1> QED BY <1>1, <1>2 DEF Agent, LifecycleInv, HandlerOK

\* The calls of the orchestrator itself, as records.
LEMMA OwnCallFields ==
  ASSUME LifecycleInv, NEW w \in ReviewWorker, worker[w].phase = "running",
         NEW op \in {"begin", "claim", "skip", "save"}, NEW i \in Item \cup {Nobody},
         NEW value \in Item \cup WorkStatus \cup TERMINAL \cup {Nobody}
  PROVE  LET c == OwnCall(w, op, i, value)
         IN  /\ c \in Call /\ c.lease = LeaseOf(w) /\ c.op = op
             /\ c.item = i /\ c.value = value
  <1> DEFINE l == LeaseOf(w)
  <1>1. l \in Lease
    BY RunningLease
  <1> HIDE DEF l
  <1> DEFINE c == [lease |-> l, op |-> op, item |-> i, try |-> 0, value |-> value]
  <1>2. c \in Call /\ c.lease = l /\ c.op = op /\ c.item = i /\ c.value = value
    BY <1>1 DEF Call
  <1>3. c = OwnCall(w, op, i, value)
    BY DEF OwnCall, l
  <1> HIDE DEF c
  <1> QED BY <1>2, <1>3 DEF l

\* The calls of its agents.
LEMMA AgentCallFields ==
  ASSUME LifecycleInv, NEW w \in ReviewWorker, worker[w].phase = "running",
         NEW op \in {"deliver", "submit", "finish"}, NEW i \in Item,
         NEW value \in Item \cup WorkStatus \cup TERMINAL \cup {Nobody}
  PROVE  LET c == AgentCall(w, op, i, value)
         IN  /\ c \in Call /\ c.lease = LeaseOf(w) /\ c.op = op
             /\ c.item = i /\ c.value = value /\ c.try = handler[w].agent[i].try
  <1> DEFINE l == LeaseOf(w)
             n == handler[w].agent[i].try
  <1>1. l \in Lease /\ n \in Nat
    BY RunningLease, HandlerType
  <1> HIDE DEF l, n
  <1> DEFINE c == [lease |-> l, op |-> op, item |-> i, try |-> n, value |-> value]
  <1>2. /\ c \in Call /\ c.lease = l /\ c.op = op /\ c.item = i
        /\ c.value = value /\ c.try = n
    BY <1>1 DEF Call
  <1>3. c = AgentCall(w, op, i, value)
    BY DEF AgentCall, l, n
  <1> HIDE DEF c
  <1> QED BY <1>2, <1>3 DEF l, n

\* A beginning is always in order.
LEMMA BeginCall ==
  ASSUME LifecycleInv, NEW w \in ReviewWorker, worker[w].phase = "running"
  PROVE  LET c == OwnCall(w, "begin", Nobody, Nobody)
         IN  CallOK(c) /\ IsLeaseOf(c.lease, w) /\ c.lease.owner = w /\ c.op = "begin"
  <1> DEFINE c == OwnCall(w, "begin", Nobody, Nobody)
  <1>1. c \in Call /\ c.lease = LeaseOf(w) /\ c.op = "begin"
    BY OwnCallFields
  <1> HIDE DEF c
  <1>2. CallForm(c)
    BY <1>1 DEF CallForm
  <1> QED BY <1>1, <1>2, CallOfHandler DEF c

\* So is a claim of an item, or its skipping, after the beginning.
LEMMA ItemCall ==
  ASSUME LifecycleInv, NEW w \in ReviewWorker, worker[w].phase = "running",
         NEW op \in {"claim", "skip"}, NEW i \in Item, handler[w].pc \notin EarlyPC
  PROVE  LET c == OwnCall(w, op, i, Nobody)
         IN  /\ CallOK(c) /\ IsLeaseOf(c.lease, w) /\ c.lease.owner = w
             /\ c.op = op /\ c.item = i
  <1> DEFINE c == OwnCall(w, op, i, Nobody)
  <1>1. c \in Call /\ c.lease = LeaseOf(w) /\ c.op = op /\ c.item = i
    BY OwnCallFields
  <1> HIDE DEF c
  <1>2. CallForm(c)
    BY <1>1 DEF CallForm
  <1> QED BY <1>1, <1>2, CallOfHandler DEF c

\* So is the report at the end.
LEMMA SaveCall ==
  ASSUME LifecycleInv, NEW w \in ReviewWorker, At(w, "overview")
  PROVE  LET c == OwnCall(w, "save", Nobody, handler[w].outcome)
         IN  CallOK(c) /\ IsLeaseOf(c.lease, w) /\ c.lease.owner = w /\ c.op = "save"
  <1> DEFINE value == handler[w].outcome
             c == OwnCall(w, "save", Nobody, value)
  <1>1. /\ value \in Reported /\ (value = "completed" => AllSettled(work[RunOf(w)]))
        /\ worker[w].phase = "running" /\ handler[w].pc \notin EarlyPC
    BY HandlerType DEF At, Fits, EndPC, EarlyPC
  <1>2. value \in TERMINAL
    BY <1>1 DEF Reported, TERMINAL
  <1> HIDE DEF value
  <1>3. c \in Call /\ c.lease = LeaseOf(w) /\ c.op = "save" /\ c.value = value
    BY <1>1, <1>2, OwnCallFields
  <1> HIDE DEF c
  <1>4. CallForm(c)
    BY <1>1, <1>3 DEF CallForm
  <1> QED BY <1>1, <1>3, <1>4, CallOfHandler DEF c, value

\* A handler with an agent at work is past its beginning, and not at its end.
LEMMA AgentsInTheMiddle ==
  ASSUME LifecycleInv, NEW w \in ReviewWorker, worker[w].phase = "running",
         NEW i \in Item, handler[w].agent[i].state # "none"
  PROVE  handler[w].pc \notin EarlyPC \cup EndPC
  BY HandlerType DEF Fits, NoAgents

\* The calls of agents are in order.
LEMMA AgentCallOK ==
  ASSUME LifecycleInv, NEW w \in ReviewWorker, worker[w].phase = "running",
         NEW op \in {"deliver", "submit", "finish"}, NEW i \in Working(w),
         NEW value \in Item \cup WorkStatus \cup TERMINAL \cup {Nobody},
         op = "submit" => value \in Candidate, op = "finish" => value \in Endings
  PROVE  LET c == AgentCall(w, op, i, value)
         IN  /\ CallOK(c) /\ IsLeaseOf(c.lease, w) /\ c.lease.owner = w
             /\ c.op = op /\ c.item = i /\ c.value = value
             /\ c.try = handler[w].agent[i].try
  <1> DEFINE c == AgentCall(w, op, i, value)
  <1>1. i \in Item /\ handler[w].agent[i].state = "working"
    BY DEF Working
  <1>2. handler[w].pc \notin EarlyPC
    BY <1>1, AgentsInTheMiddle
  <1>3. /\ c \in Call /\ c.lease = LeaseOf(w) /\ c.op = op
        /\ c.item = i /\ c.value = value /\ c.try = handler[w].agent[i].try
    BY <1>1, AgentCallFields
  <1> HIDE DEF c
  <1>4. CallForm(c)
    BY <1>1, <1>3 DEF CallForm
  <1> QED BY <1>2, <1>3, <1>4, CallOfHandler DEF c

\* So are all that a handler may leave behind.
LEMMA LeftCallsOK ==
  ASSUME LifecycleInv, NEW w \in ReviewWorker, worker[w].phase = "running"
  PROVE  \A c \in AgentCalls(w) \cup OrchestratorCalls(w) : CallOK(c) /\ c.lease.owner = w
  <1>1. ASSUME NEW c \in AgentCalls(w)
        PROVE  CallOK(c) /\ c.lease.owner = w
    <2>1. CASE \E u \in Working(w) \cap Unit : c = AgentCall(w, "deliver", u, Nobody)
      BY <2>1, AgentCallOK
    <2>2. CASE \E u \in Working(w) \cap Unit, d \in FreshCandidates(RunOf(w)) :
                  c = AgentCall(w, "submit", u, d)
      <3>1. PICK u \in Working(w) \cap Unit, d \in FreshCandidates(RunOf(w)) :
                  c = AgentCall(w, "submit", u, d)
        BY <2>2
      <3>2. d \in Candidate /\ d \in Item
        BY DEF FreshCandidates, Item
      <3> QED BY <3>1, <3>2, AgentCallOK
    <2>3. CASE \E i \in Working(w), s \in Endings : c = AgentCall(w, "finish", i, s)
      <3>1. PICK i \in Working(w), s \in Endings : c = AgentCall(w, "finish", i, s)
        BY <2>3
      <3>2. s \in WorkStatus
        BY DEF Endings, WorkStatus
      <3> QED BY <3>1, <3>2, AgentCallOK
    <2> QED BY <2>1, <2>2, <2>3 DEF AgentCalls, Endings
  <1>2. ASSUME NEW c \in OrchestratorCalls(w)
        PROVE  CallOK(c) /\ c.lease.owner = w
    <2>0. handler[w].todo \subseteq Item
      BY HandlerType DEF Handler
    <2>1. CASE handler[w].pc = "begin"
      BY <1>2, <2>1, BeginCall DEF OrchestratorCalls
    <2>2. CASE handler[w].pc \in {"dispatch", "draining"}
      <3>1. PICK op \in {"claim", "skip"}, i \in handler[w].todo : c = OwnCall(w, op, i, Nobody)
        BY <1>2, <2>2 DEF OrchestratorCalls
      <3>2. i \in Item /\ handler[w].pc \notin EarlyPC
        BY <2>0, <2>2 DEF EarlyPC
      <3> QED BY <3>1, <3>2, ItemCall
    <2>3. CASE handler[w].pc = "overview"
      <3>1. c = OwnCall(w, "save", Nobody, handler[w].outcome)
        BY <1>2, <2>3 DEF OrchestratorCalls
      <3> QED BY <2>3, <3>1, SaveCall DEF At
    <2>4. CASE handler[w].pc \notin {"begin", "dispatch", "draining", "overview"}
      BY <1>2, <2>4 DEF OrchestratorCalls
    <2> QED BY <2>1, <2>2, <2>3, <2>4
  <1> QED BY <1>1, <1>2

-----------------------------------------------------------------------------
(* The two things a step can do to a handler *)

\* What a step of one process does to the tables of the reviews.
TablesStep ==
    /\ run' \in [Run -> RunRow] /\ work' \in [Run -> Items]
    /\ jobOf' = jobOf /\ deadline' = deadline
    /\ \A r \in Run : RunOK(r)'
    /\ Onward /\ NoNewJobs

OthersSpared(w) ==
    \A v \in ReviewWorker \ {w} : worker[v].phase = "running" => Spared(v, handler[v])

\* A step that only looks, or that moves the queue alone.
LEMMA KeptTables ==
  ASSUME LifecycleInv, QuietJobs, UNCHANGED <<run, work, jobOf, deadline>>
  PROVE  /\ TablesStep
         /\ \A w \in ReviewWorker : OthersSpared(w) /\ \A h : Spared(w, h)
  BY TablesKept, TableTypes DEF TablesStep, OthersSpared

\* A call of the process w.
LEMMA CommitTables ==
  ASSUME LifecycleInv, NEW c, CallOK(c), Commit(c), job' = job,
         UNCHANGED <<jobOf, deadline>>, NEW w \in ReviewWorker, c.lease.owner = w
  PROVE  TablesStep /\ OthersSpared(w)
  <1>1. TablesStep
    BY CommitFacts DEF TablesStep
  <1>2. \A v \in ReviewWorker \ {w} : ~IsLeaseOf(c.lease, v)
    BY DEF IsLeaseOf
  <1> QED BY <1>1, <1>2, CommitSparesOthers DEF OthersSpared

\* Types after such a step.
LEMMA TypesAfter ==
  ASSUME LifecycleInv, QueueInv', TablesStep,
         handler' \in [ReviewWorker -> Handler], late' \subseteq Call
  PROVE  LifecycleTypeOK'
  BY DEF LifecycleInv, LifecycleTypeOK, TablesStep, QueueInv, RunRow, Items

\* No handler is a handler.
LEMMA NoHandlerType ==
  NoHandler \in Handler /\ NoAgents(NoHandler)
  <1>1. NoTask \in Agent /\ NoTask.state = "none"
    BY DEF NoTask, Agent
  <1> HIDE DEF NoTask
  <1> DEFINE agents == [i \in Item |-> NoTask]
  <1>2. agents \in [Item -> Agent] /\ \A i \in Item : agents[i].state = "none"
    BY <1>1
  <1> HIDE DEF agents
  <1> DEFINE h == [pc |-> "none", todo |-> {}, agent |-> agents, outcome |-> Nobody]
  <1>3. h \in Handler /\ h.agent = agents
    BY <1>2 DEF Handler, PC
  <1>4. h = NoHandler
    BY DEF NoHandler, agents
  <1> HIDE DEF h
  <1> QED BY <1>2, <1>3, <1>4 DEF NoAgents

\* A handler is gone, with some of its calls left behind.
LEMMA GoneKeepsInv ==
  ASSUME LifecycleInv, QueueInv', TablesStep, NEW w \in ReviewWorker, OthersSpared(w),
         \A v \in ReviewWorker \ {w} : worker'[v] = worker[v],
         worker'[w].phase # "running",
         NEW calls, HandlerGone(w, calls), \A c \in calls : CallOK(c) /\ c.lease.owner = w
  PROVE  LifecycleInv'
  <1>1. /\ handler' \in [ReviewWorker -> Handler] /\ handler'[w] = NoHandler
        /\ \A v \in ReviewWorker \ {w} : handler'[v] = handler[v]
    BY HandlerType, NoHandlerType DEF HandlerGone
  <1>2. \A c \in late' \ late : c \in calls
    BY DEF HandlerGone, LeftBehind
  <1>3. late' \subseteq Call
    BY <1>2 DEF CallOK, CallForm, LifecycleInv, LifecycleTypeOK
  <1>4. LifecycleTypeOK'
    BY <1>1, <1>3, TypesAfter
  <1>5. Moves(w)
    BY <1>1, <1>2 DEF Moves
  <1>6. HandlerOK(w)'
    BY <1>1 DEF HandlerOK
  <1> QED BY <1>4, <1>5, <1>6, ProcessKeepsInv DEF TablesStep, OthersSpared

\* A handler that returned is gone; the queue hears of it later.
LEMMA ReturnsKeepsInv ==
  ASSUME LifecycleInv, TablesStep, NEW w \in ReviewWorker, OthersSpared(w), Returns(w)
  PROVE  LifecycleInv'
  <1>1. QueueInv'
    BY HandlerEndsKeepsInv DEF Returns, LifecycleInv
  <1>2. worker[w].phase = "running" /\ HandlerGone(w, AgentCalls(w))
    BY DEF Returns, HandlerEnds
  <1>3. /\ \A v \in ReviewWorker \ {w} : worker'[v] = worker[v]
        /\ worker'[w].phase = "returned"
    BY DEF Returns, HandlerEnds, LifecycleInv, QueueInv, QueueTypeOK, WorkerState
  <1> QED BY <1>1, <1>2, <1>3, LeftCallsOK, GoneKeepsInv

\* A handler goes on with the memory next, which agrees with the database.
LEMMA GoesOnKeepsInv ==
  ASSUME LifecycleInv, TablesStep, NEW w \in ReviewWorker, OthersSpared(w),
         worker[w].phase = "running", UNCHANGED queueVars,
         NEW next \in Handler, handler' = [handler EXCEPT ![w] = next],
         late' \subseteq Call,
         \A c \in late' \ late : CallOK(c) /\ c.lease.owner = w /\ next.pc \in EndPC,
         handler[w].pc \in EndPC => next.pc \in EndPC,
         Fits(w, next), Agrees(w, next)'
  PROVE  LifecycleInv'
  <1>1. /\ handler' \in [ReviewWorker -> Handler] /\ handler'[w] = next
        /\ \A v \in ReviewWorker \ {w} : handler'[v] = handler[v]
    BY HandlerType
  <1>2. worker' = worker /\ SameClaim(w)
    BY DEF queueVars, SameClaim
  <1>3. QueueInv'
    BY DEF LifecycleInv, queueVars, QueueInv, QueueTypeOK, RowsConsistent,
           AttemptsWereGranted, PendingVerdicts, AttemptsWithinBudget, AttemptIsAToken
  <1>4. LifecycleTypeOK'
    BY <1>1, <1>3, TypesAfter
  <1>5. Moves(w)
    BY <1>1, <1>2 DEF Moves
  <1>6. HandlerOK(w)'
    <2>1. Fits(w, next)'
      BY <1>2, FitsStays DEF TablesStep
    <2>2. \A h : h = next => (h.pc = next.pc)
      OBVIOUS
    <2> QED BY <1>1, <1>2, <2>1 DEF HandlerOK, Fits, Agrees, NoAgents
  <1> QED BY <1>3, <1>4, <1>5, <1>6, ProcessKeepsInv DEF TablesStep, OthersSpared

\* A handler's memory with one part replaced.
LEMMA SetHandler ==
  ASSUME NEW h \in Handler
  PROVE  /\ \A x \in PC :
               LET new == [h EXCEPT !.pc = x]
               IN  /\ new \in Handler /\ new.pc = x /\ new.todo = h.todo
                   /\ new.agent = h.agent /\ new.outcome = h.outcome
         /\ \A x \in SUBSET Item :
               LET new == [h EXCEPT !.todo = x]
               IN  /\ new \in Handler /\ new.pc = h.pc /\ new.todo = x
                   /\ new.agent = h.agent /\ new.outcome = h.outcome
         /\ \A x \in [Item -> Agent] :
               LET new == [h EXCEPT !.agent = x]
               IN  /\ new \in Handler /\ new.pc = h.pc /\ new.todo = h.todo
                   /\ new.agent = x /\ new.outcome = h.outcome
         /\ \A x \in TERMINAL \cup {Nobody} :
               LET new == [h EXCEPT !.outcome = x]
               IN  /\ new \in Handler /\ new.pc = h.pc /\ new.todo = h.todo
                   /\ new.agent = h.agent /\ new.outcome = x
  BY DEF Handler

\* A handler goes on without a transaction, with agents it had before.
LEMMA MovesOnKeepsInv ==
  ASSUME LifecycleInv, NEW w \in ReviewWorker, worker[w].phase = "running",
         NEW next \in Handler, GoesOn(w, next),
         UNCHANGED <<run, work, jobOf, deadline>>,
         handler[w].pc \in EndPC => next.pc \in EndPC,
         next.pc \notin EarlyPC => handler[w].pc \notin EarlyPC,
         \A i \in Item : next.agent[i].state = "working" => next.agent[i] = handler[w].agent[i],
         Fits(w, next)
  PROVE  LifecycleInv'
  <1>1. TablesStep /\ OthersSpared(w) /\ Spared(w, next) /\ SameClaim(w)
    BY KeptJobs, KeptTables DEF GoesOn, queueVars, LifecycleInv, SameClaim
  <1>2. Agrees(w, next)
    BY HandlerType DEF Agrees
  <1>3. Agrees(w, next)'
    BY <1>1, <1>2, AgreesStays DEF TablesStep
  <1>4. late' \subseteq Call
    BY DEF GoesOn, LifecycleInv, LifecycleTypeOK
  <1> QED BY <1>1, <1>3, <1>4, GoesOnKeepsInv DEF GoesOn

\* A handler that awaits a call of its own: the fence decides.
LEMMA AwaitsKeepsInv ==
  ASSUME LifecycleInv, NEW w \in ReviewWorker, worker[w].phase = "running",
         NEW c, CallOK(c), c.lease.owner = w,
         NEW next \in Handler, Awaits(w, c, next),
         handler[w].pc \in EndPC => next.pc \in EndPC,
         Fits(w, next), Fence(c.lease) => Agrees(w, next)'
  PROVE  LifecycleInv'
  <1>1. job' = job /\ UNCHANGED <<jobOf, deadline>> /\ Commit(c)
    BY DEF Awaits, GoesOn, Returns, HandlerEnds, queueVars
  <1>2. TablesStep /\ OthersSpared(w)
    BY <1>1, CommitTables
  <1>3. CASE Fence(c.lease)
    <2>1. GoesOn(w, next) /\ late' \subseteq Call
      BY <1>3 DEF Awaits, GoesOn, LifecycleInv, LifecycleTypeOK
    <2> QED BY <1>2, <1>3, <2>1, GoesOnKeepsInv DEF GoesOn
  <1>4. CASE ~Fence(c.lease)
    BY <1>2, <1>4, ReturnsKeepsInv DEF Awaits
  <1> QED BY <1>3, <1>4

\* The same for a call about an item that no agent works on.
LEMMA ItemAwaitsKeepsInv ==
  ASSUME LifecycleInv, NEW w \in ReviewWorker, worker[w].phase = "running",
         handler[w].pc \notin EarlyPC,
         NEW op \in {"claim", "skip"}, NEW i \in Item, handler[w].agent[i].state = "none",
         NEW next \in Handler, Awaits(w, OwnCall(w, op, i, Nobody), next),
         handler[w].pc \in EndPC => next.pc \in EndPC,
         next.agent = handler[w].agent,
         Fits(w, next)
  PROVE  LifecycleInv'
  <1>1. PICK c : c = OwnCall(w, op, i, Nobody)
    OBVIOUS
  <1>2. /\ CallOK(c) /\ IsLeaseOf(c.lease, w) /\ c.lease.owner = w
        /\ c.op = op /\ c.item = i
    BY <1>1, ItemCall
  <1>3. Awaits(w, c, next)
    BY <1>1
  <1>4. Fence(c.lease) => Agrees(w, next)'
    <2> SUFFICES ASSUME Fence(c.lease) PROVE Agrees(w, next)'
      OBVIOUS
    <2>1. Commit(c) /\ job' = job /\ worker' = worker /\ UNCHANGED <<jobOf, deadline>>
      BY <1>3 DEF Awaits, GoesOn, queueVars
    <2>2. Onward
      BY <1>2, <2>1, CommitFacts
    <2>3. Spared(w, next)
      BY <1>2, <2>1, CommitSparesOwn
    <2>4. Agrees(w, next) /\ SameClaim(w)
      BY <2>1, HandlerType DEF Agrees, SameClaim
    <2> QED BY <2>2, <2>3, <2>4, AgreesStays
  <1> QED BY <1>2, <1>3, <1>4, AwaitsKeepsInv

-----------------------------------------------------------------------------
(* One lemma per action of a handler *)

\* The review is looked up: the handler goes on or has nothing to do.
LEMMA LookUpKeepsInv ==
  ASSUME LifecycleInv, NEW w \in ReviewWorker, LookUp(w)
  PROVE  LifecycleInv'
  <1>1. worker[w].phase = "running" /\ handler[w].pc = "start"
    BY DEF LookUp, At
  <1>2. CASE Returns(w)
    <2>1. QuietJobs
      BY <1>2, KeptJobs DEF Returns, HandlerEnds, LifecycleInv
    <2> QED BY <1>2, <2>1, KeptTables, ReturnsKeepsInv DEF LookUp
  <1>3. CASE GoesOn(w, [handler[w] EXCEPT !.pc = "preparing"])
    <2>1. PICK next : next = [handler[w] EXCEPT !.pc = "preparing"]
      OBVIOUS
    <2>2. next \in Handler /\ next.pc = "preparing" /\ next.agent = handler[w].agent
      <3>1. handler[w] \in Handler /\ "preparing" \in PC
        BY HandlerType DEF PC
      <3> QED BY <2>1, <3>1, SetHandler
    <2>3. Fits(w, next)
      BY <1>1, <2>2, HandlerType DEF Fits, EarlyPC, NoAgents
    <2> QED BY <1>1, <1>3, <2>1, <2>2, <2>3, MovesOnKeepsInv DEF LookUp, EarlyPC, EndPC
  <1> QED BY <1>2, <1>3 DEF LookUp

\* The workspace and the context are ready.
LEMMA PreparedKeepsInv ==
  ASSUME LifecycleInv, NEW w \in ReviewWorker, Prepared(w)
  PROVE  LifecycleInv'
  <1>1. worker[w].phase = "running" /\ handler[w].pc = "preparing"
    BY DEF Prepared, At
  <1>2. PICK next : next = [handler[w] EXCEPT !.pc = "begin"]
    OBVIOUS
  <1>3. next \in Handler /\ next.pc = "begin" /\ next.agent = handler[w].agent
    <2>1. handler[w] \in Handler /\ "begin" \in PC
      BY HandlerType DEF PC
    <2> QED BY <1>2, <2>1, SetHandler
  <1>4. Fits(w, next)
    BY <1>1, <1>3, HandlerType DEF Fits, EarlyPC, NoAgents
  <1> QED BY <1>1, <1>2, <1>3, <1>4, MovesOnKeepsInv DEF Prepared, EarlyPC, EndPC

\* The review begins, or an overview starts from the report it finds.
LEMMA BeginKeepsInv ==
  ASSUME LifecycleInv, NEW w \in ReviewWorker, Begin(w)
  PROVE  LifecycleInv'
  <1> DEFINE r == RunOf(w)
             j == worker[w].job
             overview == [[handler[w] EXCEPT !.pc = "overview"] EXCEPT !.outcome = run[r].report]
  <1>1. worker[w].phase = "running" /\ handler[w].pc = "begin"
    BY DEF Begin, At
  <1>2. r \in Run /\ j \in ReviewJob /\ r = jobOf[j].run /\ RunOK(r) /\ JobOK(j)
    BY <1>1, RunningLease DEF RunOf, LifecycleInv
  <1>3. jobOf[j].kind \in {"review", "overview"}
    BY <1>2 DEF LifecycleInv, LifecycleTypeOK
  <1>4. NoAgents(handler[w])
    BY <1>1, HandlerType DEF Fits, EarlyPC
  <1>5. PICK c : c = OwnCall(w, "begin", Nobody, Nobody)
    OBVIOUS
  <1>6. CallOK(c) /\ IsLeaseOf(c.lease, w) /\ c.lease.owner = w /\ c.op = "begin"
    BY <1>1, <1>5, BeginCall
  <1>7. PICK next : next = IF jobOf[j].kind = "review"
                           THEN [handler[w] EXCEPT !.pc = "loop"] ELSE overview
    OBVIOUS
  <1>8. Awaits(w, c, next)
    <2>1. overview = [handler[w] EXCEPT !.pc = "overview", !.outcome = run[r].report]
      OBVIOUS
    <2> QED BY <1>5, <1>7, <2>1 DEF Begin
  <1>9. /\ next \in Handler /\ next.agent = handler[w].agent
        /\ next.pc = "loop" \/ /\ next.pc = "overview" /\ next.outcome = run[r].report
                               /\ jobOf[j].kind = "overview"
    <2>1. CASE jobOf[j].kind = "review"
      <3>1. next = [handler[w] EXCEPT !.pc = "loop"] /\ "loop" \in PC
        BY <1>7, <2>1 DEF PC
      <3> QED BY <3>1, HandlerType, SetHandler
    <2>2. CASE jobOf[j].kind = "overview"
      <3> DEFINE h == [handler[w] EXCEPT !.pc = "overview"]
                 x == run[r].report
      <3>1. h \in Handler /\ h.pc = "overview" /\ h.agent = handler[w].agent
        BY HandlerType, SetHandler DEF PC
      <3>2. x \in TERMINAL \cup {Nobody}
        BY <1>2 DEF RunOK, Reported, TERMINAL
      <3>3. next = [h EXCEPT !.outcome = x]
        BY <1>7, <2>2
      <3> HIDE DEF h, x
      <3>4. next \in Handler /\ next.pc = "overview" /\ next.agent = handler[w].agent
            /\ next.outcome = x
        BY <3>1, <3>2, <3>3, SetHandler
      <3> QED BY <2>2, <3>4 DEF x
    <2> QED BY <1>3, <2>1, <2>2
  <1>10. Fits(w, next)
    <2>1. CASE next.pc = "loop"
      BY <1>2, <2>1, NobodyIsNone DEF Fits, EarlyPC, EndPC
    <2>2. CASE next.pc = "overview"
      <3>1. jobOf[j].kind = "overview" /\ next.outcome = run[r].report
        BY <1>9, <2>2
      <3>2. /\ next.outcome \in Reported
            /\ next.outcome = "completed" => AllSettled(work[r])
        BY <1>2, <3>1 DEF JobOK, RunOK
      <3> QED BY <1>2, <1>4, <1>9, <2>2, <3>2, NobodyIsNone DEF Fits, NoAgents
    <2> QED BY <1>9, <2>1, <2>2
  <1>11. Fence(c.lease) => Agrees(w, next)'
    <2> SUFFICES ASSUME Fence(c.lease) PROVE Agrees(w, next)'
      OBVIOUS
    <2>1. Commit(c) /\ worker' = worker /\ jobOf' = jobOf
      BY <1>8 DEF Awaits, GoesOn, queueVars
    <2>2. jobOf[c.lease.job].run = r
      BY <1>2, <1>6 DEF IsLeaseOf, RunOf
    <2>3. Works(c)
      BY <1>6 DEF Works, Accepts
    <2>4. run' = [run EXCEPT ![r] = RowAfter(r, c)] /\ RowAfter(r, c).status = "running"
      BY <1>6, <2>1, <2>2, <2>3, WorksFacts DEF Commit
    <2>5. run'[r].status = "running"
      BY <1>2, <2>4, TableTypes
    <2>6. RunOf(w)' = r
      BY <2>1 DEF RunOf
    <2> QED BY <1>4, <1>9, <2>5, <2>6 DEF Agrees, NoAgents
  <1> QED BY <1>1, <1>6, <1>8, <1>9, <1>10, <1>11, AwaitsKeepsInv DEF EndPC

\* A review that ends with what it has: with a report which may call itself
\* complete only when all work is settled.
RunEnds(r) ==
    /\ run[r].status \in Live /\ ~run[r].deleted
    /\ run'[r].status \in Reported /\ run'[r].report = run'[r].status /\ ~run'[r].deleted
    /\ run'[r].status = "completed" => AllSettled(work'[r])
    /\ Known(work'[r]) = Known(work[r]) /\ Settled(work'[r]) = Settled(work[r])

\* A step after which some reviews have ended, and the others are untouched.
LEMMA EndsTables ==
  ASSUME LifecycleInv, QuietJobs, UNCHANGED <<jobOf, deadline>>,
         run' \in [Run -> RunRow], work' \in [Run -> Items],
         \A r \in Run : RunEnds(r) \/ (run'[r] = run[r] /\ work'[r] = work[r])
  PROVE  TablesStep
  <1>1. \A r \in Run : RunOK(r)'
    BY NobodyIsNone DEF RunEnds, RunOK, LifecycleInv, Reported, TERMINAL
  <1>2. NoNewJobs
    BY DEF NoNewJobs, QuietJobs, QuietRow
  <1>3. Onward
    <2>0. \A r \in Run : AllSettled(work[r]) => AllSettled(work'[r])
      BY SettledIsKnown DEF RunEnds
    <2>1. \A r \in Run : run[r].status # "absent" =>
             /\ run'[r].status # "absent"
             /\ run[r].report # Nobody => run'[r].report # Nobody
             /\ AllSettled(work[r]) => AllSettled(work'[r])
      BY <2>0, NobodyIsNone DEF RunEnds, Reported, TERMINAL
    <2>2. ASSUME NEW j \in ReviewJob, job[j].status # "absent"
          PROVE  LET r == jobOf[j].run
                 IN  /\ QuietRow(j)
                     /\ jobOf'[j] = jobOf[j]
                     /\ job'[j].status \in Active => run'[r].status # "cancelled" /\ ~run'[r].deleted
                     /\ job[j].status = "leased" /\ run'[r].status = "queued"
                           => run[r].status = "queued"
      <3> DEFINE r == jobOf[j].run
      <3>1. r \in Run /\ QuietRow(j)
        BY <2>2, JobRun DEF QuietJobs
      <3>2. job'[j].status \in Active => run[r].status # "cancelled" /\ ~run[r].deleted
        BY <3>1 DEF QuietRow, LifecycleInv, JobOK, LiveJobs
      <3>3. RunEnds(r) => run'[r].status \notin {"queued", "cancelled"} /\ ~run'[r].deleted
        BY DEF RunEnds, Reported
      <3> QED BY <3>1, <3>2, <3>3
    <2> QED BY <2>1, <2>2 DEF Onward
  <1> QED BY <1>1, <1>2, <1>3 DEF TablesStep

\* An exception nobody planned for ends the run of the handler or nothing.
LEMMA ThrowsEnds ==
  ASSUME LifecycleInv, NEW w \in ReviewWorker, Throws(w)
  PROVE  /\ worker[w].phase = "running" /\ TablesStep /\ OthersSpared(w)
         /\ \A r \in Run : RunEnds(r) \/ (run'[r] = run[r] /\ work'[r] = work[r])
  <1> DEFINE r == RunOf(w)
             fails == handler[w].pc # "start" /\ Fence(LeaseOf(w))
             row == WithReport(run[r], FailedStatus(work[r]))
  <1>1. worker[w].phase = "running" /\ r \in Run /\ run[r].status # "absent"
    BY RunningLease DEF Throws
  <1>2. run \in [Run -> RunRow] /\ work \in [Run -> Items] /\ run[r] \in RunRow
    BY <1>1, TableTypes
  <1>3. UNCHANGED <<job, work, jobOf, deadline>>
    BY DEF Throws, HandlerEnds
  <1>4. QuietJobs
    BY <1>3, KeptJobs DEF LifecycleInv
  <1>5. /\ row \in RunRow /\ row.status = FailedStatus(work[r])
        /\ row.report = FailedStatus(work[r]) /\ row.deleted = run[r].deleted
    <2>1. FailedStatus(work[r]) \in TERMINAL
      BY DEF FailedStatus, TERMINAL
    <2> QED BY <1>2, <2>1, ReportedRow
  <1>6. FailedStatus(work[r]) \in Reported /\ FailedStatus(work[r]) # "completed"
    BY DEF FailedStatus, Reported
  <1> HIDE DEF row
  <1>7. \/ run' = run
        \/ /\ run' = [run EXCEPT ![r] = row] /\ run[r].status \in Live /\ ~run[r].deleted
    <2>1. CASE fails
      <3>1. run[r].status \in Live /\ ~run[r].deleted
        <4>1. LeaseOf(w).job = worker[w].job
          BY <1>1, RunningLease
        <4> QED BY <1>1, <1>2, <2>1, <4>1 DEF Fence, RunOf, RunRow
      <3>2. run' = [run EXCEPT ![r] = row]
        BY <1>2, <2>1 DEF Throws, row
      <3> QED BY <3>1, <3>2
    <2>2. CASE ~fails
      BY <2>2 DEF Throws
    <2> QED BY <2>1, <2>2
  <1> HIDE DEF r
  <1>8. run' \in [Run -> RunRow]
    BY <1>1, <1>2, <1>5, <1>7
  <1>9. \A s \in Run : RunEnds(s) \/ (run'[s] = run[s] /\ work'[s] = work[s])
    <2>1. \A s \in Run \ {r} : run'[s] = run[s] /\ work'[s] = work[s]
      BY <1>2, <1>3, <1>7
    <2>2. \A s \in Run : s = r => RunEnds(s) \/ (run'[s] = run[s] /\ work'[s] = work[s])
      BY <1>1, <1>2, <1>3, <1>5, <1>6, <1>7 DEF RunEnds
    <2> QED BY <2>1, <2>2
  <1>10. TablesStep
    BY <1>2, <1>3, <1>4, <1>8, <1>9, EndsTables
  <1>11. OthersSpared(w)
    BY <1>3 DEF OthersSpared, Spared
  <1> QED BY <1>1, <1>9, <1>10, <1>11

\* An exception: the handler is gone.
LEMMA ThrowsKeepsInv ==
  ASSUME LifecycleInv, NEW w \in ReviewWorker, Throws(w)
  PROVE  LifecycleInv'
  <1>1. PICK how : HandlerEnds(w, how) /\ how \in {"fatal", "raised"}
    BY DEF Throws
  <1>2. QueueInv'
    BY <1>1, HandlerEndsKeepsInv DEF LifecycleInv
  <1>3. /\ \A v \in ReviewWorker \ {w} : worker'[v] = worker[v]
        /\ worker'[w].phase # "running"
    BY <1>1 DEF HandlerEnds, LifecycleInv, QueueInv, QueueTypeOK, WorkerState
  <1>4. HandlerGone(w, AgentCalls(w))
    BY DEF Throws
  <1> QED BY <1>2, <1>3, <1>4, ThrowsEnds, LeftCallsOK, GoneKeepsInv

\* A handler that checks its lease goes on or is over.
LEMMA ChecksKeepsInv ==
  ASSUME LifecycleInv, NEW w \in ReviewWorker, worker[w].phase = "running",
         NEW next \in Handler, Checks(w, next),
         handler[w].pc \in EndPC => next.pc \in EndPC,
         next.pc \notin EarlyPC => handler[w].pc \notin EarlyPC,
         \A i \in Item : next.agent[i].state = "working" => next.agent[i] = handler[w].agent[i],
         Fits(w, next)
  PROVE  LifecycleInv'
  <1>1. CASE GoesOn(w, next)
    BY <1>1, MovesOnKeepsInv DEF Checks
  <1>2. CASE Returns(w)
    <2>1. QuietJobs
      BY <1>2, KeptJobs DEF Returns, HandlerEnds, LifecycleInv
    <2> QED BY <1>2, <2>1, KeptTables, ReturnsKeepsInv DEF Checks
  <1> QED BY <1>1, <1>2 DEF Checks

\* The open items are listed.
LEMMA LookKeepsInv ==
  ASSUME LifecycleInv, NEW w \in ReviewWorker, Look(w)
  PROVE  LifecycleInv'
  <1> DEFINE todo == {i \in Item : work[RunOf(w)][i].status \in {"queued", "running"}}
             h == [handler[w] EXCEPT !.pc = "judge"]
  <1>1. worker[w].phase = "running" /\ handler[w].pc = "loop"
    BY DEF Look, At
  <1>2. h \in Handler /\ h.pc = "judge" /\ h.agent = handler[w].agent
    <2>1. handler[w] \in Handler /\ "judge" \in PC
      BY HandlerType DEF PC
    <2> QED BY <2>1, SetHandler
  <1>3. todo \in SUBSET Item
    OBVIOUS
  <1>4. PICK next : next = [h EXCEPT !.todo = todo]
    OBVIOUS
  <1>5. next \in Handler /\ next.pc = "judge" /\ next.agent = handler[w].agent
    <2> HIDE DEF h, todo
    <2> QED BY <1>2, <1>3, <1>4, SetHandler
  <1>6. Checks(w, next)
    BY <1>4 DEF Look
  <1>7. Fits(w, next)
    BY <1>1, <1>5, HandlerType DEF Fits, EarlyPC, EndPC
  <1> QED BY <1>1, <1>5, <1>6, <1>7, ChecksKeepsInv DEF EarlyPC, EndPC

\* The hard deadline stops the agents; before it, their items are set aside.
LEMMA JudgeKeepsInv ==
  ASSUME LifecycleInv, NEW w \in ReviewWorker, Judge(w)
  PROVE  LifecycleInv'
  <1>1. /\ worker[w].phase = "running" /\ handler[w].pc = "judge" /\ handler[w] \in Handler
        /\ Fits(w, handler[w])
    BY HandlerType DEF Judge, At
  <1>2. /\ UNCHANGED <<queueVars, run, work, jobOf, deadline>>
        /\ handler \in [ReviewWorker -> Handler]
    BY HandlerType DEF Judge
  <1>3. TablesStep /\ OthersSpared(w)
    BY <1>2, KeptJobs, KeptTables DEF LifecycleInv, queueVars
  <1>4. CASE deadline[RunOf(w)] = "hard"
    <2> DEFINE h == [handler[w] EXCEPT !.pc = "draining"]
               agents == NoHandler.agent
    <2>1. h \in Handler /\ h.pc = "draining"
      <3>1. "draining" \in PC
        BY DEF PC
      <3> QED BY <1>1, <3>1, SetHandler
    <2>2. agents \in [Item -> Agent] /\ \A i \in Item : agents[i].state = "none"
      BY NoHandlerType DEF Handler, NoAgents
    <2>3. PICK next : next = [h EXCEPT !.agent = agents]
      OBVIOUS
    <2>4. handler' = [handler EXCEPT ![w] = next]
      BY <1>1, <1>2, <1>4, <2>3 DEF Judge
    <2>5. next \in Handler /\ next.pc = "draining" /\ next.agent = agents
      <3> HIDE DEF h, agents
      <3> QED BY <2>1, <2>2, <2>3, SetHandler
    <2>6. NoAgents(next)
      BY <2>2, <2>5 DEF NoAgents
    <2>7. Fits(w, next)
      BY <1>1, <2>5, <2>6 DEF Fits
    <2>8. Agrees(w, next)'
      <3>1. Agrees(w, handler[w]) /\ handler[w].pc \notin EarlyPC
        BY <1>1, HandlerType DEF EarlyPC
      <3>2. SameClaim(w) /\ Onward /\ Spared(w, next)
        BY <1>1, <1>2, <1>3 DEF SameClaim, queueVars, TablesStep, Spared
      <3>3. Agrees(w, next)
        BY <2>6, <3>1 DEF Agrees, NoAgents
      <3> QED BY <3>2, <3>3, AgreesStays
    <2>9. \A c \in late' \ late : CallOK(c) /\ c.lease.owner = w /\ next.pc \in EndPC
      BY <1>1, <1>4, <2>5, LeftCallsOK DEF Judge, LeftBehind, EndPC
    <2>10. late' \subseteq Call
      BY <2>9 DEF CallOK, CallForm, LifecycleInv, LifecycleTypeOK
    <2> QED BY <1>1, <1>2, <1>3, <2>4, <2>5, <2>7, <2>8, <2>9, <2>10, GoesOnKeepsInv DEF EndPC
  <1>5. CASE deadline[RunOf(w)] # "hard"
    <2> DEFINE h == [handler[w] EXCEPT !.pc = "dispatch"]
               todo == handler[w].todo \ Busy(w)
    <2>1. h \in Handler /\ h.pc = "dispatch" /\ h.agent = handler[w].agent
      <3>1. "dispatch" \in PC
        BY DEF PC
      <3> QED BY <1>1, <3>1, SetHandler
    <2>2. todo \in SUBSET Item
      BY <1>1 DEF Handler
    <2>3. PICK next : next = [h EXCEPT !.todo = todo]
      OBVIOUS
    <2>4. handler' = [handler EXCEPT ![w] = next]
      BY <1>1, <1>2, <1>5, <2>3 DEF Judge
    <2>5. /\ next \in Handler /\ next.pc = "dispatch" /\ next.agent = handler[w].agent
          /\ next.todo = todo
      <3> HIDE DEF h, todo
      <3> QED BY <2>1, <2>2, <2>3, SetHandler
    <2>6. Fits(w, next)
      BY <1>1, <2>2, <2>5 DEF Fits, EarlyPC, EndPC, Busy
    <2>7. GoesOn(w, next)
      BY <1>2, <1>5, <2>4 DEF GoesOn, Judge
    <2> QED BY <1>1, <1>2, <2>5, <2>6, <2>7, MovesOnKeepsInv DEF EarlyPC, EndPC
  <1> QED BY <1>4, <1>5

\* An item set aside that no agent works on leaves a fitting memory.
LEMMA LessToDo ==
  ASSUME LifecycleInv, NEW w \in ReviewWorker, worker[w].phase = "running",
         NEW i
  PROVE  LET next == [handler[w] EXCEPT !.todo = @ \ {i}]
         IN  /\ next \in Handler /\ next.agent = handler[w].agent
             /\ next.pc = handler[w].pc /\ next.outcome = handler[w].outcome
             /\ next.todo = handler[w].todo \ {i}
             /\ Fits(w, next)
  <1> DEFINE h == handler[w]
             todo == h.todo \ {i}
             next == [h EXCEPT !.todo = todo]
  <1>1. h \in Handler /\ Fits(w, h)
    BY HandlerType
  <1>2. todo \in SUBSET Item /\ \A k \in todo : k \in h.todo
    BY <1>1 DEF Handler
  <1> HIDE DEF todo, h
  <1>3. /\ next \in Handler /\ next.agent = h.agent
        /\ next.pc = h.pc /\ next.outcome = h.outcome
        /\ next.todo = todo
    BY <1>1, <1>2, SetHandler
  <1> HIDE DEF next
  <1>4. Fits(w, next)
    BY <1>1, <1>2, <1>3 DEF Fits, NoAgents
  <1>5. next = [h EXCEPT !.todo = @ \ {i}]
    BY DEF next, todo
  <1> QED BY <1>3, <1>4, <1>5 DEF h, todo

\* Past the hard deadline what is left is skipped, item by item.
LEMMA DrainKeepsInv ==
  ASSUME LifecycleInv, NEW w \in ReviewWorker, Drain(w)
  PROVE  LifecycleInv'
  <1>1. /\ worker[w].phase = "running" /\ handler[w].pc = "draining"
        /\ handler[w] \in Handler /\ Fits(w, handler[w])
    BY HandlerType DEF Drain, At
  <1>2. handler[w].pc \in EndPC /\ handler[w].pc \notin EarlyPC /\ NoAgents(handler[w])
    BY <1>1 DEF EndPC, EarlyPC, Fits
  <1>3. ASSUME NEW i \in handler[w].todo,
               Awaits(w, OwnCall(w, "skip", i, Nobody), [handler[w] EXCEPT !.todo = @ \ {i}])
        PROVE  LifecycleInv'
    <2>1. PICK next : next = [handler[w] EXCEPT !.todo = @ \ {i}]
      OBVIOUS
    <2>2. i \in Item /\ handler[w].agent[i].state = "none"
      BY <1>1, <1>2 DEF Handler, NoAgents
    <2>3. /\ next \in Handler /\ next.agent = handler[w].agent
          /\ next.pc = handler[w].pc /\ Fits(w, next)
      BY <1>1, <2>1, LessToDo
    <2> QED BY <1>1, <1>2, <1>3, <2>1, <2>2, <2>3, ItemAwaitsKeepsInv
  <1>4. ASSUME GoesOn(w, [handler[w] EXCEPT !.pc = "facts"]),
               UNCHANGED <<run, work, jobOf, deadline>>
        PROVE  LifecycleInv'
    <2>1. PICK next : next = [handler[w] EXCEPT !.pc = "facts"]
      OBVIOUS
    <2>2. next \in Handler /\ next.pc = "facts" /\ next.agent = handler[w].agent
      <3>1. "facts" \in PC
        BY DEF PC
      <3> QED BY <1>1, <2>1, <3>1, SetHandler
    <2>3. Fits(w, next)
      BY <1>1, <1>2, <2>2 DEF Fits, NoAgents
    <2> QED BY <1>1, <1>2, <1>4, <2>1, <2>2, <2>3, MovesOnKeepsInv DEF EndPC
  <1> QED BY <1>3, <1>4 DEF Drain

\* Past the cutoff no unit is started any more.
LEMMA SkipKeepsInv ==
  ASSUME LifecycleInv, NEW w \in ReviewWorker, SkipPastCutoff(w)
  PROVE  LifecycleInv'
  <1>1. /\ worker[w].phase = "running" /\ handler[w].pc = "dispatch"
        /\ handler[w] \in Handler /\ Fits(w, handler[w])
    BY HandlerType DEF SkipPastCutoff, At
  <1>2. PICK u \in handler[w].todo :
           Awaits(w, OwnCall(w, "skip", u, Nobody), [handler[w] EXCEPT !.todo = @ \ {u}])
    BY DEF SkipPastCutoff
  <1>3. u \in Item /\ handler[w].agent[u].state = "none"
    BY <1>1 DEF Handler, Fits
  <1>4. PICK next : next = [handler[w] EXCEPT !.todo = @ \ {u}]
    OBVIOUS
  <1>5. /\ next \in Handler /\ next.agent = handler[w].agent
        /\ next.pc = handler[w].pc /\ Fits(w, next)
    BY <1>1, <1>4, LessToDo
  <1> QED BY <1>1, <1>2, <1>3, <1>4, <1>5, ItemAwaitsKeepsInv DEF EarlyPC

\* An item without budget waits, or is given up.
LEMMA RefuseKeepsInv ==
  ASSUME LifecycleInv, NEW w \in ReviewWorker, Refuse(w)
  PROVE  LifecycleInv'
  <1>1. /\ worker[w].phase = "running" /\ handler[w].pc = "dispatch"
        /\ handler[w] \in Handler /\ Fits(w, handler[w])
    BY HandlerType DEF Refuse, At
  <1>2. PICK i \in Foremost(handler[w].todo) :
           LET next == [handler[w] EXCEPT !.todo = @ \ {i}]
           IN  \/ Awaits(w, OwnCall(w, "skip", i, Nobody), next)
               \/ GoesOn(w, next) /\ UNCHANGED <<run, work, jobOf, deadline>>
    BY DEF Refuse
  <1>3. i \in Item /\ handler[w].agent[i].state = "none"
    BY <1>1 DEF Handler, Fits, Foremost
  <1>4. PICK next : next = [handler[w] EXCEPT !.todo = @ \ {i}]
    OBVIOUS
  <1>5. /\ next \in Handler /\ next.agent = handler[w].agent
        /\ next.pc = handler[w].pc /\ Fits(w, next)
    BY <1>1, <1>4, LessToDo
  <1>6. \/ Awaits(w, OwnCall(w, "skip", i, Nobody), next)
        \/ GoesOn(w, next) /\ UNCHANGED <<run, work, jobOf, deadline>>
    BY <1>2, <1>4
  <1>7. CASE Awaits(w, OwnCall(w, "skip", i, Nobody), next)
    BY <1>1, <1>3, <1>5, <1>7, ItemAwaitsKeepsInv DEF EarlyPC
  <1>8. CASE GoesOn(w, next) /\ UNCHANGED <<run, work, jobOf, deadline>>
    BY <1>1, <1>5, <1>8, MovesOnKeepsInv DEF EarlyPC
  <1> QED BY <1>6, <1>7, <1>8

\* Everything that could be started is: the agents are awaited, if any.
LEMMA DispatchedKeepsInv ==
  ASSUME LifecycleInv, NEW w \in ReviewWorker, Dispatched(w)
  PROVE  LifecycleInv'
  <1> DEFINE h == [handler[w] EXCEPT !.todo = {}]
             pc == IF Busy(w) = {} THEN "facts" ELSE "waiting"
  <1>1. /\ worker[w].phase = "running" /\ handler[w].pc = "dispatch"
        /\ handler[w] \in Handler /\ Fits(w, handler[w])
    BY HandlerType DEF Dispatched, At
  <1>2. h \in Handler /\ h.agent = handler[w].agent
    <2>1. {} \in SUBSET Item
      OBVIOUS
    <2> QED BY <1>1, <2>1, SetHandler
  <1>3. pc \in PC
    BY DEF PC
  <1>4. PICK next : next = [h EXCEPT !.pc = pc]
    OBVIOUS
  <1>5. next \in Handler /\ next.pc = pc /\ next.agent = handler[w].agent
    <2> HIDE DEF h, pc
    <2> QED BY <1>2, <1>3, <1>4, SetHandler
  <1>6. GoesOn(w, next) /\ UNCHANGED <<run, work, jobOf, deadline>>
    BY <1>4 DEF Dispatched
  <1>7. Busy(w) = {} => NoAgents(next)
    BY <1>5 DEF Busy, NoAgents
  <1>8. Fits(w, next)
    BY <1>1, <1>5, <1>7 DEF Fits, EarlyPC, EndPC
  <1> QED BY <1>1, <1>5, <1>6, <1>8, MovesOnKeepsInv DEF EarlyPC, EndPC

\* The agents that are done are forgotten; one that was stopped ends it all.
LEMMA AwaitKeepsInv ==
  ASSUME LifecycleInv, NEW w \in ReviewWorker, Await(w)
  PROVE  LifecycleInv'
  <1> DEFINE old == handler[w].agent
             agents == [i \in Item |-> IF old[i].state = "done" THEN NoTask ELSE old[i]]
             h == [handler[w] EXCEPT !.pc = "loop"]
  <1>1. /\ worker[w].phase = "running" /\ handler[w].pc = "waiting"
        /\ handler[w] \in Handler /\ Fits(w, handler[w])
    BY HandlerType DEF Await, At
  <1>2. CASE Returns(w)
    <2>1. QuietJobs
      BY <1>2, KeptJobs DEF Returns, HandlerEnds, LifecycleInv
    <2> QED BY <1>2, <2>1, KeptTables, ReturnsKeepsInv DEF Await
  <1>3. ASSUME NEW next, next = [h EXCEPT !.agent = agents], GoesOn(w, next)
        PROVE  LifecycleInv'
    <2>1. h \in Handler /\ h.pc = "loop"
      <3>1. "loop" \in PC
        BY DEF PC
      <3> QED BY <1>1, <3>1, SetHandler
    <2>2. NoTask \in Agent /\ NoTask.state = "none"
      BY DEF NoTask, Agent
    <2>3. /\ agents \in [Item -> Agent]
          /\ \A i \in Item : agents[i].state = "working" => agents[i] = old[i]
      <3>1. \A i \in Item : old[i] \in Agent
        BY HandlerType
      <3> HIDE DEF NoTask, old
      <3> QED BY <2>2, <3>1
    <2>4. next \in Handler /\ next.pc = "loop" /\ next.agent = agents
      <3> HIDE DEF h, agents
      <3> QED BY <1>3, <2>1, <2>3, SetHandler
    <2> HIDE DEF agents
    <2>5. Fits(w, next)
      BY <1>1, <2>4 DEF Fits, EarlyPC, EndPC
    <2>6. UNCHANGED <<run, work, jobOf, deadline>>
      BY DEF Await
    <2>7. /\ handler[w].pc \notin EarlyPC /\ next.pc \notin EarlyPC
          /\ handler[w].pc \notin EndPC
      BY <1>1, <2>4 DEF EarlyPC, EndPC
    <2>8. \A i \in Item : next.agent[i].state = "working" =>
                            next.agent[i] = handler[w].agent[i]
      BY <2>3, <2>4
    <2> HIDE DEF h, old
    <2>9. next \in Handler /\ GoesOn(w, next) /\ worker[w].phase = "running"
      BY <1>1, <1>3, <2>4
    <2> QED BY <2>5, <2>6, <2>7, <2>8, <2>9, MovesOnKeepsInv
  <1>4. \/ Returns(w)
        \/ GoesOn(w, [handler[w] EXCEPT
                          !.pc = "loop",
                          !.agent = [i \in Item |-> IF @[i].state = "done" THEN NoTask
                                                                           ELSE @[i]]])
    BY DEF Await
  <1>5. [h EXCEPT !.agent = agents]
          = [handler[w] EXCEPT
                          !.pc = "loop",
                          !.agent = [i \in Item |-> IF @[i].state = "done" THEN NoTask
                                                                           ELSE @[i]]]
    BY <1>1 DEF Handler
  <1> QED BY <1>2, <1>3, <1>4, <1>5

\* What build_report calls a review with.
LEMMA OutcomeFacts ==
  ASSUME NEW items
  PROVE  /\ Outcome(items) \in Reported
         /\ Outcome(items) = "completed" => AllSettled(items)
  BY DEF Outcome, Reported, AllSettled, Settled, Item

\* The report is built from the facts of the moment.
LEMMA BuildFactsKeepsInv ==
  ASSUME LifecycleInv, NEW w \in ReviewWorker, BuildFacts(w)
  PROVE  LifecycleInv'
  <1> DEFINE h == [handler[w] EXCEPT !.pc = "overview"]
             outcome == Outcome(work[RunOf(w)])
  <1>1. /\ worker[w].phase = "running" /\ handler[w].pc = "facts"
        /\ handler[w] \in Handler /\ Fits(w, handler[w])
    BY HandlerType DEF BuildFacts, At
  <1>2. h \in Handler /\ h.pc = "overview" /\ h.agent = handler[w].agent
    <2>1. "overview" \in PC
      BY DEF PC
    <2> QED BY <1>1, <2>1, SetHandler
  <1>3. /\ outcome \in Reported /\ outcome \in TERMINAL
        /\ outcome = "completed" => AllSettled(work[RunOf(w)])
    BY OutcomeFacts DEF Reported, TERMINAL
  <1>4. PICK next : next = [h EXCEPT !.outcome = outcome]
    OBVIOUS
  <1>5. /\ next \in Handler /\ next.pc = "overview" /\ next.agent = handler[w].agent
        /\ next.outcome = outcome
    <2> HIDE DEF h, outcome
    <2> QED BY <1>2, <1>3, <1>4, SetHandler
  <1>6. Fits(w, next)
    <2> HIDE DEF outcome
    <2> QED BY <1>1, <1>3, <1>5 DEF Fits, EndPC, EarlyPC, NoAgents
  <1>7. Checks(w, next)
    BY <1>4 DEF BuildFacts
  <1> QED BY <1>1, <1>5, <1>6, <1>7, ChecksKeepsInv DEF EarlyPC, EndPC

\* The report is saved, whatever the fence says of it.
LEMMA SaveKeepsInv ==
  ASSUME LifecycleInv, NEW w \in ReviewWorker, Save(w)
  PROVE  LifecycleInv'
  <1>1. PICK c : c = OwnCall(w, "save", Nobody, handler[w].outcome)
    OBVIOUS
  <1>2. CallOK(c) /\ c.lease.owner = w
    BY <1>1, SaveCall DEF Save
  <1>3. Commit(c) /\ Returns(w) /\ UNCHANGED <<jobOf, deadline>>
    BY <1>1 DEF Save
  <1>4. job' = job
    BY <1>3 DEF Returns, HandlerEnds
  <1> QED BY <1>2, <1>3, <1>4, CommitTables, ReturnsKeepsInv

\* The foremost item is claimed, and an agent started for the attempt made.
LEMMA StartAgentKeepsInv ==
  ASSUME LifecycleInv, NEW w \in ReviewWorker, StartAgent(w)
  PROVE  LifecycleInv'
  <1> DEFINE r == RunOf(w)
             old == handler[w].agent
  <1>1. /\ worker[w].phase = "running" /\ handler[w].pc = "dispatch"
        /\ handler[w] \in Handler /\ Fits(w, handler[w]) /\ Agrees(w, handler[w])
        /\ old \in [Item -> Agent]
    BY HandlerType DEF StartAgent, At, Handler
  <1>2. /\ r \in Run /\ r = jobOf[worker[w].job].run /\ work \in [Run -> Items]
        /\ LeaseOf(w).job = worker[w].job
    BY <1>1, RunningLease, TableTypes DEF RunOf
  <1>3. PICK i \in Foremost(handler[w].todo) :
           Awaits(w, OwnCall(w, "claim", i, Nobody),
                  [handler[w] EXCEPT
                      !.todo = @ \ {i},
                      !.agent[i] = IF work[r][i].status = "queued"
                                   THEN [state |-> "working", try |-> work[r][i].try + 1]
                                   ELSE @])
    BY DEF StartAgent
  <1>4. i \in Item /\ old[i].state = "none"
    BY <1>1 DEF Handler, Fits, Foremost
  <1> DEFINE item == work[r][i]
             n == item.try + 1
             task == IF item.status = "queued" THEN [state |-> "working", try |-> n] ELSE old[i]
             agents == [old EXCEPT ![i] = task]
             h == [handler[w] EXCEPT !.todo = @ \ {i}]
  <1>5. item \in WorkItem /\ n \in Nat
    BY <1>2, <1>4 DEF Items, WorkItem
  <1>6. task \in Agent
    <2> HIDE DEF n, old
    <2> QED BY <1>1, <1>4, <1>5 DEF Agent
  <1>7. /\ agents \in [Item -> Agent]
        /\ \A k \in Item : agents[k] = IF k = i THEN task ELSE old[k]
    <2> HIDE DEF task, old
    <2> QED BY <1>1, <1>4, <1>6
  <1>8. h \in Handler /\ h.pc = "dispatch" /\ h.agent = old /\ h.todo = handler[w].todo \ {i}
    <2> HIDE DEF h
    <2> QED BY <1>1, LessToDo DEF h
  <1>9. PICK next : next = [h EXCEPT !.agent = agents]
    OBVIOUS
  <1>10. /\ next \in Handler /\ next.pc = "dispatch" /\ next.agent = agents
         /\ next.todo = handler[w].todo \ {i}
    <2> HIDE DEF h, agents
    <2> QED BY <1>7, <1>8, <1>9, SetHandler
  <1>11. next = [handler[w] EXCEPT
                      !.todo = @ \ {i},
                      !.agent[i] = IF work[r][i].status = "queued"
                                   THEN [state |-> "working", try |-> work[r][i].try + 1]
                                   ELSE @]
    BY <1>1, <1>9 DEF Handler
  <1>12. PICK c : c = OwnCall(w, "claim", i, Nobody)
    OBVIOUS
  <1>13. Awaits(w, c, next)
    BY <1>3, <1>11, <1>12
  <1>14. /\ CallOK(c) /\ IsLeaseOf(c.lease, w) /\ c.lease.owner = w
         /\ c.op = "claim" /\ c.item = i
    BY <1>1, <1>4, <1>12, ItemCall DEF EarlyPC
  <1> HIDE DEF agents, task
  <1>15. Fits(w, next)
    <2>1. \A k \in next.todo : k # i /\ k \in handler[w].todo /\ k \in Item
      BY <1>1, <1>10 DEF Handler
    <2> QED BY <1>1, <1>7, <1>10, <2>1 DEF Fits, EarlyPC, EndPC
  <1>16. Fence(c.lease) => Agrees(w, next)'
    <2> SUFFICES ASSUME Fence(c.lease) PROVE Agrees(w, next)'
      OBVIOUS
    <2>1. Commit(c) /\ job' = job /\ worker' = worker /\ UNCHANGED <<jobOf, deadline>>
      BY <1>13 DEF Awaits, GoesOn, queueVars
    <2>2. SameClaim(w) /\ Onward
      BY <1>1, <1>14, <2>1, CommitFacts DEF SameClaim
    <2>3. Works(c) /\ jobOf[c.lease.job].run = r
      BY <1>2, <1>14 DEF Works, Accepts, IsLeaseOf
    <2>4. /\ Grip(LeaseOf(w))
          /\ run[r].status # "queued"
      <3>1. Grip(LeaseOf(w))
        <4>1. Grip(c.lease)
          BY <1>14, <2>3, WorksFacts
        <4>2. /\ LeaseOf(w).job = c.lease.job /\ LeaseOf(w).owner = c.lease.owner
              /\ LeaseOf(w).attempt = c.lease.attempt
          BY <1>1, <1>14, RunningLease DEF IsLeaseOf
        <4> QED BY <4>1, <4>2 DEF Grip
      <3> QED BY <1>1, <3>1 DEF Agrees, EarlyPC
    <2>5. run' = [run EXCEPT ![r] = run[r]] /\ work' = [work EXCEPT ![r] = Stored(r, c)]
      BY <1>14, <2>1, <2>3, WorksFacts DEF Commit
    <2>6. run'[r] = run[r] /\ work'[r] = Stored(r, c)
      BY <1>2, <2>5, TableTypes
    <2>7. \A k \in Item \ {i} : work'[r][k] = work[r][k]
      <3>1. work[r] \in Items
        BY <1>2
      <3>2. \/ Stored(r, c) = work[r]
            \/ Stored(r, c) = [work[r] EXCEPT ![i] = [status |-> "running",
                                   try |-> n, clean |-> FALSE]]
        BY <1>14 DEF Stored
      <3> HIDE DEF n, r
      <3> QED BY <1>4, <2>6, <3>1, <3>2 DEF Items
    <2>8. item.status = "queued" => work'[r][i].status = "running" /\ work'[r][i].try = n
      <3> SUFFICES ASSUME item.status = "queued"
                   PROVE  work'[r][i].status = "running" /\ work'[r][i].try = n
        OBVIOUS
      <3>1. Stored(r, c) = [work[r] EXCEPT ![i] = [status |-> "running",
                                   try |-> n, clean |-> FALSE]]
        BY <1>14 DEF Stored
      <3>2. work[r] \in Items
        BY <1>2
      <3> HIDE DEF n, r
      <3> QED BY <1>4, <2>6, <3>1, <3>2 DEF Items
    <2>9. \A k \in Item : next.agent[k].state = "working" =>
             work'[r][k].status = "running" /\ work'[r][k].try = next.agent[k].try
      <3>1. ASSUME NEW k \in Item \ {i}, next.agent[k].state = "working"
            PROVE  work'[r][k].status = "running" /\ work'[r][k].try = next.agent[k].try
        BY <1>1, <1>7, <1>10, <2>4, <2>7, <3>1 DEF Agrees
      <3>2. next.agent[i].state = "working" =>
               work'[r][i].status = "running" /\ work'[r][i].try = next.agent[i].try
        <4> HIDE DEF n, item
        <4> QED BY <1>4, <1>7, <1>10, <2>8 DEF task
      <3> QED BY <3>1, <3>2
    <2>10. RunOf(w)' = r
      BY <2>2, SameRun
    <2> HIDE DEF r
    <2> QED BY <2>4, <2>6, <2>9, <2>10 DEF Agrees
  <1> QED BY <1>1, <1>10, <1>13, <1>14, <1>15, <1>16, AwaitsKeepsInv DEF EndPC

-----------------------------------------------------------------------------
(* Agents and calls left behind *)

\* A step that leaves the queue and the handlers alone and makes one call.
LEMMA CallKeepsInv ==
  ASSUME LifecycleInv, NEW c, CallOK(c), Commit(c),
         UNCHANGED <<queueVars, jobOf, deadline, handler>>, late' \subseteq late,
         \A w \in ReviewWorker : worker[w].phase = "running" => Spared(w, handler[w])
  PROVE  LifecycleInv'
  <1>1. job' = job /\ worker' = worker /\ jobOf' = jobOf /\ deadline' = deadline
        /\ handler' = handler
    BY DEF queueVars
  <1>2. TablesStep
    BY <1>1, CommitFacts DEF TablesStep
  <1>3. QueueInv'
    BY DEF LifecycleInv, queueVars, QueueInv, QueueTypeOK, RowsConsistent,
           AttemptsWereGranted, PendingVerdicts, AttemptsWithinBudget, AttemptIsAToken
  <1>4. LifecycleTypeOK'
    BY <1>1, <1>2, <1>3, TypesAfter DEF LifecycleInv, LifecycleTypeOK
  <1>5. (\A j \in ReviewJob : JobOK(j)') /\ OneActiveJob'
    BY <1>2, JobsStay DEF TablesStep
  <1> QED BY <1>1, <1>2, <1>3, <1>4, <1>5, CallerKeepsInv DEF TablesStep

\* An agent that hands in a candidate or material leaves every agent its item.
LEMMA WritesKeepInv ==
  ASSUME LifecycleInv, NEW w \in ReviewWorker, worker[w].phase = "running",
         NEW op \in {"deliver", "submit"}, NEW u \in Working(w),
         NEW value \in Item \cup WorkStatus \cup TERMINAL \cup {Nobody},
         op = "submit" => value \in Candidate,
         Commit(AgentCall(w, op, u, value)),
         UNCHANGED <<queueVars, jobOf, deadline, handler, late>>
  PROVE  LifecycleInv'
  <1>1. PICK c : c = AgentCall(w, op, u, value)
    OBVIOUS
  <1>2. CallOK(c) /\ c.lease.owner = w /\ c.op = op
    BY <1>1, AgentCallOK
  <1>3. Commit(c) /\ job' = job /\ UNCHANGED <<jobOf, deadline>>
    BY <1>1 DEF queueVars
  <1>4. OthersSpared(w)
    BY <1>2, <1>3, CommitTables
  <1>5. Spared(w, handler[w])
    BY <1>2, <1>3, CommitSparesOwn
  <1> QED BY <1>2, <1>3, <1>4, <1>5, CallKeepsInv DEF OthersSpared

\* A candidate is handed in.
LEMMA SubmitKeepsInv ==
  ASSUME LifecycleInv, NEW w \in ReviewWorker, NEW u \in Unit, Submit(w, u)
  PROVE  LifecycleInv'
  <1>1. PICK c \in FreshCandidates(RunOf(w)) : Commit(AgentCall(w, "submit", u, c))
    BY DEF Submit
  <1>2. c \in Candidate /\ c \in Item /\ u \in Working(w) /\ worker[w].phase = "running"
    BY DEF FreshCandidates, Item, Submit
  <1> QED BY <1>1, <1>2, WritesKeepInv DEF Submit

\* Required material is delivered.
LEMMA DeliverKeepsInv ==
  ASSUME LifecycleInv, NEW w \in ReviewWorker, NEW u \in Unit, Deliver(w, u)
  PROVE  LifecycleInv'
  BY WritesKeepInv DEF Deliver

\* The memory of a handler with the state of one agent replaced.
LEMMA AgentSet ==
  ASSUME LifecycleInv, NEW w \in ReviewWorker, NEW i \in Item,
         NEW state \in {"done", "stopped"}, AgentIs(w, i, state)
  PROVE  \E next \in Handler :
            /\ handler' = [handler EXCEPT ![w] = next]
            /\ next.pc = handler[w].pc /\ next.todo = handler[w].todo
            /\ next.outcome = handler[w].outcome
            /\ next.agent[i].state = state
            /\ \A k \in Item \ {i} : next.agent[k] = handler[w].agent[k]
  <1> DEFINE old == handler[w].agent
             task == [old[i] EXCEPT !.state = state]
             agents == [old EXCEPT ![i] = task]
  <1>1. /\ handler \in [ReviewWorker -> Handler] /\ handler[w] \in Handler
        /\ old \in [Item -> Agent] /\ old[i] \in Agent
    BY HandlerType DEF Handler
  <1>2. task \in Agent /\ task.state = state
    BY <1>1 DEF Agent
  <1>3. /\ agents \in [Item -> Agent] /\ agents[i].state = state
        /\ \A k \in Item \ {i} : agents[k] = old[k]
    <2> HIDE DEF task, old
    <2> QED BY <1>1, <1>2
  <1>4. PICK next : next = [handler[w] EXCEPT !.agent = agents]
    OBVIOUS
  <1>5. /\ next \in Handler /\ next.pc = handler[w].pc /\ next.todo = handler[w].todo
        /\ next.agent = agents /\ next.outcome = handler[w].outcome
    <2> HIDE DEF agents
    <2> QED BY <1>1, <1>3, <1>4, SetHandler
  <1>6. handler' = [handler EXCEPT ![w] = next]
    BY <1>1, <1>4 DEF AgentIs
  <1> HIDE DEF agents
  <1> QED BY <1>3, <1>5, <1>6

\* An agent at work ends: its handler is in the middle of its loop.
LEMMA AgentEndsKeepsInv ==
  ASSUME LifecycleInv, NEW w \in ReviewWorker, worker[w].phase = "running",
         NEW i \in Working(w), NEW state \in {"done", "stopped"}, AgentIs(w, i, state),
         TablesStep, OthersSpared(w),
         \A h : (\A k \in Item : h.agent[k].state = "working" => k # i) => Spared(w, h)
  PROVE  LifecycleInv'
  <1>1. i \in Item /\ handler[w].agent[i].state = "working"
    BY DEF Working
  <1>2. PICK next \in Handler :
            /\ handler' = [handler EXCEPT ![w] = next]
            /\ next.pc = handler[w].pc /\ next.todo = handler[w].todo
            /\ next.outcome = handler[w].outcome
            /\ next.agent[i].state = state
            /\ \A k \in Item \ {i} : next.agent[k] = handler[w].agent[k]
    BY <1>1, AgentSet
  <1>3. /\ Fits(w, handler[w]) /\ Agrees(w, handler[w])
        /\ handler[w].pc \notin EarlyPC \cup EndPC
        /\ handler[w].todo \subseteq Item
    BY <1>1, HandlerType, AgentsInTheMiddle DEF Handler
  <1>4. handler[w].pc = "dispatch" => i \notin handler[w].todo
    BY <1>1, <1>3 DEF Fits
  <1>5. Fits(w, next)
    <2>1. next.pc = "dispatch" => \A k \in next.todo : next.agent[k].state = "none"
      BY <1>2, <1>3, <1>4 DEF Fits
    <2>2. next.pc \notin EarlyPC \cup EndPC
      BY <1>2, <1>3
    <2> QED BY <1>3, <2>1, <2>2 DEF Fits, EndPC
  <1>6. Agrees(w, next)
    BY <1>1, <1>2, <1>3 DEF Agrees
  <1>7. UNCHANGED queueVars /\ late' = late /\ SameClaim(w)
    BY DEF AgentIs, queueVars, SameClaim
  <1>8. Spared(w, next)
    <2>1. \A k \in Item : next.agent[k].state = "working" => k # i
      BY <1>2
    <2> QED BY <2>1
  <1>9. Agrees(w, next)'
    BY <1>5, <1>6, <1>7, <1>8, AgreesStays DEF TablesStep
  <1> QED BY <1>2, <1>3, <1>5, <1>7, <1>9, GoesOnKeepsInv
             DEF LifecycleInv, LifecycleTypeOK

\* An agent reports its item and is done.
LEMMA FinishKeepsInv ==
  ASSUME LifecycleInv, NEW w \in ReviewWorker, NEW i \in Item, NEW s \in Endings,
         Finish(w, i, s)
  PROVE  LifecycleInv'
  <1>1. worker[w].phase = "running" /\ i \in Working(w) /\ AgentIs(w, i, "done")
    BY DEF Finish
  <1>2. PICK c : c = AgentCall(w, "finish", i, s)
    OBVIOUS
  <1>3. s \in WorkStatus
    BY DEF Endings, WorkStatus
  <1>4. CallOK(c) /\ c.lease.owner = w /\ c.op = "finish" /\ c.item = i
    BY <1>1, <1>2, <1>3, AgentCallOK
  <1>5. Commit(c) /\ job' = job /\ UNCHANGED <<jobOf, deadline>>
    BY <1>1, <1>2 DEF Finish, AgentIs, queueVars
  <1>6. TablesStep /\ OthersSpared(w)
    BY <1>4, <1>5, CommitTables
  <1>7. \A h : (\A k \in Item : h.agent[k].state = "working" => k # i) => Spared(w, h)
    BY <1>1, <1>4, <1>5, CommitSparesOwn
  <1> QED BY <1>1, <1>6, <1>7, AgentEndsKeepsInv

\* An agent is told that its review has been stopped.
LEMMA AgentStopsKeepsInv ==
  ASSUME LifecycleInv, NEW w \in ReviewWorker, NEW i \in Item, AgentStops(w, i)
  PROVE  LifecycleInv'
  <1>1. worker[w].phase = "running" /\ i \in Working(w) /\ AgentIs(w, i, "stopped")
    BY DEF AgentStops
  <1>2. QuietJobs /\ UNCHANGED <<run, work, jobOf, deadline>>
    BY <1>1, KeptJobs DEF AgentStops, AgentIs, queueVars, LifecycleInv
  <1>3. TablesStep /\ OthersSpared(w) /\ \A h : Spared(w, h)
    BY <1>2, KeptTables
  <1> QED BY <1>1, <1>3, AgentEndsKeepsInv

\* A call left behind gets to its transaction: its own handler, if it still
\* runs, has no agents that it could disturb.
LEMMA LateCallKeepsInv ==
  ASSUME LifecycleInv, NEW c \in late, LateCall(c)
  PROVE  LifecycleInv'
  <1>1. CallOK(c) /\ LateOK(c) /\ Commit(c) /\ late' \subseteq late
    BY DEF LifecycleInv, LateOK, LateCall
  <1>2. UNCHANGED <<queueVars, jobOf, deadline, handler>>
    BY DEF LateCall
  <1>3. ASSUME NEW w \in ReviewWorker, worker[w].phase = "running"
        PROVE  Spared(w, handler[w])
    <2>1. CASE ~IsLeaseOf(c.lease, w)
      BY <1>1, <1>3, <2>1, CommitSparesOthers
    <2>2. CASE IsLeaseOf(c.lease, w)
      <3>1. handler[w].pc \in EndPC
        BY <1>1, <1>3, <2>2 DEF LateOK
      <3>2. NoAgents(handler[w])
        BY <1>3, <3>1, HandlerType DEF Fits
      <3> QED BY <3>2 DEF Spared, NoAgents
    <2> QED BY <2>1, <2>2
  <1> QED BY <1>1, <1>2, <1>3, CallKeepsInv

-----------------------------------------------------------------------------
(* Processes, seen from the queue *)

\* A step of a process that moves the queue and no handler.
LEMMA QuietStepKeepsInv ==
  ASSUME LifecycleInv, QueueInv', QuietJobs,
         UNCHANGED <<run, work, jobOf, deadline, handler, late>>,
         NEW w \in ReviewWorker,
         \A v \in ReviewWorker \ {w} : worker'[v] = worker[v],
         worker'[w].phase = "running" \/ worker[w].phase = "running" => SameClaim(w)
  PROVE  LifecycleInv'
  <1>1. TablesStep /\ OthersSpared(w) /\ \A h : Spared(w, h)
    BY KeptTables
  <1>2. LifecycleTypeOK'
    BY <1>1, TypesAfter DEF LifecycleInv, LifecycleTypeOK
  <1>3. Moves(w)
    BY DEF Moves
  <1>4. HandlerOK(w)'
    <2>1. CASE worker[w].phase = "running"
      <3> DEFINE h == handler[w]
      <3>1. SameClaim(w) /\ Fits(w, h) /\ Agrees(w, h)
        BY <2>1 DEF LifecycleInv, HandlerOK
      <3>2. \A k : k = h => Fits(w, k)' /\ Agrees(w, k)'
        <4> HIDE DEF h
        <4> QED BY <1>1, <3>1, FitsStays, AgreesStays DEF TablesStep
      <3> QED BY <3>1, <3>2 DEF HandlerOK, SameClaim
    <2>2. CASE worker[w].phase # "running"
      BY <2>2 DEF LifecycleInv, HandlerOK, SameClaim
    <2> QED BY <2>1, <2>2
  <1> QED BY <1>1, <1>2, <1>3, <1>4, ProcessKeepsInv DEF TablesStep, OthersSpared

\* A step that may cancel a handler, with all that it has under way.
LEMMA InterruptKeepsInv ==
  ASSUME LifecycleInv, QueueInv', QuietJobs, NEW w \in ReviewWorker, NEW step,
         MayInterrupt(w, step),
         \A v \in ReviewWorker \ {w} : worker'[v] = worker[v],
         worker'[w].phase = "running" => SameClaim(w),
         worker[w].phase = "running" => worker'[w].phase \in {"running", "cancelled"}
  PROVE  LifecycleInv'
  <1>1. CASE worker[w].phase = "running" /\ worker'[w].phase = "cancelled"
    <2>1. /\ HandlerGone(w, AgentCalls(w) \cup OrchestratorCalls(w))
          /\ UNCHANGED <<run, work, jobOf, deadline>>
      BY <1>1 DEF MayInterrupt
    <2> QED BY <1>1, <2>1, KeptTables, LeftCallsOK, GoneKeepsInv
  <1>2. CASE ~(worker[w].phase = "running" /\ worker'[w].phase = "cancelled")
    <2>1. UNCHANGED <<run, work, jobOf, deadline, handler, late>>
      BY <1>2 DEF MayInterrupt
    <2> QED BY <1>2, <2>1, QuietStepKeepsInv DEF SameClaim
  <1> QED BY <1>1, <1>2

\* A process that is told to do something else, and whose heartbeat ends.
LEMMA BeatenProcess ==
  ASSUME NEW state \in WorkerState, NEW p
  PROVE  LET next == [[state EXCEPT !.phase = p] EXCEPT !.beating = FALSE]
         IN  next.phase = p /\ next.job = state.job /\ next.attempt = state.attempt
  <1>1. PICK named : named = [state EXCEPT !.phase = p]
    OBVIOUS
  <1>2. /\ named.phase = p /\ named.job = state.job /\ named.attempt = state.attempt
        /\ [named EXCEPT !.beating = FALSE].phase = named.phase
        /\ [named EXCEPT !.beating = FALSE].job = named.job
        /\ [named EXCEPT !.beating = FALSE].attempt = named.attempt
    BY <1>1 DEF WorkerState
  <1> QED BY <1>1, <1>2

\* A heartbeat that finds the lease lost cancels the handler.
LEMMA BeatKeepsInv ==
  ASSUME LifecycleInv, NEW w \in ReviewWorker, NEW d \in Age,
         MayInterrupt(w, Heartbeat(w, d))
  PROVE  LifecycleInv'
  <1>1. Heartbeat(w, d) /\ QueueInv /\ w \in Worker
    BY DEF MayInterrupt, LifecycleInv
  <1>2. QueueInv' /\ QuietJobs
    BY <1>1, HeartbeatKeepsInv, HeartbeatIsQuiet
  <1>3. worker \in [Worker -> WorkerState] /\ worker[w] \in WorkerState
    BY <1>1 DEF QueueInv, QueueTypeOK
  <1> DEFINE p == IF worker[w].phase = "running" THEN "cancelled" ELSE worker[w].phase
  <1>4. \/ worker' = worker
        \/ worker' = [worker EXCEPT ![w] = [[@ EXCEPT !.phase = p] EXCEPT !.beating = FALSE]]
    BY <1>1, <1>3 DEF Heartbeat
  <1>5. /\ \A v \in ReviewWorker \ {w} : worker'[v] = worker[v]
        /\ \/ worker' = worker
           \/ worker'[w].phase = p
    <2> DEFINE next == [[worker[w] EXCEPT !.phase = p] EXCEPT !.beating = FALSE]
    <2>1. next.phase = p
      BY <1>3, BeatenProcess
    <2>2. worker' = worker \/ worker' = [worker EXCEPT ![w] = next]
      BY <1>4
    <2> HIDE DEF next, p
    <2> QED BY <1>3, <2>1, <2>2
  <1> QED BY <1>2, <1>5, InterruptKeepsInv DEF SameClaim

\* So does an orderly shutdown.
LEMMA ShutdownKeepsInv ==
  ASSUME LifecycleInv, NEW w \in ReviewWorker, MayInterrupt(w, Stop(w))
  PROVE  LifecycleInv'
  <1> DEFINE p == CASE worker[w].phase = "idle" -> "stopped"
                    [] worker[w].phase = "running" /\ w \in ReviewWorker -> "cancelled"
                    [] OTHER -> worker[w].phase
  <1>1. Stop(w) /\ QueueInv /\ w \in Worker
    BY DEF MayInterrupt, LifecycleInv
  <1>2. QueueInv' /\ QuietJobs
    BY <1>1, StopKeepsInv, KeptJobs DEF Stop
  <1>3. worker \in [Worker -> WorkerState] /\ worker[w] \in WorkerState
    BY <1>1 DEF QueueInv, QueueTypeOK
  <1>4. worker' = [worker EXCEPT ![w] = [[@ EXCEPT !.stopping = TRUE] EXCEPT !.phase = p]]
    BY <1>1, <1>3 DEF Stop
  <1>5. /\ \A v \in ReviewWorker \ {w} : worker'[v] = worker[v]
        /\ worker'[w].phase = p
    <2> HIDE DEF p
    <2> QED BY <1>3, <1>4 DEF WorkerState
  <1> QED BY <1>2, <1>5, InterruptKeepsInv

\* So does a request of a user.
LEMMA CancelHandlerStepKeepsInv ==
  ASSUME LifecycleInv, NEW w \in ReviewWorker, MayInterrupt(w, CancelHandler(w))
  PROVE  LifecycleInv'
  <1>1. CancelHandler(w) /\ QueueInv /\ w \in Worker
    BY DEF MayInterrupt, LifecycleInv
  <1>2. QueueInv' /\ QuietJobs
    BY <1>1, CancelHandlerKeepsInv, KeptJobs DEF CancelHandler
  <1>3. worker \in [Worker -> WorkerState] /\ worker[w] \in WorkerState
    BY <1>1 DEF QueueInv, QueueTypeOK
  <1>4. /\ \A v \in ReviewWorker \ {w} : worker'[v] = worker[v]
        /\ worker'[w].phase = "cancelled"
    BY <1>1, <1>3 DEF CancelHandler, WorkerState
  <1> QED BY <1>2, <1>4, InterruptKeepsInv

\* The queue hears how a handler ended: it has been gone since.
LEMMA ReportsKeepsInv ==
  ASSUME LifecycleInv, NEW w \in ReviewWorker, NEW d \in Age, Reports(w, d)
  PROVE  LifecycleInv'
  <1>1. (Complete(w, d) \/ Fail(w, d)) /\ QueueInv /\ w \in Worker
    BY DEF Reports, LifecycleInv
  <1>2. QueueInv' /\ QuietJobs
    BY <1>1, CompleteKeepsInv, FailKeepsInv, ReceiptIsQuiet
  <1>3. worker \in [Worker -> WorkerState] /\ worker[w] \in WorkerState
    BY <1>1 DEF QueueInv, QueueTypeOK
  <1>4. worker[w].phase # "running" /\ worker' = [worker EXCEPT ![w] = AfterRunOnce(w)]
    BY <1>1 DEF Complete, Fail, Failed, Release
  <1>5. AfterRunOnce(w).phase # "running"
    BY DEF AfterRunOnce, NoWork
  <1>6. /\ \A v \in ReviewWorker \ {w} : worker'[v] = worker[v]
        /\ worker'[w].phase # "running"
    BY <1>1, <1>3, <1>4, <1>5
  <1> QED BY <1>2, <1>4, <1>6, QuietStepKeepsInv DEF Reports, lifecycleVars

\* A process starts, or begins to claim.
LEMMA PollsKeepsInv ==
  ASSUME LifecycleInv, NEW w \in ReviewWorker, Polls(w)
  PROVE  LifecycleInv'
  <1>1. (Start(w) \/ StartClaim(w)) /\ QueueInv /\ w \in Worker
    BY DEF Polls, LifecycleInv
  <1>2. QueueInv' /\ QuietJobs
    BY <1>1, StartKeepsInv, StartClaimKeepsInv, KeptJobs DEF Start, StartClaim
  <1>3. worker \in [Worker -> WorkerState] /\ worker[w] \in WorkerState
    BY <1>1 DEF QueueInv, QueueTypeOK
  <1>4. NoWork("idle", FALSE).phase = "idle"
    BY DEF NoWork
  <1>5. /\ worker[w].phase # "running"
        /\ \A v \in ReviewWorker \ {w} : worker'[v] = worker[v]
        /\ worker'[w].phase # "running"
    <2>1. CASE Start(w)
      BY <1>3, <1>4, <2>1 DEF Start
    <2>2. CASE StartClaim(w)
      BY <1>3, <2>2 DEF StartClaim, WorkerState
    <2> QED BY <1>1, <2>1, <2>2
  <1> QED BY <1>2, <1>5, QuietStepKeepsInv DEF Polls, lifecycleVars

\* A process dies, and its threads with it.
LEMMA DiesKeepsInv ==
  ASSUME LifecycleInv, NEW w \in ReviewWorker, Dies(w)
  PROVE  LifecycleInv'
  <1>1. Kill(w) /\ QueueInv /\ w \in Worker
    BY DEF Dies, LifecycleInv
  <1>2. QueueInv' /\ QuietJobs
    BY <1>1, KillKeepsInv, KeptJobs DEF Kill
  <1>3. worker \in [Worker -> WorkerState] /\ NoWork("killed", FALSE).phase = "killed"
    BY <1>1 DEF QueueInv, QueueTypeOK, NoWork
  <1>4. /\ \A v \in ReviewWorker \ {w} : worker'[v] = worker[v]
        /\ worker'[w].phase # "running"
    BY <1>1, <1>3 DEF Kill
  <1>5. /\ handler' \in [ReviewWorker -> Handler] /\ handler'[w] = NoHandler
        /\ \A v \in ReviewWorker \ {w} : handler'[v] = handler[v]
        /\ late' \subseteq late
    BY HandlerType, NoHandlerType DEF Dies
  <1>6. TablesStep /\ OthersSpared(w)
    BY <1>2, KeptTables DEF Dies
  <1>7. LifecycleTypeOK'
    BY <1>2, <1>5, <1>6, TypesAfter DEF LifecycleInv, LifecycleTypeOK
  <1>8. Moves(w) /\ HandlerOK(w)'
    BY <1>4, <1>5 DEF Moves, HandlerOK
  <1> QED BY <1>2, <1>6, <1>7, <1>8, ProcessKeepsInv DEF TablesStep, OthersSpared

\* A job that a claim buries is not granted by it.
LEMMA BuriedIsDead ==
  ASSUME QueueInv, NEW w \in ReviewWorker, NEW d \in Age,
         ClaimJob(w, d, LiveJobs) \/ ClaimNothing(w, d, LiveJobs),
         NEW j \in Buried(d)
  PROVE  j \in ReviewJob /\ job[j].status = "leased" /\ job'[j].status = "dead_letter"
  <1>1. j \in ReviewJob /\ j \in Job /\ job[j].status = "leased" /\ job[j].attempts >= job[j].max
    BY DEF Buried
  <1>2. AfterBurial(d)[j] = Unleased(job[j], "dead_letter") /\ DOMAIN AfterBurial(d) = Job
    BY <1>1 DEF AfterBurial
  <1>3. Unleased(job[j], "dead_letter").status = "dead_letter"
    BY <1>1, InvRows, UnleasedRow DEF JobStatus
  <1>4. job'[j] = AfterBurial(d)[j]
    <2>1. CASE ClaimNothing(w, d, LiveJobs)
      BY <2>1 DEF ClaimNothing
    <2>2. CASE ClaimJob(w, d, LiveJobs)
      <3>1. PICK k \in Oldest(Candidates(w, d, LiveJobs)) :
              job' = [AfterBurial(d) EXCEPT ![k] = Granted(w, k, d)]
        BY <2>2 DEF ClaimJob
      <3>2. k \in Job /\ job[k].attempts < job[k].max
        BY DEF Oldest, Candidates, Serves, Eligible
      <3>3. k # j
        <4>1. job[j].attempts \in Nat /\ job[j].max \in Nat
          BY <1>1 DEF QueueInv, QueueTypeOK, JobRow
        <4> QED BY <1>1, <3>2, <4>1
      <3> QED BY <1>1, <1>2, <3>1, <3>3
    <2> QED BY <2>1, <2>2
  <1> QED BY <1>1, <1>2, <1>3, <1>4

\* The reviews of buried jobs end with what they have; nobody holds them.
LEMMA ReapFacts ==
  ASSUME LifecycleInv, QuietJobs, NEW w \in ReviewWorker, NEW d \in Age,
         ClaimJob(w, d, LiveJobs) \/ ClaimNothing(w, d, LiveJobs),
         \A v \in ReviewWorker \ {w} : worker'[v] = worker[v],
         Reap(d), UNCHANGED <<jobOf, deadline>>
  PROVE  /\ TablesStep /\ OthersSpared(w)
         /\ \A r \in Run : RunEnds(r) \/ (run'[r] = run[r] /\ work'[r] = work[r])
  <1> DEFINE reaped == {r \in Run : /\ \E j \in JobsOf(r) : j \in Buried(d)
                                    /\ run[r].status \in Live /\ ~run[r].deleted}
  <1>1. run \in [Run -> RunRow] /\ work \in [Run -> Items]
    BY TableTypes
  <1>2. /\ work' = [r \in Run |-> IF r \in reaped THEN Exhausted(work[r]) ELSE work[r]]
        /\ run' = [r \in Run |-> IF r \in reaped
                                 THEN WithReport(run[r], ReapedStatus(work'[r])) ELSE run[r]]
    BY DEF Reap
  <1>3. \A r \in reaped : r \in Run /\ run[r].status \in Live /\ ~run[r].deleted
    OBVIOUS
  <1>4. ASSUME NEW r \in Run, NEW j \in JobsOf(r), j \in Buried(d), NEW v \in ReviewWorker \ {w},
               worker[v].phase = "running", RunOf(v) = r
        PROVE  ~(Grip(LeaseOf(v)) /\ Grip(LeaseOf(v))')
    <2> SUFFICES ASSUME Grip(LeaseOf(v)), Grip(LeaseOf(v))'
                 PROVE  FALSE
      OBVIOUS
    <2>1. j \in ReviewJob /\ job[j].status = "leased" /\ job'[j].status = "dead_letter"
      BY <1>4, BuriedIsDead DEF LifecycleInv
    <2>2. /\ LeaseOf(v).job = worker[v].job /\ worker[v].job \in ReviewJob
          /\ job[worker[v].job].status = "leased"
      BY <1>4, RunningLease DEF Grip
    <2>3. worker[v].job = j
      BY <1>4, <2>1, <2>2 DEF LifecycleInv, OneActiveJob, JobsOf, RunOf, Active
    <2>4. LeaseOf(v)' = LeaseOf(v)
      BY DEF LeaseOf
    <2>5. job'[LeaseOf(v).job].status = "leased"
      BY <2>4 DEF Grip
    <2> QED BY <2>1, <2>2, <2>3, <2>5
  <1>5. \A r \in Run \ reaped : run'[r] = run[r] /\ work'[r] = work[r]
    <2> HIDE DEF reaped
    <2> QED BY <1>2
  <1>6. \A r \in reaped : \E j \in JobsOf(r) : j \in Buried(d)
    OBVIOUS
  <1> HIDE DEF reaped
  <1>7. ASSUME NEW r \in reaped
        PROVE  /\ work'[r] = Exhausted(work[r]) /\ work'[r] \in Items
               /\ run'[r] \in RunRow /\ RunEnds(r)
    <2>1. /\ r \in Run /\ run[r] \in RunRow /\ work[r] \in Items
          /\ run[r].status \in Live /\ ~run[r].deleted
      BY <1>1, <1>3
    <2>2. work'[r] = Exhausted(work[r]) /\ run'[r] = WithReport(run[r], ReapedStatus(work'[r]))
      BY <1>2, <2>1
    <2>3. /\ work'[r] \in Items /\ Known(work'[r]) = Known(work[r])
          /\ Settled(work'[r]) = Settled(work[r])
      BY <2>1, <2>2, ExhaustedFacts
    <2>5. PICK status : status = ReapedStatus(work'[r])
      OBVIOUS
    <2>6. status \in Reported /\ (status = "completed" => AllSettled(work'[r]))
      BY <2>5, OutcomeFacts DEF ReapedStatus, Reported
    <2>7. status \in TERMINAL
      BY <2>6 DEF Reported, TERMINAL
    <2>8. /\ run'[r] \in RunRow /\ run'[r].status = status /\ run'[r].report = status
          /\ ~run'[r].deleted
      BY <2>1, <2>2, <2>5, <2>7, ReportedRow
    <2> QED BY <2>1, <2>2, <2>3, <2>6, <2>8 DEF RunEnds
  <1>8. run' \in [Run -> RunRow] /\ work' \in [Run -> Items]
    <2>1. \A r \in Run : run'[r] \in RunRow /\ work'[r] \in Items
      BY <1>1, <1>5, <1>7
    <2>2. /\ run' = [r \in Run |-> run'[r]]
          /\ work' = [r \in Run |-> work'[r]]
      BY <1>2
    <2> QED BY <2>1, <2>2
  <1>9. \A r \in Run : RunEnds(r) \/ (run'[r] = run[r] /\ work'[r] = work[r])
    BY <1>5, <1>7
  <1>10. TablesStep
    BY <1>8, <1>9, EndsTables
  <1>11. OthersSpared(w)
    <2> SUFFICES ASSUME NEW v \in ReviewWorker \ {w}, worker[v].phase = "running"
                 PROVE  Spared(v, handler[v])
      BY DEF OthersSpared
    <2>1. RunOf(v) \in Run
      BY RunningLease
    <2>2. CASE RunOf(v) \in reaped
      BY <1>4, <1>6, <2>1, <2>2 DEF Spared
    <2>3. CASE RunOf(v) \notin reaped
      BY <1>5, <2>1, <2>3 DEF Spared
    <2> QED BY <2>2, <2>3
  <1> QED BY <1>9, <1>10, <1>11

\* A claim that grants a job: its handler starts from nothing, with a lease
\* that no call carries.
LEMMA ClaimReviewKeepsInv ==
  ASSUME LifecycleInv, NEW w \in ReviewWorker, NEW d \in Age, ClaimReview(w, d)
  PROVE  LifecycleInv'
  <1>1. ClaimJob(w, d, LiveJobs) /\ Reap(d) /\ UNCHANGED <<jobOf, deadline, late>>
    BY DEF ClaimReview
  <1>2. /\ QuietJobs
        /\ worker[w].phase = "claiming"
        /\ \A v \in ReviewWorker \ {w} : worker'[v] = worker[v]
        /\ worker'[w].phase = "running"
        /\ worker'[w].job \in ReviewJob \cap LiveJobs
        /\ job[worker'[w].job].status \in Active
        /\ worker'[w].attempt = job[worker'[w].job].attempts + 1
    BY <1>1, ClaimJobFacts DEF LifecycleInv
  <1>3. QueueInv'
    BY <1>1, ClaimJobKeepsInv DEF LifecycleInv
  <1>4. TablesStep /\ OthersSpared(w)
    BY <1>1, <1>2, ReapFacts
  <1>5. PICK next : next = [NoHandler EXCEPT !.pc = "start"]
    OBVIOUS
  <1>6. next \in Handler /\ next.pc = "start" /\ next.agent = NoHandler.agent
    <2>1. NoHandler \in Handler /\ "start" \in PC
      BY NoHandlerType DEF PC
    <2> HIDE DEF NoHandler
    <2> QED BY <1>5, <2>1, SetHandler
  <1>7. /\ handler' \in [ReviewWorker -> Handler] /\ handler'[w] = next
        /\ \A v \in ReviewWorker \ {w} : handler'[v] = handler[v]
    <2>1. handler[w] = NoHandler /\ handler \in [ReviewWorker -> Handler]
      BY <1>2, HandlerType DEF LifecycleInv, HandlerOK
    <2>2. handler' = [handler EXCEPT ![w] = next]
      BY <1>5, <2>1 DEF ClaimReview
    <2> QED BY <1>6, <2>1, <2>2
  <1>8. NoAgents(next)
    BY <1>6, NoHandlerType DEF NoAgents
  <1>9. LifecycleTypeOK'
    BY <1>1, <1>3, <1>4, <1>7, TypesAfter DEF LifecycleInv, LifecycleTypeOK
  <1>10. Moves(w)
    <2>1. ASSUME NEW c \in late, c.lease.job = worker'[w].job
          PROVE  c.lease.attempt # worker'[w].attempt
      <3>1. c.lease.attempt <= job[c.lease.job].attempts /\ c.lease.attempt \in Nat
        BY DEF LifecycleInv, LateOK, CallOK, CallForm, Call, Lease
      <3>2. job[worker'[w].job].attempts \in Nat
        BY <1>2, ReviewRow DEF LifecycleInv
      <3> QED BY <1>2, <2>1, <3>1, <3>2
    <2> QED BY <1>1, <1>2, <1>7, <2>1 DEF Moves
  <1>11. HandlerOK(w)'
    <2>1. jobOf'[worker'[w].job].run # Nobody
      BY <1>1, <1>2 DEF LiveJobs
    <2>2. Fits(w, next)'
      BY <1>2, <1>6, <1>8, <2>1 DEF Fits, RunOf, NoAgents
    <2>3. Agrees(w, next)'
      BY <1>6, <1>8 DEF Agrees, EarlyPC, NoAgents
    <2> QED BY <1>2, <1>7, <2>2, <2>3 DEF HandlerOK, Fits, Agrees, NoAgents
  <1> QED BY <1>3, <1>4, <1>9, <1>10, <1>11, ProcessKeepsInv DEF TablesStep, OthersSpared

\* A claim that only buries.
LEMMA ClaimNoReviewKeepsInv ==
  ASSUME LifecycleInv, NEW w \in ReviewWorker, NEW d \in Age, ClaimNoReview(w, d)
  PROVE  LifecycleInv'
  <1>1. ClaimNothing(w, d, LiveJobs) /\ Reap(d) /\ UNCHANGED <<jobOf, deadline, handler, late>>
    BY DEF ClaimNoReview
  <1>2. QueueInv' /\ QuietJobs /\ w \in Worker
    BY <1>1, ClaimNothingKeepsInv, ClaimNothingIsQuiet DEF LifecycleInv
  <1>3. worker \in [Worker -> WorkerState] /\ worker' = [worker EXCEPT ![w] = AfterRunOnce(w)]
    BY <1>1 DEF LifecycleInv, QueueInv, QueueTypeOK, ClaimNothing
  <1>4. AfterRunOnce(w).phase # "running"
    BY DEF AfterRunOnce, NoWork
  <1>5. /\ \A v \in ReviewWorker \ {w} : worker'[v] = worker[v]
        /\ worker'[w].phase # "running" /\ worker[w].phase # "running"
    BY <1>1, <1>2, <1>3, <1>4 DEF ClaimNothing
  <1>6. TablesStep /\ OthersSpared(w)
    BY <1>1, <1>2, <1>5, ReapFacts
  <1>7. LifecycleTypeOK'
    BY <1>1, <1>2, <1>6, TypesAfter DEF LifecycleInv, LifecycleTypeOK
  <1>8. Moves(w) /\ HandlerOK(w)'
    BY <1>1, <1>5 DEF Moves, HandlerOK, LifecycleInv
  <1> QED BY <1>2, <1>6, <1>7, <1>8, ProcessKeepsInv DEF TablesStep, OthersSpared

\* Time passes.
LEMMA TimeKeepsInv ==
  ASSUME LifecycleInv, TimePasses
  PROVE  LifecycleInv'
  <1>1. QueueInv' /\ QuietJobs
    BY TickKeepsInv, TickIsQuiet DEF TimePasses, LifecycleInv
  <1>2. UNCHANGED <<run, work, jobOf, deadline, handler, late, worker>>
    BY DEF TimePasses, Tick, lifecycleVars
  <1>3. /\ Onward /\ NoNewJobs /\ \A r \in Run : RunOK(r)'
        /\ \A w \in ReviewWorker : \A h : Spared(w, h)
    BY <1>1, <1>2, TablesKept
  <1>4. LifecycleTypeOK'
    BY <1>1, <1>2 DEF LifecycleInv, LifecycleTypeOK, QueueInv
  <1>5. (\A j \in ReviewJob : JobOK(j)') /\ OneActiveJob'
    BY <1>3, JobsStay
  <1> QED BY <1>1, <1>2, <1>3, <1>4, <1>5, CallerKeepsInv

\* A deadline passes.
LEMMA DeadlineKeepsInv ==
  ASSUME LifecycleInv, NEW r \in Run, DeadlinePasses(r)
  PROVE  LifecycleInv'
  <1>1. UNCHANGED <<job, worker, stray, run, work, jobOf, handler, late>>
    BY DEF DeadlinePasses, queueVars
  <1>2. QueueInv'
    BY <1>1 DEF LifecycleInv, QueueInv, QueueTypeOK, RowsConsistent,
           AttemptsWereGranted, PendingVerdicts, AttemptsWithinBudget, AttemptIsAToken
  <1>3. QuietJobs
    BY <1>1, KeptJobs DEF LifecycleInv
  <1>4. /\ Onward /\ NoNewJobs /\ \A s \in Run : RunOK(s)'
        /\ \A w \in ReviewWorker : \A h : Spared(w, h)
    BY <1>1, <1>3, TablesKept
  <1>5. deadline' \in [Run -> {"open", "cutoff", "hard"}]
    BY DEF DeadlinePasses, LifecycleInv, LifecycleTypeOK
  <1>6. LifecycleTypeOK'
    BY <1>1, <1>2, <1>5 DEF LifecycleInv, LifecycleTypeOK, QueueInv
  <1>7. (\A j \in ReviewJob : JobOK(j)') /\ OneActiveJob'
    BY <1>4, JobsStay
  <1> QED BY <1>1, <1>2, <1>4, <1>6, <1>7, CallerKeepsInv

-----------------------------------------------------------------------------
(* Callers of the service *)

\* All parts together for a caller.
LEMMA RequestKeepsInv ==
  ASSUME LifecycleInv, QueueInv', run' \in [Run -> RunRow], work' \in [Run -> Items],
         jobOf' \in [ReviewJob -> JobLink], UNCHANGED deadline, Untouched,
         \A r \in Run : RunOK(r)', Onward,
         (\A j \in ReviewJob : JobOK(j)') /\ OneActiveJob',
         \A w \in ReviewWorker : worker[w].phase = "running" => Spared(w, handler[w])
  PROVE  LifecycleInv'
  <1>1. LifecycleTypeOK'
    BY DEF LifecycleInv, LifecycleTypeOK, Untouched, QueueInv, RunRow, JobLink, Items
  <1> QED BY <1>1, CallerKeepsInv DEF Untouched

\* A review without a job: nobody works on it.
LEMMA IdleReview ==
  ASSUME LifecycleInv, NEW r \in Run, ~HasActiveJob(r)
  PROVE  /\ \A j \in ReviewJob : jobOf[j].run = r => job[j].status \notin Active
         /\ (\A s \in Run \ {r} : work'[s] = work[s]) =>
               \A w \in ReviewWorker : worker[w].phase = "running" => Spared(w, handler[w])
  <1>1. \A j \in ReviewJob : jobOf[j].run = r => job[j].status \notin Active
    BY DEF HasActiveJob, JobsOf
  <1>2. ASSUME \A s \in Run \ {r} : work'[s] = work[s],
               NEW w \in ReviewWorker, worker[w].phase = "running"
        PROVE  Spared(w, handler[w])
    <2>1. /\ worker[w].job \in ReviewJob /\ RunOf(w) \in Run
          /\ LeaseOf(w).job = worker[w].job
      BY <1>2, RunningLease
    <2>2. CASE RunOf(w) = r
      <3>1. ~Grip(LeaseOf(w))
        BY <1>1, <2>1, <2>2 DEF Grip, RunOf, Active
      <3> QED BY <3>1 DEF Spared
    <2>3. CASE RunOf(w) # r
      BY <1>2, <2>1, <2>3 DEF Spared
    <2> QED BY <2>2, <2>3
  <1> QED BY <1>1, <1>2

\* What a caller does to the rows of such a review is in order.
LEMMA IdleOnward ==
  ASSUME LifecycleInv, NEW r \in Run, ~HasActiveJob(r),
         \A s \in Run \ {r} : run'[s] = run[s] /\ work'[s] = work[s],
         run'[r].status # "absent",
         run[r].report # Nobody => run'[r].report # Nobody,
         AllSettled(work[r]) => AllSettled(work'[r]),
         \A k \in ReviewJob : job[k].status # "absent" =>
             job'[k] = job[k] /\ jobOf'[k] = jobOf[k]
  PROVE  Onward
  <1>1. \A j \in ReviewJob : jobOf[j].run = r => job[j].status \notin Active
    BY IdleReview
  <1>2. ASSUME NEW j \in ReviewJob, job[j].status # "absent"
        PROVE  LET s == jobOf[j].run
               IN  /\ QuietRow(j)
                   /\ jobOf'[j] = jobOf[j]
                   /\ job'[j].status \in Active => run'[s].status # "cancelled" /\ ~run'[s].deleted
                   /\ job[j].status = "leased" /\ run'[s].status = "queued"
                         => run[s].status = "queued"
    <2> DEFINE s == jobOf[j].run
    <2>1. s \in Run /\ job'[j] = job[j] /\ jobOf'[j] = jobOf[j]
      BY <1>2, JobRun
    <2>2. QuietRow(j)
      BY <2>1, KeptIsQuiet DEF LifecycleInv
    <2>3. job[j].status \in Active => run[s].status # "cancelled" /\ ~run[s].deleted
      BY DEF LifecycleInv, JobOK, LiveJobs
    <2>4. job[j].status \in Active => run'[s] = run[s]
      BY <1>1, <2>1
    <2> QED BY <2>1, <2>2, <2>3, <2>4 DEF Active
  <1> QED BY <1>2 DEF Onward

\* The rows after a request to stop the reviews rs.
LEMMA StoppedRows ==
  ASSUME LifecycleInv, NEW rs \in SUBSET Run, \A r \in rs : run[r].status \in Live
  PROVE  /\ Stopped(rs) \in [Run -> RunRow]
         /\ \A r \in Run \ rs : Stopped(rs)[r] = run[r]
         /\ \A r \in rs : /\ Stopped(rs)[r].status = "cancelled"
                          /\ Stopped(rs)[r].report = run[r].report
                          /\ Stopped(rs)[r].deleted = run[r].deleted
                          /\ ~run[r].deleted
         /\ DOMAIN JobsStopped(rs) = Job
         /\ JobsStopped(rs) = [j \in Job |-> JobsStopped(rs)[j]]
         /\ \A j \in Job : /\ GoodRow(JobsStopped(rs)[j])
                           /\ JobsStopped(rs)[j].attempts = job[j].attempts
                           /\ \/ JobsStopped(rs)[j] = job[j]
                              \/ /\ JobsStopped(rs)[j].status = "cancelled"
                                 /\ job[j].status \in Active
         /\ \A j \in ReviewJob :
               JobsStopped(rs)[j].status \in Active => jobOf[j].run \notin rs
  <1>1. \A r \in Run : run[r] \in RunRow
    BY TableTypes
  <1>2. ASSUME NEW r \in rs
        PROVE  LET row == [run[r] EXCEPT !.status = "cancelled"]
               IN  /\ row \in RunRow /\ row.status = "cancelled"
                   /\ row.report = run[r].report /\ row.deleted = run[r].deleted
                   /\ ~run[r].deleted
    <2>1. run[r] \in RunRow /\ "cancelled" \in Live \cup TERMINAL \cup {"absent"}
      BY <1>1 DEF TERMINAL
    <2>2. ~run[r].deleted
      BY DEF LifecycleInv, RunOK, Live, TERMINAL
    <2> QED BY <2>1, <2>2, SetRunColumn
  <1>3. \A r \in Run : Stopped(rs)[r] = IF r \in rs
                                        THEN [run[r] EXCEPT !.status = "cancelled"] ELSE run[r]
    BY DEF Stopped
  <1>4. Stopped(rs) = [r \in Run |-> Stopped(rs)[r]]
    BY DEF Stopped
  <1>5. Stopped(rs) \in [Run -> RunRow]
    <2>1. \A r \in Run : Stopped(rs)[r] \in RunRow
      BY <1>1, <1>2, <1>3
    <2> QED BY <1>4, <2>1
  <1>6. /\ DOMAIN JobsStopped(rs) = Job
        /\ JobsStopped(rs) = [j \in Job |-> JobsStopped(rs)[j]]
        /\ \A j \in Job : JobsStopped(rs)[j] =
              IF job[j].status \in Active /\ jobOf[j].run \in rs
              THEN Unleased(job[j], "cancelled") ELSE job[j]
    BY DEF JobsStopped
  <1>7. \A j \in Job : /\ GoodRow(job[j]) /\ GoodRow(Unleased(job[j], "cancelled"))
                       /\ Unleased(job[j], "cancelled").attempts = job[j].attempts
                       /\ Unleased(job[j], "cancelled").status = "cancelled"
    BY InvRows, UnleasedRow DEF JobStatus, LifecycleInv
  <1>8. \A j \in ReviewJob :
           JobsStopped(rs)[j].status \in Active => jobOf[j].run \notin rs
    <2>1. \A j \in ReviewJob : j \in Job /\ "cancelled" \notin Active
      BY DEF Active
    <2> QED BY <1>6, <1>7, <2>1
  <1>9. \A j \in Job : /\ GoodRow(JobsStopped(rs)[j])
                       /\ JobsStopped(rs)[j].attempts = job[j].attempts
                       /\ \/ JobsStopped(rs)[j] = job[j]
                          \/ /\ JobsStopped(rs)[j].status = "cancelled"
                             /\ job[j].status \in Active
    BY <1>6, <1>7
  <1>10. \A r \in rs : /\ Stopped(rs)[r].status = "cancelled"
                       /\ Stopped(rs)[r].report = run[r].report
                       /\ Stopped(rs)[r].deleted = run[r].deleted
                       /\ ~run[r].deleted
    BY <1>2, <1>3
  <1>11. \A r \in Run \ rs : Stopped(rs)[r] = run[r]
    BY <1>3
  <1>12. /\ DOMAIN JobsStopped(rs) = Job
         /\ JobsStopped(rs) = [j \in Job |-> JobsStopped(rs)[j]]
    BY <1>6
  <1> QED BY <1>5, <1>8, <1>9, <1>10, <1>11, <1>12

\* Jobs that are stopped are quiet.
LEMMA StoppedIsQuiet ==
  ASSUME LifecycleInv, NEW rs \in SUBSET Run, \A r \in rs : run[r].status \in Live,
         NEW j \in ReviewJob, job'[j] = JobsStopped(rs)[j]
  PROVE  QuietRow(j)
  <1>1. QueueInv /\ j \in Job
    BY DEF LifecycleInv
  <1>2. CASE job'[j] = job[j]
    BY <1>1, <1>2, KeptIsQuiet
  <1>3. CASE job'[j].status = "cancelled" /\ job[j].status \in Active
    <2>1. job'[j].attempts = job[j].attempts
      BY <1>1, StoppedRows
    <2> QED BY <1>1, <1>3, <2>1, LostLeaseIsQuiet
  <1> QED BY <1>1, <1>2, <1>3, StoppedRows

\* A request to stop some reviews that are not over.
LEMMA StoppingKeepsInv ==
  ASSUME LifecycleInv, NEW rs \in SUBSET Run, \A r \in rs : run[r].status \in Live,
         run' = Stopped(rs), job' = JobsStopped(rs),
         UNCHANGED <<work, jobOf, deadline>>, Untouched
  PROVE  LifecycleInv'
  <1>1. /\ run' \in [Run -> RunRow]
        /\ \A r \in Run \ rs : run'[r] = run[r]
        /\ \A r \in rs : /\ run'[r].status = "cancelled" /\ run'[r].report = run[r].report
                         /\ ~run'[r].deleted
        /\ job' = [j \in Job |-> job'[j]]
        /\ \A j \in Job : /\ GoodRow(job'[j]) /\ job'[j].attempts = job[j].attempts
                          /\ \/ job'[j] = job[j]
                             \/ job'[j].status = "cancelled" /\ job[j].status \in Active
        /\ \A j \in ReviewJob : job'[j].status \in Active => jobOf[j].run \notin rs
    <2>1. PICK rows, jobs : rows = Stopped(rs) /\ jobs = JobsStopped(rs)
      OBVIOUS
    <2>2. /\ rows \in [Run -> RunRow]
          /\ \A r \in Run \ rs : rows[r] = run[r]
          /\ \A r \in rs : /\ rows[r].status = "cancelled" /\ rows[r].report = run[r].report
                           /\ ~rows[r].deleted
      BY <2>1, StoppedRows
    <2>3. /\ jobs = [j \in Job |-> jobs[j]]
          /\ \A j \in ReviewJob : jobs[j].status \in Active => jobOf[j].run \notin rs
      <3>1. jobs = [j \in Job |-> jobs[j]]
        BY <2>1 DEF JobsStopped
      <3> QED BY <2>1, <3>1, StoppedRows
    <2>4. \A j \in Job : /\ GoodRow(jobs[j]) /\ jobs[j].attempts = job[j].attempts
                         /\ \/ jobs[j] = job[j]
                            \/ jobs[j].status = "cancelled" /\ job[j].status \in Active
      BY <2>1, StoppedRows
    <2>5. run' = rows /\ job' = jobs
      BY <2>1
    <2> QED BY <2>2, <2>3, <2>4, <2>5
  <1>2. QueueInv'
    <2>1. RowsStep
      <3>1. \A j \in Job : job[j].attempts <= job'[j].attempts
        BY <1>1 DEF LifecycleInv, QueueInv, QueueTypeOK, JobRow
      <3>2. job' \in [Job -> JobRow]
        BY <1>1 DEF GoodRow
      <3> QED BY <1>1, <3>1, <3>2 DEF RowsStep
    <2>2. WorkersStep /\ StraysStep
      BY WorkersKept DEF Untouched, StraysStep, LifecycleInv
    <2> QED BY <2>1, <2>2, StepKeepsInv DEF LifecycleInv
  <1>3. \A j \in ReviewJob : QuietRow(j)
    BY StoppedIsQuiet
  <1>4. \A r \in Run : RunOK(r)'
    <2>1. ASSUME NEW r \in rs
          PROVE  RunOK(r)'
      <3>1. RunOK(r)
        BY DEF LifecycleInv
      <3> QED BY <1>1, <3>1 DEF RunOK, Reported
    <2>2. ASSUME NEW r \in Run \ rs
          PROVE  RunOK(r)'
      BY <1>1 DEF LifecycleInv, RunOK
    <2> QED BY <2>1, <2>2
  <1>5. Onward
    <2>1. \A r \in Run : run[r].status # "absent" =>
             /\ run'[r].status # "absent"
             /\ run[r].report # Nobody => run'[r].report # Nobody
             /\ AllSettled(work[r]) => AllSettled(work'[r])
      BY <1>1
    <2>2. ASSUME NEW j \in ReviewJob, job[j].status # "absent"
          PROVE  LET s == jobOf[j].run
                 IN  /\ QuietRow(j)
                     /\ jobOf'[j] = jobOf[j]
                     /\ job'[j].status \in Active => run'[s].status # "cancelled" /\ ~run'[s].deleted
                     /\ job[j].status = "leased" /\ run'[s].status = "queued"
                           => run[s].status = "queued"
      <3> DEFINE s == jobOf[j].run
      <3>1. s \in Run
        BY <2>2, JobRun
      <3>2. job'[j].status \in Active => job[j].status \in Active /\ s \notin rs
        BY <1>1, <1>3 DEF QuietRow
      <3>3. job[j].status \in Active => run[s].status # "cancelled" /\ ~run[s].deleted
        BY DEF LifecycleInv, JobOK, LiveJobs
      <3>4. run'[s].status = "queued" => run'[s] = run[s]
        BY <1>1, <3>1
      <3> QED BY <1>1, <1>3, <3>1, <3>2, <3>3, <3>4
    <2> QED BY <2>1, <2>2 DEF Onward
  <1>6. NoNewJobs
    BY <1>3 DEF NoNewJobs, QuietRow
  <1>7. \A w \in ReviewWorker : worker[w].phase = "running" => Spared(w, handler[w])
    BY DEF Spared
  <1>8. (\A j \in ReviewJob : JobOK(j)') /\ OneActiveJob'
    BY <1>5, <1>6, JobsStay
  <1>9. jobOf' \in [ReviewJob -> JobLink] /\ work' \in [Run -> Items]
    BY TableTypes DEF LifecycleInv, LifecycleTypeOK, JobLink
  <1> QED BY <1>1, <1>2, <1>4, <1>5, <1>7, <1>8, <1>9, RequestKeepsInv

\* A user cancels a review.
LEMMA CancelKeepsInv ==
  ASSUME LifecycleInv, NEW r \in Run, Cancel(r)
  PROVE  LifecycleInv'
  BY StoppingKeepsInv DEF Cancel

\* A newer head makes reviews obsolete.
LEMMA SupersedeKeepsInv ==
  ASSUME LifecycleInv, NEW head, NEW seen, Supersede(head, seen)
  PROVE  LifecycleInv'
  <1> DEFINE old == Obsolete(head) \cap seen
  <1>1. old \in SUBSET Run /\ \A r \in old : run[r].status \in Live
    BY DEF Obsolete
  <1>2. /\ run' = Stopped(old) /\ job' = JobsStopped(old)
        /\ UNCHANGED <<work, jobOf, deadline>> /\ Untouched
    BY DEF Supersede
  <1> HIDE DEF old
  <1> QED BY <1>1, <1>2, StoppingKeepsInv

\* A review is deleted: it is over and nobody works on it.
LEMMA DeleteKeepsInv ==
  ASSUME LifecycleInv, NEW r \in Run, Delete(r)
  PROVE  LifecycleInv'
  <1> DEFINE row == [run[r] EXCEPT !.deleted = TRUE]
             none == [i \in Item |-> NoItem]
  <1>1. /\ run[r].status \in TERMINAL /\ ~HasActiveJob(r)
        /\ run' = [run EXCEPT ![r] = row] /\ work' = [work EXCEPT ![r] = none]
        /\ job' = job /\ jobOf' = jobOf /\ UNCHANGED deadline /\ Untouched
    BY DEF Delete
  <1>2. run \in [Run -> RunRow] /\ work \in [Run -> Items] /\ run[r] \in RunRow
    BY TableTypes
  <1>3. /\ row \in RunRow /\ row.status = run[r].status /\ row.report = run[r].report
        /\ row.deleted = TRUE
    BY <1>2, SetRunColumn
  <1>4. none \in Items /\ AllSettled(none)
    <2>1. none \in Items /\ \A i \in Item : none[i].status = "absent"
      <3> HIDE DEF NoItem
      <3> QED BY NewItemType DEF Items
    <2> QED BY <2>1 DEF AllSettled
  <1> HIDE DEF row, none
  <1>5. /\ run' \in [Run -> RunRow] /\ work' \in [Run -> Items]
        /\ run'[r] = row /\ work'[r] = none
        /\ \A s \in Run \ {r} : run'[s] = run[s] /\ work'[s] = work[s]
    BY <1>1, <1>2, <1>3, <1>4
  <1>6. QueueInv' /\ jobOf' \in [ReviewJob -> JobLink]
    BY <1>1 DEF LifecycleInv, LifecycleTypeOK, JobLink, Untouched, QueueInv, QueueTypeOK,
           RowsConsistent, AttemptsWereGranted, PendingVerdicts, AttemptsWithinBudget,
           AttemptIsAToken
  <1>7. run'[r].status # "absent"
    BY <1>1, <1>3, <1>5 DEF TERMINAL
  <1>8. Onward
    BY <1>1, <1>3, <1>4, <1>5, <1>7, IdleOnward
  <1>9. NoNewJobs
    BY <1>1 DEF NoNewJobs
  <1>10. \A s \in Run : RunOK(s)'
    <2>1. \A s \in Run : s = r => RunOK(s)'
      BY <1>1, <1>3, <1>4, <1>5, <1>7 DEF RunOK, LifecycleInv
    <2>2. \A s \in Run \ {r} : RunOK(s)'
      BY <1>5 DEF RunOK, LifecycleInv
    <2> QED BY <2>1, <2>2
  <1>11. (\A j \in ReviewJob : JobOK(j)') /\ OneActiveJob'
    BY <1>8, <1>9, JobsStay
  <1>12. \A w \in ReviewWorker : worker[w].phase = "running" => Spared(w, handler[w])
    BY <1>1, <1>5, IdleReview
  <1> QED BY <1>1, <1>5, <1>6, <1>8, <1>10, <1>11, <1>12, RequestKeepsInv

\* A review that has a report is queued again with a job of its own.
LEMMA RevivalKeepsInv ==
  ASSUME LifecycleInv, NEW r \in Run, NEW kind \in {"review", "overview"},
         run[r].status \in Reported, Revive(r, kind),
         \/ work' = work
         \/ work' = [work EXCEPT ![r] = Requeued(@, WorkStatus \ {"absent", "completed"})]
  PROVE  LifecycleInv'
  <1> DEFINE row == [run[r] EXCEPT !.status = "queued"]
             new == IF work' = work THEN work[r]
                    ELSE Requeued(work[r], WorkStatus \ {"absent", "completed"})
             link == [run |-> r, kind |-> kind]
  <1>1. /\ ~run[r].deleted /\ ~HasActiveJob(r) /\ run' = [run EXCEPT ![r] = row]
        /\ UNCHANGED deadline /\ Untouched
    BY DEF Revive
  <1>2. PICK j \in ReviewJob : /\ job[j].status = "absent"
                               /\ job' = Enqueued(job, j)
                               /\ jobOf' = [jobOf EXCEPT ![j] = link]
    BY DEF Revive
  <1>3. /\ run \in [Run -> RunRow] /\ work \in [Run -> Items] /\ run[r] \in RunRow
        /\ jobOf \in [ReviewJob -> JobLink]
    BY TableTypes DEF LifecycleInv, LifecycleTypeOK, JobLink
  <1>4. /\ row \in RunRow /\ row.status = "queued" /\ row.report = run[r].report
        /\ row.deleted = run[r].deleted
    <2>1. "queued" \in Live \cup TERMINAL \cup {"absent"} /\ run[r] \in RunRow
      BY <1>3 DEF Live
    <2> QED BY ONLY <2>1, SetRunColumn
  <1>5. /\ new \in Items
        /\ AllSettled(work[r]) => AllSettled(new)
        /\ work' = [work EXCEPT ![r] = new]
    <2>1. CASE work' = work
      BY <1>3, <2>1
    <2>2. CASE work' # work
      <3>1. new = Requeued(work[r], WorkStatus \ {"absent", "completed"})
        BY <2>2
      <3>2. new \in Items /\ Known(new) = Known(work[r]) /\ Settled(new) = Settled(work[r])
        <4> HIDE DEF new
        <4> QED BY <1>3, <3>1, RequeuedFacts
      <3>3. work' = [work EXCEPT ![r] = new]
        BY <2>2
      <3> HIDE DEF new
      <3> QED BY <3>2, <3>3, SettledIsKnown
    <2> QED BY <2>1, <2>2
  <1>6. link \in JobLink /\ link.run = r /\ link.kind = kind
    BY DEF JobLink
  <1>7. job' = [job EXCEPT ![j] = NewRow(MaxAttempts)] /\ NewRow(MaxAttempts).status = "queued"
    BY <1>2, NewRowIsGood DEF Enqueued
  <1>8. run[r].report \in Reported
    BY DEF LifecycleInv, RunOK
  <1> HIDE DEF row, new, link
  <1>9. /\ run' \in [Run -> RunRow] /\ work' \in [Run -> Items]
        /\ run'[r] = row /\ work'[r] = new
        /\ \A s \in Run \ {r} : run'[s] = run[s] /\ work'[s] = work[s]
    BY <1>1, <1>3, <1>4, <1>5
  <1>10. /\ jobOf' \in [ReviewJob -> JobLink] /\ jobOf'[j] = link
         /\ \A k \in ReviewJob \ {j} : jobOf'[k] = jobOf[k]
    BY <1>2, <1>3, <1>6
  <1>11. QueueInv'
    <2>1. Enqueue(j)
      BY <1>1, <1>2, <1>7 DEF Enqueue, Untouched
    <2> QED BY <2>1, EnqueueKeepsInv DEF LifecycleInv
  <1>12. job'[j].status = "queued" /\ \A k \in ReviewJob \ {j} : job'[k] = job[k]
    BY <1>7 DEF LifecycleInv, QueueInv, QueueTypeOK
  <1>13. Onward
    BY <1>1, <1>2, <1>4, <1>5, <1>9, <1>10, <1>12, IdleOnward
  <1>14. OneNewJob(j, r)
    <2>1. \A k \in ReviewJob \ {j} : jobOf[k].run = r => job'[k].status \notin Active
      BY <1>1, <1>12, IdleReview
    <2>2. run'[r].report # Nobody
      BY <1>4, <1>8, <1>9, NobodyIsNone DEF Reported, TERMINAL
    <2> QED BY <1>1, <1>2, <1>4, <1>6, <1>9, <1>10, <1>12, <2>1, <2>2 DEF OneNewJob
  <1>15. \A s \in Run : RunOK(s)'
    <2>1. \A s \in Run : s = r => RunOK(s)'
      <3>1. RunOK(r)
        BY DEF LifecycleInv
      <3> QED BY <1>1, <1>4, <1>5, <1>9, <3>1 DEF RunOK, Reported
    <2>2. \A s \in Run \ {r} : RunOK(s)'
      BY <1>9 DEF RunOK, LifecycleInv
    <2> QED BY <2>1, <2>2
  <1>16. (\A k \in ReviewJob : JobOK(k)') /\ OneActiveJob'
    BY <1>13, <1>14, JobsGrow
  <1>17. \A w \in ReviewWorker : worker[w].phase = "running" => Spared(w, handler[w])
    BY <1>1, <1>9, IdleReview
  <1> QED BY <1>1, <1>9, <1>10, <1>11, <1>13, <1>15, <1>16, <1>17, RequestKeepsInv

\* A partial or failed review is taken up again.
LEMMA RetryKeepsInv ==
  ASSUME LifecycleInv, NEW r \in Run, Retry(r)
  PROVE  LifecycleInv'
  BY RevivalKeepsInv DEF Retry, Reported

\* Only the overview of a review is wanted again.
LEMMA RetryOverviewKeepsInv ==
  ASSUME LifecycleInv, NEW r \in Run, RetryOverview(r)
  PROVE  LifecycleInv'
  BY RevivalKeepsInv DEF RetryOverview, Reported

\* A review is created, and those it makes obsolete are stopped.
LEMMA CreateKeepsInv ==
  ASSUME LifecycleInv, NEW r \in Run, NEW head \in Head, NEW seen \in SUBSET Run,
         Create(r, head, seen)
  PROVE  LifecycleInv'
  <1> DEFINE old == Obsolete(head) \cap seen
             row == [status |-> "queued", report |-> Nobody, head |-> head,
                     deleted |-> FALSE]
             new == [i \in Item |-> IF i \in Unit THEN NewItem ELSE NoItem]
             link == [run |-> r, kind |-> "review"]
             rows == Stopped(old)
             jobs == JobsStopped(old)
  <1>1. /\ run[r].status = "absent" /\ run' = [rows EXCEPT ![r] = row]
        /\ work' = [work EXCEPT ![r] = new] /\ UNCHANGED deadline /\ Untouched
    BY DEF Create
  <1>2. PICK j \in ReviewJob : /\ job[j].status = "absent"
                               /\ job' = Enqueued(jobs, j)
                               /\ jobOf' = [jobOf EXCEPT ![j] = link]
    BY DEF Create
  <1>3. /\ run \in [Run -> RunRow] /\ work \in [Run -> Items]
        /\ jobOf \in [ReviewJob -> JobLink]
    BY TableTypes DEF LifecycleInv, LifecycleTypeOK, JobLink
  <1>4. old \in SUBSET Run /\ (\A s \in old : run[s].status \in Live) /\ r \notin old
    BY <1>1 DEF Obsolete, Live
  <1>5. /\ row \in RunRow /\ row.status = "queued" /\ row.report = Nobody
        /\ row.deleted = FALSE
    BY DEF RunRow, Live
  <1>6. new \in Items
    <2> HIDE DEF NewItem, NoItem
    <2> QED BY NewItemType DEF Items
  <1>7. link \in JobLink /\ link.run = r /\ link.kind = "review"
    BY DEF JobLink
  <1> HIDE DEF old, row, new, link
  <1>8. /\ rows \in [Run -> RunRow]
        /\ \A s \in Run \ old : rows[s] = run[s]
        /\ \A s \in old : /\ rows[s].status = "cancelled" /\ rows[s].report = run[s].report
                          /\ ~rows[s].deleted
        /\ DOMAIN jobs = Job
        /\ \A k \in Job : /\ GoodRow(jobs[k]) /\ jobs[k].attempts = job[k].attempts
                          /\ \/ jobs[k] = job[k]
                             \/ jobs[k].status = "cancelled" /\ job[k].status \in Active
        /\ \A k \in ReviewJob : jobs[k].status \in Active => jobOf[k].run \notin old
    <2>1. /\ rows \in [Run -> RunRow]
          /\ \A s \in Run \ old : rows[s] = run[s]
          /\ \A s \in old : /\ rows[s].status = "cancelled" /\ rows[s].report = run[s].report
                            /\ ~rows[s].deleted
      BY <1>4, StoppedRows
    <2>2. /\ DOMAIN jobs = Job
          /\ \A k \in ReviewJob : jobs[k].status \in Active => jobOf[k].run \notin old
      BY <1>4, StoppedRows
    <2>3. \A k \in Job : /\ GoodRow(jobs[k]) /\ jobs[k].attempts = job[k].attempts
                         /\ \/ jobs[k] = job[k]
                            \/ jobs[k].status = "cancelled" /\ job[k].status \in Active
      BY <1>4, StoppedRows
    <2> HIDE DEF rows, jobs
    <2> QED BY <2>1, <2>2, <2>3
  <1> HIDE DEF rows
  <1>9. /\ run' \in [Run -> RunRow] /\ run'[r] = row
        /\ \A s \in Run \ {r} : run'[s] = rows[s]
    BY <1>1, <1>5, <1>8
  <1>10. /\ work' \in [Run -> Items] /\ work'[r] = new
         /\ \A s \in Run \ {r} : work'[s] = work[s]
    BY <1>1, <1>3, <1>6
  <1>11. /\ jobOf' \in [ReviewJob -> JobLink] /\ jobOf'[j] = link
         /\ \A k \in ReviewJob \ {j} : jobOf'[k] = jobOf[k]
    BY <1>2, <1>3, <1>7
  <1>12. PICK added : added = NewRow(MaxAttempts)
    OBVIOUS
  <1>13. GoodRow(added) /\ added.status = "queued" /\ added.attempts = 0
    BY <1>12, NewRowIsGood
  <1>14. /\ job' = [jobs EXCEPT ![j] = added] /\ j \in Job
         /\ DOMAIN job' = Job /\ job'[j] = added
         /\ \A k \in Job \ {j} : job'[k] = jobs[k]
         /\ job' = [k \in Job |-> job'[k]]
    <2>1. job' = [jobs EXCEPT ![j] = added] /\ j \in Job
      BY <1>2, <1>12 DEF Enqueued
    <2>2. jobs = [k \in Job |-> jobs[k]]
      BY DEF JobsStopped
    <2> HIDE DEF jobs
    <2> QED BY <1>8, <2>1, <2>2
  <1>15. \A k \in ReviewJob \ {j} : QuietRow(k)
    BY <1>4, <1>14, StoppedIsQuiet
  <1> HIDE DEF jobs
  <1>16. QueueInv'
    <2>1. RowsStep
      <3>1. \A k \in Job : GoodRow(job'[k]) /\ job[k].attempts <= job'[k].attempts
        <4>1. job[j].attempts = 0
          BY <1>2, InvRows DEF GoodRow, LifecycleInv
        <4>2. \A k \in Job : job[k].attempts \in Nat
          BY DEF LifecycleInv, QueueInv, QueueTypeOK, JobRow
        <4> QED BY <1>8, <1>13, <1>14, <4>1, <4>2
      <3>2. job' \in [Job -> JobRow]
        BY <1>14, <3>1 DEF GoodRow
      <3> QED BY <3>1, <3>2 DEF RowsStep
    <2>2. WorkersStep /\ StraysStep
      BY <1>1, WorkersKept DEF Untouched, StraysStep, LifecycleInv
    <2> QED BY <2>1, <2>2, StepKeepsInv DEF LifecycleInv
  <1>17. \A k \in ReviewJob : jobOf[k].run # r
    BY <1>1, NobodyIsNone DEF LifecycleInv, JobOK
  <1>18. Onward
    <2>1. \A s \in Run : run[s].status # "absent" =>
             /\ run'[s].status # "absent"
             /\ run[s].report # Nobody => run'[s].report # Nobody
             /\ AllSettled(work[s]) => AllSettled(work'[s])
      BY <1>1, <1>8, <1>9, <1>10
    <2>2. ASSUME NEW k \in ReviewJob, job[k].status # "absent"
          PROVE  LET s == jobOf[k].run
                 IN  /\ QuietRow(k)
                     /\ jobOf'[k] = jobOf[k]
                     /\ job'[k].status \in Active => run'[s].status # "cancelled" /\ ~run'[s].deleted
                     /\ job[k].status = "leased" /\ run'[s].status = "queued"
                           => run[s].status = "queued"
      <3> DEFINE s == jobOf[k].run
      <3>1. s \in Run \ {r} /\ k \in ReviewJob \ {j} /\ k \in Job
        BY <1>2, <1>17, <2>2, JobRun
      <3>2. QuietRow(k) /\ jobOf'[k] = jobOf[k] /\ job'[k] = jobs[k]
        BY <1>11, <1>14, <1>15, <3>1
      <3>3. job'[k].status \in Active => job[k].status \in Active /\ s \notin old
        BY <1>8, <3>1, <3>2 DEF QuietRow
      <3>4. job[k].status \in Active => run[s].status # "cancelled" /\ ~run[s].deleted
        BY DEF LifecycleInv, JobOK, LiveJobs
      <3>5. run'[s].status = "queued" \/ s \notin old => run'[s] = run[s]
        BY <1>8, <1>9, <3>1
      <3> QED BY <3>1, <3>2, <3>3, <3>4, <3>5
    <2> QED BY <2>1, <2>2 DEF Onward
  <1>19. OneNewJob(j, r)
    <2>1. \A k \in ReviewJob \ {j} : job[k].status = "absent" => job'[k].status = "absent"
      BY <1>15 DEF QuietRow
    <2> QED BY <1>2, <1>5, <1>7, <1>9, <1>11, <1>13, <1>14, <1>17, <2>1 DEF OneNewJob
  <1>20. \A s \in Run : RunOK(s)'
    <2>1. \A s \in Run : s = r => RunOK(s)'
      BY <1>5, <1>9, NobodyIsNone DEF RunOK, Reported, TERMINAL
    <2>2. ASSUME NEW s \in Run \ {r}
          PROVE  RunOK(s)'
      <3>1. RunOK(s)
        BY DEF LifecycleInv
      <3>2. CASE s \in old
        BY <1>8, <1>9, <1>10, <3>1, <3>2 DEF RunOK, Reported
      <3>3. CASE s \notin old
        BY <1>8, <1>9, <1>10, <3>1, <3>3 DEF RunOK
      <3> QED BY <3>2, <3>3
    <2> QED BY <2>1, <2>2
  <1>21. (\A k \in ReviewJob : JobOK(k)') /\ OneActiveJob'
    BY <1>18, <1>19, JobsGrow
  <1>22. ASSUME NEW w \in ReviewWorker, worker[w].phase = "running"
         PROVE  Spared(w, handler[w])
    <2>1. RunOf(w) \in Run \ {r}
      BY <1>1, <1>22, RunningLease
    <2> QED BY <1>10, <2>1 DEF Spared
  <1> QED BY <1>1, <1>9, <1>10, <1>11, <1>16, <1>18, <1>20, <1>21, <1>22, RequestKeepsInv

-----------------------------------------------------------------------------
(* The invariant holds in every reachable state *)

\* Before any review is created nothing can be wrong.
LEMMA InitKeepsInv == LifecycleInit => LifecycleInv
  <1> SUFFICES ASSUME LifecycleInit PROVE LifecycleInv
    OBVIOUS
  <1> DEFINE row == [status |-> "absent", report |-> Nobody, head |-> Nobody,
                     deleted |-> FALSE]
             link == [run |-> Nobody, kind |-> "review"]
             none == [i \in Item |-> NoItem]
  <1>1. QueueInv
    BY InitInv DEF LifecycleInit
  <1>2. /\ row.status = "absent" /\ row.report = Nobody /\ ~row.deleted
        /\ row \in RunRow /\ link \in JobLink
        /\ link.run = Nobody /\ link.kind = "review"
    BY DEF RunRow, JobLink
  <1>3. none \in Items
    <2> HIDE DEF NoItem
    <2> QED BY NewItemType DEF Items
  <1> HIDE DEF row, link, none
  <1>4. /\ run = [r \in Run |-> row] /\ work = [r \in Run |-> none]
        /\ jobOf = [j \in ReviewJob |-> link] /\ late = {}
        /\ deadline = [r \in Run |-> "open"]
        /\ handler = [w \in ReviewWorker |-> NoHandler]
    BY DEF LifecycleInit, row, link, none
  <1>5. LifecycleTypeOK
    <2>1. /\ run \in [Run -> RunRow] /\ work \in [Run -> Items]
          /\ jobOf \in [ReviewJob -> JobLink]
      BY <1>2, <1>3, <1>4
    <2>2. deadline \in [Run -> {"open", "cutoff", "hard"}] /\ late \subseteq Call
      BY <1>4
    <2>3. handler \in [ReviewWorker -> Handler]
      BY <1>4, NoHandlerType
    <2> QED BY <1>1, <2>1, <2>2, <2>3 DEF LifecycleTypeOK, QueueInv, RunRow, Items, JobLink
  <1>6. \A r \in Run : RunOK(r)
    BY <1>2, <1>4, NobodyIsNone DEF RunOK, Reported, TERMINAL
  <1>7. \A j \in ReviewJob : job[j].status = "absent"
    BY DEF LifecycleInit, QueueInit, NoJob
  <1>8. (\A j \in ReviewJob : JobOK(j)) /\ OneActiveJob
    BY <1>2, <1>4, <1>7 DEF JobOK, OneActiveJob, JobsOf, Active
  <1>9. \A w \in ReviewWorker : HandlerOK(w)
    <2>1. NoWork("down", FALSE).phase = "down"
      BY DEF NoWork
    <2>2. \A w \in ReviewWorker : worker[w].phase = "down"
      BY <2>1 DEF LifecycleInit, QueueInit
    <2> QED BY <1>4, <2>2 DEF HandlerOK
  <1> QED BY <1>1, <1>4, <1>5, <1>6, <1>8, <1>9 DEF LifecycleInv

\* The steps of a process and its handler.
LEMMA WorkerKeepsInv ==
  ASSUME LifecycleInv, NEW w \in ReviewWorker, ProcessStep(w) \/ HandlerStep(w)
  PROVE  LifecycleInv'
  <1>1. CASE Polls(w) \/ Dies(w)
    BY <1>1, PollsKeepsInv, DiesKeepsInv
  <1>2. ASSUME NEW d \in Age,
               \/ ClaimReview(w, d) \/ ClaimNoReview(w, d) \/ Reports(w, d)
               \/ MayInterrupt(w, Heartbeat(w, d))
        PROVE  LifecycleInv'
    BY <1>2, ClaimReviewKeepsInv, ClaimNoReviewKeepsInv, ReportsKeepsInv, BeatKeepsInv
  <1>3. CASE MayInterrupt(w, Stop(w)) \/ MayInterrupt(w, CancelHandler(w))
    BY <1>3, ShutdownKeepsInv, CancelHandlerStepKeepsInv
  <1>4. CASE LookUp(w) \/ Prepared(w) \/ Begin(w) \/ Throws(w)
    BY <1>4, LookUpKeepsInv, PreparedKeepsInv, BeginKeepsInv, ThrowsKeepsInv
  <1>5. CASE OrchestratorStep(w)
    BY <1>5, LookKeepsInv, JudgeKeepsInv, DrainKeepsInv, SkipKeepsInv, RefuseKeepsInv,
       StartAgentKeepsInv, DispatchedKeepsInv, AwaitKeepsInv, BuildFactsKeepsInv,
       SaveKeepsInv DEF OrchestratorStep
  <1> QED BY <1>1, <1>2, <1>3, <1>4, <1>5 DEF ProcessStep, HandlerStep

\* Every step of the reviews, and every stutter, keeps the invariant.
LEMMA ReviewNextKeepsInv == LifecycleInv /\ [ReviewNext]_vars => LifecycleInv'
  <1> SUFFICES ASSUME LifecycleInv, [ReviewNext]_vars PROVE LifecycleInv'
    OBVIOUS
  <1>1. ASSUME NEW r \in Run, CallerStep(r) \/ DeadlinePasses(r)
        PROVE  LifecycleInv'
    BY <1>1, CreateKeepsInv, CancelKeepsInv, RetryKeepsInv, RetryOverviewKeepsInv,
       DeleteKeepsInv, DeadlineKeepsInv DEF CallerStep
  <1>2. ASSUME NEW head \in Head, NEW seen \in SUBSET Run, Supersede(head, seen)
        PROVE  LifecycleInv'
    BY <1>2, SupersedeKeepsInv
  <1>3. ASSUME NEW w \in ReviewWorker, NEW u \in Unit, Submit(w, u) \/ Deliver(w, u)
        PROVE  LifecycleInv'
    BY <1>3, SubmitKeepsInv, DeliverKeepsInv
  <1>4. ASSUME NEW w \in ReviewWorker, NEW i \in Item, AgentEnds(w, i)
        PROVE  LifecycleInv'
    BY <1>4, FinishKeepsInv, AgentStopsKeepsInv DEF AgentEnds, Endings
  <1>5. ASSUME NEW c \in late, LateCall(c)
        PROVE  LifecycleInv'
    BY <1>5, LateCallKeepsInv
  <1>6. CASE TimePasses
    BY <1>6, TimeKeepsInv
  <1>7. CASE UNCHANGED vars
    <2>1. /\ UNCHANGED <<run, work, jobOf, deadline, handler, late>>
          /\ UNCHANGED <<job, worker, stray>>
      BY <1>7 DEF vars, queueVars, lifecycleVars
    <2>2. QueueInv'
      BY <2>1 DEF LifecycleInv, QueueInv, QueueTypeOK, RowsConsistent,
             AttemptsWereGranted, PendingVerdicts, AttemptsWithinBudget, AttemptIsAToken
    <2>3. QuietJobs
      BY <2>1, KeptJobs DEF LifecycleInv
    <2>4. /\ Onward /\ NoNewJobs /\ \A r \in Run : RunOK(r)'
          /\ \A w \in ReviewWorker : \A h : Spared(w, h)
      BY <2>1, <2>3, TablesKept
    <2>5. LifecycleTypeOK'
      BY <2>1, <2>2 DEF LifecycleInv, LifecycleTypeOK, QueueInv
    <2>6. (\A j \in ReviewJob : JobOK(j)') /\ OneActiveJob'
      BY <2>4, JobsStay
    <2> QED BY <2>1, <2>2, <2>4, <2>5, <2>6, CallerKeepsInv
  <1> QED BY <1>1, <1>2, <1>3, <1>4, <1>5, <1>6, <1>7, WorkerKeepsInv DEF ReviewNext

\* The invariant of the review life cycle: rows, jobs, handlers and the calls
\* left behind agree, for any number of reviews, processes and agents.
THEOREM LifecycleInvariance == ReviewSpec => []LifecycleInv
  <1>1. LifecycleInit => LifecycleInv
    BY InitKeepsInv
  <1>2. LifecycleInv /\ [ReviewNext]_vars => LifecycleInv'
    BY ReviewNextKeepsInv
  <1> QED BY <1>1, <1>2, PTL DEF ReviewSpec

\* Every row, job, handler and call keeps its type.
THEOREM LifecycleTypeCorrect == ReviewSpec => []LifecycleTypeOK
  <1>1. LifecycleInv => LifecycleTypeOK
    BY DEF LifecycleInv
  <1> QED BY <1>1, LifecycleInvariance, PTL

\* A review is called completed only with every unit reviewed with all its
\* material and every candidate verified, whatever retries, deadlines, crashes
\* and late calls there were.
THEOREM CompletedIsReviewed == ReviewSpec => []CompletedMeansReviewed
  <1>1. LifecycleInv => CompletedMeansReviewed
    BY DEF LifecycleInv, RunOK, Reported, AllSettled, CompletedMeansReviewed
  <1> QED BY <1>1, LifecycleInvariance, PTL

\* Whatever a process may run is the one job of a live review.
THEOREM ReviewHasOneLiveJob == ReviewSpec => []OneLiveJob
  <1>1. LifecycleInv => OneLiveJob
    BY DEF LifecycleInv, JobOK, OneLiveJob, ActiveJobsAreLive
  <1> QED BY <1>1, LifecycleInvariance, PTL

\* As long as its lease holds, an agent works on an item that is running, in
\* the very attempt that it makes.
THEOREM AgentsHoldTheirItems == ReviewSpec => []AgentsOwnTheirItems
  <1>1. LifecycleInv => AgentsOwnTheirItems
    <2> SUFFICES ASSUME LifecycleInv, NEW w \in ReviewWorker, worker[w].phase = "running",
                        Fence(LeaseOf(w)), NEW i \in Working(w)
                 PROVE  /\ work[RunOf(w)][i].status = "running"
                        /\ work[RunOf(w)][i].try = handler[w].agent[i].try
      BY DEF AgentsOwnTheirItems
    <2>1. Grip(LeaseOf(w))
      BY DEF Fence, Owns, Grip
    <2> QED BY <2>1, HandlerType DEF Agrees, Working
  <1> QED BY <1>1, LifecycleInvariance, PTL

-----------------------------------------------------------------------------
(* Calls left behind *)

\* A call whose attempt is not the latest of its job changes nothing.
LEMMA FencedCallIsIdle ==
  ASSUME LifecycleInv, NEW c \in late, LateCall(c),
         NEW w \in ReviewWorker, worker[w].phase = "running",
         worker[w].job = c.lease.job, worker[w].attempt > c.lease.attempt
  PROVE  UNCHANGED <<run, work>>
  <1>1. CallOK(c) /\ c.lease.attempt \in Nat
    BY DEF LifecycleInv, LateOK, CallOK, CallForm, Call, Lease
  <1>2. /\ worker[w].attempt \in Nat /\ worker[w].job \in ReviewJob
        /\ worker[w].attempt <= job[worker[w].job].attempts
    BY RunningLease
  <1>3. job[worker[w].job].attempts \in Nat
    BY <1>2, ReviewRow DEF LifecycleInv
  <1>4. ~Works(c)
    <2> SUFFICES ASSUME Works(c) PROVE FALSE
      OBVIOUS
    <2>1. job[c.lease.job].attempts = c.lease.attempt
      BY <1>1, WorksFacts DEF Grip
    <2> QED BY <1>1, <1>2, <1>3, <2>1
  <1> QED BY <1>4 DEF LateCall, Commit

\* A call that is left behind stays until it commits or its process dies.
LEMMA CallsWait ==
  ASSUME LifecycleInv, [ReviewNext]_vars
  PROVE  \/ late \subseteq late'
         \/ UNCHANGED <<run, work>>
         \/ \E c \in late : LateCall(c) /\ late' = late \ {c}
  <1>1. ASSUME NEW w \in ReviewWorker, Returns(w) PROVE late \subseteq late'
    BY <1>1 DEF Returns, HandlerGone, LeftBehind
  <1>2. ASSUME NEW w \in ReviewWorker, NEW next, GoesOn(w, next) PROVE late' = late
    BY <1>2 DEF GoesOn
  <1>3. ASSUME NEW w \in ReviewWorker, NEW c, NEW next, Awaits(w, c, next)
        PROVE  late \subseteq late'
    BY <1>1, <1>2, <1>3 DEF Awaits
  <1>4. ASSUME NEW w \in ReviewWorker, NEW next, Checks(w, next)
        PROVE  late \subseteq late'
    BY <1>1, <1>2, <1>4 DEF Checks
  <1>5. ASSUME NEW w \in ReviewWorker, HandlerStep(w)
        PROVE  late \subseteq late'
    <2>1. CASE LookUp(w) \/ Prepared(w)
      BY <1>1, <1>2, <2>1 DEF LookUp, Prepared
    <2>2. CASE Begin(w)
      BY <1>3, <2>2 DEF Begin
    <2>3. CASE Throws(w)
      BY <2>3 DEF Throws, HandlerGone, LeftBehind
    <2>4. CASE Look(w) \/ BuildFacts(w)
      BY <1>4, <2>4 DEF Look, BuildFacts
    <2>5. CASE Judge(w)
      BY <2>5 DEF Judge, LeftBehind
    <2>6. CASE Drain(w) \/ SkipPastCutoff(w)
      BY <1>2, <1>3, <2>6 DEF Drain, SkipPastCutoff
    <2>7. CASE Refuse(w)
      BY <1>2, <1>3, <2>7 DEF Refuse
    <2>8. CASE StartAgent(w)
      BY <1>3, <2>8 DEF StartAgent
    <2>9. CASE Dispatched(w)
      BY <1>2, <2>9 DEF Dispatched
    <2>10. CASE Await(w)
      BY <1>1, <1>2, <2>10 DEF Await
    <2>11. CASE Save(w)
      BY <1>1, <2>11 DEF Save
    <2> QED BY <1>5, <2>1, <2>2, <2>3, <2>4, <2>5, <2>6, <2>7, <2>8, <2>9, <2>10, <2>11
            DEF HandlerStep, OrchestratorStep
  <1>6. ASSUME NEW w \in ReviewWorker, ProcessStep(w)
        PROVE  late \subseteq late' \/ UNCHANGED <<run, work>>
    <2>1. CASE Polls(w) \/ Dies(w)
      BY <2>1 DEF Polls, Dies, lifecycleVars
    <2>2. ASSUME NEW d \in Age,
                 \/ ClaimReview(w, d) \/ ClaimNoReview(w, d) \/ Reports(w, d)
                 \/ MayInterrupt(w, Heartbeat(w, d))
          PROVE  late \subseteq late' \/ UNCHANGED <<run, work>>
      BY <2>2 DEF ClaimReview, ClaimNoReview, Reports, MayInterrupt, lifecycleVars
    <2>3. CASE MayInterrupt(w, Stop(w)) \/ MayInterrupt(w, CancelHandler(w))
      BY <2>3 DEF MayInterrupt
    <2> QED BY <1>6, <2>1, <2>2, <2>3 DEF ProcessStep
  <1>7. ASSUME NEW r \in Run, CallerStep(r) \/ DeadlinePasses(r)
        PROVE  late' = late
    BY <1>7 DEF CallerStep, Create, Cancel, Retry, RetryOverview, Revive, Delete,
                DeadlinePasses, Untouched
  <1>8. ASSUME NEW head \in Head, NEW seen \in SUBSET Run, Supersede(head, seen)
        PROVE  late' = late
    BY <1>8 DEF Supersede, Untouched
  <1>9. ASSUME NEW w \in ReviewWorker, NEW u \in Unit, Submit(w, u) \/ Deliver(w, u)
        PROVE  late' = late
    BY <1>9 DEF Submit, Deliver
  <1>10. ASSUME NEW w \in ReviewWorker, NEW i \in Item, AgentEnds(w, i)
         PROVE  late' = late
    BY <1>10 DEF AgentEnds, AgentStops, Finish, AgentIs
  <1>11. CASE TimePasses \/ UNCHANGED vars
    BY <1>11 DEF TimePasses, lifecycleVars, vars
  <1>12. ASSUME NEW c \in late, LateCall(c)
         PROVE  LateCall(c) /\ late' = late \ {c}
    BY <1>12 DEF LateCall
  <1> QED BY <1>5, <1>6, <1>7, <1>8, <1>9, <1>10, <1>11, <1>12 DEF ReviewNext

\* Once a newer attempt of its job runs, a call that an older one left behind
\* in a thread changes no review, whenever it gets to its transaction.
THEOREM LateCallsChangeNothing == ReviewSpec => LateCallsAreFenced
  <1> DEFINE Idle ==
        \A c \in late \ late' :
            (\E w \in ReviewWorker : /\ worker[w].phase = "running"
                                     /\ worker[w].job = c.lease.job
                                     /\ worker[w].attempt > c.lease.attempt)
            => UNCHANGED <<run, work>>
  <1>1. LifecycleInv /\ [ReviewNext]_vars => [Idle]_vars
    BY CallsWait, FencedCallIsIdle
  <1> QED BY <1>1, LifecycleInvariance, PTL DEF ReviewSpec, LateCallsAreFenced
=============================================================================
