---------------------------- MODULE PromiseProofs ----------------------------
(***************************************************************************)
(* The life cycle of reviews implements ReviewPromise, for any number of   *)
(* reviews, items, jobs, processes and calls left behind: whatever jobs,   *)
(* leases, deadlines and crashes do below, a review that its callers see   *)
(* takes one step of the promise at a time, or rests.                      *)
(*                                                                         *)
(* Then what each step makes of reviews, jobs, processes and calls left    *)
(* behind, and what follows: which reports are ever given up, when a       *)
(* review that is not over has a job that takes it further, and what       *)
(* strands it.                                                             *)
(***************************************************************************)
EXTENDS LifecycleProofs

\* What a caller sees of review r is s, the items k known and d settled.
Turned(r, s, k, d) ==
    /\ (IF run'[r].deleted THEN "erased" ELSE run'[r].status) = s
    /\ Known(work'[r]) = k /\ Settled(work'[r]) = d

PromiseStep(r) == Promise!ReviewStep(r) \/ Promise!Rests(r)

\* Review r goes to the status s with all that it knows and has settled.
GoesTo(r, s) ==
    /\ run'[r].status = s /\ run'[r].deleted = run[r].deleted
    /\ Known(work'[r]) = Known(work[r]) /\ Settled(work'[r]) = Settled(work[r])

\* What a review does in terms of its rows, as steps of the promise.
LEMMA MovesArePromised ==
  ASSUME NEW r \in Run
  PROVE  /\ GoesTo(r, run[r].status) => PromiseStep(r)
         /\ run[r].status \in Live /\ ~run[r].deleted =>
               /\ GoesTo(r, "running") => PromiseStep(r)
               /\ GoesTo(r, "cancelled") => PromiseStep(r)
               /\ \A s \in Reported :
                     GoesTo(r, s) /\ (s = "completed" => Known(work[r]) = Settled(work[r]))
                     => PromiseStep(r)
         /\ run[r].status \in Reported /\ ~run[r].deleted /\ GoesTo(r, "queued")
               => PromiseStep(r)
  <1> DEFINE s0 == IF run[r].deleted THEN "erased" ELSE run[r].status
             k0 == Known(work[r])
             d0 == Settled(work[r])
  <1>1. /\ Promise!Rests(r) <=> Turned(r, s0, k0, d0)
        /\ Promise!Begin(r) <=> s0 \in {"queued", "running"} /\ Turned(r, "running", k0, d0)
        /\ Promise!Stop(r) <=> s0 \in {"queued", "running"} /\ Turned(r, "cancelled", k0, d0)
        /\ Promise!Conclude(r) <=>
              /\ s0 \in {"queued", "running"}
              /\ \E s \in Reported : (s = "completed" => d0 = k0) /\ Turned(r, s, k0, d0)
        /\ Promise!Reopen(r) <=> s0 \in Reported /\ Turned(r, "queued", k0, d0)
    BY DEF Promise!Turns, Turned, Promise!Rests, Promise!Begin, Promise!Stop, Promise!Conclude,
                      Promise!Reopen, Promise!Open, Promise!Closed, Known, Reported
  <1>2. ASSUME NEW s, GoesTo(r, s)
        PROVE  /\ s = run[r].status => Turned(r, s0, k0, d0)
               /\ ~run[r].deleted => Turned(r, s, k0, d0)
    BY <1>2 DEF GoesTo, Turned
  <1> HIDE DEF k0, d0
  <1>3. GoesTo(r, run[r].status) => PromiseStep(r)
    BY <1>1, <1>2 DEF PromiseStep
  <1>4. ASSUME run[r].status \in Live, ~run[r].deleted
        PROVE  /\ GoesTo(r, "running") => Promise!Begin(r)
               /\ GoesTo(r, "cancelled") => Promise!Stop(r)
               /\ \A s \in Reported :
                     GoesTo(r, s) /\ (s = "completed" => k0 = d0) => Promise!Conclude(r)
    BY <1>1, <1>2, <1>4 DEF Live
  <1>5. run[r].status \in Reported /\ ~run[r].deleted /\ GoesTo(r, "queued")
           => Promise!Reopen(r)
    BY <1>1, <1>2
  <1> QED BY <1>3, <1>4, <1>5 DEF PromiseStep, Promise!ReviewStep, k0, d0

\* A review that runs discovers an item, or settles one that it knows.
LEMMA WorkIsPromised ==
  ASSUME NEW r \in Run, run[r].status = "running", ~run[r].deleted,
         run'[r] = run[r], NEW i \in Item,
         \/ /\ Known(work'[r]) = Known(work[r]) \cup {i}
            /\ Settled(work'[r]) = Settled(work[r])
         \/ /\ i \in Known(work[r]) /\ Known(work'[r]) = Known(work[r])
            /\ Settled(work'[r]) = Settled(work[r]) \cup {i}
  PROVE  PromiseStep(r)
  <1> DEFINE k0 == Known(work[r])
             d0 == Settled(work[r])
  <1>1. /\ Promise!Discover(r) <=> \E x \in Item : Turned(r, "running", k0 \cup {x}, d0)
        /\ Promise!Settle(r) <=> \E x \in k0 : Turned(r, "running", k0, d0 \cup {x})
    BY DEF Promise!Turns, Turned, Promise!Discover, Promise!Settle, Known
  <1>2. \/ Turned(r, "running", k0 \cup {i}, d0)
        \/ i \in k0 /\ Turned(r, "running", k0, d0 \cup {i})
    BY DEF Turned
  <1> HIDE DEF k0, d0
  <1>3. Promise!Discover(r) \/ Promise!Settle(r)
    BY <1>1, <1>2
  <1> QED BY <1>3 DEF PromiseStep, Promise!ReviewStep

\* A review is created with its units, or deleted with all it knew.
LEMMA EndsArePromised ==
  ASSUME NEW r \in Run
  PROVE  /\ run[r].status = "absent" /\ ~run[r].deleted =>
               (Turned(r, "queued", Unit, {}) => PromiseStep(r))
         /\ run[r].status \in TERMINAL /\ ~run[r].deleted =>
               (Turned(r, "erased", {}, {}) => PromiseStep(r))
  <1>1. run[r].status = "absent" /\ ~run[r].deleted =>
           (Turned(r, "queued", Unit, {}) => Promise!Create(r))
    BY DEF Promise!Turns, Turned, Promise!Create, Known
  <1>2. run[r].status \in TERMINAL /\ ~run[r].deleted =>
           (Turned(r, "erased", {}, {}) => Promise!Erase(r))
    BY DEF Promise!Turns, Turned, Promise!Erase, Promise!Closed, TERMINAL, Known
  <1> QED BY <1>1, <1>2 DEF PromiseStep, Promise!ReviewStep

AllPromised == \A r \in Run : PromiseStep(r)

-----------------------------------------------------------------------------
(* The steps of the reviews *)

\* A review whose rows stay as they are rests.
LEMMA KeptRests ==
  ASSUME NEW r \in Run, run'[r] = run[r], work'[r] = work[r]
  PROVE  PromiseStep(r)
  <1>1. GoesTo(r, run[r].status)
    BY DEF GoesTo
  <1> QED BY <1>1, MovesArePromised

\* A call of the store: begin, discover, settle, conclude, or nothing.
LEMMA CallIsPromised ==
  ASSUME LifecycleInv, NEW c, CallOK(c), Commit(c)
  PROVE  AllPromised
  <1>1. CASE ~Works(c)
    BY <1>1, KeptRests DEF Commit, AllPromised
  <1>2. CASE Works(c)
    <2>0. PICK r \in Run : r = jobOf[c.lease.job].run
      BY <1>2, WorksFacts
    <2> DEFINE row == RowAfter(r, c)
               new == Stored(r, c)
    <2>1. /\ CallForm(c) /\ Accepts(r, c)
          /\ run[r].status \in Live /\ ~run[r].deleted /\ Grip(c.lease)
          /\ row.deleted = run[r].deleted
          /\ c.op = "begin" => row.status = "running"
          /\ c.op = "save" => row.status = c.value
          /\ c.op \notin {"begin", "save"} => row = run[r]
      BY <1>2, <2>0, WorksFacts
    <2>2. run \in [Run -> RunRow] /\ work \in [Run -> Items]
      BY TableTypes
    <2>3. \/ Known(new) = Known(work[r]) /\ Settled(new) = Settled(work[r])
          \/ /\ c.op = "submit" /\ c.value \in Candidate
             /\ Known(new) = Known(work[r]) \cup {c.value}
             /\ Settled(new) = Settled(work[r])
          \/ /\ c.op = "finish" /\ c.item \in Known(work[r]) /\ c.item \in Item
             /\ Known(new) = Known(work[r])
             /\ Settled(new) = Settled(work[r]) \cup {c.item}
      BY <2>1, <2>2, StoredFacts
    <2>4. run' = [run EXCEPT ![r] = row] /\ work' = [work EXCEPT ![r] = new]
      BY <1>2, <2>0 DEF Commit
    <2>5. /\ c.op = "save" => c.value \in Reported
          /\ c.op = "save" /\ c.value = "completed" => Known(work[r]) = Settled(work[r])
          /\ c.op # "begin" => run[r].status = "running"
      <3>1. /\ c.op = "save" => c.value \in Reported
            /\ c.op = "save" /\ c.value = "completed" => AllSettled(work[r])
            /\ c.op # "begin" => run[r].status # "queued"
        BY <2>0, <2>1 DEF CallOK, CallForm
      <3>2. c.op # "begin" => run[r].status = "running"
        BY <2>1, <3>1 DEF Live
      <3> QED BY <3>1, <3>2, SettledIsKnown
    <2> HIDE DEF row, new
    <2>6. /\ run'[r] = row /\ work'[r] = new
          /\ \A s \in Run \ {r} : run'[s] = run[s] /\ work'[s] = work[s]
      BY <2>1, <2>2, <2>4
    <2>7. PromiseStep(r)
      <3>1. CASE Known(new) = Known(work[r]) /\ Settled(new) = Settled(work[r])
        <4>1. CASE c.op = "begin"
          <5>1. GoesTo(r, "running")
            BY <2>1, <2>6, <3>1, <4>1 DEF GoesTo
          <5> QED BY <2>1, <5>1, MovesArePromised
        <4>2. CASE c.op = "save"
          <5>1. GoesTo(r, c.value)
            BY <2>1, <2>6, <3>1, <4>2 DEF GoesTo
          <5> QED BY <2>1, <2>5, <4>2, <5>1, MovesArePromised
        <4>3. CASE c.op \notin {"begin", "save"}
          <5>1. GoesTo(r, run[r].status)
            BY <2>1, <2>6, <3>1, <4>3 DEF GoesTo
          <5> QED BY <2>1, <5>1, MovesArePromised
        <4> QED BY <4>1, <4>2, <4>3
      <3>2. CASE /\ c.op = "submit" /\ c.value \in Candidate
                 /\ Known(new) = Known(work[r]) \cup {c.value}
                 /\ Settled(new) = Settled(work[r])
        <4>1. run'[r] = run[r] /\ run[r].status = "running" /\ c.value \in Item
          BY <2>1, <2>5, <2>6, <3>2 DEF Item
        <4> QED BY <2>1, <2>6, <3>2, <4>1, WorkIsPromised
      <3>3. CASE /\ c.op = "finish" /\ c.item \in Known(work[r]) /\ c.item \in Item
                 /\ Known(new) = Known(work[r])
                 /\ Settled(new) = Settled(work[r]) \cup {c.item}
        <4>1. run'[r] = run[r] /\ run[r].status = "running"
          BY <2>1, <2>5, <2>6, <3>3
        <4> QED BY <2>1, <2>6, <3>3, <4>1, WorkIsPromised
      <3> QED BY <2>3, <3>1, <3>2, <3>3
    <2> QED BY <2>6, <2>7, KeptRests DEF AllPromised
  <1> QED BY <1>1, <1>2

\* Reviews that end with what they have.
LEMMA EndingIsPromised ==
  ASSUME LifecycleInv, run' \in [Run -> RunRow],
         \A r \in Run : RunEnds(r) \/ (run'[r] = run[r] /\ work'[r] = work[r])
  PROVE  AllPromised
  <1>1. ASSUME NEW r \in Run, RunEnds(r) PROVE PromiseStep(r)
    <2>0. PICK s \in Reported : s = run'[r].status
      BY <1>1 DEF RunEnds
    <2>1. run[r].deleted \in BOOLEAN /\ run'[r].deleted \in BOOLEAN
      BY TableTypes DEF RunRow
    <2>2. run[r].status \in Live /\ ~run[r].deleted /\ GoesTo(r, s)
      BY <1>1, <2>0, <2>1 DEF RunEnds, GoesTo
    <2>3. s = "completed" => Known(work[r]) = Settled(work[r])
      BY <1>1, <2>0, SettledIsKnown DEF RunEnds
    <2> QED BY <2>3, <2>2, MovesArePromised
  <1> QED BY <1>1, KeptRests DEF AllPromised

\* Reviews that are cancelled, by a caller or by a newer head.
LEMMA StoppingIsPromised ==
  ASSUME LifecycleInv, NEW rs \in SUBSET Run, \A r \in rs : run[r].status \in Live,
         NEW r \in Run, run'[r] = Stopped(rs)[r], work'[r] = work[r]
  PROVE  PromiseStep(r)
  <1>1. CASE r \in rs
    <2>1. run'[r].status = "cancelled" /\ run'[r].deleted = run[r].deleted /\ ~run[r].deleted
      BY <1>1, StoppedRows
    <2>2. GoesTo(r, "cancelled")
      BY <2>1 DEF GoesTo
    <2> QED BY <1>1, <2>1, <2>2, MovesArePromised
  <1>2. CASE r \notin rs
    <2>1. run'[r] = run[r]
      BY <1>2, StoppedRows
    <2> QED BY <2>1, KeptRests
  <1> QED BY <1>1, <1>2

\* What callers do to reviews.
LEMMA CallersArePromised ==
  ASSUME LifecycleInv, NEW r \in Run, CallerStep(r)
  PROVE  AllPromised
  <1>0. run \in [Run -> RunRow] /\ work \in [Run -> Items] /\ RunOK(r)
    BY TableTypes DEF LifecycleInv
  <1>1. ASSUME NEW head \in Head, NEW seen \in SUBSET Run, Create(r, head, seen)
        PROVE  AllPromised
    <2>1. PICK old \in SUBSET Run : old = Obsolete(head) \cap seen
      BY DEF Obsolete
    <2> DEFINE rows == Stopped(old)
               row == [status |-> "queued", report |-> Nobody, head |-> head,
                       deleted |-> FALSE]
               new == [i \in Item |-> IF i \in Unit THEN NewItem ELSE NoItem]
    <2>2. /\ run[r].status = "absent" /\ run' = [rows EXCEPT ![r] = row]
          /\ work' = [work EXCEPT ![r] = new]
      BY <1>1, <2>1 DEF Create
    <2>3. (\A s \in old : run[s].status \in Live) /\ r \notin old
      BY <2>1, <2>2 DEF Obsolete, Live
    <2>4. row.status = "queued" /\ ~row.deleted
      OBVIOUS
    <2>5. Known(new) = Unit /\ Settled(new) = {}
      <3>1. NewItem.status = "queued" /\ NoItem.status = "absent"
        BY NewItemType
      <3>2. \A i \in Item : new[i].status = IF i \in Unit THEN "queued" ELSE "absent"
        <4> HIDE DEF NewItem, NoItem
        <4> QED BY <3>1
      <3> HIDE DEF new
      <3> QED BY <3>2 DEF Known, Settled, Item
    <2>6. rows \in [Run -> RunRow]
      BY <2>3, StoppedRows
    <2> HIDE DEF rows, row, new
    <2>7. /\ run'[r] = row /\ work'[r] = new
          /\ \A s \in Run \ {r} : run'[s] = rows[s] /\ work'[s] = work[s]
      BY <1>0, <2>2, <2>6
    <2>8. PromiseStep(r)
      <3>1. Turned(r, "queued", Unit, {})
        BY <2>4, <2>5, <2>7 DEF Turned
      <3> QED BY <1>0, <2>2, <3>1, EndsArePromised DEF RunOK
    <2>9. \A s \in Run \ {r} : PromiseStep(s)
      BY <2>3, <2>7, StoppingIsPromised DEF rows
    <2> QED BY <2>8, <2>9 DEF AllPromised
  <1>2. CASE Cancel(r)
    <2>1. /\ {r} \in SUBSET Run /\ \A s \in {r} : run[s].status \in Live
          /\ run' = Stopped({r}) /\ work' = work
      BY <1>2 DEF Cancel
    <2> QED BY <2>1, StoppingIsPromised DEF AllPromised
  <1>3. CASE Retry(r) \/ RetryOverview(r)
    <2>1. /\ run[r].status \in Reported /\ ~run[r].deleted
          /\ run' = [run EXCEPT ![r].status = "queued"]
          /\ \/ work' = work
             \/ work' = [work EXCEPT ![r] = Requeued(@, WorkStatus \ {"absent", "completed"})]
      BY <1>3 DEF Retry, RetryOverview, Revive, Reported
    <2>2. PICK new : new = Requeued(work[r], WorkStatus \ {"absent", "completed"})
      OBVIOUS
    <2>3. Known(new) = Known(work[r]) /\ Settled(new) = Settled(work[r])
      BY <1>0, <2>2, RequeuedFacts
    <2>4. PICK row : row = [run[r] EXCEPT !.status = "queued"]
      OBVIOUS
    <2>5. row.status = "queued" /\ row.deleted = run[r].deleted
      <3>1. run[r] \in RunRow /\ "queued" \in Live \cup TERMINAL \cup {"absent"}
        BY <1>0 DEF Live
      <3> QED BY <2>4, <3>1, SetRunColumn
    <2>6. /\ run' = [run EXCEPT ![r] = row]
          /\ work' = work \/ work' = [work EXCEPT ![r] = new]
      BY <2>1, <2>2, <2>4
    <2>7. /\ run'[r] = row /\ \A s \in Run \ {r} : run'[s] = run[s] /\ work'[s] = work[s]
          /\ work'[r] = work[r] \/ work'[r] = new
      BY <1>0, <2>6
    <2>8. GoesTo(r, "queued")
      BY <2>3, <2>5, <2>7 DEF GoesTo
    <2> QED BY <2>1, <2>7, <2>8, MovesArePromised, KeptRests DEF AllPromised
  <1>4. CASE Delete(r)
    <2>1. /\ run[r].status \in TERMINAL /\ ~run[r].deleted
          /\ run' = [run EXCEPT ![r].deleted = TRUE]
          /\ work' = [work EXCEPT ![r] = [i \in Item |-> NoItem]]
      BY <1>4 DEF Delete
    <2>2. PICK new : new = [i \in Item |-> NoItem]
      OBVIOUS
    <2>3. Known(new) = {} /\ Settled(new) = {}
      <3>1. \A i \in Item : new[i].status = "absent"
        <4> HIDE DEF NoItem
        <4> QED BY <2>2, NewItemType
      <3> QED BY <3>1 DEF Known, Settled
    <2>4. PICK row : row = [run[r] EXCEPT !.deleted = TRUE]
      OBVIOUS
    <2>5. row.deleted
      BY <1>0, <2>4, SetRunColumn
    <2>6. run' = [run EXCEPT ![r] = row] /\ work' = [work EXCEPT ![r] = new]
      BY <2>1, <2>2, <2>4
    <2>7. /\ run'[r] = row /\ \A s \in Run \ {r} : run'[s] = run[s] /\ work'[s] = work[s]
          /\ work'[r] = new
      BY <1>0, <2>6
    <2>8. Turned(r, "erased", {}, {})
      BY <2>3, <2>5, <2>7 DEF Turned
    <2> QED BY <2>1, <2>7, <2>8, EndsArePromised, KeptRests DEF AllPromised
  <1> QED BY <1>1, <1>2, <1>3, <1>4 DEF CallerStep

\* A step that leaves the rows of reviews alone.
LEMMA QuietIsPromised ==
  ASSUME UNCHANGED <<run, work>>
  PROVE  AllPromised
  BY KeptRests DEF AllPromised

\* A handler that awaits a call, or only goes on.
LEMMA AwaitingIsPromised ==
  ASSUME LifecycleInv, NEW w \in ReviewWorker, worker[w].phase = "running"
  PROVE  /\ \A op \in {"claim", "skip"}, i \in Item : \A next :
               /\ handler[w].pc \notin EarlyPC
               /\ Awaits(w, OwnCall(w, op, i, Nobody), next)
               => AllPromised
         /\ \A next : Awaits(w, OwnCall(w, "begin", Nobody, Nobody), next) => AllPromised
  BY ItemCall, BeginCall, CallIsPromised DEF Awaits

\* The steps of the orchestrator.
LEMMA OrchestratorIsPromised ==
  ASSUME LifecycleInv, NEW w \in ReviewWorker, OrchestratorStep(w)
  PROVE  AllPromised
  <1>0. handler[w].todo \subseteq Item
    BY HandlerType DEF Handler
  <1>1. CASE Look(w) \/ Judge(w) \/ Dispatched(w) \/ Await(w) \/ BuildFacts(w)
    BY <1>1, QuietIsPromised DEF Look, Judge, Dispatched, Await, BuildFacts, Checks
  <1>2. CASE Drain(w)
    <2>1. worker[w].phase = "running" /\ handler[w].pc \notin EarlyPC
      BY <1>2 DEF Drain, At, EarlyPC
    <2>2. \/ \E i \in handler[w].todo : \E next : Awaits(w, OwnCall(w, "skip", i, Nobody), next)
          \/ UNCHANGED <<run, work>>
      BY <1>2 DEF Drain
    <2> QED BY <1>0, <2>1, <2>2, AwaitingIsPromised, QuietIsPromised
  <1>3. CASE SkipPastCutoff(w)
    <2>1. worker[w].phase = "running" /\ handler[w].pc \notin EarlyPC
      BY <1>3 DEF SkipPastCutoff, At, EarlyPC
    <2>2. \E i \in handler[w].todo : \E next : Awaits(w, OwnCall(w, "skip", i, Nobody), next)
      BY <1>3 DEF SkipPastCutoff
    <2> QED BY <1>0, <2>1, <2>2, AwaitingIsPromised
  <1>4. CASE Refuse(w)
    <2>1. worker[w].phase = "running" /\ handler[w].pc \notin EarlyPC
      BY <1>4 DEF Refuse, At, EarlyPC
    <2>2. \/ \E i \in handler[w].todo : \E next : Awaits(w, OwnCall(w, "skip", i, Nobody), next)
          \/ UNCHANGED <<run, work>>
      BY <1>4 DEF Refuse, Foremost
    <2> QED BY <1>0, <2>1, <2>2, AwaitingIsPromised, QuietIsPromised
  <1>5. CASE StartAgent(w)
    <2>1. worker[w].phase = "running" /\ handler[w].pc \notin EarlyPC
      BY <1>5 DEF StartAgent, At, EarlyPC
    <2>2. \E i \in handler[w].todo : \E next : Awaits(w, OwnCall(w, "claim", i, Nobody), next)
      BY <1>5 DEF StartAgent, Foremost
    <2> QED BY <1>0, <2>1, <2>2, AwaitingIsPromised
  <1>6. CASE Save(w)
    BY <1>6, SaveCall, CallIsPromised DEF Save
  <1> QED BY <1>1, <1>2, <1>3, <1>4, <1>5, <1>6 DEF OrchestratorStep

\* The steps of a process and its handler.
LEMMA WorkerIsPromised ==
  ASSUME LifecycleInv, NEW w \in ReviewWorker, ProcessStep(w) \/ HandlerStep(w)
  PROVE  AllPromised
  <1>1. CASE Polls(w) \/ Dies(w)
    BY <1>1, QuietIsPromised DEF Polls, Dies, lifecycleVars
  <1>2. ASSUME NEW d \in Age, Reports(w, d) \/ MayInterrupt(w, Heartbeat(w, d))
        PROVE  AllPromised
    BY <1>2, QuietIsPromised DEF Reports, MayInterrupt, lifecycleVars
  <1>3. ASSUME NEW d \in Age, ClaimReview(w, d) \/ ClaimNoReview(w, d)
        PROVE  AllPromised
    <2>1. Reap(d) /\ UNCHANGED <<jobOf, deadline>>
      BY <1>3 DEF ClaimReview, ClaimNoReview
    <2>2. /\ QuietJobs
          /\ ClaimJob(w, d, LiveJobs) \/ ClaimNothing(w, d, LiveJobs)
          /\ \A v \in ReviewWorker \ {w} : worker'[v] = worker[v]
      <3>1. CASE ClaimReview(w, d)
        BY <3>1, ClaimJobFacts DEF ClaimReview, LifecycleInv
      <3>2. CASE ClaimNoReview(w, d)
        <4>1. QuietJobs
          <5>1. ClaimNothing(w, d, LiveJobs) /\ QueueInv /\ w \in Worker
            BY <3>2 DEF ClaimNoReview, LifecycleInv, Worker
          <5> QED BY <5>1, ClaimNothingIsQuiet
        <4>2. \A v \in ReviewWorker \ {w} : worker'[v] = worker[v]
          BY <3>2 DEF ClaimNoReview, ClaimNothing, LifecycleInv, QueueInv, QueueTypeOK
        <4> QED BY <3>2, <4>1, <4>2 DEF ClaimNoReview
      <3> QED BY <1>3, <3>1, <3>2
    <2>3. /\ run' \in [Run -> RunRow]
          /\ \A r \in Run : RunEnds(r) \/ (run'[r] = run[r] /\ work'[r] = work[r])
      BY <2>1, <2>2, ReapFacts DEF TablesStep
    <2> QED BY <2>3, EndingIsPromised
  <1>4. CASE MayInterrupt(w, Stop(w)) \/ MayInterrupt(w, CancelHandler(w))
    BY <1>4, QuietIsPromised DEF MayInterrupt
  <1>5. CASE LookUp(w) \/ Prepared(w)
    BY <1>5, QuietIsPromised DEF LookUp, Prepared
  <1>6. CASE Begin(w)
    <2>1. worker[w].phase = "running"
      BY <1>6 DEF Begin, At
    <2>2. \E next : Awaits(w, OwnCall(w, "begin", Nobody, Nobody), next)
      BY <1>6 DEF Begin
    <2> QED BY <2>1, <2>2, AwaitingIsPromised
  <1>7. CASE Throws(w)
    BY <1>7, ThrowsEnds, EndingIsPromised DEF TablesStep
  <1> QED BY <1>1, <1>2, <1>3, <1>4, <1>5, <1>6, <1>7, OrchestratorIsPromised
          DEF ProcessStep, HandlerStep

\* The steps of agents.
LEMMA AgentsArePromised ==
  ASSUME LifecycleInv, NEW w \in ReviewWorker
  PROVE  /\ \A u \in Unit : Submit(w, u) \/ Deliver(w, u) => AllPromised
         /\ \A i \in Item : AgentEnds(w, i) => AllPromised
  <1>1. ASSUME NEW u \in Unit, Submit(w, u) PROVE AllPromised
    <2>1. PICK c \in FreshCandidates(RunOf(w)) : Commit(AgentCall(w, "submit", u, c))
      BY <1>1 DEF Submit
    <2>2. c \in Candidate /\ c \in Item /\ u \in Working(w) /\ worker[w].phase = "running"
      BY <1>1 DEF FreshCandidates, Item, Submit
    <2> QED BY <2>1, <2>2, AgentCallOK, CallIsPromised
  <1>2. ASSUME NEW u \in Unit, Deliver(w, u) PROVE AllPromised
    BY <1>2, AgentCallOK, CallIsPromised DEF Deliver
  <1>3. ASSUME NEW i \in Item, NEW s \in Endings, Finish(w, i, s) PROVE AllPromised
    <2>1. s \in WorkStatus /\ i \in Working(w) /\ worker[w].phase = "running"
      BY <1>3 DEF Endings, WorkStatus, Finish
    <2> QED BY <1>3, <2>1, AgentCallOK, CallIsPromised DEF Finish
  <1>4. ASSUME NEW i \in Item, AgentStops(w, i) PROVE AllPromised
    BY <1>4, QuietIsPromised DEF AgentStops
  <1> QED BY <1>1, <1>2, <1>3, <1>4 DEF AgentEnds, Endings

-----------------------------------------------------------------------------
(* The refinement *)

\* Every step of the life cycle, and every stutter, is a step of the promise.
LEMMA StepIsPromised == LifecycleInv /\ [ReviewNext]_vars => AllPromised
  <1> SUFFICES ASSUME LifecycleInv, [ReviewNext]_vars PROVE AllPromised
    OBVIOUS
  <1>1. ASSUME NEW r \in Run, CallerStep(r) \/ DeadlinePasses(r) PROVE AllPromised
    BY <1>1, CallersArePromised, QuietIsPromised DEF DeadlinePasses
  <1>2. ASSUME NEW head \in Head, NEW seen \in SUBSET Run, Supersede(head, seen)
        PROVE  AllPromised
    <2>1. PICK old \in SUBSET Run : old = Obsolete(head) \cap seen
      BY DEF Obsolete
    <2>2. /\ \A s \in old : run[s].status \in Live
          /\ run' = Stopped(old) /\ work' = work
      BY <1>2, <2>1 DEF Supersede, Obsolete
    <2> QED BY <2>2, StoppingIsPromised DEF AllPromised
  <1>3. ASSUME NEW c \in late, LateCall(c) PROVE AllPromised
    BY <1>3, CallIsPromised DEF LateCall, LifecycleInv, LateOK
  <1>4. CASE TimePasses \/ UNCHANGED vars
    BY <1>4, QuietIsPromised DEF TimePasses, lifecycleVars, vars
  <1> QED BY <1>1, <1>2, <1>3, <1>4, WorkerIsPromised, AgentsArePromised DEF ReviewNext

\* What callers may count on holds of every execution: the facts of a review
\* only grow, and only while it runs; a review that is called complete has
\* settled all it knows of; one that ended stays so until it is retried, one
\* that was cancelled for good.
THEOREM LifecycleKeepsPromise == ReviewSpec => KeepsPromise
  <1>1. LifecycleInit => Promise!PromiseInit
    <2> SUFFICES ASSUME LifecycleInit PROVE Promise!PromiseInit
      OBVIOUS
    <2>1. NoItem.status = "absent"
      BY NewItemType
    <2>2. \A r \in Run : run[r].status = "absent" /\ ~run[r].deleted
      BY DEF LifecycleInit
    <2>3. \A r \in Run : \A i \in Item : work[r][i].status = "absent"
      <3> HIDE DEF NoItem
      <3> QED BY <2>1 DEF LifecycleInit
    <2>4. \A r \in Run : Known(work[r]) = {} /\ Settled(work[r]) = {}
      BY <2>3 DEF Known, Settled
    <2> QED BY <2>2, <2>4 DEF Promise!PromiseInit, Known
  <1>2. LifecycleInv /\ [ReviewNext]_vars => [Promise!PromiseNext]_Promise!reviewVars
    BY StepIsPromised DEF AllPromised, PromiseStep, Promise!PromiseNext
  <1> QED BY <1>1, <1>2, LifecycleInvariance, PTL
          DEF ReviewSpec, KeepsPromise, Promise!PromiseSpec

USE JobQueueConstants DEF Job, Worker, Age

-----------------------------------------------------------------------------
(* What one step makes of reviews, jobs, processes and calls left behind   *)

\* The job of w may not be tried again.
LastTry(w) == job[worker[w].job].attempts >= job[worker[w].job].max

\* A call that saves a report, left behind or about to be made.
Saves(c) ==
    /\ c.op = "save"
    /\ \/ c \in late
       \/ \E w \in ReviewWorker :
             At(w, "overview") /\ c = OwnCall(w, "save", Nobody, handler[w].outcome)

\* An exception that nobody planned for ends the review of the handler.
Excepted(r) ==
    \E w \in ReviewWorker :
        worker[w].phase = "running" /\ RunOf(w) = r /\ worker'[w].phase = "fatal"

\* How a review that was under way comes by its last report.
ReportFrom(r) ==
    \/ run'[r].report = run[r].report
    \/ Excepted(r) /\ run'[r].report # "completed"
    \/ work'[r] = Exhausted(work[r]) /\ run'[r].report = ReapedStatus(work'[r])
    \/ \E c : /\ Saves(c) /\ Works(c) /\ jobOf[c.lease.job].run = r
              /\ run'[r].report = c.value

\* A review stays, begins, ends, is created with a job, or goes on from its
\* end, for which it must have had no job.
RunGoes(r) ==
    \/ run'[r] = run[r]
    \/ /\ run[r].status \in Live /\ run'[r].status = "running"
       /\ run'[r].report = run[r].report /\ run'[r].deleted = run[r].deleted
    \/ run[r].status \in Live /\ run'[r].status \in TERMINAL /\ ReportFrom(r)
    \/ run[r].status = "absent" /\ run'[r].report = Nobody /\ HasActiveJob(r)'
    \/ /\ run[r].status \in TERMINAL /\ ~run[r].deleted /\ ~HasActiveJob(r)
       /\ run'[r].report = run[r].report
       /\ run'[r].status \in Live => HasActiveJob(r)'

\* The receipt of w, which still has its job j, is that the job is over.
GivesUp(w, j) ==
    /\ worker[w].phase \in Ended /\ worker'[w].phase \notin Holding
    /\ worker[w].job = j /\ Grip(LeaseOf(w)) /\ job' # job
    /\ worker[w].phase \in {"returned", "fatal"} \/ LastTry(w)

\* A job stays with its review, and is over when the review is, or when its
\* process says so.
JobGoes(j) ==
    /\ jobOf'[j] = jobOf[j] /\ QuietRow(j)
    /\ job[j].status \in Active /\ job'[j].status \notin Active =>
          \/ run'[jobOf[j].run].status \in TERMINAL
          \/ \E w \in ReviewWorker : GivesUp(w, j)

\* Where the outcome comes from that a handler is about to save.
OutcomeFrom(w, v) ==
    \/ handler[w].pc = "overview" /\ v = handler[w].outcome
    \/ v = Outcome(work[RunOf(w)])
    \/ v = run[RunOf(w)].report

Begins(w) ==
    /\ worker[w].phase \notin Holding /\ worker'[w].phase = "running"
    /\ handler'[w].pc # "overview"
    /\ \A i \in Item : handler'[w].agent[i].state = "none"
    /\ worker'[w].job \in ReviewJob /\ jobOf[worker'[w].job].run # Nobody
    /\ jobOf' = jobOf

SameWork(w) ==
    /\ worker[w].phase \in Holding
    /\ worker'[w].job = worker[w].job /\ worker'[w].attempt = worker[w].attempt

\* Its handler ends as it does only without its lease, by an exception, or
\* because an agent was stopped.
EndsLawfully(w) ==
    /\ worker[w].phase = "running"
    /\ worker'[w].phase \in {"returned", "raised", "fatal", "cancelled"}
    /\ worker'[w].phase \in {"returned", "fatal"} =>
          \/ ~Fence(LeaseOf(w))'
          \/ \E i \in Item : handler[w].agent[i].state = "stopped"
    /\ worker'[w].phase = "fatal" => run'[RunOf(w)].status \in TERMINAL

\* An agent is stopped without the lease, or past the hard deadline.
StopsLawfully(w, i) ==
    handler'[w].agent[i].state = "stopped" =>
        \/ handler[w].agent[i].state = "stopped"
        \/ ~Fence(LeaseOf(w))'
        \/ i \in Unit /\ deadline[RunOf(w)] = "hard"

\* A process goes on with its attempt of its job, or begins a new one.
ProcessGoes(w) ==
    worker'[w].phase \in Holding =>
        \/ Begins(w)
        \/ /\ SameWork(w)
           /\ worker'[w].phase = worker[w].phase \/ EndsLawfully(w)
           /\ worker'[w].phase = "running" =>
                 /\ handler'[w].pc = "overview" => OutcomeFrom(w, handler'[w].outcome)
                 /\ \A i \in Item : StopsLawfully(w, i)

CallsGo == \A c \in late' : c.op = "save" => Saves(c)

RowsGo ==
    /\ \A r \in Run : RunGoes(r)
    /\ \A j \in ReviewJob : job[j].status # "absent" => JobGoes(j)

ProcessesGo == (\A w \in ReviewWorker : ProcessGoes(w)) /\ CallsGo

\* Rows that are left alone.
LEMMA KeptRowsGo ==
  ASSUME LifecycleInv
  PROVE  /\ UNCHANGED run => \A r \in Run : RunGoes(r)
         /\ UNCHANGED <<job, jobOf>> => \A j \in ReviewJob : JobGoes(j)
  <1>1. UNCHANGED <<job, jobOf>> => \A j \in ReviewJob : JobGoes(j)
    BY KeptIsQuiet DEF JobGoes, LifecycleInv
  <1> QED BY <1>1 DEF RunGoes

\* A process that is left alone.
LEMMA KeptProcessGoes ==
  ASSUME NEW w \in ReviewWorker, worker'[w] = worker[w], handler'[w] = handler[w]
  PROVE  ProcessGoes(w)
  BY DEF ProcessGoes, SameWork, OutcomeFrom, StopsLawfully

\* The calls that are left behind by agents save nothing.
LEMMA AgentCallsSaveNothing ==
  ASSUME LifecycleInv, NEW w \in ReviewWorker, worker[w].phase = "running",
         NEW c \in AgentCalls(w)
  PROVE  c.op # "save"
  <1>1. PICK op \in {"deliver", "submit", "finish"} : \E i, v : c = AgentCall(w, op, i, v)
    BY DEF AgentCalls
  <1>2. c.op = op
    BY <1>1 DEF AgentCall
  <1> QED BY <1>2

\* Calls that are left behind by a handler save what it was about to save.
LEMMA LeftCallsGo ==
  ASSUME LifecycleInv, NEW w \in ReviewWorker, worker[w].phase = "running"
  PROVE  /\ LeftBehind(AgentCalls(w)) => CallsGo
         /\ LeftBehind(AgentCalls(w) \cup OrchestratorCalls(w)) => CallsGo
  <1>1. \A c \in AgentCalls(w) : c.op # "save"
    BY AgentCallsSaveNothing
  <1>2. ASSUME NEW c \in OrchestratorCalls(w), c.op = "save"
        PROVE  Saves(c)
    <2>1. CASE handler[w].pc = "overview"
      BY <1>2, <2>1 DEF OrchestratorCalls, Saves, At
    <2>2. CASE handler[w].pc # "overview"
      <3>1. PICK op \in {"begin", "claim", "skip"} : \E i : c = OwnCall(w, op, i, Nobody)
        BY <1>2, <2>2 DEF OrchestratorCalls
      <3> QED BY <1>2, <3>1 DEF OwnCall
    <2> QED BY <2>1, <2>2
  <1>3. ASSUME NEW calls, LeftBehind(calls), NEW c \in late' PROVE c \in late \/ c \in calls
    BY <1>3 DEF LeftBehind
  <1> QED BY <1>1, <1>2, <1>3 DEF CallsGo, Saves

\* A call of the store: the review begins, ends with the report, or stays.
LEMMA CommitGoes ==
  ASSUME LifecycleInv, NEW c, CallOK(c), c.op = "save" => Saves(c),
         Commit(c), UNCHANGED <<job, jobOf>>
  PROVE  RowsGo
  <1>1. CASE ~Works(c)
    BY <1>1, KeptRowsGo DEF Commit, RowsGo
  <1>2. CASE Works(c)
    <2>0. PICK r : r = jobOf[c.lease.job].run
      OBVIOUS
    <2>1. /\ r \in Run /\ CallForm(c)
          /\ run[r].status \in Live
          /\ RowAfter(r, c).deleted = run[r].deleted
          /\ c.op = "begin" => /\ RowAfter(r, c).status = "running"
                               /\ RowAfter(r, c).report = run[r].report
          /\ c.op = "save" => /\ RowAfter(r, c).status = c.value
                              /\ RowAfter(r, c).report = c.value
          /\ c.op \notin {"begin", "save"} => RowAfter(r, c) = run[r]
      BY <1>2, <2>0, WorksFacts
    <2>2. /\ run'[r] = RowAfter(r, c)
          /\ \A s \in Run \ {r} : run'[s] = run[s]
      BY <1>2, <2>0, <2>1, TableTypes DEF Commit
    <2>3. RunGoes(r)
      <3>1. CASE c.op = "save"
        <4>1. c.value \in TERMINAL
          BY <2>1, <3>1 DEF CallForm, Reported, TERMINAL
        <4>2. ReportFrom(r)
          BY <1>2, <2>0, <2>1, <2>2, <3>1 DEF ReportFrom
        <4> QED BY <2>1, <2>2, <3>1, <4>1, <4>2 DEF RunGoes
      <3>2. CASE c.op # "save"
        BY <2>1, <2>2, <3>2 DEF RunGoes
      <3> QED BY <3>1, <3>2
    <2> QED BY <2>2, <2>3, KeptRowsGo DEF RowsGo, RunGoes
  <1> QED BY <1>1, <1>2

\* A step of the handler of w that leaves its process running.
LEMMA GoingOn ==
  ASSUME LifecycleInv, NEW w \in ReviewWorker, worker[w].phase = "running",
         UNCHANGED worker, NEW next, handler' = [handler EXCEPT ![w] = next],
         next.pc = "overview" => OutcomeFrom(w, next.outcome),
         \A i \in Item : next.agent[i].state = "stopped" => StopsLawfully(w, i)
  PROVE  \A v \in ReviewWorker : ProcessGoes(v)
  <1>1. handler'[w] = next /\ \A v \in ReviewWorker \ {w} : handler'[v] = handler[v]
    BY HandlerType
  <1>2. ProcessGoes(w)
    BY <1>1 DEF ProcessGoes, SameWork, StopsLawfully, Holding
  <1> QED BY <1>1, <1>2, KeptProcessGoes

\* A handler that is over by itself.
LEMMA Ending ==
  ASSUME LifecycleInv, NEW w \in ReviewWorker, NEW how \in {"returned", "raised", "fatal"},
         HandlerEnds(w, how), HandlerGone(w, AgentCalls(w)),
         how \in {"returned", "fatal"} =>
             \/ ~Fence(LeaseOf(w))'
             \/ \E i \in Item : handler[w].agent[i].state = "stopped",
         how = "fatal" => run'[RunOf(w)].status \in TERMINAL
  PROVE  ProcessesGo /\ UNCHANGED job
  <1>1. /\ worker[w].phase = "running" /\ worker[w] \in WorkerState
        /\ worker \in [Worker -> WorkerState] /\ w \in Worker
        /\ worker' = [worker EXCEPT ![w].phase = how] /\ UNCHANGED job
    BY DEF HandlerEnds, LifecycleInv, QueueInv, QueueTypeOK
  <1>2. /\ worker'[w].phase = how /\ worker'[w].job = worker[w].job
        /\ worker'[w].attempt = worker[w].attempt
        /\ \A v \in ReviewWorker \ {w} : worker'[v] = worker[v]
    BY <1>1 DEF WorkerState
  <1>3. \A v \in ReviewWorker \ {w} : handler'[v] = handler[v]
    BY HandlerType DEF HandlerGone
  <1>4. ProcessGoes(w)
    BY <1>1, <1>2 DEF ProcessGoes, SameWork, EndsLawfully, Holding
  <1>5. CallsGo
    BY <1>1, LeftCallsGo DEF HandlerGone
  <1> QED BY <1>1, <1>2, <1>3, <1>4, <1>5, KeptProcessGoes DEF ProcessesGo

\* The lease of a process that ends its handler is what it was.
LEMMA SameFence ==
  ASSUME LifecycleInv, NEW w \in ReviewWorker, worker[w].phase = "running",
         \/ UNCHANGED worker
         \/ \E how : worker' = [worker EXCEPT ![w].phase = how],
         UNCHANGED <<job, jobOf>>, UNCHANGED run
  PROVE  Fence(LeaseOf(w))' = Fence(LeaseOf(w))
  <1>1. LeaseOf(w)' = LeaseOf(w)
    <2>1. worker'[w].job = worker[w].job /\ worker'[w].attempt = worker[w].attempt
      <3>1. worker[w] \in WorkerState /\ worker \in [Worker -> WorkerState] /\ w \in Worker
        BY DEF LifecycleInv, QueueInv, QueueTypeOK
      <3> QED BY <3>1 DEF WorkerState
    <2> QED BY <2>1 DEF LeaseOf
  <1>2. PICK lease : lease = LeaseOf(w)
    OBVIOUS
  <1> QED BY <1>1, <1>2 DEF Fence, Owns

\* A handler that returns because it has lost its review or its lease.
LEMMA Returning ==
  ASSUME LifecycleInv, NEW w \in ReviewWorker, Returns(w),
         \/ UNCHANGED <<run, jobOf>> /\ ~Fence(LeaseOf(w))
         \/ ~Fence(LeaseOf(w))'
         \/ \E i \in Item : handler[w].agent[i].state = "stopped"
  PROVE  ProcessesGo /\ UNCHANGED job
  <1>1. /\ worker[w].phase = "running" /\ worker' = [worker EXCEPT ![w].phase = "returned"]
        /\ UNCHANGED job
    BY DEF Returns, HandlerEnds
  <1>2. \/ ~Fence(LeaseOf(w))'
        \/ \E i \in Item : handler[w].agent[i].state = "stopped"
    BY <1>1, SameFence
  <1> QED BY <1>2, Ending DEF Returns

\* A handler that goes on.
LEMMA Proceeding ==
  ASSUME LifecycleInv, NEW w \in ReviewWorker, worker[w].phase = "running",
         NEW next, GoesOn(w, next),
         next.pc = "overview" => OutcomeFrom(w, next.outcome),
         \A i \in Item : next.agent[i].state = "stopped" => handler[w].agent[i].state = "stopped"
  PROVE  ProcessesGo /\ UNCHANGED job
  <1>1. UNCHANGED <<job, worker, late>> /\ handler' = [handler EXCEPT ![w] = next]
    BY DEF GoesOn, queueVars
  <1>2. \A v \in ReviewWorker : ProcessGoes(v)
    <2>1. \A i \in Item : next.agent[i].state = "stopped" => StopsLawfully(w, i)
      BY DEF StopsLawfully
    <2> QED BY <1>1, <2>1, GoingOn
  <1>3. CallsGo
    BY <1>1 DEF CallsGo, Saves
  <1> QED BY <1>1, <1>2, <1>3 DEF ProcessesGo

\* A handler that awaits a call of its own goes on, or returns without a lease.
LEMMA AwaitsGo ==
  ASSUME LifecycleInv, NEW w \in ReviewWorker, worker[w].phase = "running",
         NEW c, CallOK(c), c.lease = LeaseOf(w), c.op = "save" => Saves(c),
         NEW next, Awaits(w, c, next),
         next.pc = "overview" => OutcomeFrom(w, next.outcome),
         \A i \in Item : next.agent[i].state = "stopped" => handler[w].agent[i].state = "stopped"
  PROVE  RowsGo /\ ProcessesGo
  <1>1. UNCHANGED <<job, jobOf>> /\ Commit(c)
    BY DEF Awaits, GoesOn, Returns, HandlerEnds, queueVars
  <1>2. RowsGo
    BY <1>1, CommitGoes
  <1>3. CASE Fence(c.lease)
    BY <1>2, <1>3, Proceeding DEF Awaits
  <1>4. CASE ~Fence(c.lease)
    <2>1. UNCHANGED run /\ Returns(w) /\ ~Fence(LeaseOf(w))
      BY <1>1, <1>4 DEF Commit, Works, Awaits
    <2> QED BY <1>1, <1>2, <2>1, Returning
  <1> QED BY <1>3, <1>4

\* A handler that checks its lease goes on, or returns without it.
LEMMA ChecksGo ==
  ASSUME LifecycleInv, NEW w \in ReviewWorker, worker[w].phase = "running",
         NEW next, Checks(w, next),
         next.pc = "overview" => OutcomeFrom(w, next.outcome),
         \A i \in Item : next.agent[i].state = "stopped" => handler[w].agent[i].state = "stopped"
  PROVE  RowsGo /\ ProcessesGo
  <1>1. UNCHANGED <<run, jobOf>>
    BY DEF Checks
  <1>2. ProcessesGo /\ UNCHANGED job
    <2>1. CASE Fence(LeaseOf(w))
      BY <2>1, Proceeding DEF Checks
    <2>2. CASE ~Fence(LeaseOf(w))
      BY <1>1, <2>2, Returning DEF Checks
    <2> QED BY <2>1, <2>2
  <1> QED BY <1>1, <1>2, KeptRowsGo DEF RowsGo

\* A handler that goes on without touching any row.
LEMMA ThinkingGoes ==
  ASSUME LifecycleInv, NEW w \in ReviewWorker, worker[w].phase = "running",
         NEW next, GoesOn(w, next), UNCHANGED <<run, jobOf>>,
         next.pc = "overview" => OutcomeFrom(w, next.outcome),
         \A i \in Item : next.agent[i].state = "stopped" => handler[w].agent[i].state = "stopped"
  PROVE  RowsGo /\ ProcessesGo
  <1>1. ProcessesGo /\ UNCHANGED job
    BY Proceeding
  <1> QED BY <1>1, KeptRowsGo DEF RowsGo

\* An item that the orchestrator claims or skips.
LEMMA ItemAwaitsGo ==
  ASSUME LifecycleInv, NEW w \in ReviewWorker, worker[w].phase = "running",
         handler[w].pc \notin EarlyPC, NEW op \in {"claim", "skip"}, NEW i \in Item,
         NEW next, Awaits(w, OwnCall(w, op, i, Nobody), next), next.pc # "overview",
         \A k \in Item : next.agent[k].state = "stopped" => handler[w].agent[k].state = "stopped"
  PROVE  RowsGo /\ ProcessesGo
  <1>1. PICK c : c = OwnCall(w, op, i, Nobody)
    OBVIOUS
  <1>2. CallOK(c) /\ c.op # "save"
    BY <1>1, ItemCall
  <1>3. c.lease = LeaseOf(w)
    BY <1>1 DEF OwnCall
  <1> QED BY <1>1, <1>2, <1>3, AwaitsGo

\* The memory of a handler with one field replaced.
LEMMA HandlerWith ==
  ASSUME LifecycleInv, NEW w \in ReviewWorker
  PROVE  /\ \A x \in PC : LET h == [handler[w] EXCEPT !.pc = x]
                          IN  h \in Handler /\ h.pc = x /\ h.agent = handler[w].agent
                              /\ h.todo = handler[w].todo /\ h.outcome = handler[w].outcome
         /\ \A i : LET h == [handler[w] EXCEPT !.todo = @ \ {i}]
                   IN  h \in Handler /\ h.pc = handler[w].pc /\ h.agent = handler[w].agent
                       /\ h.outcome = handler[w].outcome
  <1>1. handler[w] \in Handler
    BY HandlerType
  <1>2. ASSUME NEW i
        PROVE  LET h == [handler[w] EXCEPT !.todo = @ \ {i}]
               IN  h \in Handler /\ h.pc = handler[w].pc /\ h.agent = handler[w].agent
                   /\ h.outcome = handler[w].outcome
    <2>1. handler[w].todo \ {i} \in SUBSET Item
      BY <1>1 DEF Handler
    <2> QED BY <1>1, <2>1, SetHandler
  <1>3. ASSUME NEW x \in PC
        PROVE  LET h == [handler[w] EXCEPT !.pc = x]
               IN  h \in Handler /\ h.pc = x /\ h.agent = handler[w].agent
                   /\ h.todo = handler[w].todo /\ h.outcome = handler[w].outcome
    BY <1>1, SetHandler
  <1> QED BY <1>2, <1>3

StepGoes == RowsGo /\ ProcessesGo

\* The handler looks its review up, and begins it.
LEMMA OpeningGoes ==
  ASSUME LifecycleInv, NEW w \in ReviewWorker, LookUp(w) \/ Prepared(w) \/ Begin(w)
  PROVE  StepGoes
  <1>0. /\ worker[w].phase = "running" /\ handler[w] \in Handler
        /\ LeaseOf(w).job = worker[w].job
    BY RunningLease, HandlerType DEF LookUp, Prepared, Begin, At
  <1>1. CASE LookUp(w)
    <2>1. /\ UNCHANGED <<run, jobOf>>
          /\ IF run[RunOf(w)].deleted \/ run[RunOf(w)].status \in TERMINAL
             THEN Returns(w) ELSE GoesOn(w, [handler[w] EXCEPT !.pc = "preparing"])
      BY <1>1 DEF LookUp
    <2>2. CASE run[RunOf(w)].deleted \/ run[RunOf(w)].status \in TERMINAL
      <3>1. ~Fence(LeaseOf(w))
        BY <1>0, <2>2 DEF Fence, RunOf
      <3>2. ProcessesGo /\ UNCHANGED job
        BY <2>1, <2>2, <3>1, Returning
      <3> QED BY <2>1, <3>2, KeptRowsGo DEF StepGoes, RowsGo
    <2>3. CASE ~(run[RunOf(w)].deleted \/ run[RunOf(w)].status \in TERMINAL)
      <3>1. PICK next : next = [handler[w] EXCEPT !.pc = "preparing"]
        OBVIOUS
      <3>2. next.pc = "preparing" /\ next.agent = handler[w].agent
        BY <3>1, HandlerWith DEF PC
      <3>3. GoesOn(w, next)
        BY <2>1, <2>3, <3>1
      <3> QED BY <1>0, <2>1, <3>2, <3>3, ThinkingGoes DEF StepGoes
    <2> QED BY <2>2, <2>3
  <1>2. CASE Prepared(w)
    <2>1. PICK next : next = [handler[w] EXCEPT !.pc = "begin"]
      OBVIOUS
    <2>2. next.pc = "begin" /\ next.agent = handler[w].agent
      BY <2>1, HandlerWith DEF PC
    <2>3. GoesOn(w, next) /\ UNCHANGED <<run, jobOf>>
      BY <1>2, <2>1 DEF Prepared
    <2> QED BY <1>0, <2>2, <2>3, ThinkingGoes DEF StepGoes
  <1>3. CASE Begin(w)
    <2>1. PICK c : c = OwnCall(w, "begin", Nobody, Nobody)
      OBVIOUS
    <2>2. CallOK(c) /\ c.lease = LeaseOf(w) /\ c.op # "save"
      BY <1>0, <2>1, BeginCall DEF OwnCall
    <2>3. PICK next : next = IF jobOf[worker[w].job].kind = "review"
                             THEN [handler[w] EXCEPT !.pc = "loop"]
                             ELSE [handler[w] EXCEPT !.pc = "overview",
                                                     !.outcome = run[RunOf(w)].report]
      OBVIOUS
    <2>4. /\ next.agent = handler[w].agent
          /\ next.pc = "overview" => next.outcome = run[RunOf(w)].report
      BY <1>0, <2>3 DEF Handler
    <2>5. Awaits(w, c, next)
      BY <1>3, <2>1, <2>3 DEF Begin
    <2> QED BY <1>0, <2>2, <2>4, <2>5, AwaitsGo DEF StepGoes, OutcomeFrom
  <1> QED BY <1>1, <1>2, <1>3

\* An exception ends the review of the handler, or only the handler.
LEMMA ThrowsGoes ==
  ASSUME LifecycleInv, NEW w \in ReviewWorker, Throws(w)
  PROVE  StepGoes
  <1> DEFINE r == RunOf(w)
             fails == handler[w].pc # "start" /\ Fence(LeaseOf(w))
  <1>0. /\ worker[w].phase = "running" /\ r \in Run /\ run[r].status # "absent"
        /\ LeaseOf(w).job = worker[w].job
    BY RunningLease DEF Throws
  <1>1. /\ HandlerEnds(w, IF fails THEN "fatal" ELSE "raised")
        /\ HandlerGone(w, AgentCalls(w))
        /\ UNCHANGED <<job, jobOf>>
        /\ worker' = [worker EXCEPT ![w].phase = IF fails THEN "fatal" ELSE "raised"]
    BY DEF Throws, HandlerEnds
  <1>2. CASE fails
    <2>1. \A s \in Run : RunEnds(s) \/ (run'[s] = run[s] /\ work'[s] = work[s])
      BY ThrowsEnds
    <2>2. /\ run'[r].status \in TERMINAL /\ run[r].status \in Live
          /\ run'[r].report # "completed"
      <3>1. run[r] \in RunRow
        BY <1>0, TableTypes
      <3>2. FailedStatus(work[r]) \in TERMINAL
        BY DEF FailedStatus, TERMINAL
      <3>3. run' = [run EXCEPT ![r] = WithReport(run[r], FailedStatus(work[r]))]
        BY <1>2, TableTypes DEF Throws
      <3>4. run'[r].status = FailedStatus(work[r])
        BY <1>0, <3>1, <3>2, <3>3, ReportedRow, TableTypes
      <3>5. run[r].status \in Live
        BY <1>0, <1>2, <3>1 DEF Fence, RunOf, RunRow, Live
      <3>6. run'[r].report # "completed"
        <4>1. run'[r].report = FailedStatus(work[r])
          BY <1>0, <3>1, <3>2, <3>3, ReportedRow, TableTypes
        <4> QED BY <4>1 DEF FailedStatus
      <3> QED BY <3>2, <3>4, <3>5, <3>6
    <2>3. \A s \in Run \ {r} : run'[s] = run[s]
      BY <1>2, TableTypes DEF Throws
    <2>4. worker'[w].phase = "fatal" /\ LeaseOf(w)' = LeaseOf(w)
      <3>1. worker[w] \in WorkerState /\ worker \in [Worker -> WorkerState] /\ w \in Worker
        BY DEF LifecycleInv, QueueInv, QueueTypeOK
      <3>2. /\ worker'[w].phase = "fatal" /\ worker'[w].job = worker[w].job
            /\ worker'[w].attempt = worker[w].attempt
        BY <1>1, <1>2, <3>1 DEF WorkerState
      <3> QED BY <3>2 DEF LeaseOf
    <2>5. RunGoes(r)
      BY <1>0, <2>2, <2>4 DEF RunGoes, ReportFrom, Excepted
    <2>6. ~Fence(LeaseOf(w))'
      <3>1. jobOf'[LeaseOf(w).job].run = r
        BY <1>0, <1>1 DEF RunOf
      <3> QED BY <2>2, <2>4, <3>1 DEF Fence
    <2>7. ProcessesGo
      BY <1>1, <1>2, <2>2, <2>6, Ending
    <2>8. \A s \in Run : RunGoes(s)
      <3>1. \A s \in Run \ {r} : RunGoes(s)
        BY <2>3 DEF RunGoes
      <3> QED BY <2>5, <3>1
    <2> QED BY <1>1, <2>7, <2>8, KeptRowsGo DEF StepGoes, RowsGo
  <1>3. CASE ~fails
    <2>1. HandlerEnds(w, "raised") /\ UNCHANGED run
      BY <1>1, <1>3 DEF Throws
    <2>2. ProcessesGo
      BY <1>1, <2>1, Ending
    <2> QED BY <1>1, <2>1, <2>2, KeptRowsGo DEF StepGoes, RowsGo
  <1> QED BY <1>2, <1>3

\* The orchestrator looks at the items and judges what is left to do.
LEMMA LookingGoes ==
  ASSUME LifecycleInv, NEW w \in ReviewWorker, Look(w) \/ Judge(w)
  PROVE  StepGoes
  <1>0. worker[w].phase = "running" /\ handler[w] \in Handler
    BY HandlerType DEF Look, Judge, At
  <1>1. CASE Look(w)
    <2>1. PICK next : next = [handler[w] EXCEPT
                !.pc = "judge",
                !.todo = {i \in Item : work[RunOf(w)][i].status \in {"queued", "running"}}]
      OBVIOUS
    <2>2. next.pc = "judge" /\ next.agent = handler[w].agent
      <3>1. PICK t : t = {i \in Item : work[RunOf(w)][i].status \in {"queued", "running"}}
        OBVIOUS
      <3>2. next = [handler[w] EXCEPT !.pc = "judge", !.todo = t]
        BY <2>1, <3>1
      <3> QED BY <1>0, <3>2 DEF Handler
    <2>3. Checks(w, next)
      BY <1>1, <2>1 DEF Look
    <2> QED BY <1>0, <2>2, <2>3, ChecksGo DEF StepGoes
  <1>2. CASE Judge(w)
    <2>1. /\ UNCHANGED <<run, job, jobOf, worker>>
          /\ LeftBehind(AgentCalls(w)) \/ UNCHANGED late
      BY <1>2 DEF Judge, queueVars
    <2>2. PICK next : /\ handler' = [handler EXCEPT ![w] = next]
                      /\ next.pc \in {"draining", "dispatch"}
                      /\ next.agent = handler[w].agent \/ next.agent = NoHandler.agent
      <3>1. CASE deadline[RunOf(w)] = "hard"
        <4>1. PICK next : next = [handler[w] EXCEPT !.pc = "draining", !.agent = NoHandler.agent]
          OBVIOUS
        <4>2. handler' = [handler EXCEPT ![w] = next]
          BY <1>2, <3>1, <4>1, HandlerType DEF Judge
        <4>3. next.pc = "draining" /\ next.agent = NoHandler.agent
          BY <1>0, <4>1 DEF Handler
        <4> QED BY <4>2, <4>3
      <3>2. CASE deadline[RunOf(w)] # "hard"
        <4>1. PICK next : next = [handler[w] EXCEPT !.pc = "dispatch", !.todo = @ \ Busy(w)]
          OBVIOUS
        <4>2. handler' = [handler EXCEPT ![w] = next]
          BY <1>2, <3>2, <4>1, HandlerType DEF Judge
        <4>3. next.pc = "dispatch" /\ next.agent = handler[w].agent
          BY <1>0, <4>1 DEF Handler
        <4> QED BY <4>2, <4>3
      <3> QED BY <3>1, <3>2
    <2>3. \A i \in Item : NoHandler.agent[i].state = "none"
      BY NoHandlerType DEF NoAgents
    <2>4. \A v \in ReviewWorker : ProcessGoes(v)
      <3>1. \A i \in Item : next.agent[i].state = "stopped" => StopsLawfully(w, i)
        BY <2>2, <2>3 DEF StopsLawfully
      <3>2. next.pc # "overview" /\ handler' = [handler EXCEPT ![w] = next]
        BY <2>2
      <3> QED BY <1>0, <2>1, <3>1, <3>2, GoingOn
    <2>5. CallsGo
      BY <1>0, <2>1, LeftCallsGo DEF CallsGo, Saves
    <2> QED BY <2>1, <2>4, <2>5, KeptRowsGo DEF StepGoes, RowsGo, ProcessesGo
  <1> QED BY <1>1, <1>2

\* The orchestrator deals with one item.
LEMMA DispatchingGoes ==
  ASSUME LifecycleInv, NEW w \in ReviewWorker,
         Drain(w) \/ SkipPastCutoff(w) \/ Refuse(w) \/ StartAgent(w)
  PROVE  StepGoes
  <1>0. /\ worker[w].phase = "running" /\ handler[w] \in Handler
        /\ handler[w].pc \in {"draining", "dispatch"} /\ handler[w].pc \notin EarlyPC
        /\ handler[w].todo \subseteq Item
    BY HandlerType DEF Drain, SkipPastCutoff, Refuse, StartAgent, At, EarlyPC, Handler
  <1>1. ASSUME NEW i \in handler[w].todo, NEW next,
               next = [handler[w] EXCEPT !.todo = @ \ {i}],
               Awaits(w, OwnCall(w, "skip", i, Nobody), next)
        PROVE  StepGoes
    <2>1. next.pc = handler[w].pc /\ next.agent = handler[w].agent
      BY <1>1, HandlerWith
    <2>2. /\ i \in Item /\ next.pc # "overview" /\ "skip" \in {"claim", "skip"}
          /\ \A k \in Item : next.agent[k].state = "stopped" => handler[w].agent[k].state = "stopped"
      BY <1>0, <2>1
    <2>3. Awaits(w, OwnCall(w, "skip", i, Nobody), next)
      BY <1>1
    <2> QED BY <1>0, <2>2, <2>3, ItemAwaitsGo, Zenon DEF StepGoes
  <1>2. CASE Drain(w)
    <2>1. CASE GoesOn(w, [handler[w] EXCEPT !.pc = "facts"]) /\ UNCHANGED <<run, jobOf>>
      <3>1. PICK next : next = [handler[w] EXCEPT !.pc = "facts"]
        OBVIOUS
      <3>2. next.pc = "facts" /\ next.agent = handler[w].agent
        BY <3>1, HandlerWith DEF PC
      <3>3. GoesOn(w, next) /\ UNCHANGED <<run, jobOf>>
        BY <2>1, <3>1
      <3> QED BY <1>0, <3>2, <3>3, ThinkingGoes DEF StepGoes
    <2> QED BY <1>1, <1>2, <2>1 DEF Drain
  <1>3. CASE SkipPastCutoff(w)
    BY <1>1, <1>3 DEF SkipPastCutoff
  <1>4. CASE Refuse(w)
    <2>1. PICK i \in handler[w].todo :
             LET next == [handler[w] EXCEPT !.todo = @ \ {i}]
             IN  IF Busy(w) = {} THEN Awaits(w, OwnCall(w, "skip", i, Nobody), next)
                 ELSE GoesOn(w, next) /\ UNCHANGED <<run, work, jobOf, deadline>>
      BY <1>4 DEF Refuse, Foremost
    <2>2. PICK next : next = [handler[w] EXCEPT !.todo = @ \ {i}]
      OBVIOUS
    <2>3. next.pc = handler[w].pc /\ next.agent = handler[w].agent
      BY <2>2, HandlerWith
    <2>4. \/ Awaits(w, OwnCall(w, "skip", i, Nobody), next)
          \/ GoesOn(w, next) /\ UNCHANGED <<run, jobOf>>
      BY <2>1, <2>2
    <2>5. CASE GoesOn(w, next) /\ UNCHANGED <<run, jobOf>>
      BY <1>0, <2>3, <2>5, ThinkingGoes DEF StepGoes
    <2> QED BY <1>1, <2>2, <2>4, <2>5
  <1>5. CASE StartAgent(w)
    <2>1. PICK i \in handler[w].todo :
             LET item == work[RunOf(w)][i]
                 started == [state |-> "working", try |-> item.try + 1]
             IN  Awaits(w, OwnCall(w, "claim", i, Nobody),
                        [handler[w] EXCEPT
                            !.todo = @ \ {i},
                            !.agent[i] = IF item.status = "queued" THEN started ELSE @])
      BY <1>5 DEF StartAgent, Foremost
    <2>2. PICK n : n = work[RunOf(w)][i].try + 1
      OBVIOUS
    <2>3. PICK task : task = IF work[RunOf(w)][i].status = "queued"
                             THEN [state |-> "working", try |-> n]
                             ELSE handler[w].agent[i]
      OBVIOUS
    <2>4. PICK agent : agent = [handler[w].agent EXCEPT ![i] = task]
      OBVIOUS
    <2>5. PICK todo : todo = handler[w].todo \ {i}
      OBVIOUS
    <2>6. PICK next : next = [handler[w] EXCEPT !.todo = todo, !.agent = agent]
      OBVIOUS
    <2>7. Awaits(w, OwnCall(w, "claim", i, Nobody), next)
      BY <2>1, <2>2, <2>3, <2>4, <2>5, <2>6
    <2>8. next.pc = handler[w].pc /\ next.agent = agent
      BY <1>0, <2>6 DEF Handler
    <2>9. \A k \in Item : agent[k].state = "stopped" => handler[w].agent[k].state = "stopped"
      <3>1. DOMAIN handler[w].agent = Item
        BY <1>0 DEF Handler
      <3>2. task.state = "stopped" => handler[w].agent[i].state = "stopped"
        BY <2>3
      <3> QED BY <2>4, <3>1, <3>2
    <2>10. i \in Item /\ next.pc # "overview"
      BY <1>0, <2>8
    <2> QED BY <1>0, <2>7, <2>8, <2>9, <2>10, ItemAwaitsGo DEF StepGoes
  <1> QED BY <1>2, <1>3, <1>4, <1>5

\* The orchestrator waits for its agents, and comes to its end.
LEMMA ConcludingGoes ==
  ASSUME LifecycleInv, NEW w \in ReviewWorker,
         Dispatched(w) \/ Await(w) \/ BuildFacts(w) \/ Save(w)
  PROVE  StepGoes
  <1>0. worker[w].phase = "running" /\ handler[w] \in Handler
    BY HandlerType DEF Dispatched, Await, BuildFacts, Save, At
  <1>1. CASE Dispatched(w)
    <2>1. PICK pc : pc = IF Busy(w) = {} THEN "facts" ELSE "waiting"
      OBVIOUS
    <2>2. PICK next : next = [handler[w] EXCEPT !.todo = {}, !.pc = pc]
      OBVIOUS
    <2>3. next.pc \in {"facts", "waiting"} /\ next.agent = handler[w].agent
      BY <1>0, <2>1, <2>2 DEF Handler
    <2>4. GoesOn(w, next) /\ UNCHANGED <<run, jobOf>>
      BY <1>1, <2>1, <2>2 DEF Dispatched
    <2> QED BY <1>0, <2>3, <2>4, ThinkingGoes DEF StepGoes
  <1>2. CASE Await(w)
    <2>1. UNCHANGED <<run, jobOf>>
      BY <1>2 DEF Await
    <2>2. CASE \E i \in Item : handler[w].agent[i].state = "stopped"
      <3>1. Returns(w)
        BY <1>2, <2>2 DEF Await
      <3>2. ProcessesGo /\ UNCHANGED job
        BY <2>2, <3>1, Returning
      <3> QED BY <2>1, <3>2, KeptRowsGo DEF StepGoes, RowsGo
    <2>3. CASE ~\E i \in Item : handler[w].agent[i].state = "stopped"
      <3>1. PICK agent : agent = [i \in Item |-> IF handler[w].agent[i].state = "done"
                                                 THEN NoTask ELSE handler[w].agent[i]]
        OBVIOUS
      <3>2. PICK next : next = [handler[w] EXCEPT !.pc = "loop", !.agent = agent]
        OBVIOUS
      <3>3. next.pc = "loop" /\ next.agent = agent
        BY <1>0, <3>2 DEF Handler
      <3>4. \A i \in Item : agent[i].state # "stopped"
        BY <2>3, <3>1 DEF NoTask
      <3>5. GoesOn(w, next)
        BY <1>2, <2>3, <3>1, <3>2 DEF Await
      <3> QED BY <1>0, <2>1, <3>3, <3>4, <3>5, ThinkingGoes DEF StepGoes
    <2> QED BY <2>2, <2>3
  <1>3. CASE BuildFacts(w)
    <2>1. PICK v : v = Outcome(work[RunOf(w)])
      OBVIOUS
    <2>2. PICK next : next = [handler[w] EXCEPT !.pc = "overview", !.outcome = v]
      OBVIOUS
    <2>3. next.outcome = v /\ next.agent = handler[w].agent
      BY <1>0, <2>2 DEF Handler
    <2>4. Checks(w, next) /\ OutcomeFrom(w, next.outcome)
      BY <1>3, <2>1, <2>2, <2>3 DEF BuildFacts, OutcomeFrom
    <2> QED BY <1>0, <2>3, <2>4, ChecksGo DEF StepGoes
  <1>4. CASE Save(w)
    <2>1. PICK c : c = OwnCall(w, "save", Nobody, handler[w].outcome)
      OBVIOUS
    <2>2. CallOK(c) /\ c.op = "save" /\ At(w, "overview") /\ Commit(c)
      BY <1>4, <2>1, SaveCall DEF Save
    <2>3. Saves(c) /\ c.lease = LeaseOf(w)
      BY <2>1, <2>2 DEF Saves, OwnCall
    <2>4. /\ UNCHANGED <<job, jobOf>> /\ Returns(w)
          /\ worker' = [worker EXCEPT ![w].phase = "returned"]
      BY <1>4 DEF Save, Returns, HandlerEnds
    <2>5. RowsGo
      BY <2>2, <2>3, <2>4, CommitGoes
    <2>6. CASE ~Works(c)
      <3>1. UNCHANGED run /\ ~Fence(LeaseOf(w))
        BY <2>1, <2>2, <2>3, <2>6 DEF Commit, Works, Accepts
      <3> QED BY <2>4, <2>5, <3>1, Returning DEF StepGoes
    <2>7. CASE Works(c)
      <3>1. PICK r : r = jobOf[c.lease.job].run
        OBVIOUS
      <3>2. /\ r \in Run /\ RowAfter(r, c).status = c.value /\ c.value \in TERMINAL
        BY <2>2, <2>7, <3>1, WorksFacts DEF CallForm, Reported, TERMINAL
      <3>3. run'[r].status \in TERMINAL
        BY <2>2, <2>7, <3>1, <3>2, TableTypes DEF Commit
      <3>4. LeaseOf(w)' = c.lease
        <4>1. worker[w] \in WorkerState /\ worker \in [Worker -> WorkerState] /\ w \in Worker
          BY DEF LifecycleInv, QueueInv, QueueTypeOK
        <4>2. worker'[w].job = worker[w].job /\ worker'[w].attempt = worker[w].attempt
          BY <2>4, <4>1 DEF WorkerState
        <4> QED BY <2>3, <4>2 DEF LeaseOf
      <3>5. jobOf'[c.lease.job].run = r
        BY <2>4, <3>1
      <3>6. ~Fence(LeaseOf(w))'
        BY <3>3, <3>4, <3>5 DEF Fence
      <3> QED BY <2>4, <2>5, <3>6, Returning DEF StepGoes
    <2> QED BY <2>6, <2>7
  <1> QED BY <1>1, <1>2, <1>3, <1>4

\* An agent of w ends, or writes to the store.
LEMMA AgentsGo ==
  ASSUME LifecycleInv, NEW w \in ReviewWorker
  PROVE  /\ \A u \in Unit : Submit(w, u) \/ Deliver(w, u) => StepGoes
         /\ \A i \in Item : AgentEnds(w, i) => StepGoes
  <1>1. ASSUME NEW c, CallOK(c), c.op # "save", Commit(c),
               UNCHANGED <<queueVars, jobOf, handler, late>>
        PROVE  StepGoes
    <2>1. UNCHANGED <<job, worker, jobOf, handler, late>>
      BY <1>1 DEF queueVars
    <2>2. RowsGo
      BY <1>1, <2>1, CommitGoes
    <2>3. ProcessesGo
      BY <2>1, KeptProcessGoes DEF ProcessesGo, CallsGo, Saves
    <2> QED BY <2>2, <2>3 DEF StepGoes
  <1>2. ASSUME NEW u \in Unit, Submit(w, u) PROVE StepGoes
    <2>1. PICK x \in FreshCandidates(RunOf(w)) : Commit(AgentCall(w, "submit", u, x))
      BY <1>2 DEF Submit
    <2>2. x \in Candidate /\ x \in Item /\ u \in Working(w) /\ worker[w].phase = "running"
      BY <1>2 DEF FreshCandidates, Item, Submit
    <2>3. PICK c : c = AgentCall(w, "submit", u, x)
      OBVIOUS
    <2>4. CallOK(c) /\ c.op = "submit"
      BY <2>2, <2>3, AgentCallOK
    <2> QED BY <1>1, <1>2, <2>1, <2>3, <2>4 DEF Submit
  <1>3. ASSUME NEW u \in Unit, Deliver(w, u) PROVE StepGoes
    <2>1. PICK c : c = AgentCall(w, "deliver", u, Nobody)
      OBVIOUS
    <2>2. CallOK(c) /\ c.op = "deliver"
      BY <1>3, <2>1, AgentCallOK DEF Deliver
    <2> QED BY <1>1, <1>3, <2>1, <2>2 DEF Deliver
  <1>4. ASSUME NEW i \in Item, NEW state \in {"done", "stopped"}, AgentIs(w, i, state),
               i \in Working(w), worker[w].phase = "running", RowsGo,
               state = "stopped" => ~Fence(LeaseOf(w))' \/ (i \in Unit /\ deadline[RunOf(w)] = "hard")
        PROVE  StepGoes
    <2>1. PICK next \in Handler :
             /\ handler' = [handler EXCEPT ![w] = next]
             /\ next.pc = handler[w].pc /\ next.outcome = handler[w].outcome
             /\ next.agent[i].state = state
             /\ \A k \in Item \ {i} : next.agent[k] = handler[w].agent[k]
      BY <1>4, AgentSet
    <2>2. UNCHANGED worker /\ UNCHANGED late
      BY <1>4 DEF AgentIs, queueVars
    <2>3. \A k \in Item : next.agent[k].state = "stopped" => StopsLawfully(w, k)
      BY <1>4, <2>1 DEF StopsLawfully
    <2>4. next.pc = "overview" => OutcomeFrom(w, next.outcome)
      BY <2>1 DEF OutcomeFrom
    <2>5. \A v \in ReviewWorker : ProcessGoes(v)
      BY <1>4, <2>1, <2>2, <2>3, <2>4, GoingOn
    <2> QED BY <1>4, <2>2, <2>5 DEF StepGoes, ProcessesGo, CallsGo, Saves
  <1>5. ASSUME NEW i \in Item, NEW s \in Endings, Finish(w, i, s) PROVE StepGoes
    <2>1. PICK c : c = AgentCall(w, "finish", i, s)
      OBVIOUS
    <2>2. /\ worker[w].phase = "running" /\ i \in Working(w) /\ Commit(c)
          /\ AgentIs(w, i, "done") /\ s \in WorkStatus
      BY <1>5, <2>1 DEF Finish, Endings, WorkStatus
    <2>3. CallOK(c) /\ c.op = "finish"
      BY <2>1, <2>2, AgentCallOK
    <2>4. UNCHANGED <<job, jobOf>>
      BY <2>2 DEF AgentIs, queueVars
    <2>5. RowsGo
      BY <2>2, <2>3, <2>4, CommitGoes
    <2> QED BY <1>4, <2>2, <2>5
  <1>6. ASSUME NEW i \in Item, AgentStops(w, i) PROVE StepGoes
    <2>1. /\ worker[w].phase = "running" /\ i \in Working(w) /\ AgentIs(w, i, "stopped")
          /\ UNCHANGED <<run, work, job, jobOf, worker>>
      BY <1>6 DEF AgentStops, AgentIs, queueVars
    <2>2. ~Fence(LeaseOf(w)) \/ (i \in Unit /\ deadline[RunOf(w)] = "hard")
      <3>1. CASE ~Works(AgentCall(w, "finish", i, "completed"))
        <4>1. PICK c : c = AgentCall(w, "finish", i, "completed")
          OBVIOUS
        <4>2. /\ "completed" \in WorkStatus /\ "completed" \in Endings
              /\ "finish" \in {"deliver", "submit", "finish"}
          BY DEF WorkStatus, Endings
        <4>3. /\ c.lease = LeaseOf(w) /\ c.op = "finish" /\ c.item = i
              /\ c.try = handler[w].agent[i].try
          BY <4>1 DEF AgentCall
        <4>4. SUFFICES ASSUME Fence(LeaseOf(w)) PROVE FALSE
          OBVIOUS
        <4>5. Grip(LeaseOf(w))
          BY <4>4 DEF Fence, Owns, Grip
        <4>6. /\ work[RunOf(w)][i].status = "running"
              /\ work[RunOf(w)][i].try = handler[w].agent[i].try
          BY <2>1, <4>5, HandlerType DEF Agrees, Working
        <4>7. jobOf[c.lease.job].run = RunOf(w)
          BY <4>3 DEF LeaseOf, RunOf
        <4>8. Works(c)
          BY <4>3, <4>4, <4>6, <4>7 DEF Works, Accepts, SameAttempt
        <4> QED BY <3>1, <4>1, <4>8
      <3> QED BY <1>6, <3>1 DEF AgentStops
    <2>3. Fence(LeaseOf(w))' = Fence(LeaseOf(w))
      BY <2>1, SameFence
    <2>4. RowsGo
      BY <2>1, KeptRowsGo DEF RowsGo
    <2> QED BY <1>4, <2>1, <2>2, <2>3, <2>4
  <1> QED BY <1>2, <1>3, <1>5, <1>6 DEF AgentEnds, Endings

\* A call left behind gets to its transaction.
LEMMA LateCallGoes ==
  ASSUME LifecycleInv, NEW c \in late, LateCall(c)
  PROVE  StepGoes
  <1>1. /\ UNCHANGED <<job, worker, jobOf, handler>> /\ Commit(c) /\ late' \subseteq late
    BY DEF LateCall, queueVars
  <1>2. CallOK(c) /\ (c.op = "save" => Saves(c))
    BY DEF LifecycleInv, LateOK, Saves
  <1>3. RowsGo
    BY <1>1, <1>2, CommitGoes
  <1>4. ProcessesGo
    BY <1>1, KeptProcessGoes DEF ProcessesGo, CallsGo, Saves
  <1> QED BY <1>3, <1>4 DEF StepGoes

\* Jobs that keep their status.
LEMMA SameStatusGoes ==
  ASSUME LifecycleInv, QuietJobs, UNCHANGED jobOf, NEW j \in ReviewJob,
         job'[j].status = job[j].status
  PROVE  JobGoes(j)
  BY DEF JobGoes, QuietJobs

\* A process that was not holding a job, or lets go of it.
LEMMA LettingGo ==
  ASSUME LifecycleInv, NEW w \in ReviewWorker, worker'[w].phase \notin Holding,
         \A v \in ReviewWorker \ {w} : worker'[v] = worker[v] /\ handler'[v] = handler[v],
         late' \subseteq late
  PROVE  ProcessesGo
  BY KeptProcessGoes DEF ProcessesGo, ProcessGoes, CallsGo, Saves

\* A process starts polling, or dies.
LEMMA PollingGoes ==
  ASSUME LifecycleInv, NEW w \in ReviewWorker, Polls(w) \/ Dies(w)
  PROVE  StepGoes
  <1>0. w \in Worker /\ worker \in [Worker -> WorkerState] /\ worker[w] \in WorkerState
    BY DEF LifecycleInv, QueueInv, QueueTypeOK
  <1>1. UNCHANGED <<job, run, jobOf>>
    BY DEF Polls, Dies, Start, StartClaim, Kill, lifecycleVars
  <1>2. worker'[w].phase \in {"idle", "claiming", "killed"}
    BY <1>0 DEF Polls, Dies, Start, StartClaim, Kill, NoWork, WorkerState
  <1>3. /\ \A v \in ReviewWorker \ {w} : worker'[v] = worker[v] /\ handler'[v] = handler[v]
        /\ late' \subseteq late
    BY <1>0, HandlerType DEF Polls, Dies, Start, StartClaim, Kill, lifecycleVars
  <1>4. worker'[w].phase \notin Holding
    BY <1>2 DEF Holding, Ended, Failed
  <1> QED BY <1>1, <1>3, <1>4, LettingGo, KeptRowsGo DEF StepGoes, RowsGo

\* A claim buries jobs and ends their reviews.
LEMMA BurialGoes ==
  ASSUME LifecycleInv, NEW w \in ReviewWorker, NEW d \in Age,
         ClaimJob(w, d, LiveJobs) \/ ClaimNothing(w, d, LiveJobs), QuietJobs,
         Reap(d), UNCHANGED jobOf
  PROVE  RowsGo
  <1>0. run \in [Run -> RunRow] /\ work \in [Run -> Items] /\ DOMAIN AfterBurial(d) = Job
    BY TableTypes DEF AfterBurial
  <1>1. PICK reaped : reaped = {r \in Run : /\ \E j \in JobsOf(r) : j \in Buried(d)
                                            /\ run[r].status \in Live /\ ~run[r].deleted}
    OBVIOUS
  <1>2. /\ work' = [r \in Run |-> IF r \in reaped THEN Exhausted(work[r]) ELSE work[r]]
        /\ run' = [r \in Run |-> IF r \in reaped
                                 THEN WithReport(run[r], ReapedStatus(work'[r])) ELSE run[r]]
    BY <1>1 DEF Reap
  <1>3. ASSUME NEW r \in reaped PROVE RunGoes(r) /\ run'[r].status \in TERMINAL
    <2>1. r \in Run /\ run[r].status \in Live /\ run[r] \in RunRow
      BY <1>0, <1>1
    <2>2. work'[r] = Exhausted(work[r]) /\ run'[r] = WithReport(run[r], ReapedStatus(work'[r]))
      BY <1>2, <2>1
    <2>3. PICK status : status = ReapedStatus(work'[r])
      OBVIOUS
    <2>4. status \in TERMINAL
      BY <2>3, OutcomeFacts DEF ReapedStatus, Reported, TERMINAL
    <2>5. run'[r].status = status /\ run'[r].report = status
      BY <2>1, <2>2, <2>3, <2>4, ReportedRow
    <2> QED BY <2>1, <2>2, <2>3, <2>4, <2>5 DEF RunGoes, ReportFrom
  <1>4. \A r \in Run \ reaped : run'[r] = run[r]
    BY <1>2
  <1>5. ASSUME NEW j \in ReviewJob, job[j].status \in Active, job'[j].status \notin Active
        PROVE  run'[jobOf[j].run].status \in TERMINAL
    <2>1. j \in Buried(d)
      <3> SUFFICES ASSUME j \notin Buried(d) PROVE FALSE
        OBVIOUS
      <3>1. AfterBurial(d)[j] = job[j]
        BY DEF AfterBurial
      <3>2. CASE ClaimNothing(w, d, LiveJobs)
        BY <1>5, <3>1, <3>2 DEF ClaimNothing
      <3>3. CASE ClaimJob(w, d, LiveJobs)
        <4>1. PICK k \in Oldest(Candidates(w, d, LiveJobs)) :
                job' = [AfterBurial(d) EXCEPT ![k] = Granted(w, k, d)]
          BY <3>3 DEF ClaimJob
        <4>2. k \in Job /\ job[k].attempts < job[k].max /\ k \in ReviewJob
          BY DEF Oldest, Candidates, Serves, Eligible
        <4>3. CASE k = j
          <5>1. job'[j] = Granted(w, j, d)
            BY <1>0, <4>1, <4>2, <4>3
          <5>2. job'[j].status = "leased"
            BY <4>2, <4>3, <5>1, GrantedRow, ReviewRow DEF LifecycleInv
          <5> QED BY <1>5, <5>2 DEF Active
        <4>4. CASE k # j
          BY <1>0, <1>5, <3>1, <4>1, <4>4
        <4> QED BY <4>3, <4>4
      <3> QED BY <3>2, <3>3
    <2>2. PICK r : r = jobOf[j].run
      OBVIOUS
    <2>3. r \in Run /\ run[r].status # "absent" /\ ~run[r].deleted /\ j \in JobsOf(r)
      BY <1>5, <2>2, JobRun DEF LifecycleInv, JobOK, LiveJobs, JobsOf
    <2>4. CASE r \in reaped
      BY <1>3, <2>2, <2>4
    <2>5. CASE r \notin reaped
      <3>1. run[r].status \notin Live /\ run[r] \in RunRow
        BY <1>0, <1>1, <2>1, <2>3, <2>5
      <3> QED BY <1>4, <2>2, <2>3, <2>5, <3>1 DEF RunRow
    <2> QED BY <2>4, <2>5
  <1>6. \A j \in ReviewJob : JobGoes(j)
    BY <1>5 DEF JobGoes, QuietJobs
  <1>7. \A r \in Run \ reaped : RunGoes(r)
    BY <1>4 DEF RunGoes
  <1> QED BY <1>3, <1>6, <1>7 DEF RowsGo

\* A process claims, and begins to work or goes on polling.
LEMMA ClaimingGoes ==
  ASSUME LifecycleInv, NEW w \in ReviewWorker, NEW d \in Age,
         ClaimReview(w, d) \/ ClaimNoReview(w, d)
  PROVE  StepGoes
  <1>0. w \in Worker /\ worker \in [Worker -> WorkerState] /\ worker[w] \in WorkerState
        /\ QueueInv
    BY DEF LifecycleInv, QueueInv, QueueTypeOK
  <1>1. CASE ClaimReview(w, d)
    <2>1. /\ ClaimJob(w, d, LiveJobs) /\ Reap(d) /\ UNCHANGED <<jobOf, late>>
          /\ handler' = [handler EXCEPT ![w].pc = "start"]
      BY <1>1 DEF ClaimReview
    <2>2. /\ QuietJobs
          /\ worker[w].phase = "claiming"
          /\ \A v \in ReviewWorker \ {w} : worker'[v] = worker[v]
          /\ worker'[w].phase = "running"
          /\ worker'[w].job \in ReviewJob \cap LiveJobs
      BY <1>0, <2>1, ClaimJobFacts
    <2>3. /\ \A v \in ReviewWorker \ {w} : handler'[v] = handler[v]
          /\ handler'[w].pc = "start" /\ handler'[w].agent = handler[w].agent
      <3>1. PICK h : h = [handler[w] EXCEPT !.pc = "start"]
        OBVIOUS
      <3>2. h.pc = "start" /\ h.agent = handler[w].agent
        BY <3>1, HandlerWith DEF PC
      <3>3. handler' = [handler EXCEPT ![w] = h]
        BY <2>1, <3>1
      <3> QED BY <3>2, <3>3, HandlerType
    <2>4. handler[w] = NoHandler /\ worker[w].phase \notin Holding
      BY <2>2 DEF LifecycleInv, HandlerOK, Holding, Ended, Failed
    <2>5. \A i \in Item : handler'[w].agent[i].state = "none"
      BY <2>3, <2>4, NoHandlerType DEF NoAgents
    <2>6. Begins(w)
      BY <2>1, <2>2, <2>3, <2>4, <2>5 DEF Begins, LiveJobs
    <2>7. ProcessesGo
      BY <2>1, <2>2, <2>3, <2>6, KeptProcessGoes DEF ProcessesGo, ProcessGoes, CallsGo, Saves
    <2> QED BY <2>1, <2>2, <2>7, BurialGoes DEF StepGoes
  <1>2. CASE ClaimNoReview(w, d)
    <2>1. ClaimNothing(w, d, LiveJobs) /\ Reap(d) /\ UNCHANGED <<jobOf, handler, late>>
      BY <1>2 DEF ClaimNoReview
    <2>2. QuietJobs
      BY <1>0, <2>1, ClaimNothingIsQuiet
    <2>3. /\ worker'[w].phase \in {"stopped", "idle"}
          /\ \A v \in ReviewWorker \ {w} : worker'[v] = worker[v]
      BY <1>0, <2>1 DEF ClaimNothing, AfterRunOnce, NoWork
    <2>4. worker'[w].phase \notin Holding
      BY <2>3 DEF Holding, Ended, Failed
    <2> QED BY <2>1, <2>2, <2>3, <2>4, LettingGo, BurialGoes DEF StepGoes
  <1> QED BY <1>1, <1>2

\* A process tells the queue how its handler ended.
LEMMA ReportingGoes ==
  ASSUME LifecycleInv, NEW w \in ReviewWorker, NEW d \in Age, Reports(w, d)
  PROVE  StepGoes
  <1> DEFINE j == worker[w].job
             v == VerdictOn(w, job[j])
             done == Unleased(job[j], "completed")
             over == FailedRow(job[j], v, d)
  <1>1. /\ Complete(w, d) \/ Fail(w, d)
        /\ UNCHANGED <<run, jobOf, handler, late>>
        /\ QueueInv /\ w \in Worker
    BY DEF Reports, lifecycleVars, LifecycleInv
  <1>2. QuietJobs
    BY <1>1, ReceiptIsQuiet
  <1>3. /\ worker \in [Worker -> WorkerState] /\ worker[w] \in WorkerState
        /\ job \in [Job -> JobRow]
    BY <1>1 DEF QueueInv, QueueTypeOK
  <1>4. worker' = [worker EXCEPT ![w] = AfterRunOnce(w)]
    BY <1>1 DEF Complete, Fail, Release
  <1>5. AfterRunOnce(w).phase \in {"stopped", "idle"}
    BY DEF AfterRunOnce, NoWork
  <1>6. /\ \A x \in ReviewWorker \ {w} : worker'[x] = worker[x]
        /\ worker'[w].phase \notin Holding
    BY <1>1, <1>3, <1>4, <1>5 DEF Holding, Ended, Failed
  <1>7. ProcessesGo
    BY <1>1, <1>6, LettingGo
  <1>8. ASSUME NEW k \in ReviewJob, job[k].status \in Active, job'[k].status \notin Active
        PROVE  GivesUp(w, k)
    <2>1. /\ worker[w].phase \in Holding /\ worker[w].phase \in Ended
          /\ j \in Job /\ GoodRow(job[j])
      BY <1>1, HeldJob, InvRows DEF Complete, Fail, Holding, Ended
    <2>2. job' # job
      BY <1>8
    <2>3. Owns(w, j, worker[w].attempt, d)
      BY <1>1, <2>2 DEF Complete, Fail
    <2>4. Grip(LeaseOf(w))
      BY <2>3 DEF Grip, LeaseOf, Owns
    <2>5. CASE Complete(w, d)
      <3>1. worker[w].phase = "returned" /\ job' = [job EXCEPT ![j] = done]
        BY <2>3, <2>5 DEF Complete
      <3>2. k = j
        <4> HIDE DEF j, done
        <4> QED BY <1>8, <1>3, <3>1
      <3> QED BY <1>6, <2>1, <2>2, <2>4, <3>1, <3>2 DEF GivesUp
    <2>6. CASE Fail(w, d)
      <3>1. job' = [job EXCEPT ![j] = over]
        BY <2>3, <2>6 DEF Fail
      <3>2. k = j /\ job'[j] = over
        <4> HIDE DEF j, over
        <4> QED BY <1>8, <1>3, <2>1, <3>1
      <3>3. v \in Verdict /\ v.status # "none"
        BY <2>1, VerdictType DEF GoodRow
      <3>4. over.status = v.status
        <4>1. PICK x \in Verdict : x = v
          BY <3>3
        <4>2. over = FailedRow(job[j], x, d) /\ x.status # "none"
          BY <3>3, <4>1
        <4>3. FailedRow(job[j], x, d).status = x.status
          BY <2>1, <4>2, FailedRowIsGood
        <4> QED BY <4>1, <4>2, <4>3
      <3>5. v.status # "retry"
        BY <1>8, <3>2, <3>4 DEF Active
      <3>6. worker[w].phase = "fatal" \/ ~(job[j].attempts < job[j].max)
        BY <3>5 DEF VerdictOn
      <3>7. worker[w].phase = "fatal" \/ LastTry(w)
        <4>1. job[j].attempts \in Nat /\ job[j].max \in Nat
          BY <2>1, <1>3 DEF JobRow
        <4> QED BY <3>6, <4>1 DEF LastTry
      <3> QED BY <1>6, <2>1, <2>2, <2>4, <3>2, <3>7 DEF GivesUp
    <2> QED BY <1>1, <2>5, <2>6
  <1>9. \A k \in ReviewJob : JobGoes(k)
    BY <1>1, <1>2, <1>8 DEF JobGoes, QuietJobs
  <1> QED BY <1>1, <1>7, <1>9, KeptRowsGo DEF StepGoes, RowsGo

\* A handler may be cancelled with all that it has under way.
LEMMA InterruptGoes ==
  ASSUME LifecycleInv, QuietJobs, NEW w \in ReviewWorker, NEW step, MayInterrupt(w, step),
         \A v \in ReviewWorker \ {w} : worker'[v] = worker[v],
         worker'[w].phase \in Holding =>
             /\ worker[w].phase \in Holding
             /\ worker'[w].job = worker[w].job /\ worker'[w].attempt = worker[w].attempt
             /\ \/ worker'[w].phase = worker[w].phase
                \/ worker[w].phase = "running" /\ worker'[w].phase = "cancelled",
         \A j \in ReviewJob : job'[j].status = job[j].status
  PROVE  StepGoes
  <1>1. UNCHANGED <<run, jobOf>>
    BY DEF MayInterrupt
  <1>2. RowsGo
    BY <1>1, SameStatusGoes, KeptRowsGo DEF RowsGo
  <1>3. CASE worker[w].phase = "running" /\ worker'[w].phase = "cancelled"
    <2>1. HandlerGone(w, AgentCalls(w) \cup OrchestratorCalls(w))
      BY <1>3 DEF MayInterrupt
    <2>2. CallsGo
      BY <1>3, <2>1, LeftCallsGo DEF HandlerGone
    <2>3. \A v \in ReviewWorker \ {w} : handler'[v] = handler[v]
      BY <2>1, HandlerType DEF HandlerGone
    <2>4. ProcessGoes(w)
      BY <1>3 DEF ProcessGoes, SameWork, EndsLawfully
    <2> QED BY <1>2, <2>2, <2>3, <2>4, KeptProcessGoes DEF StepGoes, ProcessesGo
  <1>4. CASE ~(worker[w].phase = "running" /\ worker'[w].phase = "cancelled")
    <2>1. UNCHANGED <<handler, late>>
      BY <1>4 DEF MayInterrupt
    <2>2. ProcessGoes(w)
      BY <1>4, <2>1 DEF ProcessGoes, SameWork, OutcomeFrom, StopsLawfully
    <2> QED BY <1>2, <2>1, <2>2, KeptProcessGoes
        DEF StepGoes, ProcessesGo, CallsGo, Saves
  <1> QED BY <1>3, <1>4

\* A heartbeat, a shutdown or a request of a user may cancel the handler.
LEMMA InterruptingGoes ==
  ASSUME LifecycleInv, NEW w \in ReviewWorker
  PROVE  /\ \A d \in Age : MayInterrupt(w, Heartbeat(w, d)) => StepGoes
         /\ MayInterrupt(w, Stop(w)) => StepGoes
         /\ MayInterrupt(w, CancelHandler(w)) => StepGoes
  <1>0. /\ QueueInv /\ w \in Worker
        /\ worker \in [Worker -> WorkerState] /\ worker[w] \in WorkerState
        /\ job \in [Job -> JobRow]
    BY DEF LifecycleInv, QueueInv, QueueTypeOK
  <1>1. ASSUME NEW d \in Age, MayInterrupt(w, Heartbeat(w, d)) PROVE StepGoes
    <2> DEFINE p == IF worker[w].phase = "running" THEN "cancelled" ELSE worker[w].phase
               j == worker[w].job
               row == [job[j] EXCEPT !.left = LeaseTicks - d]
    <2>1. Heartbeat(w, d)
      BY <1>1 DEF MayInterrupt
    <2>2. QuietJobs
      BY <1>0, <2>1, HeartbeatIsQuiet
    <2>3. \/ worker' = worker
          \/ worker' = [worker EXCEPT ![w] = [[@ EXCEPT !.phase = p] EXCEPT !.beating = FALSE]]
      BY <1>0, <2>1 DEF Heartbeat
    <2>4. /\ \A v \in ReviewWorker \ {w} : worker'[v] = worker[v]
          /\ \/ worker' = worker
             \/ /\ worker'[w].phase = p
                /\ worker'[w].job = worker[w].job /\ worker'[w].attempt = worker[w].attempt
      <3> DEFINE next == [[worker[w] EXCEPT !.phase = p] EXCEPT !.beating = FALSE]
      <3>1. next.phase = p /\ next.job = worker[w].job /\ next.attempt = worker[w].attempt
        BY <1>0, BeatenProcess
      <3>2. worker' = worker \/ worker' = [worker EXCEPT ![w] = next]
        BY <2>3
      <3> HIDE DEF next, p
      <3> QED BY <1>0, <3>1, <3>2
    <2>5. worker[w].phase \in Holding /\ j \in Job
      BY <1>0, <2>1, HeldJob DEF Heartbeat
    <2>6. \A k \in ReviewJob : job'[k].status = job[k].status
      <3>1. row.status = job[j].status
        BY <1>0, <2>5 DEF JobRow
      <3>2. job' = job \/ job' = [job EXCEPT ![j] = row]
        BY <2>1 DEF Heartbeat, Renewed
      <3> HIDE DEF row, j
      <3> QED BY <1>0, <3>1, <3>2
    <2> QED BY <1>1, <2>2, <2>4, <2>5, <2>6, InterruptGoes
  <1>2. ASSUME MayInterrupt(w, Stop(w)) PROVE StepGoes
    <2> DEFINE p == CASE worker[w].phase = "idle" -> "stopped"
                      [] worker[w].phase = "running" /\ w \in ReviewWorker -> "cancelled"
                      [] OTHER -> worker[w].phase
    <2>1. Stop(w) /\ job' = job
      BY <1>2 DEF MayInterrupt, Stop
    <2>2. worker' = [worker EXCEPT ![w] = [[@ EXCEPT !.stopping = TRUE] EXCEPT !.phase = p]]
      BY <1>0, <2>1 DEF Stop
    <2>3. /\ \A v \in ReviewWorker \ {w} : worker'[v] = worker[v]
          /\ worker'[w].phase = p
          /\ worker'[w].job = worker[w].job /\ worker'[w].attempt = worker[w].attempt
      <3> HIDE DEF p
      <3> QED BY <1>0, <2>2 DEF WorkerState
    <2>4. p \in Holding =>
             /\ worker[w].phase \in Holding
             /\ p = worker[w].phase \/ (worker[w].phase = "running" /\ p = "cancelled")
      BY DEF Holding, Ended, Failed
    <2>5. QuietJobs
      BY <1>0, <2>1, KeptJobs
    <2> HIDE DEF p
    <2> QED BY <1>2, <2>1, <2>3, <2>4, <2>5, InterruptGoes
  <1>3. ASSUME MayInterrupt(w, CancelHandler(w)) PROVE StepGoes
    <2>1. CancelHandler(w) /\ job' = job
      BY <1>3 DEF MayInterrupt, CancelHandler
    <2>2. /\ \A v \in ReviewWorker \ {w} : worker'[v] = worker[v]
          /\ worker'[w].phase = "cancelled" /\ worker[w].phase = "running"
          /\ worker'[w].job = worker[w].job /\ worker'[w].attempt = worker[w].attempt
      BY <1>0, <2>1 DEF CancelHandler, WorkerState
    <2>3. QuietJobs
      BY <1>0, <2>1, KeptJobs
    <2> QED BY <1>3, <2>1, <2>2, <2>3, InterruptGoes DEF Holding
  <1> QED BY <1>1, <1>2, <1>3

\* Time passes, or a deadline; or nothing happens at all.
LEMMA WaitingGoes ==
  ASSUME LifecycleInv,
         TimePasses \/ (\E r \in Run : DeadlinePasses(r)) \/ UNCHANGED vars
  PROVE  StepGoes
  <1>1. UNCHANGED <<run, jobOf, worker, handler, late>>
    BY DEF TimePasses, Tick, DeadlinePasses, queueVars, lifecycleVars, vars
  <1>2. ProcessesGo
    BY <1>1, KeptProcessGoes DEF ProcessesGo, CallsGo, Saves
  <1>3. CASE job' = job
    BY <1>1, <1>2, <1>3, KeptRowsGo DEF StepGoes, RowsGo
  <1>4. CASE TimePasses
    <2> DEFINE t(j) == [job[j] EXCEPT !.left = Down(@, Expired), !.wait = Down(@, Ready)]
    <2>1. \A j \in Job : t(j).status = job[j].status
      BY InvRows, TickedRow DEF LifecycleInv
    <2>2. Tick /\ job' = [j \in Job |-> t(j)]
      BY <1>4 DEF TimePasses, Tick
    <2>3. QuietJobs
      BY <2>2, TickIsQuiet DEF LifecycleInv
    <2> HIDE DEF t
    <2>4. \A j \in ReviewJob : job'[j].status = job[j].status
      BY <2>1, <2>2, ReviewRow
    <2> QED BY <1>1, <1>2, <2>3, <2>4, SameStatusGoes, KeptRowsGo DEF StepGoes, RowsGo
  <1> QED BY <1>3, <1>4 DEF DeadlinePasses, queueVars, vars

\* A caller leaves every process and every call alone.
LEMMA UntouchedGoes ==
  ASSUME LifecycleInv, Untouched
  PROVE  ProcessesGo
  BY KeptProcessGoes DEF Untouched, ProcessesGo, CallsGo, Saves

\* A job that is stopped was that of a review to be stopped.
LEMMA OnlyTheirJobs ==
  ASSUME NEW rs, NEW j \in ReviewJob, JobsStopped(rs)[j] # job[j]
  PROVE  jobOf[j].run \in rs
  BY DEF JobsStopped

\* Reviews that are stopped, with the jobs that were to take them further.
LEMMA StoppingGoes ==
  ASSUME LifecycleInv, NEW rs \in SUBSET Run, \A r \in rs : run[r].status \in Live
  PROVE  /\ \A r \in Run : run'[r] = Stopped(rs)[r] => RunGoes(r)
         /\ \A r \in Run : r \in rs /\ run'[r] = Stopped(rs)[r] => run'[r].status \in TERMINAL
         /\ \A j \in ReviewJob :
               /\ job'[j] = JobsStopped(rs)[j] /\ jobOf'[j] = jobOf[j]
               /\ \A r \in rs : run'[r] = Stopped(rs)[r]
               => JobGoes(j)
  <1>1. /\ \A r \in Run \ rs : Stopped(rs)[r] = run[r]
        /\ \A r \in rs : /\ Stopped(rs)[r].status = "cancelled"
                         /\ Stopped(rs)[r].report = run[r].report
    BY StoppedRows
  <1>2. "cancelled" \in TERMINAL
    BY DEF TERMINAL
  <1>3. ASSUME NEW j \in ReviewJob, job'[j] = JobsStopped(rs)[j], jobOf'[j] = jobOf[j],
               \A r \in rs : run'[r] = Stopped(rs)[r]
        PROVE  JobGoes(j)
    <2>1. QuietRow(j)
      BY <1>3, StoppedIsQuiet
    <2>2. CASE job'[j] = job[j]
      BY <1>3, <2>1, <2>2 DEF JobGoes
    <2>3. CASE job'[j] # job[j]
      <3>1. jobOf[j].run \in rs
        BY <1>3, <2>3, OnlyTheirJobs
      <3> QED BY <1>1, <1>2, <1>3, <2>1, <3>1 DEF JobGoes
    <2> QED BY <2>2, <2>3
  <1>4. ASSUME NEW r \in Run, run'[r] = Stopped(rs)[r] PROVE RunGoes(r)
    <2>1. CASE r \in rs
      BY <1>1, <1>2, <1>4, <2>1 DEF RunGoes, ReportFrom
    <2>2. CASE r \notin rs
      BY <1>1, <1>4, <2>2 DEF RunGoes
    <2> QED BY <2>1, <2>2
  <1> QED BY <1>1, <1>2, <1>3, <1>4

\* A user cancels a review, or a newer head makes reviews obsolete.
LEMMA CancellingGoes ==
  ASSUME LifecycleInv,
         (\E r \in Run : Cancel(r)) \/ (\E head, seen : Supersede(head, seen))
  PROVE  StepGoes
  <1>1. PICK rs \in SUBSET Run :
          /\ \A r \in rs : run[r].status \in Live
          /\ run' = Stopped(rs) /\ job' = JobsStopped(rs) /\ jobOf' = jobOf /\ Untouched
    <2>1. ASSUME NEW r \in Run, Cancel(r)
          PROVE  /\ {r} \in SUBSET Run /\ \A s \in {r} : run[s].status \in Live
                 /\ run' = Stopped({r}) /\ job' = JobsStopped({r}) /\ jobOf' = jobOf /\ Untouched
      BY <2>1 DEF Cancel
    <2>2. ASSUME NEW head, NEW seen, Supersede(head, seen), NEW old, old = Obsolete(head) \cap seen
          PROVE  /\ old \in SUBSET Run /\ \A s \in old : run[s].status \in Live
                 /\ run' = Stopped(old) /\ job' = JobsStopped(old) /\ jobOf' = jobOf /\ Untouched
      <3>1. old \in SUBSET Run /\ \A s \in old : run[s].status \in Live
        BY <2>2 DEF Obsolete
      <3>2. run' = Stopped(old) /\ job' = JobsStopped(old) /\ jobOf' = jobOf /\ Untouched
        BY <2>2 DEF Supersede
      <3> QED BY <3>1, <3>2
    <2>3. CASE \E r \in Run : Cancel(r)
      BY <2>1, <2>3
    <2>4. CASE \E head, seen : Supersede(head, seen)
      <3>1. PICK head, seen : Supersede(head, seen)
        BY <2>4
      <3>2. PICK old : old = Obsolete(head) \cap seen
        OBVIOUS
      <3> QED BY <2>2, <3>1, <3>2
    <2> QED BY <2>3, <2>4
  <1>2. RowsGo
    BY <1>1, StoppingGoes DEF RowsGo
  <1> QED BY <1>1, <1>2, UntouchedGoes DEF StepGoes

\* A review is created, and those it makes obsolete are stopped.
LEMMA CreatingGoes ==
  ASSUME LifecycleInv, NEW r \in Run, NEW head \in Head, NEW seen \in SUBSET Run,
         Create(r, head, seen)
  PROVE  StepGoes
  <1> DEFINE row == [status |-> "queued", report |-> Nobody, head |-> head,
                     deleted |-> FALSE]
             link == [run |-> r, kind |-> "review"]
  <1>0. PICK old : old = Obsolete(head) \cap seen
    OBVIOUS
  <1>1. /\ run[r].status = "absent" /\ run' = [Stopped(old) EXCEPT ![r] = row] /\ Untouched
        /\ old \in SUBSET Run /\ (\A s \in old : run[s].status \in Live) /\ r \notin old
    BY <1>0 DEF Create, Obsolete, Live
  <1>2. PICK j \in ReviewJob : /\ job[j].status = "absent"
                               /\ job' = Enqueued(JobsStopped(old), j)
                               /\ jobOf' = [jobOf EXCEPT ![j] = link]
    BY <1>0 DEF Create
  <1>3. /\ Stopped(old) \in [Run -> RunRow] /\ DOMAIN JobsStopped(old) = Job
        /\ jobOf \in [ReviewJob -> JobLink]
    BY <1>1, StoppedRows DEF LifecycleInv, LifecycleTypeOK, JobLink
  <1>4. /\ \A s \in Run \ {r} : run'[s] = Stopped(old)[s]
        /\ run'[r].report = Nobody
    BY <1>1, <1>3
  <1>5. /\ \A k \in ReviewJob \ {j} : job'[k] = JobsStopped(old)[k] /\ jobOf'[k] = jobOf[k]
        /\ job'[j].status = "queued" /\ jobOf'[j].run = r
    BY <1>2, <1>3, NewRowIsGood DEF Enqueued
  <1>6. HasActiveJob(r)'
    BY <1>5 DEF HasActiveJob, JobsOf, Active
  <1>7. \A s \in Run : RunGoes(s)
    <2>1. RunGoes(r)
      BY <1>1, <1>4, <1>6 DEF RunGoes
    <2>2. \A s \in Run \ {r} : RunGoes(s)
      BY <1>1, <1>4, StoppingGoes
    <2> QED BY <2>1, <2>2
  <1>8. \A k \in ReviewJob : job[k].status # "absent" => JobGoes(k)
    <2>1. \A s \in old : run'[s] = Stopped(old)[s]
      BY <1>1, <1>4
    <2> QED BY <1>1, <1>2, <1>5, <2>1, StoppingGoes
  <1> QED BY <1>1, <1>7, <1>8, UntouchedGoes DEF StepGoes, RowsGo

\* A review that is over is taken up again, or deleted.
LEMMA RetryingGoes ==
  ASSUME LifecycleInv, NEW r \in Run, Retry(r) \/ RetryOverview(r) \/ Delete(r)
  PROVE  StepGoes
  <1>0. run \in [Run -> RunRow] /\ run[r] \in RunRow /\ jobOf \in [ReviewJob -> JobLink]
        /\ job \in [Job -> JobRow]
    BY TableTypes DEF LifecycleInv, LifecycleTypeOK, JobLink, QueueInv, QueueTypeOK
  <1>1. ASSUME NEW kind, Revive(r, kind), run[r].status \in TERMINAL
        PROVE  StepGoes
    <2> DEFINE row == [run[r] EXCEPT !.status = "queued"]
    <2>1. /\ ~run[r].deleted /\ ~HasActiveJob(r) /\ run' = [run EXCEPT ![r] = row] /\ Untouched
      BY <1>1 DEF Revive
    <2>2. PICK j \in ReviewJob :
             /\ job[j].status = "absent" /\ job' = Enqueued(job, j)
             /\ jobOf' = [jobOf EXCEPT ![j] = [run |-> r, kind |-> kind]]
      BY <1>1 DEF Revive
    <2>3. run'[r].report = run[r].report /\ \A s \in Run \ {r} : run'[s] = run[s]
      BY <1>0, <2>1 DEF RunRow
    <2>4. /\ \A k \in ReviewJob \ {j} : job'[k] = job[k] /\ jobOf'[k] = jobOf[k]
          /\ job'[j].status = "queued" /\ jobOf'[j].run = r
      BY <1>0, <2>2, NewRowIsGood DEF Enqueued
    <2>5. HasActiveJob(r)'
      BY <2>4 DEF HasActiveJob, JobsOf, Active
    <2>6. \A s \in Run : RunGoes(s)
      <3>1. RunGoes(r)
        BY <1>1, <2>1, <2>3, <2>5 DEF RunGoes
      <3> QED BY <2>3, <3>1 DEF RunGoes
    <2>7. \A k \in ReviewJob : job[k].status # "absent" => JobGoes(k)
      BY <2>2, <2>4, KeptIsQuiet DEF JobGoes, LifecycleInv
    <2> QED BY <2>1, <2>6, <2>7, UntouchedGoes DEF StepGoes, RowsGo
  <1>2. CASE Delete(r)
    <2> DEFINE row == [run[r] EXCEPT !.deleted = TRUE]
    <2>1. /\ run[r].status \in TERMINAL /\ ~run[r].deleted /\ ~HasActiveJob(r)
          /\ run' = [run EXCEPT ![r] = row] /\ UNCHANGED <<job, jobOf>> /\ Untouched
      BY <1>2 DEF Delete
    <2>2. /\ run'[r].report = run[r].report /\ run'[r].status = run[r].status
          /\ \A s \in Run \ {r} : run'[s] = run[s]
      BY <1>0, <2>1 DEF RunRow
    <2>3. \A s \in Run : RunGoes(s)
      <3>1. RunGoes(r)
        BY <2>1, <2>2 DEF RunGoes, TERMINAL, Live
      <3> QED BY <2>2, <3>1 DEF RunGoes
    <2> QED BY <2>1, <2>3, KeptRowsGo, UntouchedGoes DEF StepGoes, RowsGo
  <1> QED BY <1>1, <1>2 DEF Retry, RetryOverview, TERMINAL

\* What every step makes of reviews, jobs, processes and calls.
LEMMA StepAlwaysGoes == LifecycleInv /\ [ReviewNext]_vars => StepGoes
  <1> SUFFICES ASSUME LifecycleInv, [ReviewNext]_vars PROVE StepGoes
    OBVIOUS
  <1>1. ASSUME NEW r \in Run, CallerStep(r) \/ DeadlinePasses(r) PROVE StepGoes
    BY <1>1, CreatingGoes, CancellingGoes, RetryingGoes, WaitingGoes DEF CallerStep
  <1>2. ASSUME NEW h \in Head, NEW seen \in SUBSET Run, Supersede(h, seen) PROVE StepGoes
    BY <1>2, CancellingGoes
  <1>3. ASSUME NEW w \in ReviewWorker, ProcessStep(w) PROVE StepGoes
    BY <1>3, PollingGoes, ClaimingGoes, ReportingGoes, InterruptingGoes DEF ProcessStep
  <1>4. ASSUME NEW w \in ReviewWorker, HandlerStep(w) PROVE StepGoes
    BY <1>4, OpeningGoes, ThrowsGoes, LookingGoes, DispatchingGoes, ConcludingGoes
       DEF HandlerStep, OrchestratorStep
  <1>5. ASSUME NEW w \in ReviewWorker, NEW u \in Unit, Submit(w, u) \/ Deliver(w, u)
        PROVE  StepGoes
    BY <1>5, AgentsGo
  <1>6. ASSUME NEW w \in ReviewWorker, NEW i \in Item, AgentEnds(w, i) PROVE StepGoes
    BY <1>6, AgentsGo
  <1>7. ASSUME NEW c \in late, LateCall(c) PROVE StepGoes
    BY <1>7, LateCallGoes
  <1>8. CASE TimePasses \/ UNCHANGED vars
    BY <1>8, WaitingGoes
  <1> QED BY <1>1, <1>2, <1>3, <1>4, <1>5, <1>6, <1>7, <1>8 DEF ReviewNext

-----------------------------------------------------------------------------
(* What becomes of a complete report *)

\* What a call, or a handler with this lease, may save: complete only what is
\* complete by now, and nothing less of a review that was complete before.
SaveOK(lease, v) ==
    LET r == jobOf[lease.job].run
    IN  /\ v = "completed" /\ ~run[r].deleted => Outcome(work[r]) = "completed"
        /\ Grip(lease) /\ run[r].status \in Live /\ run[r].report = "completed"
              => v = "completed"

\* A complete report is about complete work, also one that is yet to be saved.
OutcomeInv ==
    /\ \A r \in Run : run[r].report = "completed" /\ ~run[r].deleted
                         => Outcome(work[r]) = "completed"
    /\ \A w \in ReviewWorker : At(w, "overview") => SaveOK(LeaseOf(w), handler[w].outcome)
    /\ \A c \in late : c.op = "save" => SaveOK(c.lease, c.value)

\* A review is complete when there is something to review, its units are
\* among that, and all of it is settled.
LEMMA CompleteIs ==
  ASSUME NEW items
  PROVE  Outcome(items) = "completed" <=>
            AllSettled(items) /\ Unit \subseteq Known(items) /\ Known(items) # {}
  BY LifecycleConstants DEF Outcome, AllSettled, Settled, Known, Item

\* So it stays complete: what is known of it grows, until it is deleted.
LEMMA CompleteStays ==
  ASSUME NEW r \in Run, PromiseStep(r), run[r].status # "absent", ~run[r].deleted,
         Outcome(work[r]) = "completed", ~run'[r].deleted, run'[r].status # "erased",
         AllSettled(work'[r])
  PROVE  Outcome(work'[r]) = "completed"
  <1>1. Unit \subseteq Known(work[r]) /\ Known(work[r]) # {}
    BY CompleteIs
  <1> DEFINE s0 == run[r].status
             k0 == Known(work[r])
             d0 == Settled(work[r])
  <1>2. /\ Promise!Rests(r) => Turned(r, s0, k0, d0)
        /\ Promise!Begin(r) => Turned(r, "running", k0, d0)
        /\ Promise!Stop(r) => Turned(r, "cancelled", k0, d0)
        /\ Promise!Conclude(r) => \E s : Turned(r, s, k0, d0)
        /\ Promise!Reopen(r) => Turned(r, "queued", k0, d0)
    BY DEF Promise!Turns, Turned, Promise!Rests, Promise!Begin, Promise!Stop, Promise!Conclude,
           Promise!Reopen, Known
  <1>3. /\ Promise!Discover(r) => \E i \in Item : Turned(r, "running", k0 \cup {i}, d0)
        /\ Promise!Settle(r) => \E i \in k0 : Turned(r, "running", k0, d0 \cup {i})
    BY DEF Promise!Turns, Turned, Promise!Discover, Promise!Settle, Known
  <1>4. ~Promise!Create(r) /\ ~Promise!Erase(r)
    BY DEF Promise!Turns, Promise!Create, Promise!Erase
  <1>5. \/ Promise!Rests(r) \/ Promise!Begin(r) \/ Promise!Stop(r) \/ Promise!Conclude(r)
        \/ Promise!Reopen(r) \/ Promise!Discover(r) \/ Promise!Settle(r)
    BY <1>4 DEF PromiseStep, Promise!ReviewStep
  <1> HIDE DEF k0, d0
  <1>6. k0 \subseteq Known(work'[r])
    BY <1>2, <1>3, <1>5 DEF Turned
  <1> QED BY <1>1, <1>6, CompleteIs DEF k0

\* A review that is deleted stays so, and its row is left alone.
LEMMA DeletedStays ==
  ASSUME LifecycleInv, NEW r \in Run, RunGoes(r), run[r].deleted
  PROVE  run'[r] = run[r]
  <1>1. run[r].status \in TERMINAL
    BY DEF LifecycleInv, RunOK
  <1> QED BY <1>1 DEF RunGoes, Live, TERMINAL, LifecycleInv, RunOK

\* A review whose job is under way was live before, with the same report: it
\* cannot have ended and come back, since no job of it was to be run then.
LEMMA LiveStays ==
  ASSUME LifecycleInv, NEW j \in ReviewJob, job[j].status \in Active,
         RunGoes(jobOf[j].run), run'[jobOf[j].run].status \in Live
  PROVE  /\ jobOf[j].run \in Run
         /\ run[jobOf[j].run].status \in Live
         /\ run'[jobOf[j].run].report = run[jobOf[j].run].report
  <1>1. PICK r : r = jobOf[j].run
    OBVIOUS
  <1>2. /\ r \in Run /\ run[r].status # "absent" /\ HasActiveJob(r)
    BY <1>1, JobRun DEF HasActiveJob, JobsOf
  <1>3. "absent" \notin Live /\ \A s \in TERMINAL : s \notin Live
    BY DEF Live, TERMINAL
  <1> QED BY <1>1, <1>2, <1>3 DEF RunGoes

\* A lease that is the latest of its job after a step was so before it.
LEMMA GripWas ==
  ASSUME LifecycleInv, NEW lease, lease.job \in ReviewJob, lease.attempt \in Nat,
         lease.attempt <= job[lease.job].attempts, QuietRow(lease.job), Grip(lease)'
  PROVE  Grip(lease)
  <1>1. job[lease.job].attempts \in Nat
    BY ReviewRow DEF LifecycleInv
  <1>2. /\ job'[lease.job].status = "leased" /\ job'[lease.job].owner = lease.owner
        /\ job'[lease.job].attempts = lease.attempt
    BY DEF Grip
  <1>3. SameLease(lease.job)
    BY <1>1, <1>2 DEF QuietRow
  <1> QED BY <1>2, <1>3 DEF Grip, SameLease

\* What may be saved now may be saved after any step.
LEMMA SaveStays ==
  ASSUME LifecycleInv, LifecycleInv', StepGoes, AllPromised, NEW lease, NEW v,
         lease.job \in ReviewJob, lease.attempt \in Nat,
         lease.attempt <= job[lease.job].attempts, job[lease.job].status # "absent",
         SaveOK(lease, v),
         v = "completed" => AllSettled(work'[jobOf[lease.job].run])
  PROVE  SaveOK(lease, v)'
  <1>1. PICK r : r = jobOf[lease.job].run
    OBVIOUS
  <1>2. r \in Run /\ run[r].status # "absent"
    BY <1>1, JobRun
  <1>3. /\ RunGoes(r) /\ JobGoes(lease.job) /\ PromiseStep(r)
        /\ jobOf'[lease.job].run = r
    BY <1>1, <1>2 DEF StepGoes, RowsGo, AllPromised, JobGoes
  <1>4. ASSUME v = "completed", ~run'[r].deleted PROVE Outcome(work'[r]) = "completed"
    <2>1. ~run[r].deleted
      BY <1>2, <1>3, <1>4, DeletedStays
    <2>2. Outcome(work[r]) = "completed"
      BY <1>1, <1>4, <2>1 DEF SaveOK
    <2>3. run'[r].status # "erased"
      BY <1>2 DEF LifecycleInv, LifecycleTypeOK, Live, TERMINAL
    <2> QED BY <1>1, <1>2, <1>3, <1>4, <2>1, <2>2, <2>3, CompleteStays
  <1>5. ASSUME Grip(lease)', run'[r].status \in Live, run'[r].report = "completed"
        PROVE  v = "completed"
    <2>1. Grip(lease)
      BY <1>3, <1>5, GripWas DEF JobGoes
    <2>2. job[lease.job].status \in Active
      BY <2>1 DEF Grip, Active
    <2>3. run[r].status \in Live /\ run[r].report = "completed"
      BY <1>1, <1>3, <1>5, <2>2, LiveStays
    <2> QED BY <1>1, <2>1, <2>3 DEF SaveOK
  <1>6. PICK j : j = lease.job
    OBVIOUS
  <1>7. jobOf'[j].run = r
    BY <1>3, <1>6
  <1> QED BY <1>4, <1>5, <1>6, <1>7 DEF SaveOK

\* A review that dies with its job is called what it is.
LEMMA DeadIsCalledWhatItIs ==
  ASSUME NEW items \in Items
  PROVE  /\ ReapedStatus(items) = "completed" => Outcome(items) = "completed"
         /\ Outcome(items) = "completed" =>
               /\ ReapedStatus(Exhausted(items)) = "completed"
               /\ Outcome(Exhausted(items)) = "completed"
  <1>1. ReapedStatus(items) = "completed" => Outcome(items) = "completed"
    BY DEF ReapedStatus
  <1>2. ASSUME Outcome(items) = "completed"
        PROVE  /\ ReapedStatus(Exhausted(items)) = "completed"
               /\ Outcome(Exhausted(items)) = "completed"
    <2>1. PICK new : new = Exhausted(items)
      OBVIOUS
    <2>2. Known(new) = Known(items) /\ Settled(new) = Settled(items)
      BY <2>1, ExhaustedFacts
    <2>3. AllSettled(items) /\ Unit \subseteq Known(items) /\ Known(items) # {}
      BY <1>2, CompleteIs
    <2>4. Known(items) = Settled(items)
      BY <2>3, SettledIsKnown
    <2>5. AllSettled(new)
      BY <2>2, <2>4, SettledIsKnown
    <2>6. Outcome(new) = "completed"
      BY <2>2, <2>3, <2>5, CompleteIs
    <2>7. \E i \in Item : new[i].status = "completed"
      BY <2>2, <2>3, <2>4 DEF Settled
    <2> QED BY <2>1, <2>6, <2>7 DEF ReapedStatus
  <1> QED BY <1>1, <1>2

\* A complete report that is given away, or taken away by an exception.
LEMMA CompleteReportStays ==
  ASSUME LifecycleInv, OutcomeInv, StepGoes, NEW r \in Run,
         run[r].report = "completed", run'[r].report # "completed"
  PROVE  Excepted(r)
  <1>1. RunGoes(r)
    BY DEF StepGoes, RowsGo
  <1>2. run[r].status # "absent"
    BY NobodyIsNone DEF LifecycleInv, RunOK, TERMINAL
  <1>3. run[r].status \in Live /\ ReportFrom(r)
    BY <1>1, <1>2 DEF RunGoes
  <1>4. ~run[r].deleted
    BY <1>3 DEF LifecycleInv, RunOK, Live, TERMINAL
  <1>5. ~(work'[r] = Exhausted(work[r]) /\ run'[r].report = ReapedStatus(work'[r]))
    BY <1>4, DeadIsCalledWhatItIs, TableTypes DEF OutcomeInv
  <1>6. ASSUME NEW c, Saves(c), Works(c), jobOf[c.lease.job].run = r, run'[r].report = c.value
        PROVE  FALSE
    <2>1. Grip(c.lease)
      BY <1>6 DEF Works, Fence, Owns, Grip
    <2>2. CASE c \in late
      <3>1. SaveOK(c.lease, c.value)
        BY <1>6, <2>2 DEF OutcomeInv, Saves
      <3> QED BY <1>3, <1>6, <2>1, <3>1 DEF SaveOK
    <2>3. CASE c \notin late
      <3>1. PICK w \in ReviewWorker :
               At(w, "overview") /\ c = OwnCall(w, "save", Nobody, handler[w].outcome)
        BY <1>6, <2>3 DEF Saves
      <3>2. c.lease = LeaseOf(w) /\ c.value = handler[w].outcome
        BY <3>1 DEF OwnCall
      <3>3. SaveOK(c.lease, c.value)
        BY <3>1, <3>2 DEF OutcomeInv
      <3> QED BY <1>3, <1>6, <2>1, <3>3 DEF SaveOK
    <2> QED BY <2>2, <2>3
  <1> QED BY <1>3, <1>5, <1>6 DEF ReportFrom

\* A call that is, or is about to be, may save what it saves.
LEMMA SavesAreOK ==
  ASSUME LifecycleInv, OutcomeInv, NEW c, Saves(c)
  PROVE  /\ SaveOK(c.lease, c.value)
         /\ c.lease.job \in ReviewJob /\ c.lease.attempt \in Nat
         /\ c.lease.attempt <= job[c.lease.job].attempts
         /\ job[c.lease.job].status # "absent"
  <1>1. CASE c \in late
    <2>1. CallOK(c)
      BY <1>1 DEF LifecycleInv, LateOK
    <2>2. c.lease \in Lease
      BY <2>1 DEF CallOK, CallForm, Call
    <2>3. c.lease.job \in ReviewJob /\ jobOf[c.lease.job].run # Nobody
      BY <2>1, <2>2 DEF CallOK, Lease
    <2> QED BY <1>1, <2>1, <2>2, <2>3, JobRun DEF CallOK, Lease, OutcomeInv, Saves
  <1>2. CASE c \notin late
    <2>1. PICK w \in ReviewWorker :
             At(w, "overview") /\ c = OwnCall(w, "save", Nobody, handler[w].outcome)
      BY <1>2 DEF Saves
    <2>2. c.lease = LeaseOf(w) /\ c.value = handler[w].outcome
      BY <2>1 DEF OwnCall
    <2> QED BY <2>1, <2>2, RunningLease DEF OutcomeInv, At
  <1> QED BY <1>1, <1>2

\* A review is called complete only when it is, and stays it.
LEMMA ReportsAreTrue ==
  ASSUME LifecycleInv, LifecycleInv', OutcomeInv, StepGoes, AllPromised,
         NEW r \in Run, run'[r].report = "completed", ~run'[r].deleted
  PROVE  Outcome(work'[r]) = "completed"
  <1>1. RunGoes(r) /\ PromiseStep(r)
    BY DEF StepGoes, RowsGo, AllPromised
  <1>2. AllSettled(work'[r]) /\ run'[r].status # "erased"
    BY DEF LifecycleInv, RunOK, LifecycleTypeOK, Live, TERMINAL
  <1>3. ~run[r].deleted
    BY <1>1, DeletedStays
  <1>4. run[r].status # "absent"
    <2>1. run[r].status = "absent" => run[r].report = Nobody
      BY DEF LifecycleInv, RunOK
    <2> QED BY <1>1, <2>1, NobodyIsNone DEF RunGoes, TERMINAL, Live
  <1>5. ASSUME Outcome(work[r]) = "completed" PROVE Outcome(work'[r]) = "completed"
    BY <1>1, <1>2, <1>3, <1>4, <1>5, CompleteStays
  <1>6. CASE run'[r].report = run[r].report
    BY <1>3, <1>5, <1>6 DEF OutcomeInv
  <1>7. CASE run'[r].report # run[r].report
    <2>1. ReportFrom(r)
      BY <1>1, <1>4, <1>7 DEF RunGoes
    <2>2. CASE work'[r] = Exhausted(work[r]) /\ run'[r].report = ReapedStatus(work'[r])
      <3>1. work'[r] \in Items
        BY DEF LifecycleInv, LifecycleTypeOK, Items
      <3> QED BY <2>2, <3>1, DeadIsCalledWhatItIs
    <2>3. ASSUME NEW c, Saves(c), Works(c), jobOf[c.lease.job].run = r, run'[r].report = c.value
          PROVE  Outcome(work'[r]) = "completed"
      BY <1>3, <1>5, <2>3, SavesAreOK DEF SaveOK
    <2> QED BY <1>7, <2>1, <2>2, <2>3 DEF ReportFrom
  <1> QED BY <1>6, <1>7

\* A handler is about to save only what it may.
LEMMA OutcomesAreOK ==
  ASSUME LifecycleInv, OutcomeInv, NEW w \in ReviewWorker, worker[w].phase = "running",
         NEW v, OutcomeFrom(w, v)
  PROVE  SaveOK(LeaseOf(w), v)
  <1>1. jobOf[LeaseOf(w).job].run = RunOf(w) /\ RunOf(w) \in Run
    BY RunningLease DEF RunOf
  <1>2. run[RunOf(w)].status \in Live => ~run[RunOf(w)].deleted
    BY <1>1 DEF LifecycleInv, RunOK, Live, TERMINAL
  <1> QED BY <1>1, <1>2 DEF OutcomeFrom, OutcomeInv, SaveOK, At

\* Every step keeps it so.
LEMMA OutcomeStays ==
  ASSUME LifecycleInv, LifecycleInv', OutcomeInv, StepGoes, AllPromised
  PROVE  OutcomeInv'
  <1>1. ASSUME NEW w \in ReviewWorker, At(w, "overview")'
        PROVE  SaveOK(LeaseOf(w), handler[w].outcome)'
    <2>1. ProcessGoes(w) /\ worker'[w].phase = "running" /\ handler'[w].pc = "overview"
      BY <1>1 DEF StepGoes, ProcessesGo, At
    <2>2. /\ SameWork(w) /\ worker[w].phase = "running"
          /\ OutcomeFrom(w, handler'[w].outcome)
      BY <2>1 DEF ProcessGoes, Begins, EndsLawfully, Holding
    <2>3. PICK lease : lease = LeaseOf(w)
      OBVIOUS
    <2>4. PICK v : v = handler'[w].outcome
      OBVIOUS
    <2>5. /\ lease.job \in ReviewJob /\ lease.attempt \in Nat
          /\ lease.attempt <= job[lease.job].attempts /\ job[lease.job].status # "absent"
          /\ lease.job = worker[w].job
      BY <2>2, <2>3, RunningLease
    <2>6. SaveOK(lease, v)
      BY <2>2, <2>3, <2>4, OutcomesAreOK
    <2>7. jobOf'[lease.job] = jobOf[lease.job]
      BY <2>5 DEF StepGoes, RowsGo, JobGoes
    <2>8. v = "completed" => AllSettled(work'[jobOf[lease.job].run])
      <3>1. HandlerOK(w)'
        BY DEF LifecycleInv
      <3>2. Fits(w, handler[w])'
        BY <2>1, <3>1 DEF HandlerOK
      <3>3. RunOf(w)' = jobOf[lease.job].run
        BY <2>2, <2>5, <2>7 DEF RunOf, SameWork
      <3> QED BY <2>1, <2>4, <3>2, <3>3 DEF Fits
    <2>9. SaveOK(lease, v)'
      BY <2>5, <2>6, <2>8, SaveStays
    <2>10. LeaseOf(w)' = lease
      BY <2>2, <2>3 DEF LeaseOf, SameWork
    <2> QED BY <2>4, <2>9, <2>10 DEF SaveOK, Grip
  <1>2. ASSUME NEW c \in late', c.op = "save"
        PROVE  SaveOK(c.lease, c.value)'
    <2>1. Saves(c)
      BY <1>2 DEF StepGoes, ProcessesGo, CallsGo
    <2>2. PICK lease : lease = c.lease
      OBVIOUS
    <2>3. PICK v : v = c.value
      OBVIOUS
    <2>4. /\ SaveOK(lease, v) /\ lease.job \in ReviewJob /\ lease.attempt \in Nat
          /\ lease.attempt <= job[lease.job].attempts /\ job[lease.job].status # "absent"
      BY <2>1, <2>2, <2>3, SavesAreOK
    <2>5. jobOf'[lease.job] = jobOf[lease.job]
      BY <2>4 DEF StepGoes, RowsGo, JobGoes
    <2>6. v = "completed" => AllSettled(work'[jobOf[lease.job].run])
      <3>1. CallOK(c)'
        BY DEF LifecycleInv, LateOK
      <3> QED BY <1>2, <2>2, <2>3, <2>5, <3>1 DEF CallOK
    <2>7. SaveOK(lease, v)'
      BY <2>4, <2>6, SaveStays
    <2> QED BY <2>2, <2>3, <2>7
  <1>3. \A r \in Run : run'[r].report = "completed" /\ ~run'[r].deleted
                          => Outcome(work'[r]) = "completed"
    BY ReportsAreTrue
  <1> QED BY <1>1, <1>2, <1>3 DEF OutcomeInv

\* What is reported complete is complete, and so is what is about to be saved
\* as complete, a call that was left behind included.
THEOREM ReportsStayTrue == ReviewSpec => []OutcomeInv
  <1>1. LifecycleInit => OutcomeInv
    BY NobodyIsNone DEF LifecycleInit, QueueInit, OutcomeInv, At, NoWork, TERMINAL
  <1>2. LifecycleInv /\ LifecycleInv' /\ OutcomeInv /\ [ReviewNext]_vars => OutcomeInv'
    BY StepAlwaysGoes, StepIsPromised, OutcomeStays
  <1> QED BY <1>1, <1>2, LifecycleInvariance, PTL DEF ReviewSpec

\* A complete report is lost to an exception in a handler of its review, and to
\* nothing else: neither to lost leases and late calls, nor to crashes and dead
\* jobs, nor to retries of the overview.
THEOREM OnlyExceptionsLoseOutcomes == ReviewSpec => OutcomeLostOnlyByExceptions
  <1>1. LifecycleInv /\ OutcomeInv /\ [ReviewNext]_vars =>
           [\A r \in Run :
               run[r].report = "completed" /\ run'[r].report # "completed" =>
                   \E w \in ReviewWorker : /\ worker[w].phase = "running" /\ RunOf(w) = r
                                           /\ worker'[w].phase = "fatal"]_vars
    BY StepAlwaysGoes, CompleteReportStays DEF Excepted
  <1> QED BY <1>1, LifecycleInvariance, ReportsStayTrue, PTL
          DEF ReviewSpec, OutcomeLostOnlyByExceptions

-----------------------------------------------------------------------------
(* What leaves a review without a job *)

\* A handler was interrupted in the last attempt of its job, with the lease.
BrokenOff(w) ==
    worker[w].phase \in {"raised", "cancelled"} /\ Fence(LeaseOf(w)) /\ LastTry(w)

\* A handler with the lease is about to hear that an agent ran into the hard
\* deadline.
CutShort(w) ==
    /\ worker[w].phase = "running" /\ Fence(LeaseOf(w)) /\ deadline[RunOf(w)] = "hard"
    /\ \E u \in Unit : handler[w].agent[u].state = "stopped"

Undisturbed == \A w \in ReviewWorker : ~BrokenOff(w) /\ ~CutShort(w)

\* A process whose lease ran out neither gets it back nor reports with it.
LostIsLost ==
    \A w \in ReviewWorker :
        worker[w].phase \in Holding /\ ~Owns(w, worker[w].job, worker[w].attempt, 0) =>
            IF worker'[w].phase \in Holding
            THEN ~Owns(w, worker[w].job, worker[w].attempt, 0)'
            ELSE job' = job

\* A process that holds a job holds one of a review, for a plain outcome.
HolderOK(w) ==
    worker[w].phase \in Holding =>
        /\ worker[w].job \in ReviewJob /\ jobOf[worker[w].job].run # Nobody
        /\ worker[w].phase \notin {"throttled", "failing"}

\* A handler that still has its lease lost agents to the hard deadline only.
StopsOK(w) ==
    worker[w].phase = "running" /\ Fence(LeaseOf(w)) =>
        \A i \in Item : handler[w].agent[i].state = "stopped" =>
            i \in Unit /\ deadline[RunOf(w)] = "hard"

\* And one that is over by itself has no lease any more.
EndOK(w) ==
    /\ worker[w].phase \in {"returned", "fatal"} => ~Fence(LeaseOf(w))
    /\ StopsOK(w)

DriverInv == RunHasDriver /\ \A w \in ReviewWorker : EndOK(w)

HoldersOK == \A w \in ReviewWorker : HolderOK(w)

HardStays == \A r \in Run : deadline[r] = "hard" => deadline'[r] = "hard"

\* Deadlines pass in one place only, and not back.
LEMMA DeadlinesGo ==
  ASSUME LifecycleInv, [ReviewNext]_vars
  PROVE  deadline' = deadline \/ \E r \in Run : DeadlinePasses(r)
  <1>1. ASSUME NEW r \in Run, CallerStep(r) PROVE deadline' = deadline
    BY <1>1 DEF CallerStep, Create, Cancel, Retry, RetryOverview, Revive, Delete
  <1>2. ASSUME NEW h \in Head, NEW seen \in SUBSET Run, Supersede(h, seen)
        PROVE  deadline' = deadline
    BY <1>2 DEF Supersede
  <1>3. ASSUME NEW w \in ReviewWorker, ProcessStep(w) PROVE deadline' = deadline
    BY <1>3 DEF ProcessStep, Polls, Dies, ClaimReview, ClaimNoReview, Reports, MayInterrupt,
                lifecycleVars
  <1>4. ASSUME NEW w \in ReviewWorker, HandlerStep(w) PROVE deadline' = deadline
    <2>1. \A call, next : Awaits(w, call, next) => deadline' = deadline
      BY DEF Awaits
    <2>2. \A next : Checks(w, next) => deadline' = deadline
      BY DEF Checks
    <2>3. LookUp(w) \/ Prepared(w) \/ Throws(w) => deadline' = deadline
      BY DEF LookUp, Prepared, Throws
    <2>4. Begin(w) => deadline' = deadline
      BY <2>1 DEF Begin
    <2>5. Look(w) \/ BuildFacts(w) => deadline' = deadline
      BY <2>2 DEF Look, BuildFacts
    <2>6. Judge(w) \/ Dispatched(w) \/ Await(w) \/ Save(w) => deadline' = deadline
      BY DEF Judge, Dispatched, Await, Save
    <2>7. Drain(w) \/ SkipPastCutoff(w) \/ Refuse(w) \/ StartAgent(w) => deadline' = deadline
      BY <2>1 DEF Drain, SkipPastCutoff, Refuse, StartAgent
    <2> QED BY <1>4, <2>3, <2>4, <2>5, <2>6, <2>7 DEF HandlerStep, OrchestratorStep
  <1>5. ASSUME NEW w \in ReviewWorker, NEW u \in Unit, Submit(w, u) \/ Deliver(w, u)
        PROVE  deadline' = deadline
    BY <1>5 DEF Submit, Deliver
  <1>6. ASSUME NEW w \in ReviewWorker, NEW i \in Item, AgentEnds(w, i)
        PROVE  deadline' = deadline
    BY <1>6 DEF AgentEnds, AgentStops, Finish, AgentIs
  <1>7. (\E c \in late : LateCall(c)) \/ TimePasses \/ UNCHANGED vars => deadline' = deadline
    BY DEF LateCall, TimePasses, lifecycleVars, vars
  <1> QED BY <1>1, <1>2, <1>3, <1>4, <1>5, <1>6, <1>7 DEF ReviewNext

\* The hard deadline of a review is never taken back.
LEMMA HardDeadlineStays == LifecycleInv /\ [ReviewNext]_vars => HardStays
  <1> SUFFICES ASSUME LifecycleInv, [ReviewNext]_vars PROVE HardStays
    OBVIOUS
  <1>1. deadline \in [Run -> {"open", "cutoff", "hard"}]
    BY DEF LifecycleInv, LifecycleTypeOK
  <1> QED BY <1>1, DeadlinesGo DEF HardStays, DeadlinePasses

\* What a process holds stays in order, whatever happens.
LEMMA HoldersStayOK ==
  ASSUME LifecycleInv, HoldersOK, StepGoes
  PROVE  HoldersOK'
  <1> SUFFICES ASSUME NEW w \in ReviewWorker, worker'[w].phase \in Holding
               PROVE  HolderOK(w)'
    BY DEF HoldersOK, HolderOK
  <1>1. ProcessGoes(w)
    BY DEF StepGoes, ProcessesGo
  <1>2. CASE Begins(w)
    <2>1. PICK j : j = worker'[w].job
      OBVIOUS
    <2>2. jobOf'[j].run # Nobody /\ j \in ReviewJob /\ worker'[w].phase = "running"
      BY <1>2, <2>1 DEF Begins
    <2> QED BY <2>1, <2>2 DEF HolderOK
  <1>3. CASE SameWork(w) /\ (worker'[w].phase = worker[w].phase \/ EndsLawfully(w))
    <2>1. PICK j : j = worker[w].job
      OBVIOUS
    <2>2. worker'[w].job = j /\ worker[w].phase \in Holding
      BY <1>3, <2>1 DEF SameWork
    <2>3. /\ j \in ReviewJob /\ jobOf[j].run # Nobody
          /\ worker[w].phase \notin {"throttled", "failing"}
      BY <2>1, <2>2 DEF HoldersOK, HolderOK
    <2>4. jobOf'[j] = jobOf[j]
      BY <2>3, JobRun DEF StepGoes, RowsGo, JobGoes
    <2>5. worker'[w].phase \notin {"throttled", "failing"}
      BY <1>3, <2>3 DEF EndsLawfully
    <2> QED BY <2>2, <2>3, <2>4, <2>5 DEF HolderOK
  <1> QED BY <1>1, <1>2, <1>3 DEF ProcessGoes

\* The lease of a process that holds a job of a review.
LEMMA HeldLease ==
  ASSUME LifecycleInv, HoldersOK, NEW w \in ReviewWorker, worker[w].phase \in Holding
  PROVE  /\ LeaseOf(w).job = worker[w].job /\ LeaseOf(w).owner = w
         /\ LeaseOf(w).attempt = worker[w].attempt
         /\ worker[w].job \in ReviewJob /\ worker[w].attempt \in Nat
         /\ worker[w].attempt <= job[worker[w].job].attempts
         /\ RunOf(w) \in Run /\ run[RunOf(w)].status # "absent"
         /\ job[worker[w].job].status # "absent"
  <1>1. worker[w].attempt \in Nat /\ worker[w].attempt <= job[worker[w].job].attempts
    BY HeldJob DEF LifecycleInv, QueueInv, AttemptsWereGranted
  <1>2. worker[w].job \in ReviewJob /\ jobOf[worker[w].job].run # Nobody
    BY DEF HoldersOK, HolderOK
  <1> QED BY <1>1, <1>2, JobRun DEF RunOf, LeaseOf

\* A fence that fell behind a process does not rise again while it goes on.
LEMMA FenceStaysDown ==
  ASSUME LifecycleInv, HoldersOK, StepGoes, LostIsLost,
         NEW w \in ReviewWorker, SameWork(w), worker'[w].phase \in Holding,
         ~Fence(LeaseOf(w))
  PROVE  ~Fence(LeaseOf(w))'
  <1>1. SUFFICES ASSUME Fence(LeaseOf(w))' PROVE FALSE
    OBVIOUS
  <1>2. PICK j : j = worker[w].job
    OBVIOUS
  <1>3. PICK n : n = worker[w].attempt
    OBVIOUS
  <1>4. PICK r : r = RunOf(w)
    OBVIOUS
  <1>5. /\ j \in ReviewJob /\ n \in Nat /\ n <= job[j].attempts
        /\ r \in Run /\ run[r].status # "absent" /\ job[j].status # "absent"
        /\ worker'[w].job = j /\ worker'[w].attempt = n /\ jobOf[j].run = r
    BY <1>2, <1>3, <1>4, HeldLease DEF SameWork, RunOf
  <1>6. RunGoes(r) /\ JobGoes(j) /\ jobOf'[j].run = r
    BY <1>5 DEF StepGoes, RowsGo, JobGoes
  <1>7. /\ ~run'[r].deleted /\ run'[r].status \notin TERMINAL
        /\ Owns(w, j, n, 0)'
    <2>1. LeaseOf(w)' = [job |-> j, owner |-> w, attempt |-> n]
      BY <1>5 DEF LeaseOf
    <2> QED BY <1>1, <1>6, <2>1 DEF Fence, Owns
  <1>8. job[j].status \in Active
    <2>1. PICK lease : lease = [job |-> j, owner |-> w, attempt |-> n]
      OBVIOUS
    <2>2. /\ lease.job = j /\ lease.owner = w /\ lease.attempt = n
      BY <2>1
    <2>3. Grip(lease)'
      BY <1>7, <2>2 DEF Owns, Grip
    <2>4. Grip(lease)
      BY <1>5, <1>6, <2>2, <2>3, GripWas DEF JobGoes
    <2> QED BY <2>2, <2>4 DEF Grip, Active
  <1>9. run[r].status \in Live /\ ~run[r].deleted
    <2>1. HasActiveJob(r)
      BY <1>5, <1>8 DEF HasActiveJob, JobsOf
    <2>2. run[r].status \in Live
      <3>1. run[r].status \in Live \cup TERMINAL \cup {"absent"}
        BY <1>5 DEF LifecycleInv, LifecycleTypeOK
      <3> QED BY <1>5, <1>6, <1>7, <2>1, <3>1 DEF RunGoes
    <2> QED BY <1>5, <2>2 DEF LifecycleInv, RunOK, Live, TERMINAL
  <1>10. ~Owns(w, j, n, 0)
    BY <1>2, <1>3, <1>4, <1>5, <1>9 DEF Fence, LeaseOf, Live, TERMINAL
  <1>11. ~Owns(w, worker[w].job, worker[w].attempt, 0)'
    BY <1>2, <1>3, <1>10 DEF LostIsLost, SameWork
  <1> QED BY <1>5, <1>7, <1>11

\* A job of a live review that a process gives up, though the process may
\* report that it is over: only undisturbed processes are without the lease.
LEMMA NobodyGivesUp ==
  ASSUME LifecycleInv, HoldersOK, DriverInv, Undisturbed, StepGoes, LostIsLost,
         NEW j \in ReviewJob, run[jobOf[j].run].status \in Live,
         NEW w \in ReviewWorker, GivesUp(w, j)
  PROVE  FALSE
  <1>1. /\ worker[w].phase \in Ended /\ worker'[w].phase \notin Holding
        /\ worker[w].job = j /\ Grip(LeaseOf(w)) /\ job' # job
        /\ worker[w].phase \in {"returned", "fatal"} \/ LastTry(w)
        /\ worker[w].phase \in Holding
    BY DEF GivesUp, Holding
  <1>2. ~Fence(LeaseOf(w))
    <2>1. CASE worker[w].phase \in {"returned", "fatal"}
      BY <2>1 DEF DriverInv, EndOK
    <2>2. CASE worker[w].phase \notin {"returned", "fatal"}
      <3>1. worker[w].phase \in {"raised", "cancelled"}
        BY <1>1, <2>2 DEF HoldersOK, HolderOK, Ended, Failed
      <3> QED BY <1>1, <2>2, <3>1 DEF Undisturbed, BrokenOff
    <2> QED BY <2>1, <2>2
  <1>3. PICK r : r = jobOf[j].run
    OBVIOUS
  <1>4. r \in Run /\ ~run[r].deleted /\ run[r].status \notin TERMINAL
    <2>1. r \in Run
      BY <1>1, <1>3, HeldLease DEF RunOf
    <2> QED BY <1>3, <2>1 DEF LifecycleInv, RunOK, Live, TERMINAL
  <1>5. ~Owns(w, j, worker[w].attempt, 0)
    BY <1>1, <1>2, <1>3, <1>4 DEF Fence, LeaseOf
  <1> QED BY <1>1, <1>5 DEF LostIsLost

\* A review that is not over keeps a job, or gets one.
LEMMA DriverStays ==
  ASSUME LifecycleInv, HoldersOK, DriverInv, Undisturbed, StepGoes, LostIsLost
  PROVE  RunHasDriver'
  <1> SUFFICES ASSUME NEW r \in Run, run'[r].status \in Live
               PROVE  HasActiveJob(r)'
    BY DEF RunHasDriver
  <1>1. RunGoes(r)
    BY DEF StepGoes, RowsGo
  <1>2. \A s \in TERMINAL : s \notin Live
    BY DEF TERMINAL, Live
  <1>3. CASE run[r].status \in Live
    <2>1. PICK j \in ReviewJob : jobOf[j].run = r /\ job[j].status \in Active
      BY <1>3 DEF DriverInv, RunHasDriver, HasActiveJob, JobsOf
    <2>2. JobGoes(j)
      BY <2>1 DEF StepGoes, RowsGo, Active
    <2>3. job'[j].status \in Active
      BY <1>2, <1>3, <2>1, <2>2, NobodyGivesUp DEF JobGoes
    <2>4. jobOf'[j].run = r
      BY <2>1, <2>2 DEF JobGoes
    <2> QED BY <2>3, <2>4 DEF HasActiveJob, JobsOf
  <1>4. CASE run[r].status \notin Live
    BY <1>1, <1>2, <1>4 DEF RunGoes
  <1> QED BY <1>3, <1>4

\* A process that goes on with its job goes on with the review.
LEMMA SameReview ==
  ASSUME LifecycleInv, HoldersOK, StepGoes, NEW w \in ReviewWorker, SameWork(w)
  PROVE  RunOf(w)' = RunOf(w) /\ RunOf(w) \in Run
  <1>1. /\ worker[w].job \in ReviewJob /\ job[worker[w].job].status # "absent"
        /\ RunOf(w) \in Run /\ worker'[w].job = worker[w].job
    BY HeldLease DEF SameWork
  <1>2. jobOf'[worker[w].job] = jobOf[worker[w].job]
    BY <1>1 DEF StepGoes, RowsGo, JobGoes
  <1> QED BY <1>1, <1>2 DEF RunOf

\* A handler goes on losing agents only as it may.
LEMMA StopsStayOK ==
  ASSUME LifecycleInv, HoldersOK, StepGoes, LostIsLost, HardStays,
         NEW w \in ReviewWorker, StopsOK(w)
  PROVE  StopsOK(w)'
  <1> SUFFICES ASSUME worker'[w].phase = "running", Fence(LeaseOf(w))',
                      NEW i \in Item, handler'[w].agent[i].state = "stopped"
               PROVE  i \in Unit /\ deadline'[RunOf(w)'] = "hard"
    BY DEF StopsOK
  <1>1. ProcessGoes(w) /\ "running" \in Holding
    BY DEF StepGoes, ProcessesGo, Holding
  <1>2. CASE Begins(w)
    BY <1>2 DEF Begins
  <1>3. CASE SameWork(w) /\ ~EndsLawfully(w) /\ StopsLawfully(w, i)
             /\ worker'[w].phase = worker[w].phase
    <2>1. worker[w].phase = "running" /\ Fence(LeaseOf(w))
      BY <1>1, <1>3, FenceStaysDown
    <2>2. i \in Unit /\ deadline[RunOf(w)] = "hard"
      BY <1>3, <2>1 DEF StopsLawfully, StopsOK
    <2>3. RunOf(w)' = RunOf(w) /\ RunOf(w) \in Run
      BY <1>3, SameReview DEF RunOf
    <2> QED BY <2>2, <2>3 DEF HardStays
  <1>4. EndsLawfully(w) => worker'[w].phase # "running"
    BY DEF EndsLawfully
  <1> QED BY <1>1, <1>2, <1>3, <1>4 DEF ProcessGoes

\* Handlers go on ending only as they may.
LEMMA EndsStayOK ==
  ASSUME LifecycleInv, HoldersOK, DriverInv, Undisturbed, StepGoes, LostIsLost, HardStays,
         NEW w \in ReviewWorker
  PROVE  EndOK(w)'
  <1> SUFFICES ASSUME worker'[w].phase \in {"returned", "fatal"}
               PROVE  ~Fence(LeaseOf(w))'
    BY StopsStayOK DEF EndOK, DriverInv
  <1>1. ProcessGoes(w) /\ "returned" \in Holding /\ "fatal" \in Holding
    BY DEF StepGoes, ProcessesGo, Holding, Ended, Failed
  <1>2. ~Begins(w)
    BY DEF Begins
  <1>3. SameWork(w) /\ (worker'[w].phase = worker[w].phase \/ EndsLawfully(w))
    BY <1>1, <1>2 DEF ProcessGoes
  <1>4. ~Fence(LeaseOf(w)) => ~Fence(LeaseOf(w))'
    BY <1>1, <1>3, FenceStaysDown
  <1>5. CASE worker'[w].phase = worker[w].phase
    BY <1>4, <1>5 DEF DriverInv, EndOK
  <1>6. CASE EndsLawfully(w)
    <2>1. /\ worker[w].phase = "running"
          /\ \/ ~Fence(LeaseOf(w))'
             \/ \E i \in Item : handler[w].agent[i].state = "stopped"
      BY <1>6 DEF EndsLawfully
    <2>2. ASSUME NEW i \in Item, handler[w].agent[i].state = "stopped", Fence(LeaseOf(w))
          PROVE  FALSE
      <3>1. i \in Unit /\ deadline[RunOf(w)] = "hard"
        BY <2>1, <2>2 DEF DriverInv, EndOK, StopsOK
      <3> QED BY <2>1, <2>2, <3>1 DEF Undisturbed, CutShort
    <2> QED BY <1>4, <2>1, <2>2
  <1> QED BY <1>3, <1>5, <1>6

\* Whatever a process holds, it is a job of a review.
THEOREM HoldersAreInOrder == ReviewSpec => []HoldersOK
  <1>1. LifecycleInit => HoldersOK
    BY DEF LifecycleInit, QueueInit, NoWork, HoldersOK, HolderOK, Holding, Ended, Failed
  <1>2. LifecycleInv /\ HoldersOK /\ [ReviewNext]_vars => HoldersOK'
    BY StepAlwaysGoes, HoldersStayOK
  <1> QED BY <1>1, <1>2, LifecycleInvariance, PTL DEF ReviewSpec

\* One step of a life cycle in which nothing of the kind happens.
LEMMA UndisturbedStep ==
  LifecycleInv /\ HoldersOK /\ DriverInv /\ Undisturbed /\ [ReviewNext]_vars
  /\ [LostIsLost]_vars => DriverInv'
  <1> SUFFICES ASSUME LifecycleInv, HoldersOK, DriverInv, Undisturbed, [ReviewNext]_vars,
                      [LostIsLost]_vars
               PROVE  DriverInv'
    OBVIOUS
  <1>1. StepGoes /\ HardStays
    BY StepAlwaysGoes, HardDeadlineStays
  <1>2. CASE LostIsLost
    BY <1>1, <1>2, DriverStays, EndsStayOK DEF DriverInv
  <1>3. CASE UNCHANGED vars
    <2>1. UNCHANGED <<run, work, jobOf, deadline, handler, job, worker>>
      BY <1>3 DEF vars, lifecycleVars, queueVars
    <2>2. RunHasDriver'
      BY <2>1 DEF DriverInv, RunHasDriver, HasActiveJob, JobsOf
    <2>3. ASSUME NEW w \in ReviewWorker PROVE EndOK(w)'
      <3>1. Fence(LeaseOf(w))' = Fence(LeaseOf(w)) /\ RunOf(w)' = RunOf(w)
        BY <2>1 DEF Fence, Owns, LeaseOf, RunOf
      <3> QED BY <2>1, <3>1 DEF DriverInv, EndOK, StopsOK
    <2> QED BY <2>2, <2>3 DEF DriverInv
  <1> QED BY <1>2, <1>3

\* Before any review is created none needs a job.
LEMMA DriverInit == LifecycleInit => DriverInv
  BY DEF LifecycleInit, QueueInit, NoWork, DriverInv, RunHasDriver, EndOK, StopsOK, Live

\* A review that is not over has a job that takes it further, for as long as no
\* handler is interrupted in its last attempt with the lease, none hears of the
\* hard deadline from an agent, and none gets a lost lease back: whatever leases
\* are lost, whatever processes die and whatever calls come late.
THEOREM UndisturbedReviewsHaveDrivers ==
  ReviewSpec /\ []Undisturbed /\ [][LostIsLost]_vars => []RunHasDriver
  <1>1. DriverInv => RunHasDriver
    BY DEF DriverInv
  <1> QED BY <1>1, DriverInit, UndisturbedStep, LifecycleInvariance, HoldersAreInOrder, PTL
          DEF ReviewSpec

-----------------------------------------------------------------------------
(* When every clock is read inside its transaction *)

\* A lease of the job runs after the step only if it is new or ran before.
NoRevival(j) ==
    job'[j].status = "leased" /\ job'[j].left > 0 =>
        \/ job[j].attempts < job'[j].attempts
        \/ job[j].status = "leased" /\ job[j].left > 0

\* A process that drops a job it does not own leaves the table alone.
DropsQuietly ==
    \A w \in ReviewWorker :
        /\ worker[w].phase \in Holding /\ worker'[w].phase \notin Holding
        /\ ~Owns(w, worker[w].job, worker[w].attempt, 0)
        => job' = job

\* The steps of handlers, agents and calls are none of the queue's.
LEMMA HandlersKeepJobs ==
  ASSUME NEW w \in ReviewWorker
  PROVE  /\ HandlerStep(w) => job' = job
         /\ \A u \in Unit : Submit(w, u) \/ Deliver(w, u) => job' = job
         /\ \A i \in Item : AgentEnds(w, i) => job' = job
  <1>1. \A next : GoesOn(w, next) => job' = job
    BY DEF GoesOn, queueVars
  <1>2. Returns(w) => job' = job
    BY DEF Returns, HandlerEnds
  <1>3. \A call, next : Awaits(w, call, next) => job' = job
    BY <1>1, <1>2 DEF Awaits
  <1>4. \A next : Checks(w, next) => job' = job
    BY <1>1, <1>2 DEF Checks
  <1>5. LookUp(w) \/ Prepared(w) \/ Throws(w) => job' = job
    BY <1>1, <1>2 DEF LookUp, Prepared, Throws, HandlerEnds
  <1>6. Begin(w) => job' = job
    BY <1>3 DEF Begin
  <1>7. Look(w) \/ BuildFacts(w) => job' = job
    BY <1>4 DEF Look, BuildFacts
  <1>8. Judge(w) \/ Dispatched(w) \/ Await(w) \/ Save(w) => job' = job
    BY <1>1, <1>2 DEF Judge, Dispatched, Await, Save, queueVars
  <1>9. Drain(w) \/ SkipPastCutoff(w) \/ Refuse(w) \/ StartAgent(w) => job' = job
    BY <1>1, <1>3 DEF Drain, SkipPastCutoff, Refuse, StartAgent
  <1>10. HandlerStep(w) => job' = job
    BY <1>5, <1>6, <1>7, <1>8, <1>9 DEF HandlerStep, OrchestratorStep
  <1>11. \A u \in Unit : Submit(w, u) \/ Deliver(w, u) => job' = job
    BY DEF Submit, Deliver, queueVars
  <1>12. \A i \in Item : AgentEnds(w, i) => job' = job
    BY DEF AgentEnds, AgentStops, Finish, AgentIs, queueVars
  <1> QED BY <1>10, <1>11, <1>12

\* A table that is left alone revives nothing.
LEMMA KeptRevivesNothing ==
  ASSUME job' = job
  PROVE  (\A j \in ReviewJob : NoRevival(j)) /\ DropsQuietly
  BY DEF NoRevival, DropsQuietly

\* Callers stop jobs and add new ones, under no lease, and drop nothing.
LEMMA CallersReviveNothing ==
  ASSUME LifecycleInv,
         \/ \E r \in Run : CallerStep(r)
         \/ \E h \in Head, seen \in SUBSET Run : Supersede(h, seen)
  PROVE  (\A j \in ReviewJob : NoRevival(j)) /\ DropsQuietly
  <1>1. ASSUME NEW rs \in SUBSET Run, \A r \in rs : run[r].status \in Live,
               NEW j \in ReviewJob, job'[j] = JobsStopped(rs)[j]
        PROVE  NoRevival(j)
    BY <1>1, StoppedRows DEF NoRevival
  <1>2. ASSUME NEW j \in ReviewJob, job'[j].status = "queued" PROVE NoRevival(j)
    BY <1>2 DEF NoRevival
  <1>3. job \in [Job -> JobRow]
    BY DEF LifecycleInv, QueueInv, QueueTypeOK
  <1>4. Untouched => DropsQuietly
    BY DEF Untouched, DropsQuietly
  <1>5. ASSUME NEW r \in Run, NEW h \in Head, NEW seen \in SUBSET Run, Create(r, h, seen)
        PROVE  (\A j \in ReviewJob : NoRevival(j)) /\ DropsQuietly
    <2>1. PICK old : old = Obsolete(h) \cap seen
      OBVIOUS
    <2>2. PICK j \in ReviewJob : job' = Enqueued(JobsStopped(old), j)
      BY <1>5, <2>1 DEF Create
    <2>3. /\ old \in SUBSET Run /\ \A s \in old : run[s].status \in Live
      BY <2>1 DEF Obsolete
    <2>4. DOMAIN JobsStopped(old) = Job
      BY DEF JobsStopped
    <2>5. /\ job'[j].status = "queued"
          /\ \A k \in ReviewJob \ {j} : job'[k] = JobsStopped(old)[k]
      BY <2>2, <2>4, NewRowIsGood DEF Enqueued
    <2>6. \A k \in ReviewJob \ {j} : NoRevival(k)
      BY <1>1, <2>3, <2>5
    <2> QED BY <1>2, <1>4, <1>5, <2>5, <2>6 DEF Create
  <1>6. ASSUME NEW r, NEW kind, Revive(r, kind)
        PROVE  (\A j \in ReviewJob : NoRevival(j)) /\ DropsQuietly
    <2>1. PICK j \in ReviewJob : job' = Enqueued(job, j)
      BY <1>6 DEF Revive
    <2>2. /\ job'[j].status = "queued"
          /\ \A k \in ReviewJob \ {j} : job'[k] = job[k]
      BY <1>3, <2>1, NewRowIsGood DEF Enqueued
    <2> QED BY <1>2, <1>4, <1>6, <2>2 DEF NoRevival, Revive
  <1>7. ASSUME NEW r \in Run, Cancel(r)
        PROVE  (\A j \in ReviewJob : NoRevival(j)) /\ DropsQuietly
    <2>1. PICK rs : rs = {r}
      OBVIOUS
    <2>2. rs \in SUBSET Run /\ (\A s \in rs : run[s].status \in Live) /\ job' = JobsStopped(rs)
      BY <1>7, <2>1 DEF Cancel
    <2> QED BY <1>1, <1>4, <1>7, <2>2 DEF Cancel
  <1>8. ASSUME NEW h \in Head, NEW seen \in SUBSET Run, Supersede(h, seen)
        PROVE  (\A j \in ReviewJob : NoRevival(j)) /\ DropsQuietly
    <2>1. PICK old : old = Obsolete(h) \cap seen
      OBVIOUS
    <2>2. old \in SUBSET Run /\ (\A s \in old : run[s].status \in Live) /\ job' = JobsStopped(old)
      BY <1>8, <2>1 DEF Supersede, Obsolete
    <2> QED BY <1>1, <1>4, <1>8, <2>2 DEF Supersede
  <1>9. ASSUME NEW r \in Run, Delete(r)
        PROVE  (\A j \in ReviewJob : NoRevival(j)) /\ DropsQuietly
    BY <1>9, KeptRevivesNothing DEF Delete
  <1> QED BY <1>5, <1>6, <1>7, <1>8, <1>9 DEF CallerStep, Retry, RetryOverview

\* A claim grants new leases only.
LEMMA ClaimsReviveNothing ==
  ASSUME LifecycleInv, NEW w \in ReviewWorker, NEW d \in Age,
         ClaimJob(w, d, LiveJobs) \/ ClaimNothing(w, d, LiveJobs)
  PROVE  (\A j \in ReviewJob : NoRevival(j)) /\ DropsQuietly
  <1>0. /\ QueueInv /\ w \in Worker /\ DOMAIN AfterBurial(d) = Job
        /\ worker \in [Worker -> WorkerState]
    BY DEF LifecycleInv, QueueInv, QueueTypeOK, AfterBurial
  <1>1. ASSUME NEW j \in ReviewJob, job'[j] = AfterBurial(d)[j] PROVE NoRevival(j)
    <2>1. CASE j \in Buried(d)
      <3>1. job'[j] = Unleased(job[j], "dead_letter")
        BY <1>1, <2>1 DEF AfterBurial
      <3>2. job'[j].status = "dead_letter"
        BY <1>0, <3>1, InvRows, UnleasedRow DEF JobStatus
      <3> QED BY <3>2 DEF NoRevival
    <2>2. CASE j \notin Buried(d)
      BY <1>1, <2>2 DEF AfterBurial, NoRevival
    <2> QED BY <2>1, <2>2
  <1>2. DropsQuietly
    <2>1. worker[w].phase \notin Holding
      BY DEF ClaimJob, ClaimNothing, Holding, Ended, Failed
    <2>2. \A v \in ReviewWorker \ {w} : worker'[v] = worker[v]
      BY <1>0 DEF ClaimJob, ClaimNothing
    <2> QED BY <2>1, <2>2 DEF DropsQuietly
  <1>3. CASE ClaimNothing(w, d, LiveJobs)
    BY <1>1, <1>2, <1>3 DEF ClaimNothing
  <1>4. CASE ClaimJob(w, d, LiveJobs)
    <2>1. PICK j \in Oldest(Candidates(w, d, LiveJobs)) :
            job' = [AfterBurial(d) EXCEPT ![j] = Granted(w, j, d)]
      BY <1>4 DEF ClaimJob
    <2>2. j \in Job /\ job[j].attempts < job[j].max /\ j \in ReviewJob
      BY DEF Oldest, Candidates, Serves, Eligible
    <2>3. NoRevival(j)
      <3>1. job'[j] = Granted(w, j, d)
        BY <1>0, <2>1, <2>2
      <3>2. job'[j].attempts = job[j].attempts + 1 /\ job[j].attempts \in Nat
        BY <1>0, <2>2, <3>1, GrantedRow, ReviewRow
      <3> QED BY <3>2 DEF NoRevival
    <2>4. \A k \in ReviewJob \ {j} : job'[k] = AfterBurial(d)[k]
      BY <1>0, <2>1, <2>2
    <2> QED BY <1>1, <1>2, <2>3, <2>4
  <1> QED BY <1>3, <1>4

\* A report of a process ends a lease.
LEMMA ReportsReviveNothing ==
  ASSUME LifecycleInv, NEW w \in ReviewWorker, NEW d \in Age, d = 0,
         Complete(w, d) \/ Fail(w, d)
  PROVE  (\A j \in ReviewJob : NoRevival(j)) /\ DropsQuietly
  <1> DEFINE j == worker[w].job
             v == VerdictOn(w, job[j])
             done == Unleased(job[j], "completed")
             over == FailedRow(job[j], v, d)
  <1>1. /\ QueueInv /\ w \in Worker /\ job \in [Job -> JobRow]
        /\ worker \in [Worker -> WorkerState]
    BY DEF LifecycleInv, QueueInv, QueueTypeOK
  <1>2. j \in Job /\ GoodRow(job[j])
    BY <1>1, HeldJob, InvRows DEF Complete, Fail, Holding, Ended
  <1>3. CASE ~Owns(w, j, worker[w].attempt, d)
    BY <1>3, KeptRevivesNothing DEF Complete, Fail
  <1>4. CASE Owns(w, j, worker[w].attempt, d)
    <2>1. PICK row : job' = [job EXCEPT ![j] = row] /\ row.status # "leased"
      <3>1. CASE Complete(w, d)
        <4>1. job' = [job EXCEPT ![j] = done]
          BY <1>4, <3>1 DEF Complete
        <4>2. done.status = "completed"
          BY <1>2, UnleasedRow DEF JobStatus
        <4> HIDE DEF done, j
        <4> QED BY <4>1, <4>2
      <3>2. CASE Fail(w, d)
        <4>1. job' = [job EXCEPT ![j] = over]
          BY <1>4, <3>2 DEF Fail
        <4>2. v \in Verdict /\ v.status # "none"
          BY <1>2, VerdictType DEF GoodRow
        <4>3. over.status \in {"retry", "dead_letter"}
          <5> HIDE DEF v, j
          <5> QED BY <1>2, <4>2, FailedRowIsGood
        <4> HIDE DEF over, j
        <4> QED BY <4>1, <4>3
      <3> QED BY <3>1, <3>2
    <2>2. \A k \in ReviewJob : NoRevival(k)
      <3> HIDE DEF j
      <3> QED BY <1>1, <1>2, <2>1 DEF NoRevival
    <2>3. DropsQuietly
      <3>1. \A x \in ReviewWorker \ {w} : worker'[x] = worker[x]
        BY <1>1 DEF Complete, Fail, Release
      <3> QED BY <1>4, <3>1 DEF DropsQuietly
    <2> QED BY <2>2, <2>3
  <1> QED BY <1>3, <1>4

\* A heartbeat that reads its clock in time renews only a lease that runs.
LEMMA BeatsReviveNothing ==
  ASSUME LifecycleInv, NEW w \in ReviewWorker, NEW d \in Age, d = 0, Heartbeat(w, d)
  PROVE  (\A j \in ReviewJob : NoRevival(j)) /\ DropsQuietly
  <1> DEFINE j == worker[w].job
             row == [job[j] EXCEPT !.left = LeaseTicks - d]
             p == IF worker[w].phase = "running" THEN "cancelled" ELSE worker[w].phase
  <1>1. /\ QueueInv /\ w \in Worker /\ job \in [Job -> JobRow] /\ j \in Job
        /\ worker \in [Worker -> WorkerState] /\ worker[w].phase \in Holding
    BY HeldJob DEF LifecycleInv, QueueInv, QueueTypeOK, Heartbeat
  <1>2. CASE ~Owns(w, j, worker[w].attempt, d)
    BY <1>2, KeptRevivesNothing DEF Heartbeat
  <1>3. CASE Owns(w, j, worker[w].attempt, d)
    <2>1. job' = [job EXCEPT ![j] = row] /\ worker' = worker
      BY <1>3 DEF Heartbeat, Renewed
    <2>2. job[j].status = "leased" /\ job[j].left > 0
      BY <1>1, <1>3 DEF Owns, JobRow
    <2>3. \A k \in ReviewJob : NoRevival(k)
      <3> HIDE DEF row, j
      <3> QED BY <1>1, <2>1, <2>2 DEF NoRevival
    <2> QED BY <2>1, <2>3 DEF DropsQuietly
  <1> QED BY <1>2, <1>3

\* Time passes, and no lease is the longer for it.
LEMMA TimeRevivesNothing ==
  ASSUME LifecycleInv, Tick
  PROVE  (\A j \in ReviewJob : NoRevival(j)) /\ DropsQuietly
  <1>1. ASSUME NEW j \in ReviewJob PROVE NoRevival(j)
    <2>1. j \in Job /\ GoodRow(job[j])
      BY InvRows DEF LifecycleInv
    <2>2. job'[j] = [job[j] EXCEPT !.left = Down(@, Expired), !.wait = Down(@, Ready)]
      BY <2>1 DEF Tick
    <2>3. /\ job'[j].status = job[j].status
          /\ job'[j].left = Down(job[j].left, Expired) /\ job[j].left \in Int
      BY <2>1, <2>2 DEF GoodRow, JobRow
    <2>4. job'[j].left > 0 => job[j].left > 0
      BY <2>3 DEF Down, Expired
    <2> QED BY <2>3, <2>4 DEF NoRevival
  <1> QED BY <1>1 DEF Tick, DropsQuietly

\* No step gives a lost lease back when clocks are read inside transactions.
LEMMA NothingRevived ==
  ASSUME ClockLag = 0, LifecycleInv, [ReviewNext]_vars
  PROVE  (\A j \in ReviewJob : NoRevival(j)) /\ DropsQuietly
  <1>0. \A d \in Age : d = 0
    OBVIOUS
  <1>1. ASSUME NEW r \in Run, CallerStep(r) \/ DeadlinePasses(r)
        PROVE  (\A j \in ReviewJob : NoRevival(j)) /\ DropsQuietly
    BY <1>1, CallersReviveNothing, KeptRevivesNothing DEF DeadlinePasses, queueVars
  <1>2. ASSUME NEW w \in ReviewWorker, ProcessStep(w)
        PROVE  (\A j \in ReviewJob : NoRevival(j)) /\ DropsQuietly
    <2>1. CASE Polls(w) \/ Dies(w) \/ MayInterrupt(w, Stop(w)) \/ MayInterrupt(w, CancelHandler(w))
      BY <2>1, KeptRevivesNothing DEF Polls, Dies, Start, StartClaim, Kill, MayInterrupt, Stop,
                                      CancelHandler
    <2>2. ASSUME NEW d \in Age, ClaimReview(w, d) \/ ClaimNoReview(w, d)
          PROVE  (\A j \in ReviewJob : NoRevival(j)) /\ DropsQuietly
      BY <2>2, ClaimsReviveNothing DEF ClaimReview, ClaimNoReview
    <2>3. ASSUME NEW d \in Age, Reports(w, d)
          PROVE  (\A j \in ReviewJob : NoRevival(j)) /\ DropsQuietly
      BY <1>0, <2>3, ReportsReviveNothing DEF Reports
    <2>4. ASSUME NEW d \in Age, MayInterrupt(w, Heartbeat(w, d))
          PROVE  (\A j \in ReviewJob : NoRevival(j)) /\ DropsQuietly
      BY <1>0, <2>4, BeatsReviveNothing DEF MayInterrupt
    <2> QED BY <1>2, <2>1, <2>2, <2>3, <2>4 DEF ProcessStep
  <1>3. ASSUME NEW w \in ReviewWorker, HandlerStep(w)
        PROVE  (\A j \in ReviewJob : NoRevival(j)) /\ DropsQuietly
    BY <1>3, HandlersKeepJobs, KeptRevivesNothing
  <1>4. ASSUME NEW w \in ReviewWorker, NEW u \in Unit, Submit(w, u) \/ Deliver(w, u)
        PROVE  (\A j \in ReviewJob : NoRevival(j)) /\ DropsQuietly
    BY <1>4, HandlersKeepJobs, KeptRevivesNothing
  <1>5. ASSUME NEW w \in ReviewWorker, NEW i \in Item, AgentEnds(w, i)
        PROVE  (\A j \in ReviewJob : NoRevival(j)) /\ DropsQuietly
    BY <1>5, HandlersKeepJobs, KeptRevivesNothing
  <1>6. CASE (\E c \in late : LateCall(c)) \/ UNCHANGED vars
    BY <1>6, KeptRevivesNothing DEF LateCall, queueVars, vars
  <1>7. CASE TimePasses
    BY <1>7, TimeRevivesNothing DEF TimePasses
  <1> QED BY <1>1, <1>2, <1>3, <1>4, <1>5, <1>6, <1>7, CallersReviveNothing DEF ReviewNext

\* A process whose lease ran out has lost it for good when every method of the
\* queue reads its clock inside of its transaction.
LEMMA LostStaysLost ==
  ASSUME ClockLag = 0, LifecycleInv, HoldersOK, [ReviewNext]_vars
  PROVE  LostIsLost
  <1> SUFFICES ASSUME NEW w \in ReviewWorker, worker[w].phase \in Holding,
                      ~Owns(w, worker[w].job, worker[w].attempt, 0),
                      worker'[w].phase \in Holding,
                      Owns(w, worker[w].job, worker[w].attempt, 0)'
               PROVE  FALSE
    BY NothingRevived DEF LostIsLost, DropsQuietly
  <1>1. PICK j : j = worker[w].job
    OBVIOUS
  <1>2. PICK n : n = worker[w].attempt
    OBVIOUS
  <1>3. SameWork(w)
    BY StepAlwaysGoes DEF StepGoes, ProcessesGo, ProcessGoes, Begins
  <1>4. /\ j \in ReviewJob /\ n \in Nat /\ n <= job[j].attempts /\ job[j].status # "absent"
        /\ Owns(w, j, n, 0)' /\ ~Owns(w, j, n, 0) /\ job[j].attempts \in Nat
    BY <1>1, <1>2, <1>3, HeldLease, ReviewRow DEF SameWork, LifecycleInv
  <1>5. /\ job'[j].status = "leased" /\ job'[j].owner = w /\ job'[j].attempts = n
        /\ job'[j].left > -0
    BY <1>4 DEF Owns
  <1>6. NoRevival(j) /\ QuietRow(j)
    BY <1>4, NothingRevived, StepAlwaysGoes DEF StepGoes, RowsGo, JobGoes
  <1>7. job[j].status = "leased" /\ job[j].left > 0
    BY <1>4, <1>5, <1>6 DEF NoRevival
  <1>8. SameLease(j)
    BY <1>4, <1>5, <1>6 DEF QuietRow
  <1>9. job[j].status = "leased" /\ job[j].owner = w /\ job[j].attempts = n
    BY <1>5, <1>7, <1>8 DEF SameLease
  <1>10. job[j].left > -0
    BY <1>7
  <1> QED BY <1>4, <1>9, <1>10 DEF Owns

-----------------------------------------------------------------------------
(* What strands a review *)

\* A handler that reported its failure to the review ended the review, unless
\* the job went to another attempt.  Without a stale clock, one that returned
\* with the lease ran into the hard deadline.
LeaverOK(w) ==
    /\ worker[w].phase = "fatal" /\ Grip(LeaseOf(w)) => run[RunOf(w)].status \in TERMINAL
    /\ ClockLag = 0 =>
          /\ worker[w].phase = "returned" /\ Fence(LeaseOf(w)) => deadline[RunOf(w)] = "hard"
          /\ StopsOK(w)

LeaversOK == \A w \in ReviewWorker : LeaverOK(w)

\* A review that is over stays so while a process has its job.
LEMMA OverStaysOver ==
  ASSUME LifecycleInv, HoldersOK, StepGoes, NEW w \in ReviewWorker, SameWork(w),
         Grip(LeaseOf(w))', run[RunOf(w)].status \in TERMINAL
  PROVE  run'[RunOf(w)].status \in TERMINAL
  <1>1. PICK j : j = worker[w].job
    OBVIOUS
  <1>2. PICK r : r = RunOf(w)
    OBVIOUS
  <1>3. PICK lease : lease = LeaseOf(w)
    OBVIOUS
  <1>4. /\ j \in ReviewJob /\ r \in Run /\ jobOf[j].run = r /\ job[j].status # "absent"
        /\ lease.job = j /\ lease.attempt \in Nat /\ lease.attempt <= job[j].attempts
    BY <1>1, <1>2, <1>3, HeldLease DEF SameWork, RunOf
  <1>5. LeaseOf(w)' = lease
    BY <1>3 DEF SameWork, LeaseOf
  <1>6. Grip(lease)
    <2>1. Grip(lease)'
      BY <1>4, <1>5 DEF Grip
    <2> QED BY <1>4, <2>1, GripWas DEF StepGoes, RowsGo, JobGoes
  <1>7. HasActiveJob(r)
    BY <1>4, <1>6 DEF Grip, HasActiveJob, JobsOf, Active
  <1>8. RunGoes(r) /\ "absent" \notin TERMINAL /\ \A s \in TERMINAL : s \notin Live
    BY <1>4 DEF StepGoes, RowsGo, TERMINAL, Live
  <1> QED BY <1>2, <1>7, <1>8 DEF RunGoes

\* Handlers leave their reviews in order, step after step.
LEMMA LeaverStaysOK ==
  ASSUME LifecycleInv, HoldersOK, StepGoes, HardStays, ClockLag = 0 => LostIsLost,
         NEW w \in ReviewWorker, LeaverOK(w)
  PROVE  LeaverOK(w)'
  <1>1. ProcessGoes(w) /\ "returned" \in Holding /\ "fatal" \in Holding
    BY DEF StepGoes, ProcessesGo, Holding, Ended, Failed
  <1>2. ASSUME worker'[w].phase \in {"returned", "fatal"}
        PROVE  /\ SameWork(w)
               /\ worker'[w].phase = worker[w].phase \/ EndsLawfully(w)
    BY <1>1, <1>2 DEF ProcessGoes, Begins
  <1>3. ASSUME worker'[w].phase = "fatal", Grip(LeaseOf(w))'
        PROVE  run'[RunOf(w)'].status \in TERMINAL
    <2>1. RunOf(w)' = RunOf(w) /\ SameWork(w)
      BY <1>2, <1>3, SameReview DEF RunOf
    <2>2. CASE EndsLawfully(w)
      BY <1>3, <2>1, <2>2 DEF EndsLawfully
    <2>3. CASE worker[w].phase = "fatal"
      <3>1. Grip(LeaseOf(w))
        <4>1. PICK j : j = worker[w].job
          OBVIOUS
        <4>2. PICK lease : lease = LeaseOf(w)
          OBVIOUS
        <4>3. LeaseOf(w)' = lease
          BY <2>1, <4>2 DEF SameWork, LeaseOf
        <4>4. /\ lease.job = j /\ j \in ReviewJob /\ job[j].status # "absent"
              /\ lease.attempt \in Nat /\ lease.attempt <= job[j].attempts
          BY <2>1, <4>1, <4>2, HeldLease DEF SameWork
        <4>5. Grip(lease)'
          BY <1>3, <4>3 DEF Grip
        <4> QED BY <4>2, <4>4, <4>5, GripWas DEF StepGoes, RowsGo, JobGoes
      <3>2. run[RunOf(w)].status \in TERMINAL
        BY <2>3, <3>1 DEF LeaverOK
      <3> QED BY <1>3, <2>1, <3>2, OverStaysOver
    <2> QED BY <1>2, <1>3, <2>2, <2>3
  <1>4. ASSUME ClockLag = 0, worker'[w].phase = "returned", Fence(LeaseOf(w))'
        PROVE  deadline'[RunOf(w)'] = "hard"
    <2>1. RunOf(w)' = RunOf(w) /\ RunOf(w) \in Run
      BY <1>2, <1>4, SameReview DEF RunOf
    <2>2. Fence(LeaseOf(w))
      BY <1>1, <1>2, <1>4, FenceStaysDown
    <2>3. deadline[RunOf(w)] = "hard"
      <3>1. CASE worker[w].phase = "returned"
        BY <1>4, <2>2, <3>1 DEF LeaverOK
      <3>2. CASE worker[w].phase # "returned"
        <4>1. PICK i \in Item : worker[w].phase = "running"
                                /\ handler[w].agent[i].state = "stopped"
          BY <1>2, <1>4, <3>2 DEF EndsLawfully
        <4> QED BY <1>4, <2>2, <4>1 DEF LeaverOK, StopsOK
      <3> QED BY <3>1, <3>2
    <2> QED BY <2>1, <2>3 DEF HardStays
  <1>5. ClockLag = 0 => StopsOK(w)'
    BY StopsStayOK DEF LeaverOK
  <1> QED BY <1>3, <1>4, <1>5 DEF LeaverOK

\* However handlers leave, they leave their reviews in order.
THEOREM LeaversAreInOrder == ReviewSpec => []LeaversOK
  <1>1. LifecycleInit => LeaversOK
    BY DEF LifecycleInit, QueueInit, NoWork, LeaversOK, LeaverOK, StopsOK
  <1>2. ASSUME LifecycleInv, HoldersOK, LeaversOK, [ReviewNext]_vars PROVE LeaversOK'
    BY <1>2, StepAlwaysGoes, HardDeadlineStays, LostStaysLost, LeaverStaysOK DEF LeaversOK
  <1>3. LifecycleInv /\ HoldersOK /\ LeaversOK /\ [ReviewNext]_vars => LeaversOK'
    BY <1>2
  <1> QED BY <1>1, <1>3, LifecycleInvariance, HoldersAreInOrder, PTL DEF ReviewSpec

\* A process that gives up the job of a live review is the one that strands it.
LEMMA GivingUpStrands ==
  ASSUME LifecycleInv, HoldersOK, LeaversOK, ClockLag = 0 => DropsQuietly,
         NEW j \in ReviewJob, NEW r \in Run, jobOf[j].run = r,
         run[r].status \in Live, NEW w \in ReviewWorker, GivesUp(w, j)
  PROVE  /\ \/ worker[w].phase \in {"raised", "cancelled"} /\ LastTry(w)
            \/ worker[w].phase = "returned" /\ (deadline[r] = "hard" \/ ClockLag > 0)
         /\ RunOf(w) = r /\ worker'[w].phase # worker[w].phase
  <1>1. /\ worker[w].phase \in Ended /\ worker'[w].phase \notin Holding
        /\ worker[w].job = j /\ Grip(LeaseOf(w)) /\ job' # job
        /\ worker[w].phase \in {"returned", "fatal"} \/ LastTry(w)
        /\ worker[w].phase \in Holding
    BY DEF GivesUp, Holding
  <1>2. RunOf(w) = r /\ worker'[w].phase # worker[w].phase
    BY <1>1 DEF RunOf
  <1>3. worker[w].phase \in {"returned", "raised", "fatal", "cancelled"}
    BY <1>1 DEF HoldersOK, HolderOK, Ended, Failed
  <1>4. worker[w].phase # "fatal"
    <2>1. run[r].status \notin TERMINAL
      BY DEF Live, TERMINAL
    <2> QED BY <1>1, <1>2, <2>1 DEF LeaversOK, LeaverOK
  <1>5. ASSUME worker[w].phase = "returned", ClockLag = 0 PROVE deadline[r] = "hard"
    <2>1. Owns(w, j, worker[w].attempt, 0)
      BY <1>1, <1>5 DEF DropsQuietly
    <2>2. ~run[r].deleted /\ run[r].status \notin TERMINAL
      BY DEF LifecycleInv, RunOK, Live, TERMINAL
    <2>3. Fence(LeaseOf(w))
      BY <1>1, <2>1, <2>2 DEF Fence, LeaseOf
    <2> QED BY <1>2, <1>5, <2>3 DEF LeaversOK, LeaverOK
  <1>6. ClockLag = 0 \/ ClockLag > 0
    BY DEF QueueTypeOK
  <1> QED BY <1>1, <1>2, <1>3, <1>4, <1>5, <1>6

\* One step strands a review only in this way.
LEMMA StrandingStep ==
  ASSUME LifecycleInv, HoldersOK, LeaversOK, StepGoes, ClockLag = 0 => DropsQuietly,
         NEW r \in Run, ~Stranded(r), Stranded(r)'
  PROVE  \E w \in ReviewWorker :
            /\ \/ worker[w].phase \in {"raised", "cancelled"} /\ LastTry(w)
               \/ worker[w].phase = "returned" /\ (deadline[r] = "hard" \/ ClockLag > 0)
            /\ RunOf(w) = r /\ worker'[w].phase # worker[w].phase
  <1>1. RunGoes(r) /\ run'[r].status \in Live /\ ~HasActiveJob(r)'
    BY DEF StepGoes, RowsGo, Stranded
  <1>2. \A s \in TERMINAL : s \notin Live
    BY DEF TERMINAL, Live
  <1>3. run[r].status \in Live
    BY <1>1, <1>2 DEF RunGoes
  <1>4. PICK j \in ReviewJob : jobOf[j].run = r /\ job[j].status \in Active
    BY <1>3 DEF Stranded, HasActiveJob, JobsOf
  <1>5. JobGoes(j)
    BY <1>4 DEF StepGoes, RowsGo, Active
  <1>6. job'[j].status \notin Active
    BY <1>1, <1>4, <1>5 DEF JobGoes, HasActiveJob, JobsOf
  <1>7. PICK w \in ReviewWorker : GivesUp(w, j)
    BY <1>1, <1>2, <1>4, <1>5, <1>6 DEF JobGoes
  <1> QED BY <1>3, <1>4, <1>7, GivingUpStrands

\* A review is stranded only by its own handler, in the report of its last
\* attempt or of a return without an outcome: by no crash, no lost lease, no
\* buried job, no caller and no exception that reached the review, with any
\* number of reviews, items, jobs and processes.
THEOREM OnlyHandlersStrand == ReviewSpec => StrandedByItsHandler
  <1>1. ASSUME LifecycleInv, HoldersOK, LeaversOK, [ReviewNext]_vars,
               NEW r \in Run, ~Stranded(r), Stranded(r)'
        PROVE  \E w \in ReviewWorker :
                  /\ \/ worker[w].phase \in {"raised", "cancelled"} /\ LastTry(w)
                     \/ worker[w].phase = "returned" /\ (deadline[r] = "hard" \/ ClockLag > 0)
                  /\ RunOf(w) = r /\ worker'[w].phase # worker[w].phase
    BY <1>1, StepAlwaysGoes, NothingRevived, StrandingStep
  <1>2. LifecycleInv /\ HoldersOK /\ LeaversOK /\ [ReviewNext]_vars
        => [\A r \in Run : ~Stranded(r) /\ Stranded(r)' =>
              \E w \in ReviewWorker :
                 /\ \/ /\ worker[w].phase \in {"raised", "cancelled"}
                       /\ job[worker[w].job].attempts >= job[worker[w].job].max
                    \/ /\ worker[w].phase = "returned"
                       /\ deadline[r] = "hard" \/ ClockLag > 0
                 /\ RunOf(w) = r /\ worker'[w].phase # worker[w].phase]_vars
    BY <1>1 DEF LastTry
  <1> QED BY <1>2, LifecycleInvariance, HoldersAreInOrder, LeaversAreInOrder, PTL
          DEF ReviewSpec, StrandedByItsHandler
=============================================================================
