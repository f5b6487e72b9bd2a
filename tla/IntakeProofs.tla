---------------------------- MODULE IntakeProofs ----------------------------
(***************************************************************************)
(* Proofs about ReviewIntake, for any number of requests, deliveries, keys *)
(* and pushes, any hourly limit, and any number of faults.                 *)
(***************************************************************************)
EXTENDS ReviewIntake, FiniteSetTheorems, TLAPS

USE IntakeAssumption

-----------------------------------------------------------------------------
(* The invariant *)

Before == {"create", "fetch", "store"}
Working == {"load", "find", "count", "live?", "stop"} \cup Before
Judging == {"store", "stop"}
Events == {Event(h) : h \in HeadSha}

RequestRow == [pc : Working \cup {"none", "answer", "gone"}, delivery : SUBSET Delivery,
               head : Nat, key : Key \cup {<<>>}, observed : Nat,
               result : {"none", "skipped", "failed", "completed"}, task : Nat]

IntakeTypes ==
    /\ clock \in Nat /\ live \in HeadSha
    /\ delivery \in [Delivery -> [status : {"absent", "accepted", "completed", "failed",
                                            "skipped"},
                                  head : Nat, task : Nat]]
    /\ run \in [Arrival -> [state : {"absent", "live", "superseded", "deleted"},
                            head : Nat, created : Nat, key : Key \cup {<<>>}]]
    /\ request \in [Arrival -> RequestRow]

\* A request at work belongs to a delivery, whose event it is about, or to a
\* caller of the API.
RequestOK(r) ==
    /\ r.observed <= clock
    /\ r.pc \in Working /\ r.delivery = {} => r.pc \in Before /\ r.key \in Key \ Events
    /\ r.pc \in Working /\ r.delivery # {} =>
          r.head \in HeadSha /\ r.head <= live /\ r.key = Event(r.head)
    /\ r.pc \in Working \cup {"answer"} => \A d \in r.delivery : delivery[d].status # "absent"
    /\ r.pc \in Working => \A d \in r.delivery : r.head = delivery[d].head
    /\ r.pc = "answer" => r.result # "none"

\* A review of an event is one of its head.
RunOK(p) ==
    /\ run[p].created <= clock
    /\ run[p].state # "absent" /\ run[p].key \in Events =>
          run[p].head \in HeadSha /\ run[p].key = Event(run[p].head) /\ run[p].head <= live

\* A run is stored by its request, once.
Unstored(q, r) == r.pc \in Working \cup {"none"} => run[q].state = "absent"

\* A request that will answer with a review knows one of its delivery's head.
Names(d, task) ==
    \E p \in Made(Event(delivery[d].head)) : task = p /\ run[p].head = delivery[d].head
AnswerOK(r) ==
    r.pc = "answer" /\ r.result = "completed" => \A d \in r.delivery : Names(d, r.task)

\* Whoever may stop other reviews found its head live at some time since it
\* last read the clock; a push since then came later than that reading.
JudgeOK(r) == r.pc \in Judging =>
    /\ r.head <= live
    /\ r.head < live => r.observed < clock
    /\ \A p \in Arrival :
          run[p].state # "absent" /\ run[p].key \in Events /\ run[p].head > r.head
          => run[p].created > r.observed

\* So it cannot stop what a webhook begins for a later head.
Yields(r, s) ==
    r.pc \in Judging /\ s.pc \in {"fetch", "store"} /\ s.delivery # {} /\ s.head > r.head
    => s.observed > r.observed

OnlyOne == \A p, q \in Arrival :
    run[p].state # "absent" /\ run[q].state # "absent" /\ run[p].key = run[q].key => p = q

AllRequestsOK == \A q \in Arrival : RequestOK(request[q]) /\ AnswerOK(request[q])
                               /\ JudgeOK(request[q]) /\ Unstored(q, request[q])
RequestsInv == AllRequestsOK /\ \A q, p \in Arrival : Yields(request[q], request[p])
RunsInv == OnlyOne /\ \A p \in Arrival : RunOK(p)

IntakeInv ==
    /\ IntakeTypes /\ RequestsInv /\ RunsInv
    /\ DeliveryNamesItsRun /\ HourlyLimitKept /\ WebhookReviewStands

-----------------------------------------------------------------------------
(* Shapes of steps *)

\* Runs may be stopped or deleted; nothing begins.
RunsKept == run' \in [Arrival -> [state : {"absent", "live", "superseded", "deleted"},
                                  head : Nat, created : Nat, key : Key \cup {<<>>}]]
    /\ \A p \in Arrival :
          /\ run'[p].key = run[p].key /\ run'[p].head = run[p].head
          /\ run'[p].created = run[p].created
          /\ run'[p].state = "absent" <=> run[p].state = "absent"
          /\ run'[p].state = "superseded" /\ run[p].state # "superseded"
             /\ run[p].key \in Events => run[p].head # live

\* Request q becomes r.
Becomes(q, r) ==
    /\ request' = [request EXCEPT ![q] = r]
    /\ r \in RequestRow /\ RequestOK(r) /\ Unstored(q, r) /\ AnswerOK(r) /\ JudgeOK(r)
    /\ \A p \in Arrival : Yields(r, request[p]) /\ Yields(request[p], r)

\* What is said of keys: those of events have heads, others are not events.
LEMMA EventKeys ==
  /\ \A h \in HeadSha : Event(h) \in Events /\ Event(h) \in Key
  /\ \A g, h : Event(g) = Event(h) => g = h
  /\ \A k \in ApiKey : <<"installation", k>> \in Key \ Events
  BY DEF Event, Events, Key

\* The same runs are counted while none begins and time stands still.
LEMMA SameRuns ==
  ASSUME IntakeTypes, RunsKept, clock' = clock
  PROVE  /\ \A k : Made(k)' = Made(k)
         /\ Recent' = Recent
  BY DEF IntakeTypes, RunsKept, Made, Recent

\* A step of one request, which may stop runs, keeps the invariant.
LEMMA RequestStep ==
  ASSUME IntakeInv, RunsKept, UNCHANGED <<clock, live, delivery>>,
         NEW q \in Arrival, NEW r, Becomes(q, r)
  PROVE  IntakeInv'
  <1> USE DEF IntakeInv
  <1>1. (\A k : Made(k)' = Made(k)) /\ Recent' = Recent
    BY SameRuns
  <1>2. \A p \in Arrival : run'[p].head = run[p].head
    BY DEF RunsKept
  <1>3. IntakeTypes'
    BY DEF IntakeTypes, RunsKept, Becomes
  <1>4. \A d, t : Names(d, t)' <=> Names(d, t)
    BY <1>1, <1>2 DEF Names, Made
  <1>5. RequestsInv'
    <2>1. \A p \in Arrival : request'[p] = IF p = q THEN r ELSE request[p]
      BY DEF Becomes, IntakeTypes
    <2>2. \A s : RequestOK(s)' <=> RequestOK(s)
      BY DEF RequestOK
    <2>3. \A s : AnswerOK(s)' <=> AnswerOK(s)
      BY <1>4 DEF AnswerOK
    <2>4. \A s : JudgeOK(s) => JudgeOK(s)'
      BY DEF JudgeOK, RunsKept
    <2>5. \A p \in Arrival : \A s : Unstored(p, s) => Unstored(p, s)'
      BY DEF Unstored, RunsKept
    <2>6. r.head \in Nat /\ Yields(r, r)
      <3>1. r \in RequestRow
        BY DEF Becomes
      <3>2. r.head \in Nat
        BY <3>1 DEF RequestRow
      <3> QED BY <3>2 DEF Yields
    <2>7. \A p \in Arrival : /\ RequestOK(request'[p]) /\ AnswerOK(request'[p])
                             /\ JudgeOK(request'[p]) /\ Unstored(p, request'[p])
      BY <2>1 DEF Becomes, RequestsInv, AllRequestsOK
    <2>8. \A p, s \in Arrival : Yields(request'[p], request'[s])
      BY <2>1, <2>6 DEF Becomes, RequestsInv
    <2> QED BY <2>2, <2>3, <2>4, <2>5, <2>7, <2>8 DEF RequestsInv, AllRequestsOK, Yields
  <1>6. RunsInv'
    BY DEF RunsInv, OnlyOne, RunOK, RunsKept
  <1>7. DeliveryNamesItsRun'
    BY <1>1, <1>2 DEF DeliveryNamesItsRun, Made
  <1>8. HourlyLimitKept'
    BY <1>1 DEF HourlyLimitKept
  <1>9. WebhookReviewStands'
    BY DEF WebhookReviewStands, RunsKept, Events
  <1> QED BY <1>3, <1>5, <1>6, <1>7, <1>8, <1>9

\* The columns of a request.
LEMMA RowOf ==
  ASSUME IntakeTypes, NEW q \in Arrival
  PROVE  /\ request[q] \in RequestRow
         /\ request[q].pc \in Working \cup {"none", "answer", "gone"}
         /\ request[q].delivery \subseteq Delivery /\ request[q].head \in Nat
         /\ request[q].key \in Key \cup {<<>>} /\ request[q].observed \in Nat
         /\ request[q].task \in Nat
  <1>1. request[q] \in RequestRow
    BY DEF IntakeTypes
  <1> QED BY <1>1 DEF RequestRow

\* A request that is over, and one that goes on with nothing but its place
\* changed, to where it stops nobody.
LEMMA OverIsFine ==
  ASSUME IntakeInv, NEW q \in Arrival, request' = [request EXCEPT ![q] = Gone]
  PROVE  Becomes(q, Gone)
  <1>1. NotCome \in RequestRow
    BY DEF NotCome, RequestRow
  <1>2. Gone \in RequestRow /\ Gone.pc = "gone" /\ Gone.observed = 0
    BY <1>1 DEF Gone, RequestRow, NotCome
  <1>3. clock \in Nat
    BY DEF IntakeInv, IntakeTypes
  <1>4. RequestOK(Gone) /\ Unstored(q, Gone) /\ AnswerOK(Gone) /\ JudgeOK(Gone)
    BY <1>2, <1>3 DEF RequestOK, Unstored, AnswerOK, JudgeOK, Working, Before, Judging
  <1>5. \A s : Yields(Gone, s) /\ Yields(s, Gone)
    BY <1>2 DEF Yields, Judging
  <1> QED BY <1>2, <1>4, <1>5 DEF Becomes

\* The same with the delivery and the head it came with kept.
LEMMA GoesOn ==
  ASSUME IntakeInv, NEW q \in Arrival, request[q].pc \in Working, request[q].delivery # {},
         NEW pc \in {"find", "count", "live?", "create"}, MovesTo(q, pc)
  PROVE  Becomes(q, [request[q] EXCEPT !.pc = pc])
  <1> DEFINE r == [request[q] EXCEPT !.pc = pc]
  <1>1. request[q] \in RequestRow
    BY RowOf DEF IntakeInv
  <1>2. r \in RequestRow /\ r.pc = pc /\ r.delivery = request[q].delivery
          /\ r.head = request[q].head /\ r.key = request[q].key /\ r.observed = request[q].observed
          /\ request' = [request EXCEPT ![q] = r]
    BY <1>1 DEF RequestRow, MovesTo, Working, Before
  <1>3. RequestOK(request[q]) /\ Unstored(q, request[q])
    BY DEF IntakeInv, RequestsInv, AllRequestsOK
  <1> HIDE DEF r
  <1>4. RequestOK(r) /\ Unstored(q, r) /\ AnswerOK(r) /\ JudgeOK(r)
    BY <1>2, <1>3 DEF RequestOK, Unstored, AnswerOK, JudgeOK, Working, Before, Judging
  <1>5. \A s : Yields(r, s) /\ Yields(s, r)
    BY <1>2 DEF Yields, Judging
  <1>6. Becomes(q, r)
    BY <1>2, <1>4, <1>5 DEF Becomes
  <1> QED BY <1>6 DEF r

\* A request that ends with an answer.
LEMMA EndsWell ==
  ASSUME IntakeInv, NEW q \in Arrival, request[q].pc \in Working,
         NEW result \in {"skipped", "failed", "completed"}, NEW task \in Nat,
         Ends(q, result, task),
         result = "completed" => \A d \in request[q].delivery : Names(d, task)
  PROVE  \E r : Becomes(q, r)
  <1> DEFINE r == [NotCome EXCEPT !.pc = "answer", !.delivery = request[q].delivery,
                                  !.result = result, !.task = task]
  <1>1. request[q].delivery \subseteq Delivery
    BY RowOf DEF IntakeInv
  <1>2. NotCome \in RequestRow /\ NotCome.observed = 0
    BY DEF NotCome, RequestRow
  <1>3. /\ r \in RequestRow /\ request' = [request EXCEPT ![q] = r]
        /\ r.pc = "answer" /\ r.delivery = request[q].delivery
        /\ r.result = result /\ result # "none" /\ r.task = task /\ r.observed = 0
    BY <1>1, <1>2 DEF RequestRow, Ends
  <1>4. RequestOK(request[q]) /\ clock \in Nat
    BY DEF IntakeInv, RequestsInv, AllRequestsOK, IntakeTypes
  <1>5. Becomes(q, r)
    <2> HIDE DEF r
    <2>5. \A d \in r.delivery : delivery[d].status # "absent"
      BY <1>3, <1>4 DEF RequestOK
    <2>1. RequestOK(r)
      BY <1>3, <1>4, <2>5 DEF RequestOK, Working, Before
    <2>3. Unstored(q, r) /\ JudgeOK(r)
      BY <1>3 DEF Unstored, JudgeOK, Working, Before, Judging
    <2>4. AnswerOK(r)
      BY <1>3 DEF AnswerOK
    <2>2. \A s : Yields(r, s) /\ Yields(s, r)
      BY <1>3 DEF Yields, Judging
    <2> QED BY <1>3, <2>1, <2>2, <2>3, <2>4 DEF Becomes
  <1> QED BY <1>5

-----------------------------------------------------------------------------
(* The actions *)

\* What a key is known for.
LEMMA Known ==
  ASSUME NEW k
  PROVE  /\ KnownRun(k) = 0 => Made(k) = {}
         /\ KnownRun(k) # 0 => KnownRun(k) \in Made(k) /\ KnownRun(k) \in Arrival
         /\ KnownRun(k) \in Nat
  BY DEF KnownRun, Made, Arrival

\* A review that is known for the key of a delivery's event is of its head.
LEMMA KnownIsNamed ==
  ASSUME IntakeInv, NEW q \in Arrival, request[q].pc \in Working,
         KnownRun(request[q].key) # 0
  PROVE  \A d \in request[q].delivery : Names(d, KnownRun(request[q].key))
  <1> DEFINE p == KnownRun(request[q].key)
  <1>1. p \in Made(request[q].key) /\ p \in Arrival
    BY Known
  <1>2. RequestOK(request[q]) /\ RunOK(p)
    BY <1>1 DEF IntakeInv, RequestsInv, AllRequestsOK, RunsInv
  <1> SUFFICES ASSUME NEW d \in request[q].delivery
               PROVE  Names(d, p)
    OBVIOUS
  <1>3. /\ request[q].head \in HeadSha /\ request[q].key = Event(request[q].head)
        /\ request[q].head = delivery[d].head
    BY <1>2 DEF RequestOK
  <1>4. run[p].state # "absent" /\ run[p].key = Event(delivery[d].head)
    BY <1>1, <1>3 DEF Made
  <1>5. run[p].head = delivery[d].head
    BY <1>2, <1>3, <1>4, EventKeys DEF RunOK
  <1> QED BY <1>1, <1>3, <1>5 DEF Names

\* Nothing happens to the runs.
LEMMA RunsRest ==
  ASSUME IntakeTypes, run' = run
  PROVE  RunsKept
  BY DEF IntakeTypes, RunsKept

\* Whoever judges stops no review that a webhook began for the live head.
LEMMA JudgedRuns ==
  ASSUME IntakeInv, NEW q \in Arrival, request[q].pc \in Judging,
         NEW p \in ObsoleteSince(request[q].head, request[q].observed), run[p].key \in Events
  PROVE  run[p].head # live
  <1>1. JudgeOK(request[q]) /\ RunOK(p) /\ p \in Arrival
    BY DEF IntakeInv, RequestsInv, AllRequestsOK, RunsInv, ObsoleteSince
  <1>2. run[p].state # "absent" /\ run[p].head # request[q].head
          /\ run[p].created <= request[q].observed
    BY DEF ObsoleteSince
  <1>3. run[p].head \in Nat /\ request[q].head \in Nat /\ live \in Nat
          /\ run[p].created \in Nat /\ request[q].observed \in Nat
    BY <1>1, RowOf DEF IntakeInv, IntakeTypes, HeadSha
  <1> QED BY <1>1, <1>2, <1>3 DEF JudgeOK

\* Reading, looking around, and giving up.
LEMMA ReadsKeepInv ==
  ASSUME IntakeInv, NEW q \in Arrival,
         LoadsDelivery(q) \/ FindPrevious(q) \/ CountRecent(q) \/ StillLive(q)
  PROVE  IntakeInv'
  <1>1. UNCHANGED <<clock, live, delivery, run>> /\ RunsKept /\ IntakeTypes
    BY RunsRest DEF LoadsDelivery, FindPrevious, CountRecent, StillLive, RowsRest, IntakeInv
  <1>2. request[q].pc \in Working /\ RequestOK(request[q]) /\ Unstored(q, request[q])
    BY DEF LoadsDelivery, FindPrevious, CountRecent, StillLive, Stands, Working,
           IntakeInv, RequestsInv, AllRequestsOK
  <1>3. request[q].delivery # {}
    BY <1>2 DEF LoadsDelivery, FindPrevious, CountRecent, StillLive, Stands, RequestOK, Before
  <1>4. \E r : Becomes(q, r)
    <2>1. CASE \E pc \in {"find", "count", "create"} : MovesTo(q, pc)
      BY <1>2, <1>3, <2>1, GoesOn
    <2>2. CASE Leaves(q)
      BY <2>2, OverIsFine DEF Leaves
    <2>3. CASE Ends(q, "skipped", 0)
      BY <2>3, <1>2, EndsWell
    <2>4. CASE CountRecent(q) /\ TooMany
      <3> DEFINE r == [request[q] EXCEPT !.pc = "live?", !.observed = clock]
      <3>1. request[q] \in RequestRow /\ clock \in Nat
        BY <1>1, RowOf DEF IntakeTypes
      <3>2. /\ r \in RequestRow /\ r.pc = "live?" /\ r.delivery = request[q].delivery
            /\ r.head = request[q].head /\ r.key = request[q].key /\ r.observed = clock
        BY <3>1 DEF RequestRow, Working
      <3>3. request' = [request EXCEPT ![q] = r]
        BY <2>4 DEF CountRecent
      <3> HIDE DEF r
      <3>4. RequestOK(r)
        BY <1>2, <1>3, <3>1, <3>2 DEF RequestOK, Working, Before
      <3>6. AnswerOK(r) /\ JudgeOK(r)
        BY <3>2 DEF AnswerOK, JudgeOK, Judging
      <3>7. Unstored(q, r)
        BY <1>2, <3>2 DEF Unstored
      <3>5. \A s : Yields(r, s) /\ Yields(s, r)
        BY <3>2 DEF Yields, Judging
      <3> QED BY <3>2, <3>3, <3>4, <3>5, <3>6, <3>7 DEF Becomes
    <2>5. CASE StillLive(q) /\ live = request[q].head
      <3> DEFINE r == [request[q] EXCEPT !.pc = "stop"]
      <3>1. request[q] \in RequestRow /\ live \in Nat
        BY <1>1, RowOf DEF IntakeTypes, HeadSha
      <3>2. /\ r \in RequestRow /\ r.pc = "stop" /\ r.delivery = request[q].delivery
            /\ r.head = request[q].head /\ r.key = request[q].key
            /\ r.observed = request[q].observed
        BY <3>1 DEF RequestRow, Working
      <3>3. request' = [request EXCEPT ![q] = r] /\ r.head = live
        BY <2>5, <3>2 DEF MovesTo, StillLive
      <3> HIDE DEF r
      <3>4. RequestOK(r) /\ Unstored(q, r) /\ AnswerOK(r)
        BY <1>2, <1>3, <3>2 DEF RequestOK, Unstored, AnswerOK, Working, Before
      <3>5. JudgeOK(r)
        BY <3>1, <3>3 DEF JudgeOK, IntakeInv, RunsInv, RunOK, IntakeTypes, HeadSha
      <3>6. \A p \in Arrival : Yields(r, request[p]) /\ Yields(request[p], r)
        <4> TAKE p \in Arrival
        <4>1. RequestOK(request[p])
          BY DEF IntakeInv, RequestsInv, AllRequestsOK
        <4>2. request[p].head \in Nat
          BY <1>1, RowOf
        <4>3. Yields(request[p], r)
          BY <3>2 DEF Yields
        <4>4. request[p].pc \in {"fetch", "store"} /\ request[p].delivery # {}
                => request[p].head <= live
          BY <4>1 DEF RequestOK, Working, Before
        <4> QED BY <3>1, <3>3, <4>2, <4>3, <4>4 DEF Yields
      <3> QED BY <3>2, <3>3, <3>4, <3>5, <3>6 DEF Becomes
    <2> QED BY <2>1, <2>2, <2>3, <2>4, <2>5
         DEF LoadsDelivery, FindPrevious, CountRecent, StillLive
  <1> QED BY <1>1, <1>4, RequestStep

\* The clock and the head are numbers, and so are those of a request.
LEMMA Numbers ==
  ASSUME IntakeInv, NEW q \in Arrival
  PROVE  /\ clock \in Nat /\ live \in Nat
         /\ request[q].head \in Nat /\ request[q].observed \in Nat
         /\ run[q].head \in Nat /\ run[q].created \in Nat
  <1>1. request[q].head \in Nat /\ request[q].observed \in Nat
    BY RowOf DEF IntakeInv
  <1>2. clock \in Nat /\ live \in Nat
    BY DEF IntakeInv, IntakeTypes, HeadSha
  <1>3. run[q].head \in Nat /\ run[q].created \in Nat
    BY DEF IntakeInv, IntakeTypes
  <1> QED BY <1>1, <1>2, <1>3

\* The invariant, for one request.
LEMMA InvOf ==
  ASSUME IntakeInv, NEW q \in Arrival
  PROVE  /\ RequestOK(request[q]) /\ AnswerOK(request[q]) /\ JudgeOK(request[q])
         /\ Unstored(q, request[q]) /\ RunOK(q)
         /\ \A p \in Arrival : Yields(request[q], request[p]) /\ Yields(request[p], request[q])
  BY DEF IntakeInv, RequestsInv, AllRequestsOK, RunsInv

\* A webhook that may start no review stops the older ones.
LEMMA StopKeepsInv ==
  ASSUME IntakeInv, NEW q \in Arrival, StopObsolete(q)
  PROVE  IntakeInv'
  <1>1. request[q].pc \in Working /\ request[q].pc \in Judging
    BY DEF StopObsolete, Stands, Working, Judging
  <1>2. UNCHANGED <<clock, live, delivery>> /\ Ends(q, "skipped", 0)
          /\ run' = Without(ObsoleteSince(request[q].head, request[q].observed))
    BY DEF StopObsolete
  <1>3. RunsKept
    <2>1. \A p \in ObsoleteSince(request[q].head, request[q].observed) :
             run[p].state = "live" /\ (run[p].key \in Events => run[p].head # live)
      BY <1>1, JudgedRuns DEF ObsoleteSince
    <2> QED BY <1>2, <2>1 DEF RunsKept, Without, IntakeInv, IntakeTypes
  <1>4. PICK r : Becomes(q, r)
    BY <1>1, <1>2, EndsWell
  <1> QED BY <1>2, <1>3, <1>4, RequestStep

\* A review is planned for what is known when its creation begins, and for the
\* head that GitHub shows next.
LEMMA CreatesKeepsInv ==
  ASSUME IntakeInv, NEW q \in Arrival, Creates(q) \/ Fetch(q)
  PROVE  IntakeInv'
  <1>1. request[q].pc \in Working /\ RequestOK(request[q]) /\ Unstored(q, request[q])
    BY InvOf DEF Creates, Fetch, Stands, Working, Before
  <1>2. UNCHANGED <<clock, live, delivery, run>> /\ RunsKept
    BY RunsRest DEF Creates, Fetch, RowsRest, IntakeInv
  <1>3. request[q] \in RequestRow /\ clock \in Nat /\ live \in Nat
    BY RowOf, Numbers DEF IntakeInv
  <1>4. \E r : Becomes(q, r)
    <2>1. CASE Ends(q, "failed", 0)
      BY <1>1, <2>1, EndsWell
    <2>2. CASE Creates(q) /\ KnownRun(request[q].key) # 0 /\ ~Ends(q, "failed", 0)
      <3>1. Ends(q, "completed", KnownRun(request[q].key))
        BY <2>2 DEF Creates
      <3> QED BY <1>1, <2>2, <3>1, EndsWell, KnownIsNamed, Known
    <2>3. CASE Creates(q) /\ KnownRun(request[q].key) = 0
      <3> DEFINE r == [request[q] EXCEPT !.pc = "fetch", !.observed = clock]
      <3>1. /\ r \in RequestRow /\ r.pc = "fetch" /\ r.delivery = request[q].delivery
            /\ r.head = request[q].head /\ r.key = request[q].key /\ r.observed = clock
        BY <1>3 DEF RequestRow, Working, Before
      <3>2. request' = [request EXCEPT ![q] = r]
        BY <2>3 DEF Creates
      <3> HIDE DEF r
      <3>3. RequestOK(r)
        BY <1>1, <1>3, <3>1 DEF RequestOK, Working, Before
      <3>4. Unstored(q, r) /\ AnswerOK(r) /\ JudgeOK(r)
        BY <1>1, <3>1 DEF Unstored, AnswerOK, JudgeOK, Judging
      <3>5. \A p \in Arrival : Yields(r, request[p]) /\ Yields(request[p], r)
        <4> TAKE p \in Arrival
        <4>1. Yields(r, request[p])
          BY <3>1 DEF Yields, Judging
        <4>2. JudgeOK(request[p]) /\ request[p].head \in Nat /\ request[p].observed \in Nat
          BY InvOf, Numbers
        <4>3. r.delivery # {} => r.head \in Nat /\ r.head <= live
          BY <3>1, <3>3, <1>3 DEF RequestOK, Working, Before, HeadSha
        <4>4. Yields(request[p], r)
          BY <1>3, <3>1, <4>2, <4>3 DEF Yields, JudgeOK
        <4> QED BY <4>1, <4>4
      <3> QED BY <3>1, <3>2, <3>3, <3>4, <3>5 DEF Becomes
    <2>4. CASE Fetch(q) /\ ~(request[q].delivery # {} /\ live # request[q].head)
      <3> DEFINE r == [request[q] EXCEPT !.pc = "store", !.head = live]
      <3>1. /\ r \in RequestRow /\ r.pc = "store" /\ r.delivery = request[q].delivery
            /\ r.head = live /\ r.key = request[q].key /\ r.observed = request[q].observed
            /\ r.delivery # {} => r.head = request[q].head
        BY <1>3, <2>4 DEF RequestRow, Working, Before
      <3>2. request' = [request EXCEPT ![q] = r] /\ request[q].pc = "fetch"
        BY <2>4 DEF Fetch, Stands
      <3> HIDE DEF r
      <3>3. RequestOK(r)
        BY <1>1, <1>3, <3>1 DEF RequestOK, Working, Before
      <3>4. Unstored(q, r) /\ AnswerOK(r)
        BY <1>1, <3>1 DEF Unstored, AnswerOK
      <3>5. JudgeOK(r)
        <4>1. \A p \in Arrival : RunOK(p) /\ run[p].head \in Nat
          BY InvOf, Numbers
        <4> QED BY <1>3, <3>1, <4>1 DEF JudgeOK, RunOK
      <3>6. \A p \in Arrival : Yields(r, request[p]) /\ Yields(request[p], r)
        <4> TAKE p \in Arrival
        <4>1. RequestOK(request[p]) /\ Yields(request[p], request[q])
                /\ request[p].head \in Nat /\ request[p].observed \in Nat
          BY InvOf, Numbers
        <4>2. request[p].pc \in {"fetch", "store"} /\ request[p].delivery # {}
                => request[p].head <= live
          BY <4>1 DEF RequestOK, Working, Before
        <4>3. Yields(r, request[p])
          BY <1>3, <3>1, <4>1, <4>2 DEF Yields
        <4>4. Yields(request[p], r)
          BY <3>1, <3>2, <4>1 DEF Yields
        <4> QED BY <4>3, <4>4
      <3> QED BY <3>1, <3>2, <3>3, <3>4, <3>5, <3>6 DEF Becomes
    <2>5. Creates(q) => \/ Ends(q, "failed", 0) \/ KnownRun(request[q].key) = 0
                        \/ KnownRun(request[q].key) # 0 /\ ~Ends(q, "failed", 0)
      OBVIOUS
    <2>6. Fetch(q) => \/ Ends(q, "failed", 0)
                      \/ ~(request[q].delivery # {} /\ live # request[q].head)
      BY DEF Fetch
    <2> QED BY <2>1, <2>2, <2>3, <2>4, <2>5, <2>6
  <1> QED BY <1>2, <1>4, RequestStep

\* A caller of the API comes, or a handler dies.
LEMMA ComesAndGoesKeepsInv ==
  ASSUME IntakeInv, NEW q \in Arrival,
         CreateFails(q) \/ Vanishes(q) \/ \E k \in ApiKey : ApiArrives(q, k)
  PROVE  IntakeInv'
  <1>1. UNCHANGED <<clock, live, delivery, run>> /\ RunsKept
    BY RunsRest DEF CreateFails, Vanishes, ApiArrives, Strikes, RowsRest, IntakeInv
  <1>2. CASE CreateFails(q)
    <2>1. request[q].pc \in Working /\ Ends(q, "failed", 0)
      BY <1>2 DEF CreateFails, Working, Before
    <2>2. PICK r : Becomes(q, r)
      BY <2>1, EndsWell
    <2> QED BY <1>1, <2>2, RequestStep
  <1>3. CASE Vanishes(q)
    BY <1>1, <1>3, OverIsFine, RequestStep DEF Vanishes, Leaves
  <1>4. CASE \E k \in ApiKey : ApiArrives(q, k)
    <2>1. PICK k \in ApiKey : ApiArrives(q, k)
      BY <1>4
    <2> DEFINE key == <<"installation", k>>
               r == [NotCome EXCEPT !.pc = "create", !.key = key]
    <2>2. key \in Key \ Events
      BY EventKeys
    <2>3. NotCome \in RequestRow /\ NotCome.delivery = {} /\ NotCome.observed = 0
      BY DEF NotCome, RequestRow
    <2> HIDE DEF key
    <2>4. /\ r \in RequestRow /\ r.pc = "create" /\ r.delivery = {} /\ r.observed = 0
          /\ r.key = key
      BY <2>2, <2>3 DEF RequestRow, Working, Before
    <2>5. request' = [request EXCEPT ![q] = r] /\ request[q].pc = "none"
      BY <2>1 DEF ApiArrives, Comes, Stands, key
    <2>6. Unstored(q, request[q]) /\ clock \in Nat
      BY InvOf, Numbers
    <2> HIDE DEF r
    <2>7. RequestOK(r)
      BY <2>2, <2>4, <2>6 DEF RequestOK, Working, Before
    <2>8. Unstored(q, r) /\ AnswerOK(r) /\ JudgeOK(r)
      BY <2>4, <2>5, <2>6 DEF Unstored, AnswerOK, JudgeOK, Judging
    <2>9. \A s : Yields(r, s) /\ Yields(s, r)
      BY <2>4 DEF Yields, Judging
    <2>10. Becomes(q, r)
      BY <2>4, <2>5, <2>7, <2>8, <2>9 DEF Becomes
    <2> QED BY <1>1, <2>10, RequestStep
  <1> QED BY <1>2, <1>3, <1>4

\* A key gets its run, and the runs it replaces are stopped.
LEMMA InsertKeepsInv ==
  ASSUME IntakeInv, NEW q \in Arrival, Stands(q, "store"), KnownRun(request[q].key) = 0,
         ~(request[q].delivery # {} /\ TooMany),
         run' = Inserted(q), Ends(q, "completed", q), UNCHANGED <<clock, live, delivery>>
  PROVE  IntakeInv'
  <1> DEFINE key == request[q].key
             old == ObsoleteSince(request[q].head, request[q].observed)
             r == [NotCome EXCEPT !.pc = "answer", !.delivery = request[q].delivery,
                                  !.result = "completed", !.task = q]
  <1>1. /\ request[q].pc \in Working /\ request[q].pc \in Judging
        /\ request[q].pc \in {"fetch", "store"} /\ request[q].pc \in Before
    BY DEF Stands, Working, Before, Judging
  <1>2. /\ RequestOK(request[q]) /\ Unstored(q, request[q]) /\ run[q].state = "absent"
        /\ \A p \in Arrival : Yields(request[p], request[q])
    BY <1>1, InvOf DEF Unstored
  <1>3. Made(key) = {} /\ IntakeTypes
    BY Known DEF IntakeInv
  <1>4. /\ request[q] \in RequestRow /\ request[q].key \in Key \cup {<<>>}
        /\ request[q].head \in Nat /\ request[q].observed \in Nat
        /\ request[q].delivery \subseteq Delivery
    BY <1>3, RowOf
  <1>5. /\ run'[q] = [state |-> "live", head |-> request[q].head,
                      created |-> request[q].observed, key |-> key]
        /\ \A p \in Arrival \ {q} :
              /\ run'[p].head = run[p].head /\ run'[p].created = run[p].created
              /\ run'[p].key = run[p].key
              /\ run'[p].state = IF p \in old THEN "superseded" ELSE run[p].state
        /\ \A p \in old : p \in Arrival /\ run[p].state = "live"
    <2>1. \A p \in old : p \in Arrival /\ run[p].state = "live"
      BY DEF ObsoleteSince
    <2>2. \A p \in Arrival \ {q} :
             run'[p] = IF p \in old THEN [run[p] EXCEPT !.state = "superseded"] ELSE run[p]
      BY DEF Inserted, Without
    <2>3. run'[q] = [state |-> "live", head |-> request[q].head,
                     created |-> request[q].observed, key |-> key]
      BY DEF Inserted, Without
    <2> HIDE DEF old, key, r
    <2>4. \A p \in Arrival : run[p] \in [state : {"absent", "live", "superseded", "deleted"},
                                         head : Nat, created : Nat, key : Key \cup {<<>>}]
      BY <1>3 DEF IntakeTypes
    <2>5. ASSUME NEW p \in Arrival \ {q}
          PROVE  /\ run'[p].head = run[p].head /\ run'[p].created = run[p].created
                 /\ run'[p].key = run[p].key
                 /\ run'[p].state = IF p \in old THEN "superseded" ELSE run[p].state
      <3>1. CASE p \in old
        BY <2>2, <2>4, <3>1
      <3>2. CASE p \notin old
        BY <2>2, <3>2
      <3> QED BY <3>1, <3>2
    <2> QED BY <2>1, <2>2, <2>3, <2>5
  <1>6. \A p \in Arrival \ {q} : run'[p].state = "absent" <=> run[p].state = "absent"
    BY <1>5
  <1>7. /\ run' \in [Arrival -> [state : {"absent", "live", "superseded", "deleted"},
                                 head : Nat, created : Nat, key : Key \cup {<<>>}]]
    <2> DEFINE Row == [state : {"absent", "live", "superseded", "deleted"},
                       head : Nat, created : Nat, key : Key \cup {<<>>}]
    <2>1. \A p \in Arrival : run[p] \in Row
      BY <1>3 DEF IntakeTypes
    <2>2. \A p \in Arrival : [run[p] EXCEPT !.state = "superseded"] \in Row
      BY <2>1
    <2>3. [state |-> "live", head |-> request[q].head,
           created |-> request[q].observed, key |-> key] \in Row
      BY <1>4
    <2> HIDE DEF Row, old, key
    <2>4. Without(old) \in [Arrival -> Row]
      BY <2>1, <2>2 DEF Without
    <2>5. run' = [Without(old) EXCEPT ![q] = [state |-> "live", head |-> request[q].head,
                                             created |-> request[q].observed, key |-> key]]
      BY DEF Inserted, old, key
    <2>6. run' \in [Arrival -> Row]
      BY <2>3, <2>4, <2>5
    <2> QED BY <2>6 DEF Row
  <1>8. /\ r \in RequestRow /\ request' = [request EXCEPT ![q] = r]
        /\ r.pc = "answer" /\ r.delivery = request[q].delivery
        /\ r.result = "completed" /\ r.task = q /\ r.observed = 0
    <2>1. NotCome \in RequestRow /\ NotCome.observed = 0
      BY DEF NotCome, RequestRow
    <2>2. q \in Nat
      BY DEF Arrival
    <2> QED BY <1>4, <2>1, <2>2 DEF RequestRow, Ends
  <1> HIDE DEF key, old, r
  <1>9. key \in Events => request[q].delivery # {}
    BY <1>1, <1>2 DEF RequestOK, key
  <1>10. \A k : Made(k) \subseteq Made(k)' /\ \A p \in Made(k) : run'[p].head = run[p].head
    BY <1>2, <1>5, <1>6 DEF Made
  <1>11. \A d, t : Names(d, t) => Names(d, t)'
    BY <1>10 DEF Names
  <1>12. IntakeTypes'
    BY <1>3, <1>7, <1>8 DEF IntakeTypes
  <1>13. RequestsInv'
    <2>1. \A p \in Arrival : request'[p] = IF p = q THEN r ELSE request[p]
      BY <1>3, <1>8 DEF IntakeTypes
    <2>2. RequestOK(r)
      <3>1. \A d \in r.delivery : delivery[d].status # "absent"
        BY <1>1, <1>2, <1>8 DEF RequestOK
      <3> QED BY <1>3, <1>8, <3>1 DEF RequestOK, Working, Before, IntakeTypes
    <2>3. \A s : RequestOK(s)' <=> RequestOK(s)
      BY DEF RequestOK
    <2>4. \A s : s = r => AnswerOK(s)'
      <3> SUFFICES ASSUME NEW d \in r.delivery
                   PROVE  Names(d, q)'
        BY <1>8 DEF AnswerOK
      <3>1. key = Event(request[q].head) /\ request[q].head = delivery[d].head
        BY <1>1, <1>2, <1>8 DEF RequestOK, key
      <3>2. q \in Made(Event(delivery[d].head))' /\ run'[q].head = delivery[d].head
        BY <1>5, <3>1 DEF Made
      <3> QED BY <3>2 DEF Names
    <2>5. \A s : AnswerOK(s) => AnswerOK(s)'
      BY <1>11 DEF AnswerOK
    <2>6. \A p \in Arrival : \A s : s = request[p] => JudgeOK(s)'
      <3> SUFFICES ASSUME NEW p \in Arrival, NEW s, s = request[p], s.pc \in Judging
                   PROVE  JudgeOK(s)'
        BY DEF JudgeOK
      <3>1. JudgeOK(s) /\ Yields(s, request[q])
        BY InvOf
      <3>2. key \in Events /\ request[q].head > s.head
              => request[q].observed > s.observed
        BY <1>1, <1>9, <3>1 DEF Yields
      <3>3. \A t \in Arrival : run'[t].state # "absent" /\ run'[t].key \in Events
                               /\ run'[t].head > s.head
                               => run'[t].created > s.observed
        BY <1>5, <1>6, <3>1, <3>2 DEF JudgeOK
      <3> QED BY <3>1, <3>3 DEF JudgeOK
    <2>7. \A s : s = r => JudgeOK(s)' /\ Unstored(q, s)'
      BY <1>8 DEF JudgeOK, Unstored, Working, Before, Judging
    <2>8. \A p \in Arrival \ {q} : \A s : s = request[p] => Unstored(p, s)'
      BY <1>6, InvOf DEF Unstored
    <2>9. \A s : Yields(r, s) /\ Yields(s, r)
      BY <1>8 DEF Yields, Judging
    <2>10. \A p \in Arrival : /\ RequestOK(request[p]) /\ AnswerOK(request[p])
                              /\ \A s \in Arrival : Yields(request[p], request[s])
      BY InvOf
    <2>11. \A p, s \in Arrival : Yields(request'[p], request'[s])
      BY <2>1, <2>9, <2>10
    <2>12. \A p \in Arrival : RequestOK(request'[p])
      BY <2>1, <2>2, <2>10
    <2>13. AllRequestsOK'
      <3> SUFFICES ASSUME NEW p \in Arrival
                   PROVE  (RequestOK(request[p]) /\ AnswerOK(request[p])
                            /\ JudgeOK(request[p]) /\ Unstored(p, request[p]))'
        BY DEF AllRequestsOK
      <3>1. CASE p = q
        BY <2>1, <2>3, <2>4, <2>7, <2>12, <3>1
      <3>2. CASE p # q
        BY <2>1, <2>3, <2>5, <2>6, <2>8, <2>10, <2>12, <3>2
      <3> QED BY <3>1, <3>2
    <2> QED BY <2>11, <2>13 DEF RequestsInv, Yields
  <1>14. RunsInv'
    <2>1. OnlyOne'
      BY <1>3, <1>5, <1>6 DEF OnlyOne, Made, IntakeInv, RunsInv, key
    <2>2. ASSUME NEW p \in Arrival PROVE RunOK(p)'
      <3>1. CASE p = q
        <4>1. key \in Events => request[q].head \in HeadSha /\ request[q].head <= live
                                /\ key = Event(request[q].head)
          BY <1>1, <1>2, <1>9 DEF RequestOK, key
        <4> QED BY <1>2, <1>5, <3>1, <4>1 DEF RunOK, RequestOK
      <3>2. CASE p # q
        BY <1>5, <1>6, <3>2, InvOf DEF RunOK
      <3> QED BY <3>1, <3>2
    <2> QED BY <2>1, <2>2 DEF RunsInv
  <1>15. DeliveryNamesItsRun'
    <2>1. \A d \in Delivery : delivery[d].status = "completed" => Names(d, delivery[d].task)
      BY DEF IntakeInv, DeliveryNamesItsRun, Names
    <2> QED BY <1>11, <2>1 DEF DeliveryNamesItsRun, Names
  <1>16. HourlyLimitKept'
    <2>1. IsFiniteSet(Recent) /\ Cardinality(Recent) \in Nat /\ q \notin Recent
      <3>1. IsFiniteSet(Arrival) /\ Recent \subseteq Arrival
        BY FS_Interval DEF Arrival, Recent
      <3> QED BY <1>2, <3>1, FS_Subset, FS_CardinalityType DEF Recent
    <2>2. CASE key \in Events
      <3>1. Cardinality(Recent) < MaxRuns
        BY <1>9, <2>1, <2>2 DEF TooMany
      <3>2. Recent' \subseteq Recent \cup {q}
        BY <1>5, <1>6 DEF Recent
      <3>3. IsFiniteSet(Recent \cup {q}) /\ Cardinality(Recent \cup {q}) = Cardinality(Recent) + 1
        BY <2>1, FS_AddElement
      <3>4. IsFiniteSet(Recent') /\ Cardinality(Recent') <= Cardinality(Recent) + 1
        BY <3>2, <3>3, FS_Subset
      <3>5. Cardinality(Recent') \in Nat
        BY <3>4, FS_CardinalityType
      <3> QED BY <2>1, <3>1, <3>4, <3>5 DEF HourlyLimitKept
    <2>3. CASE key \notin Events
      <3>1. Recent' = Recent
        BY <1>2, <1>5, <1>6, <2>3 DEF Recent, Events
      <3> QED BY <3>1 DEF HourlyLimitKept, IntakeInv
    <2> QED BY <2>2, <2>3
  <1>17. WebhookReviewStands'
    <2>1. \A p \in old : run[p].key \in Events => run[p].head # live
      BY <1>1, JudgedRuns DEF old
    <2> QED BY <1>5, <2>1 DEF WebhookReviewStands, IntakeInv, Events
  <1> QED BY <1>12, <1>13, <1>14, <1>15, <1>16, <1>17 DEF IntakeInv

\* The transaction of create.
LEMMA StoreKeepsInv ==
  ASSUME IntakeInv, NEW q \in Arrival, Store(q)
  PROVE  IntakeInv'
  <1> DEFINE known == KnownRun(request[q].key)
  <1>1. request[q].pc \in Working /\ Stands(q, "store")
          /\ UNCHANGED <<clock, live, delivery>>
    BY DEF Store, Stands, Working, Before
  <1>2. CASE known # 0
    <2>1. Ends(q, "completed", known) /\ RunsKept
      BY <1>2, RunsRest DEF Store, IntakeInv
    <2>2. PICK r : Becomes(q, r)
      BY <1>1, <1>2, <2>1, EndsWell, KnownIsNamed, Known
    <2> QED BY <1>1, <2>1, <2>2, RequestStep
  <1>3. CASE known = 0 /\ request[q].delivery # {} /\ TooMany
    <2>1. Ends(q, "failed", 0) /\ RunsKept
      BY <1>3, RunsRest DEF Store, IntakeInv
    <2>2. PICK r : Becomes(q, r)
      BY <1>1, <2>1, EndsWell
    <2> QED BY <1>1, <2>1, <2>2, RequestStep
  <1>4. CASE known = 0 /\ ~(request[q].delivery # {} /\ TooMany)
    <2>1. run' = Inserted(q) /\ Ends(q, "completed", q)
      BY <1>4 DEF Store
    <2> QED BY <1>1, <1>4, <2>1, InsertKeepsInv
  <1> QED BY <1>2, <1>3, <1>4

\* A deleted review keeps its row, as far as its key and its date go.
LEMMA DeletedKeepsInv ==
  ASSUME IntakeInv, NEW q \in Arrival, Deleted(q)
  PROVE  IntakeInv'
  <1>1. RunsKept /\ UNCHANGED <<clock, live, delivery, request>>
    BY DEF Deleted, RunsKept, IntakeInv, IntakeTypes
  <1>2. request' = [request EXCEPT ![q] = request[q]] /\ request[q] \in RequestRow
    BY <1>1, RowOf DEF IntakeInv, IntakeTypes
  <1>3. Becomes(q, request[q])
    BY <1>2, InvOf DEF Becomes
  <1> QED BY <1>1, <1>3, RequestStep

\* Deliveries change where nobody minds: what is known of them stays.
DeliveriesKept ==
    /\ delivery' \in [Delivery -> [status : {"absent", "accepted", "completed", "failed",
                                             "skipped"},
                                   head : Nat, task : Nat]]
    /\ \A d \in Delivery : delivery[d].status # "absent" =>
          delivery'[d].status # "absent" /\ delivery'[d].head = delivery[d].head

\* A step of one request and the rows of its deliveries.
LEMMA DeliveryStep ==
  ASSUME IntakeInv, DeliveriesKept, UNCHANGED <<clock, live, run>>,
         NEW q \in Arrival, NEW r \in RequestRow, request' = [request EXCEPT ![q] = r],
         \A s : s = r => RequestOK(s)', Unstored(q, r), r.pc # "answer", r.pc \notin Judging,
         \A p \in Arrival : Yields(request[p], r),
         \A d \in Delivery : delivery'[d].status = "completed" =>
             delivery[d].status # "absent" /\ Names(d, delivery'[d].task)
  PROVE  IntakeInv'
  <1> USE DEF IntakeInv
  <1>1. \A p \in Arrival : /\ request'[p] = IF p = q THEN r ELSE request[p]
                           /\ request[p].delivery \subseteq Delivery
    BY RowOf DEF IntakeTypes
  <1>2. (\A k : Made(k)' = Made(k)) /\ Recent' = Recent
    BY DEF Made, Recent
  <1>3. IntakeTypes'
    BY DEF IntakeTypes, DeliveriesKept
  <1>4. AllRequestsOK'
    <2> SUFFICES ASSUME NEW p \in Arrival
                 PROVE  (RequestOK(request[p]) /\ AnswerOK(request[p])
                          /\ JudgeOK(request[p]) /\ Unstored(p, request[p]))'
      BY DEF AllRequestsOK
    <2>1. \A s : (JudgeOK(s)' <=> JudgeOK(s)) /\ (Unstored(p, s)' <=> Unstored(p, s))
      BY DEF JudgeOK, Unstored
    <2>2. CASE p = q
      <3>1. AnswerOK(r)' /\ JudgeOK(r)
        BY DEF AnswerOK, JudgeOK
      <3> QED BY <1>1, <2>1, <2>2, <3>1 DEF AnswerOK
    <2>3. CASE p # q
      <3>1. /\ RequestOK(request[p]) /\ AnswerOK(request[p])
            /\ JudgeOK(request[p]) /\ Unstored(p, request[p])
        BY InvOf
      <3>2. \A s : s = request[p] => RequestOK(s)'
        BY <1>1, <3>1 DEF RequestOK, DeliveriesKept
      <3>3. \A s : s = request[p] => AnswerOK(s)'
        <4> SUFFICES ASSUME request[p].pc = "answer", request[p].result = "completed",
                            NEW d \in request[p].delivery
                     PROVE  Names(d, request[p].task) /\ d \in Delivery
                              /\ delivery'[d].head = delivery[d].head
          BY <1>2 DEF AnswerOK, Names
        <4> QED BY <1>1, <3>1 DEF AnswerOK, RequestOK, DeliveriesKept
      <3> QED BY <1>1, <2>1, <2>3, <3>1, <3>2, <3>3
    <2> QED BY <2>2, <2>3
  <1>5. \A p, s \in Arrival : Yields(request'[p], request'[s])
    <2>1. \A s : Yields(r, s)
      BY DEF Yields
    <2> QED BY <1>1, <2>1, InvOf
  <1>6. RunsInv'
    BY DEF RunsInv, OnlyOne, RunOK
  <1>7. DeliveryNamesItsRun'
    BY <1>2 DEF DeliveryNamesItsRun, Names, DeliveriesKept
  <1> QED BY <1>2, <1>3, <1>4, <1>5, <1>6, <1>7 DEF RequestsInv, Yields, HourlyLimitKept,
             WebhookReviewStands

\* A webhook comes: its delivery gets a row, unless it has one.
LEMMA WebhookKeepsInv ==
  ASSUME IntakeInv, NEW q \in Arrival, NEW d \in Delivery, NEW h \in HeadSha,
         WebhookArrives(q, d, h)
  PROVE  IntakeInv'
  <1> DEFINE pc == IF delivery[d].status = "absent" THEN "find" ELSE "load"
             r == [NotCome EXCEPT !.delivery = {d}, !.head = h, !.key = Event(h), !.pc = pc]
  <1>1. NotCome \in RequestRow /\ NotCome.observed = 0
    BY DEF NotCome, RequestRow
  <1>2. Event(h) \in Key /\ h \in Nat
    BY EventKeys DEF HeadSha
  <1>3. /\ r \in RequestRow /\ r.pc \in {"find", "load"} /\ r.delivery = {d} /\ r.head = h
        /\ r.key = Event(h) /\ r.observed = 0
    BY <1>1, <1>2 DEF RequestRow, Working
  <1>4. UNCHANGED <<clock, live, run>> /\ request' = [request EXCEPT ![q] = r]
    BY DEF WebhookArrives
  <1> HIDE DEF r
  <1>5. /\ delivery \in [Delivery -> [status : {"absent", "accepted", "completed", "failed",
                                                "skipped"},
                                      head : Nat, task : Nat]]
        /\ clock \in Nat
    BY DEF IntakeInv, IntakeTypes
  <1>6. /\ \A e \in Delivery \ {d} : delivery'[e] = delivery[e]
        /\ delivery'[d].status # "absent" /\ delivery'[d].head = h
        /\ delivery[d].status # "absent" => delivery' = delivery
        /\ delivery[d].status = "absent" => delivery'[d].status = "accepted"
    <2>1. CASE delivery[d].status # "absent"
      BY <2>1 DEF WebhookArrives, ClaimsDelivery
    <2>2. CASE delivery[d].status = "absent"
      <3>1. delivery' = [delivery EXCEPT ![d].status = "accepted", ![d].head = h]
        BY <2>2 DEF WebhookArrives, ClaimsDelivery
      <3> QED BY <1>5, <2>2, <3>1
    <2> QED BY <2>1, <2>2
  <1>7. DeliveriesKept
    <2>1. delivery' \in [Delivery -> [status : {"absent", "accepted", "completed", "failed",
                                                "skipped"},
                                      head : Nat, task : Nat]]
      BY <1>2, <1>5 DEF WebhookArrives, ClaimsDelivery
    <2> QED BY <1>6, <2>1 DEF DeliveriesKept
  <1>8. \A s : s = r => RequestOK(s)'
    <2>1. h \in HeadSha /\ h <= live
      BY DEF WebhookArrives
    <2> QED BY <1>3, <1>4, <1>5, <1>6, <2>1 DEF RequestOK, Working, Before
  <1>9. Unstored(q, r) /\ r.pc # "answer" /\ r.pc \notin Judging
    <2>1. request[q].pc = "none" /\ Unstored(q, request[q])
      BY InvOf DEF WebhookArrives, Comes, Stands
    <2> QED BY <1>3, <2>1 DEF Unstored, Judging
  <1>10. \A p \in Arrival : Yields(request[p], r)
    BY <1>3 DEF Yields
  <1>11. \A e \in Delivery : delivery'[e].status = "completed" =>
             delivery[e].status # "absent" /\ Names(e, delivery'[e].task)
    <2>1. \A e \in Delivery : delivery'[e].status = "completed" => delivery'[e] = delivery[e]
                                                      /\ delivery[e].status # "absent"
      BY <1>6
    <2> QED BY <2>1 DEF IntakeInv, DeliveryNamesItsRun, Names
  <1> QED BY <1>3, <1>4, <1>7, <1>8, <1>9, <1>10, <1>11, DeliveryStep

\* The result is written to the row of the delivery.
LEMMA RespondKeepsInv ==
  ASSUME IntakeInv, NEW q \in Arrival, RespondsAtOnce(q)
  PROVE  IntakeInv'
  <1>1. /\ UNCHANGED <<clock, live, run>> /\ request[q].pc = "answer"
        /\ request' = [request EXCEPT ![q] = Gone]
    BY DEF RespondsAtOnce, Leaves, Stands
  <1>2. /\ delivery \in [Delivery -> [status : {"absent", "accepted", "completed", "failed",
                                                "skipped"},
                                      head : Nat, task : Nat]]
        /\ request[q].delivery \subseteq Delivery /\ request[q].task \in Nat
        /\ request[q].result \in {"none", "skipped", "failed", "completed"}
        /\ clock \in Nat
    <2>1. request[q] \in RequestRow
      BY RowOf DEF IntakeInv
    <2> QED BY <2>1 DEF IntakeInv, IntakeTypes, RequestRow
  <1>3. RequestOK(request[q]) /\ AnswerOK(request[q]) /\ Unstored(q, request[q])
    BY InvOf
  <1>4. request[q].result \in {"skipped", "failed", "completed"}
    BY <1>1, <1>2, <1>3 DEF RequestOK
  <1>5. \A d \in Delivery : delivery'[d] =
            IF d \in request[q].delivery
            THEN [delivery[d] EXCEPT !.status = request[q].result, !.task = request[q].task]
            ELSE delivery[d]
    BY DEF RespondsAtOnce
  <1>6. DeliveriesKept
    <2>1. delivery' = [d \in Delivery |-> delivery'[d]]
      BY DEF RespondsAtOnce
    <2>2. \A d \in Delivery : delivery'[d] \in [status : {"absent", "accepted", "completed",
                                                          "failed", "skipped"},
                                                head : Nat, task : Nat]
      BY <1>2, <1>4, <1>5
    <2>3. \A d \in Delivery : delivery[d].status # "absent" =>
              delivery'[d].status # "absent" /\ delivery'[d].head = delivery[d].head
      BY <1>2, <1>4, <1>5
    <2> QED BY <2>1, <2>2, <2>3 DEF DeliveriesKept
  <1>7. Becomes(q, Gone)
    BY <1>1, OverIsFine
  <1>8. Gone \in RequestRow /\ Gone.pc = "gone" /\ Gone.observed = 0 /\ Gone.delivery = {}
    <2>1. NotCome \in RequestRow /\ NotCome.observed = 0 /\ NotCome.delivery = {}
      BY DEF NotCome, RequestRow
    <2> QED BY <2>1 DEF Gone, RequestRow
  <1>9. \A s : s = Gone => RequestOK(s)'
    BY <1>1, <1>2, <1>8 DEF RequestOK, Working, Before
  <1>10. \A d \in Delivery : delivery'[d].status = "completed" =>
             delivery[d].status # "absent" /\ Names(d, delivery'[d].task)
    <2> SUFFICES ASSUME NEW d \in Delivery, delivery'[d].status = "completed"
                 PROVE  delivery[d].status # "absent" /\ Names(d, delivery'[d].task)
      OBVIOUS
    <2>1. CASE d \in request[q].delivery
      <3>1. delivery'[d].status = request[q].result /\ delivery'[d].task = request[q].task
        BY <1>2, <1>5, <2>1
      <3> QED BY <1>1, <1>3, <2>1, <3>1 DEF AnswerOK, RequestOK
    <2>2. CASE d \notin request[q].delivery
      BY <1>5, <2>2 DEF IntakeInv, DeliveryNamesItsRun, Names
    <2> QED BY <2>1, <2>2
  <1>11. /\ Unstored(q, Gone) /\ Gone.pc # "answer" /\ Gone.pc \notin Judging
         /\ \A p \in Arrival : Yields(request[p], Gone)
    BY <1>7, <1>8 DEF Becomes, Judging
  <1> QED BY <1>1, <1>6, <1>8, <1>9, <1>10, <1>11, DeliveryStep

\* Time passes, and with a push the head moves on as well.
LEMMA TimeKeepsInv ==
  ASSUME IntakeInv, Push \/ TimePasses
  PROVE  IntakeInv'
  <1> USE DEF IntakeInv
  <1>1. /\ UNCHANGED <<delivery, run, request>> /\ clock' = clock + 1
        /\ live' \in HeadSha /\ live' >= live
        /\ clock \in Nat /\ live \in Nat
    BY DEF Push, TimePasses, IntakeTypes, HeadSha
  <1>2. IntakeTypes'
    BY <1>1 DEF IntakeTypes
  <1>3. \A q \in Arrival : /\ request[q].observed \in Nat /\ request[q].head \in Nat
                           /\ run[q].created \in Nat /\ run[q].head \in Nat
    BY Numbers
  <1>4. RequestsInv'
    <2>1. \A q \in Arrival : RequestOK(request[q])'
      BY <1>1, <1>3, InvOf DEF RequestOK, HeadSha
    <2>2. \A q \in Arrival : AnswerOK(request[q])' /\ Unstored(q, request[q])'
      BY <1>1, InvOf DEF AnswerOK, Unstored, Names, Made
    <2>3. \A q \in Arrival : JudgeOK(request[q])'
      <3> TAKE q \in Arrival
      <3>1. JudgeOK(request[q]) /\ RequestOK(request[q])
        BY InvOf
      <3>2. request[q].observed < clock'
        BY <1>1, <1>3, <3>1 DEF RequestOK
      <3>3. request[q].head <= live => request[q].head <= live'
        BY <1>1, <1>3 DEF HeadSha
      <3> QED BY <1>1, <3>1, <3>2, <3>3 DEF JudgeOK
    <2> QED BY <1>1, <2>1, <2>2, <2>3 DEF RequestsInv, AllRequestsOK, Yields
  <1>5. RunsInv'
    BY <1>1, <1>3 DEF RunsInv, OnlyOne, RunOK, HeadSha
  <1>6. DeliveryNamesItsRun'
    BY <1>1 DEF DeliveryNamesItsRun, Made
  <1>7. HourlyLimitKept'
    <2>1. Recent' \subseteq Recent
      BY <1>1, <1>3 DEF Recent
    <2>2. IsFiniteSet(Recent)
      <3>1. IsFiniteSet(Arrival) /\ Recent \subseteq Arrival
        BY FS_Interval DEF Arrival, Recent
      <3> QED BY <3>1, FS_Subset
    <2>3. /\ Cardinality(Recent') <= Cardinality(Recent) /\ IsFiniteSet(Recent')
      BY <2>1, <2>2, FS_Subset
    <2>4. Cardinality(Recent') \in Nat /\ Cardinality(Recent) \in Nat
      BY <2>2, <2>3, FS_CardinalityType
    <2> QED BY <2>3, <2>4 DEF HourlyLimitKept
  <1>8. WebhookReviewStands'
    <2> SUFFICES ASSUME NEW p \in Arrival, run[p].state = "superseded", run[p].key \in Events
                 PROVE  run[p].head # live'
      BY <1>1 DEF WebhookReviewStands, Events
    <2>1. run[p].head # live /\ run[p].head <= live
      BY InvOf DEF RunOK, WebhookReviewStands, Events
    <2> QED BY <1>1, <1>3, <2>1 DEF HeadSha
  <1> QED BY <1>2, <1>4, <1>5, <1>6, <1>7, <1>8

-----------------------------------------------------------------------------
(* The theorems *)

\* The invariant holds in every reachable state of the intake of reviews
\* (IncrementalWebhookService.handle and ReviewService.create), for any number
\* of requests, deliveries, keys and pushes, and any hourly limit.
THEOREM IntakeInvariance == IntakeSpec => []IntakeInv
  <1>1. IntakeInit => IntakeInv
    <2> SUFFICES ASSUME IntakeInit PROVE IntakeInv
      OBVIOUS
    <2>1. NotCome \in RequestRow /\ NotCome.pc = "none" /\ NotCome.observed = 0
            /\ NotCome.delivery = {}
      BY DEF NotCome, RequestRow
    <2>2. <<>> \in Key \cup {<<>>}
      OBVIOUS
    <2>3. IntakeTypes
      BY <2>1, <2>2 DEF IntakeInit, IntakeTypes, NoRun, HeadSha
    <2>4. \A q \in Arrival : request[q] = NotCome /\ run[q].state = "absent" /\ run[q].created = 0
      BY DEF IntakeInit, NoRun
    <2>5. clock = 0 /\ \A d \in Delivery : delivery[d].status = "absent"
      BY DEF IntakeInit
    <2>6. RequestsInv
      BY <2>1, <2>4, <2>5 DEF RequestsInv, AllRequestsOK, RequestOK, AnswerOK, JudgeOK,
           Unstored, Yields, Working, Before, Judging
    <2>7. RunsInv /\ DeliveryNamesItsRun /\ WebhookReviewStands
      BY <2>4, <2>5 DEF RunsInv, OnlyOne, RunOK, DeliveryNamesItsRun, WebhookReviewStands
    <2>8. Recent = {}
      BY <2>4 DEF Recent
    <2>9. HourlyLimitKept
      BY <2>8, FS_EmptySet DEF HourlyLimitKept
    <2> QED BY <2>3, <2>6, <2>7, <2>9 DEF IntakeInv
  <1>2. IntakeInv /\ [IntakeNext]_intakeVars => IntakeInv'
    <2> SUFFICES ASSUME IntakeInv, [IntakeNext]_intakeVars PROVE IntakeInv'
      OBVIOUS
    <2>1. CASE UNCHANGED intakeVars
      BY <2>1 DEF intakeVars, IntakeInv, IntakeTypes, RequestsInv, AllRequestsOK, RequestOK,
           AnswerOK, Names, JudgeOK, Unstored, Yields, RunsInv, OnlyOne, RunOK, Made,
           DeliveryNamesItsRun, HourlyLimitKept, WebhookReviewStands, Recent
    <2>2. CASE \E q \in Arrival, d \in Delivery, h \in HeadSha : WebhookArrives(q, d, h)
      BY <2>2, WebhookKeepsInv
    <2>3. CASE \E q \in Arrival, k \in ApiKey : ApiArrives(q, k)
      BY <2>3, ComesAndGoesKeepsInv
    <2>4. CASE \E q \in Arrival : HandlerStep(q)
      <3> PICK q \in Arrival : HandlerStep(q)
        BY <2>4
      <3>1. CASE LoadsDelivery(q) \/ FindPrevious(q) \/ CountRecent(q) \/ StillLive(q)
        BY <3>1, ReadsKeepInv
      <3>2. CASE StopObsolete(q)
        BY <3>2, StopKeepsInv
      <3>3. CASE RespondsAtOnce(q)
        BY <3>3, RespondKeepsInv
      <3>4. CASE Creates(q) \/ Fetch(q)
        BY <3>4, CreatesKeepsInv
      <3>5. CASE Store(q)
        BY <3>5, StoreKeepsInv
      <3>6. CASE CreateFails(q) \/ Vanishes(q)
        BY <3>6, ComesAndGoesKeepsInv
      <3> QED BY <3>1, <3>2, <3>3, <3>4, <3>5, <3>6 DEF HandlerStep
    <2>5. CASE \E q \in Arrival : Deleted(q)
      BY <2>5, DeletedKeepsInv
    <2>6. CASE Push \/ TimePasses
      BY <2>6, TimeKeepsInv
    <2> QED BY <2>1, <2>2, <2>3, <2>4, <2>5, <2>6 DEF IntakeNext
  <1> QED BY <1>1, <1>2, PTL DEF IntakeSpec

\* One key makes one review, a delivery names the review of its head, and the
\* hourly limit holds, however many handlers run side by side.
THEOREM IntakeStaysExact == IntakeSpec => []IntakeIsExact
  <1>1. IntakeInv => IntakeIsExact
    <2> SUFFICES ASSUME IntakeInv PROVE OneRunPerKey
      BY DEF IntakeInv, IntakeIsExact
    <2> SUFFICES ASSUME NEW k \in Key PROVE Cardinality(Made(k)) <= 1
      BY DEF OneRunPerKey
    <2>1. \A p, q \in Made(k) : p = q
      BY DEF Made, IntakeInv, RunsInv, OnlyOne
    <2>2. CASE Made(k) = {}
      BY <2>2, FS_EmptySet
    <2>3. CASE Made(k) # {}
      <3>1. PICK q : Made(k) = {q}
        BY <2>1, <2>3
      <3>2. Cardinality({q}) = 1
        BY FS_Singleton
      <3> QED BY <3>1, <3>2
    <2> QED BY <2>2, <2>3
  <1> QED BY <1>1, IntakeInvariance, PTL

\* A review that the webhook began is never stopped while its head is the one
\* of the pull request, however slow a creation for an older head is.
THEOREM WebhookReviewsStand == IntakeSpec => []WebhookReviewStands
  <1>1. IntakeInv => WebhookReviewStands
    BY DEF IntakeInv
  <1> QED BY <1>1, IntakeInvariance, PTL

-----------------------------------------------------------------------------
(* The bounds *)

\* Heads have been pushed, tasks have been requested, and time is up at the
\* horizon.
BoundsInv ==
    /\ clock \in 0..Horizon
    /\ \A d \in Delivery : delivery[d].head \in 0..Pushes /\ delivery[d].task \in 0..Requests
    /\ \A q \in Arrival : run[q].head \in 0..Pushes
    /\ \A q \in Arrival : request[q].head \in 0..Pushes /\ request[q].task \in 0..Requests

\* A request that becomes r within the bounds.
LEMMA BoundedRequest ==
  ASSUME IntakeInv, BoundsInv, UNCHANGED <<clock, delivery, run>>, NEW q \in Arrival, NEW r,
         request' = [request EXCEPT ![q] = r], r.head \in 0..Pushes, r.task \in 0..Requests
  PROVE  BoundsInv'
  <1>1. \A p \in Arrival : request'[p] = IF p = q THEN r ELSE request[p]
    BY DEF IntakeInv, IntakeTypes
  <1> QED BY <1>1 DEF BoundsInv

\* What requests remember when they move, end or leave.
LEMMA BoundedRows ==
  ASSUME IntakeInv, BoundsInv, NEW q \in Arrival
  PROVE  /\ Gone.head \in 0..Pushes /\ Gone.task \in 0..Requests
         /\ \A pc : LET r == [request[q] EXCEPT !.pc = pc]
                    IN  r.head \in 0..Pushes /\ r.task \in 0..Requests
         /\ \A pc, t : LET r == [request[q] EXCEPT !.pc = pc, !.observed = t]
                       IN  r.head \in 0..Pushes /\ r.task \in 0..Requests
         /\ \A pc : LET r == [request[q] EXCEPT !.pc = pc, !.head = live]
                    IN  r.head \in 0..Pushes /\ r.task \in 0..Requests
         /\ \A ds, result : \A task \in 0..Requests :
               LET r == [NotCome EXCEPT !.pc = "answer", !.delivery = ds,
                                        !.result = result, !.task = task]
               IN  r.head \in 0..Pushes /\ r.task \in 0..Requests
  <1>1. request[q] \in RequestRow /\ live \in 0..Pushes
    BY RowOf DEF IntakeInv, IntakeTypes, HeadSha
  <1> QED BY <1>1 DEF BoundsInv, RequestRow, Gone, NotCome

\* Requests whose runs, deliveries and clock stay.
LEMMA QuietIsBounded ==
  ASSUME IntakeInv, BoundsInv, NEW q \in Arrival, UNCHANGED <<clock, delivery, run>>,
         \/ \E pc : MovesTo(q, pc)
         \/ \E pc, t : request' = [request EXCEPT ![q].pc = pc, ![q].observed = t]
         \/ \E pc : request' = [request EXCEPT ![q].pc = pc, ![q].head = live]
         \/ \E result : \E task \in 0..Requests : Ends(q, result, task)
         \/ Leaves(q)
  PROVE  BoundsInv'
  <1>0. request \in [Arrival -> RequestRow]
    BY DEF IntakeInv, IntakeTypes
  <1>1. \A pc : MovesTo(q, pc) => BoundsInv'
    BY BoundedRows, BoundedRequest DEF MovesTo
  <1>2. ASSUME NEW pc, NEW t, request' = [request EXCEPT ![q].pc = pc, ![q].observed = t]
        PROVE  BoundsInv'
    <2>1. PICK r : r = [request[q] EXCEPT !.pc = pc, !.observed = t]
      OBVIOUS
    <2>2. request' = [request EXCEPT ![q] = r]
      BY <1>0, <1>2, <2>1
    <2> QED BY <2>1, <2>2, BoundedRows, BoundedRequest
  <1>3. ASSUME NEW pc, request' = [request EXCEPT ![q].pc = pc, ![q].head = live]
        PROVE  BoundsInv'
    <2>1. PICK r : r = [request[q] EXCEPT !.pc = pc, !.head = live]
      OBVIOUS
    <2>2. request' = [request EXCEPT ![q] = r]
      BY <1>0, <1>3, <2>1
    <2> QED BY <2>1, <2>2, BoundedRows, BoundedRequest
  <1>4. ASSUME NEW result, NEW task \in 0..Requests, Ends(q, result, task) PROVE BoundsInv'
    BY <1>4, BoundedRows, BoundedRequest DEF Ends
  <1>5. Leaves(q) => BoundsInv'
    BY BoundedRows, BoundedRequest DEF Leaves
  <1> QED BY <1>1, <1>2, <1>3, <1>4, <1>5

\* The numbers of runs are those of requests.
LEMMA KnownIsBounded ==
  /\ \A k : KnownRun(k) \in 0..Requests
  /\ \A q \in Arrival : q \in 0..Requests
  BY Known DEF Arrival

\* Runs that are stopped keep their heads.
LEMMA StoppedIsBounded ==
  ASSUME IntakeInv, BoundsInv, NEW old
  PROVE  \A p \in Arrival : Without(old)[p].head \in 0..Pushes
  BY DEF IntakeInv, IntakeTypes, BoundsInv, Without

\* A step of a handler stays within the bounds.
LEMMA HandlerIsBounded ==
  ASSUME IntakeInv, BoundsInv, NEW q \in Arrival, HandlerStep(q)
  PROVE  BoundsInv'
  <1>0. 0 \in 0..Requests
    OBVIOUS
  <1>1. CASE LoadsDelivery(q) \/ FindPrevious(q) \/ CountRecent(q) \/ StillLive(q)
    BY <1>0, <1>1, QuietIsBounded
       DEF LoadsDelivery, FindPrevious, CountRecent, StillLive, RowsRest
  <1>2. CASE Creates(q) \/ Fetch(q)
    BY <1>0, <1>2, QuietIsBounded, KnownIsBounded DEF Creates, Fetch, RowsRest
  <1>3. CASE CreateFails(q) \/ Vanishes(q)
    BY <1>0, <1>3, QuietIsBounded DEF CreateFails, Vanishes, Strikes
  <1>4. ASSUME UNCHANGED <<clock, delivery>>, NEW result, NEW task \in 0..Requests,
               Ends(q, result, task), \A p \in Arrival : run'[p].head \in 0..Pushes
        PROVE  BoundsInv'
    <2>1. PICK r : /\ request' = [request EXCEPT ![q] = r]
                   /\ r.head \in 0..Pushes /\ r.task \in 0..Requests
      BY <1>4, BoundedRows DEF Ends
    <2>2. \A p \in Arrival : request'[p] = IF p = q THEN r ELSE request[p]
      BY <2>1 DEF IntakeInv, IntakeTypes
    <2> QED BY <1>4, <2>1, <2>2 DEF BoundsInv
  <1>5. CASE StopObsolete(q)
    BY <1>0, <1>4, <1>5, StoppedIsBounded DEF StopObsolete
  <1>6. CASE Store(q)
    <2>1. ASSUME run' = Inserted(q) PROVE \A p \in Arrival : run'[p].head \in 0..Pushes
      <3>1. request[q].head \in 0..Pushes
        BY DEF BoundsInv
      <3>2. PICK stopped : stopped = Without(ObsoleteSince(request[q].head, request[q].observed))
        OBVIOUS
      <3>3. DOMAIN stopped = Arrival /\ \A p \in Arrival : stopped[p].head \in 0..Pushes
        BY <3>2, StoppedIsBounded DEF Without
      <3> QED BY <2>1, <3>1, <3>2, <3>3 DEF Inserted
    <2>2. run' = run => \A p \in Arrival : run'[p].head \in 0..Pushes
      BY DEF BoundsInv
    <2> QED BY <1>0, <1>4, <1>6, <2>1, <2>2, KnownIsBounded DEF Store
  <1>7. CASE RespondsAtOnce(q)
    <2>1. \A p \in Arrival : request'[p] = IF p = q THEN Gone ELSE request[p]
      BY <1>7 DEF RespondsAtOnce, Leaves, IntakeInv, IntakeTypes
    <2>2. request[q].task \in 0..Requests /\ UNCHANGED <<clock, run>>
      BY <1>7 DEF BoundsInv, RespondsAtOnce
    <2>3. ASSUME NEW d \in Delivery
          PROVE  delivery'[d].head \in 0..Pushes /\ delivery'[d].task \in 0..Requests
      <3>1. /\ delivery[d].head \in 0..Pushes /\ delivery[d].task \in 0..Requests
            /\ delivery[d] \in [status : {"absent", "accepted", "completed", "failed", "skipped"},
                                head : Nat, task : Nat]
        BY DEF BoundsInv, IntakeInv, IntakeTypes
      <3> QED BY <1>7, <2>2, <3>1 DEF RespondsAtOnce
    <2> QED BY <2>1, <2>2, <2>3, BoundedRows DEF BoundsInv
  <1> QED BY <1>1, <1>2, <1>3, <1>5, <1>6, <1>7 DEF HandlerStep

\* A request that comes stays within the bounds.
LEMMA ArrivalIsBounded ==
  ASSUME IntakeInv, BoundsInv, NEW q \in Arrival,
         \/ \E d \in Delivery, h \in HeadSha : WebhookArrives(q, d, h)
         \/ \E k \in ApiKey : ApiArrives(q, k)
  PROVE  BoundsInv'
  <1>1. ASSUME NEW k \in ApiKey, ApiArrives(q, k) PROVE BoundsInv'
    <2>1. PICK r : r = [NotCome EXCEPT !.pc = "create", !.key = <<"installation", k>>]
      OBVIOUS
    <2>2. r.head \in 0..Pushes /\ r.task \in 0..Requests
      BY <2>1 DEF NotCome
    <2>3. request' = [request EXCEPT ![q] = r] /\ UNCHANGED <<clock, delivery, run>>
      BY <1>1, <2>1 DEF ApiArrives, RowsRest
    <2> QED BY <2>2, <2>3, BoundedRequest
  <1>2. ASSUME NEW d \in Delivery, NEW h \in HeadSha, WebhookArrives(q, d, h) PROVE BoundsInv'
    <2>1. h \in 0..Pushes
      BY DEF HeadSha
    <2>2. PICK r : /\ request' = [request EXCEPT ![q] = r]
                   /\ r.head \in 0..Pushes /\ r.task \in 0..Requests
      <3>1. PICK pc : pc = IF delivery[d].status = "absent" THEN "find" ELSE "load"
        OBVIOUS
      <3>2. PICK r : r = [NotCome EXCEPT !.delivery = {d}, !.head = h, !.key = Event(h),
                                         !.pc = pc]
        OBVIOUS
      <3>3. r.head \in 0..Pushes /\ r.task \in 0..Requests
        BY <2>1, <3>2 DEF NotCome
      <3>4. r = [NotCome EXCEPT !.delivery = {d}, !.head = h, !.key = Event(h),
                                !.pc = IF delivery[d].status = "absent" THEN "find" ELSE "load"]
        BY <3>1, <3>2
      <3>5. request' = [request EXCEPT ![q] = r]
        BY <1>2, <3>4 DEF WebhookArrives
      <3> QED BY <3>3, <3>5
    <2>3. \A p \in Arrival : request'[p] = IF p = q THEN r ELSE request[p]
      BY <2>2 DEF IntakeInv, IntakeTypes
    <2>4. delivery' = delivery \/ delivery' = [delivery EXCEPT ![d].status = "accepted", ![d].head = h]
      BY <1>2 DEF WebhookArrives, ClaimsDelivery
    <2>5. \A e \in Delivery : delivery'[e].head \in 0..Pushes /\ delivery'[e].task \in 0..Requests
      <3> TAKE e \in Delivery
      <3>1. /\ delivery[e].head \in 0..Pushes /\ delivery[e].task \in 0..Requests
            /\ delivery[e] \in [status : {"absent", "accepted", "completed", "failed", "skipped"},
                                head : Nat, task : Nat]
            /\ DOMAIN delivery = Delivery
        BY DEF BoundsInv, IntakeInv, IntakeTypes
      <3>2. e # d => delivery'[e] = delivery[e]
        BY <2>4, <3>1
      <3>3. e = d => /\ delivery'[e].head \in {h, delivery[e].head}
                     /\ delivery'[e].task = delivery[e].task
        BY <2>4, <3>1
      <3> QED BY <2>1, <3>1, <3>2, <3>3
    <2> QED BY <1>2, <2>2, <2>3, <2>5 DEF BoundsInv, WebhookArrives
  <1> QED BY <1>1, <1>2

\* Every variable of the intake has its type: nothing is ever asked for, stored
\* or answered that nobody pushed or requested.
THEOREM IntakeTypesHold == IntakeSpec => []IntakeTypeOK
  <1>1. IntakeInit => BoundsInv
    BY DEF IntakeInit, BoundsInv, NoRun, NotCome
  <1>2. IntakeInv /\ BoundsInv /\ [IntakeNext]_intakeVars => BoundsInv'
    <2> SUFFICES ASSUME IntakeInv, BoundsInv, [IntakeNext]_intakeVars PROVE BoundsInv'
      OBVIOUS
    <2>1. ASSUME NEW q \in Arrival, Deleted(q) PROVE BoundsInv'
      BY <2>1 DEF Deleted, BoundsInv, IntakeInv, IntakeTypes
    <2>2. CASE Push \/ TimePasses
      BY <2>2 DEF Push, TimePasses, BoundsInv, IntakeInv, IntakeTypes
    <2>3. CASE UNCHANGED intakeVars
      BY <2>3 DEF intakeVars, BoundsInv
    <2> QED BY <2>1, <2>2, <2>3, ArrivalIsBounded, HandlerIsBounded DEF IntakeNext
  <1>3. IntakeInv /\ BoundsInv => IntakeTypeOK
    <2> SUFFICES ASSUME IntakeInv, BoundsInv PROVE IntakeTypeOK
      OBVIOUS
    <2>1. IntakeTypes /\ \A p \in Arrival : RunOK(p)
      BY DEF IntakeInv, RunsInv
    <2>2. delivery \in [Delivery -> [status : {"absent", "accepted", "completed", "failed",
                                               "skipped"},
                                     head : 0..Pushes, task : 0..Requests]]
      BY <2>1 DEF IntakeTypes, BoundsInv
    <2>3. run \in [Arrival -> [state : {"absent", "live", "superseded", "deleted"},
                               head : 0..Pushes, created : 0..Horizon, key : Key \cup {<<>>}]]
      BY <2>1 DEF IntakeTypes, BoundsInv, RunOK
    <2> QED BY <2>1, <2>2, <2>3, RowOf DEF IntakeTypes, BoundsInv, IntakeTypeOK
  <1> QED BY <1>1, <1>2, <1>3, IntakeInvariance, PTL DEF IntakeSpec
=============================================================================
