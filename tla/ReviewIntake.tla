---------------------------- MODULE ReviewIntake ----------------------------
(***************************************************************************)
(* How reviews of one pull request come to be: webhook deliveries of       *)
(* GitHub (IncrementalWebhookService.handle) and calls of the API, handled *)
(* side by side by ReviewService.create, and the transaction of            *)
(* ReviewStore.create in which they meet.  Every awaited thread call or    *)
(* GitHub request is a step.                                               *)
(* Requests are numbered as they come.                                     *)
(*                                                                         *)
(* A request that would create a review brings its run along, so a run is  *)
(* named after its request.  A head is the number of the push that made    *)
(* it: nobody pushes an old head again.  The requests that the signature,  *)
(* the allowlist or parse_synchronize turn away never start; the plan and  *)
(* the workspace of a run are those of ReviewLifecycle.                    *)
(***************************************************************************)
EXTENDS Integers, FiniteSets

CONSTANTS
    Requests,      \* bound: the number of HTTP requests
    Delivery,      \* X-GitHub-Delivery identifiers
    ApiKey,        \* idempotency keys of API callers
    Pushes,        \* bound: the number of heads
    MaxRuns,       \* max_runs_per_hour
    Hour,          \* ticks in the hour that MaxRuns is about
    Horizon,       \* bound: the last tick
    Faults         \* bound: the requests that meet an exception or a crash

ASSUME IntakeAssumption ==
    /\ Requests \in Nat /\ Pushes \in Nat \ {0} /\ MaxRuns \in Nat \ {0}
    /\ Hour \in Nat \ {0} /\ Horizon \in Nat /\ Faults \in Nat

Arrival == 1..Requests
HeadSha    == 1..Pushes
Event(head) == <<"github-webhook", head>>
Key     == {Event(h) : h \in HeadSha} \cup {<<"installation", k>> : k \in ApiKey}

VARIABLES
    clock,      \* utcnow, in ticks
    live,       \* the head that GitHub shows
    delivery,   \* rows of incremental_webhook_deliveries
    run,        \* review rows, with the create intent that made them
    request,    \* where every handler stands
    lapses      \* exceptions and crashes so far

intakeVars == <<clock, live, delivery, run, request, lapses>>

NoRun == [state |-> "absent", head |-> 0, created |-> 0, key |-> <<>>]
NotCome == [pc |-> "none", delivery |-> {}, head |-> 0, key |-> <<>>,
            observed |-> 0, result |-> "none", task |-> 0]
Gone == [NotCome EXCEPT !.pc = "gone"]

IntakeTypeOK ==
    /\ clock \in 0..Horizon /\ live \in HeadSha
    /\ delivery \in [Delivery -> [status : {"absent", "accepted", "completed", "failed",
                                            "skipped"},
                                  head : 0..Pushes, task : 0..Requests]]
    /\ run \in [Arrival -> [state : {"absent", "live", "superseded", "deleted"},
                            head : 0..Pushes, created : 0..Horizon, key : Key \cup {<<>>}]]
    /\ \A q \in Arrival : request[q].delivery \in SUBSET Delivery

IntakeInit ==
    /\ clock = 0 /\ live = 1
    /\ delivery = [d \in Delivery |-> [status |-> "absent", head |-> 0, task |-> 0]]
    /\ run = [q \in Arrival |-> NoRun]
    /\ request = [q \in Arrival |-> NotCome]
    /\ lapses = 0

-----------------------------------------------------------------------------
Made(key) == {q \in Arrival : run[q].state # "absent" /\ run[q].key = key}
KnownRun(key) == IF Made(key) = {} THEN 0 ELSE CHOOSE q \in Made(key) : TRUE

\* webhook_count, and the same query inside create.
Recent == {q \in Arrival : /\ run[q].state # "absent"
                           /\ run[q].key \in {Event(h) : h \in HeadSha}
                           /\ run[q].created > clock - Hour}
TooMany == Cardinality(Recent) >= MaxRuns

\* Slip: any review of another head is obsolete.
ObsoleteAtAnyTime(head, observed) ==
    {q \in Arrival : run[q].state = "live" /\ run[q].head # head}

\* _supersede: other heads, and only reviews begun before ours looked.
ObsoleteSince(head, observed) ==
    {q \in Arrival : /\ run[q].state = "live" /\ run[q].head # head
                     /\ run[q].created <= observed}

Without(old) == [q \in Arrival |-> IF q \in old THEN [run[q] EXCEPT !.state = "superseded"]
                                                ELSE run[q]]

Stands(q, pc) == request[q].pc = pc
Comes(q) == Stands(q, "none") /\ \A p \in 1..(q - 1) : ~Stands(p, "none")
MovesTo(q, pc) == request' = [request EXCEPT ![q].pc = pc]
Ends(q, result, task) ==
    request' = [request EXCEPT ![q] = [NotCome EXCEPT
                   !.pc = "answer", !.delivery = request[q].delivery,
                   !.result = result, !.task = task]]
Leaves(q) == request' = [request EXCEPT ![q] = Gone]
RowsRest == UNCHANGED <<clock, live, delivery, run, lapses>>

-----------------------------------------------------------------------------
(* The webhook *)

\* claim_webhook_delivery: only the first one inserts the row.
ClaimsDelivery(d, head) ==
    delivery' = IF delivery[d].status # "absent" THEN delivery
                ELSE [delivery EXCEPT ![d].status = "accepted", ![d].head = head]

\* A signed event of an allowed repository; a delivery keeps its identity.
WebhookArrives(q, d, head) ==
    /\ Comes(q)
    /\ head \in 1..live
    /\ delivery[d].status = "absent" \/ delivery[d].head = head
    /\ ClaimsDelivery(d, head)
    /\ request' = [request EXCEPT
           ![q] = [NotCome EXCEPT !.delivery = {d}, !.head = head, !.key = Event(head),
                                  !.pc = IF delivery[d].status = "absent" THEN "find"
                                                                          ELSE "load"]]
    /\ UNCHANGED <<clock, live, run, lapses>>

\* A delivery that was answered is answered the same; one that is only
\* accepted is handled again, whether its handler died or still runs.
LoadsDelivery(q) ==
    /\ Stands(q, "load")
    /\ \E d \in request[q].delivery :
          IF delivery[d].status = "accepted" THEN MovesTo(q, "find") ELSE Leaves(q)
    /\ RowsRest

\* find_intent, then webhook_count: a known event is not counted.
FindPrevious(q) ==
    /\ Stands(q, "find")
    /\ MovesTo(q, IF KnownRun(request[q].key) # 0 THEN "create" ELSE "count")
    /\ RowsRest

CountRecent(q) ==
    /\ Stands(q, "count")
    /\ IF TooMany THEN request' = [request EXCEPT ![q].pc = "live?", ![q].observed = clock]
                  ELSE MovesTo(q, "create")
    /\ RowsRest

\* stop_obsolete: no review for this event, but none for older heads either.
StillLive(q) ==
    /\ Stands(q, "live?")
    /\ IF live = request[q].head THEN MovesTo(q, "stop") ELSE Ends(q, "skipped", 0)
    /\ RowsRest

\* Slip: the reason is stored where the status belongs.
StopObsoleteByReason(q) ==
    /\ Stands(q, "stop")
    /\ run' = Without(ObsoleteSince(request[q].head, request[q].observed))
    /\ Ends(q, "review_frequency_limited", 0)
    /\ UNCHANGED <<clock, live, delivery, lapses>>

StopObsolete(q) ==
    /\ Stands(q, "stop")
    /\ run' = Without(ObsoleteSince(request[q].head, request[q].observed))
    /\ Ends(q, "skipped", 0)
    /\ UNCHANGED <<clock, live, delivery, lapses>>

\* finish_webhook_delivery, and the answer.
RespondsAtOnce(q) ==
    /\ Stands(q, "answer")
    /\ delivery' = [d \in Delivery |->
                       IF d \in request[q].delivery
                          THEN [delivery[d] EXCEPT !.status = request[q].result,
                                                   !.task = request[q].task]
                          ELSE delivery[d]]
    /\ Leaves(q)
    /\ UNCHANGED <<clock, live, run, lapses>>

-----------------------------------------------------------------------------
(* ReviewService.create *)

ApiArrives(q, k) ==
    /\ Comes(q)
    /\ request' = [request EXCEPT ![q] = [NotCome EXCEPT !.pc = "create",
                                                         !.key = <<"installation", k>>]]
    /\ RowsRest

\* find_intent; a new review is dated before anybody looks at its head.
Creates(q) ==
    /\ Stands(q, "create")
    /\ LET known == KnownRun(request[q].key)
       IN  IF known # 0
           THEN IF run[known].state = "deleted" THEN Ends(q, "failed", 0)
                                                ELSE Ends(q, "completed", known)
           ELSE request' = [request EXCEPT ![q].pc = "fetch", ![q].observed = clock]
    /\ RowsRest

\* Slip: the review is of whatever head there is now.
FetchAnyHead(q) ==
    /\ Stands(q, "fetch")
    /\ request' = [request EXCEPT ![q].pc = "store", ![q].head = live]
    /\ RowsRest

\* fetch_pr; a webhook is about one head only.
Fetch(q) ==
    /\ Stands(q, "fetch")
    /\ IF request[q].delivery # {} /\ live # request[q].head
       THEN Ends(q, "failed", 0)
       ELSE request' = [request EXCEPT ![q].pc = "store", ![q].head = live]
    /\ RowsRest

Inserted(q) ==
    [Without(ObsoleteSince(request[q].head, request[q].observed)) EXCEPT
        ![q] = [state |-> "live", head |-> request[q].head, created |-> request[q].observed,
                key |-> request[q].key]]

\* Slips: the transaction trusts what was read before it.
StoreUncounted(q) ==
    /\ Stands(q, "store")
    /\ LET known == KnownRun(request[q].key)
       IN  IF known # 0 THEN Ends(q, "completed", known) /\ UNCHANGED run
                        ELSE run' = Inserted(q) /\ Ends(q, "completed", q)
    /\ UNCHANGED <<clock, live, delivery, lapses>>

StoreUnseen(q) ==
    /\ Stands(q, "store")
    /\ IF request[q].delivery # {} /\ TooMany
       THEN Ends(q, "failed", 0) /\ UNCHANGED run
       ELSE run' = Inserted(q) /\ Ends(q, "completed", q)
    /\ UNCHANGED <<clock, live, delivery, lapses>>

\* ReviewStore.create: one transaction, serialized by its insert.
Store(q) ==
    /\ Stands(q, "store")
    /\ LET known == KnownRun(request[q].key)
       IN  IF known # 0
           THEN Ends(q, "completed", known) /\ UNCHANGED run
           ELSE IF request[q].delivery # {} /\ TooMany
           THEN Ends(q, "failed", 0) /\ UNCHANGED run
           ELSE run' = Inserted(q) /\ Ends(q, "completed", q)
    /\ UNCHANGED <<clock, live, delivery, lapses>>

Strikes ==
    /\ lapses < Faults /\ lapses' = lapses + 1
    /\ UNCHANGED <<clock, live, delivery, run>>

\* Any other exception of create is the result of the delivery.
CreateFails(q) ==
    /\ request[q].pc \in {"create", "fetch", "store"}
    /\ Ends(q, "failed", 0)
    /\ Strikes

\* Cancelled, killed, or an exception outside of create: nothing is written.
Vanishes(q) ==
    /\ request[q].pc \notin {"none", "gone"}
    /\ Leaves(q)
    /\ Strikes

-----------------------------------------------------------------------------
(* The world: reviews end and are deleted, somebody pushes *)

Deleted(q) ==
    /\ run[q].state \in {"live", "superseded"}
    /\ run' = [run EXCEPT ![q].state = "deleted"]
    /\ UNCHANGED <<clock, live, delivery, request, lapses>>

\* A push is an instant of its own: no reading of the clock falls on it.
Push ==
    /\ live < Pushes /\ clock < Horizon
    /\ live' = live + 1 /\ clock' = clock + 1
    /\ UNCHANGED <<delivery, run, request, lapses>>

TimePasses ==
    /\ clock < Horizon
    /\ clock' = clock + 1
    /\ UNCHANGED <<live, delivery, run, request, lapses>>

HandlerStep(q) ==
    \/ LoadsDelivery(q) \/ FindPrevious(q) \/ CountRecent(q) \/ StillLive(q) \/ StopObsolete(q)
    \/ RespondsAtOnce(q) \/ Creates(q) \/ Fetch(q) \/ Store(q) \/ CreateFails(q) \/ Vanishes(q)

IntakeNext ==
    \/ \E q \in Arrival, d \in Delivery, h \in HeadSha : WebhookArrives(q, d, h)
    \/ \E q \in Arrival, k \in ApiKey : ApiArrives(q, k)
    \/ \E q \in Arrival : HandlerStep(q)
    \/ \E q \in Arrival : Deleted(q)
    \/ Push \/ TimePasses

IntakeSpec == IntakeInit /\ [][IntakeNext]_intakeVars

-----------------------------------------------------------------------------
\* However many deliveries are handled side by side, the webhook never begins
\* more reviews within an hour than it may: the count that a handler reads
\* beforehand is stale, the one inside the transaction is not.
HourlyLimitKept == Cardinality(Recent) <= MaxRuns

\* One event, or one key of a caller, makes one review, also when it comes
\* twice, from two deliveries, or again after its handler died.
OneRunPerKey == \A k \in Key : Cardinality(Made(k)) <= 1

\* A delivery that was answered with a review names one of the very head that
\* it announced, although the head may move at any time while it is handled.
DeliveryNamesItsRun ==
    \A d \in Delivery :
        delivery[d].status = "completed" =>
            \E q \in Made(Event(delivery[d].head)) :
                delivery[d].task = q /\ run[q].head = delivery[d].head

\* A review that the webhook began is stopped in favour of another head only
\* when its own head is no longer the one of the pull request: a slow creation
\* for an older head cannot replace it.
WebhookReviewStands ==
    \A q \in Arrival :
        run[q].state = "superseded" /\ run[q].key \in {Event(h) : h \in HeadSha}
        => run[q].head # live

\* What enters is exactly what was asked for: the three together, over handlers
\* side by side, repeated deliveries and handlers that died (claim_webhook_delivery
\* and create).
IntakeIsExact == OneRunPerKey /\ DeliveryNamesItsRun /\ HourlyLimitKept
=============================================================================
