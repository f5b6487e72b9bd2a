----------------------------- MODULE BudgetGate -----------------------------
(***************************************************************************)
(* The request gate of one run (src/backend/app/review/store.py 35-42,     *)
(* 304-486, budget.py): every call of the model is reserved in the table   *)
(* review_requests before it is made and settled when it is answered, and  *)
(* it is admitted only while enough calls and input tokens remain for the  *)
(* verifications that wait and for the overview.                           *)
(*                                                                         *)
(* Who asks: the grouping of the units (grouping.py), reviewers and        *)
(* verifiers (agent.py), and the overview (report.py), one after the other *)
(* or side by side, in the handler of a job that may lose its lease, crash *)
(* or be retried.  An epoch is one grant of a job of the run: JobQueue     *)
(* shows that a grant is a fencing token (AttemptIsAToken).                *)
(***************************************************************************)
EXTENDS Integers, Sequences, FiniteSets, FiniteSetsExt

CONSTANTS
    Unit,         \* review items, one per planned unit
    Check,        \* verification items, one per candidate
    NoItem,       \* the work_item_id of a request that is no agent's
    MaxCalls,     \* limits.total_model_calls
    MaxInput,     \* limits.total_input_tokens
    AgentCalls,   \* limits.model_calls: calls of one attempt of an item
    RequestCap,   \* limits.context_tokens - limits.output_tokens
    Overview,     \* OVERVIEW_INPUT
    Verification, \* VERIFICATION_INPUT
    Margin,       \* what awrap_model_call adds to the estimate of a packet
    Estimates,    \* bound: the sizes of requests other than first packets
    Usages,       \* bound: the input tokens of an answer, 0 for unknown
    MaxEpoch      \* bound: grants of a job of this run

ASSUME BudgetConstants ==
    /\ Unit \cap Check = {} /\ NoItem \notin Unit \cup Check
    /\ IsFiniteSet(Unit) /\ IsFiniteSet(Check)
    /\ {MaxCalls, AgentCalls, RequestCap, Overview, Verification, MaxEpoch}
          \subseteq Nat \ {0}
    /\ {MaxInput, Margin} \cup Usages \subseteq Nat
    /\ Overview <= MaxInput
    /\ Estimates \subseteq Nat \ {0}

VARIABLES
    request,  \* the review_requests table, in order of insertion
    item,     \* status and attempt number of every work item
    grouping, \* plan.grouping_status: "pending" or "frozen"
    clock,    \* which deadline of the run passed
    errand,   \* the kind of the job under way
    epoch,    \* grants so far
    since,    \* history: requests there were when that job was enqueued
    step,     \* where its handler is
    chosen,   \* the item can_start let through and claim has not taken yet
    agent,    \* what the agent of an item does next
    packet,   \* size of a verifier's first packet, and the limit it was cut to
    awaiting, \* requests whose coroutine waits for the model, of any epoch
    parsing   \* answered grouping or overview requests not yet parsed

jobVars   == <<errand, epoch, since>>
agentVars == <<chosen, agent, packet>>
callVars  == <<awaiting, parsing>>
vars == <<request, item, grouping, clock, jobVars, step, agentVars, callVars>>

-----------------------------------------------------------------------------
Item == Unit \cup Check

Request == [kind : {"grouping", "review", "verification", "overview"},
            item : Item \cup {NoItem}, try : Nat, epoch : Nat,
            state : {"reserved", "settled", "unknown"},
            reserved : Nat, used : Nat]

Packet   == [size : Nat, limit : Nat]
NoPacket == [size |-> 0, limit |-> 0]

Steps == {"group", "grouping", "freeze", "begin", "review", "overview", "summing",
          "closing", "closed"}

BudgetTypeOK ==
    /\ request \in Seq(Request)
    /\ item \in [Item -> [status : {"absent", "queued", "running", "completed",
                                    "interrupted", "skipped"},
                          try : Nat]]
    /\ grouping \in {"pending", "frozen"}
    /\ clock \in {"open", "cutoff", "hard"}
    /\ errand \in {"review", "overview"}
    /\ epoch \in Nat /\ since \in Nat
    /\ step \in Steps
    /\ chosen \in Item \cup {NoItem}
    /\ agent \in [Item -> {"idle", "pack", "ask", "wait", "end"}]
    /\ packet \in [Item -> Packet]
    /\ awaiting \subseteq DOMAIN request
    /\ parsing \subseteq DOMAIN request

Idle    == [i \in Item |-> "idle"]
Unpacked == [i \in Item |-> NoPacket]

\* A run is created with its review items, or without any when the units are
\* still to be grouped; its first job was just granted.
BudgetInit ==
    /\ request = <<>>
    /\ grouping \in {"pending", "frozen"}
    /\ item = [i \in Item |->
                [status |-> IF i \in Unit /\ grouping = "frozen" THEN "queued" ELSE "absent",
                 try |-> 0]]
    /\ clock = "open"
    /\ errand = "review" /\ epoch = 1 /\ since = 0
    /\ step = IF grouping = "pending" THEN "group" ELSE "begin"
    /\ chosen = NoItem /\ agent = Idle /\ packet = Unpacked
    /\ awaiting = {} /\ parsing = {}

-----------------------------------------------------------------------------
(* What is left, and who may ask *)

\* A request counts with what it used once that is known, with what was
\* reserved for it until then.
Cost(r) == IF r.state = "settled" THEN r.used ELSE r.reserved

Total(rows) ==
    LET sum[n \in 0 .. Len(rows)] == IF n = 0 THEN 0 ELSE sum[n - 1] + Cost(rows[n])
    IN sum[Len(rows)]

Committed == Total(request)

\* verification_input_limit, of a run with a limit on its input tokens.
CheckLimit(committed) ==
    Max({1, Min({Verification, RequestCap, MaxInput - committed - Overview})})

\* An item and its attempt are compared by attempt_id alone, which is missing
\* from items that never ran, and from grouping and overview requests.
OfAttempt(r, i) == r.try = item[i].try /\ (r.try > 0 => r.item = i)

CallsOf(i) == {k \in DOMAIN request : OfAttempt(request[k], i)}

Requested(c) == \E k \in DOMAIN request :
    request[k].kind = "verification" /\ request[k].item = c /\ request[k].try = item[c].try

\* Slip: a check counts as provided for once its agent was started.
QueuedChecks == {c \in Check : item[c].status = "queued"}

\* Verifications whose first request is still to come.
PendingChecks == {c \in Check : \/ item[c].status = "queued"
                                \/ item[c].status = "running" /\ ~Requested(c)}

ProtectedChecks(kind) == IF kind = "review" THEN Cardinality(PendingChecks) ELSE 0

ProtectedCalls(kind) ==
    IF kind = "overview" THEN 0 ELSE 1 + ProtectedChecks(kind)

ProtectedInput(kind) ==
    IF kind = "overview" THEN 0 ELSE Overview + ProtectedChecks(kind) * CheckLimit(0)

InTime(kind) ==
    /\ clock # "hard"
    /\ kind \in {"review", "grouping"} => clock = "open"

\* Slips: a limit that was reached is not exceeded yet; the request itself is
\* not counted against what is left.
AdmitsOneMore(kind, i, estimate) ==
    /\ InTime(kind)
    /\ i # NoItem => Cardinality(CallsOf(i)) <= AgentCalls
    /\ Len(request) + ProtectedCalls(kind) <= MaxCalls
    /\ Committed + estimate + ProtectedInput(kind) <= MaxInput

AdmitsWhileSomethingIsLeft(kind, i, estimate) ==
    /\ InTime(kind)
    /\ i # NoItem => Cardinality(CallsOf(i)) < AgentCalls
    /\ Len(request) + 1 + ProtectedCalls(kind) <= MaxCalls
    /\ Committed + ProtectedInput(kind) < MaxInput

\* _admit_request
Admits(kind, i, estimate) ==
    /\ InTime(kind)
    /\ i # NoItem => Cardinality(CallsOf(i)) < AgentCalls
    /\ Len(request) + 1 + ProtectedCalls(kind) <= MaxCalls
    /\ Committed + estimate + ProtectedInput(kind) <= MaxInput
    /\ estimate <= RequestCap

KindOf(i) == IF i \in Unit THEN "review" ELSE "verification"

StartEstimates(i) == IF i \in Unit THEN Estimates ELSE {CheckLimit(Committed)}

\* reserve and reserve_grouping: the row, in the transaction that admits it.
Reserve(kind, i, try, estimate) ==
    /\ request' = Append(request,
         [kind |-> kind, item |-> i, try |-> try, epoch |-> epoch,
          state |-> "reserved", reserved |-> estimate, used |-> 0])
    /\ awaiting' = awaiting \cup {Len(request) + 1}

-----------------------------------------------------------------------------
(* Settling *)

\* _guard and the lease of the row: the run is open, and the caller holds the
\* grant the request was made under.
Fence(k) == step # "closed" /\ request[k].epoch = epoch

\* _attempt: the item is still in the attempt the request was made for.
Standing(k) == LET r == request[k] IN
    r.item # NoItem => item[r.item].status = "running" /\ item[r.item].try = r.try

\* Slip: an unknown usage is stored as a number no sum expects.
SettledBelowZero(k, usage) ==
    [request EXCEPT ![k].state = IF usage = 0 THEN "unknown" ELSE "settled",
                    ![k].used = usage - 1]

\* usage = 0 stands for an answer without usage, or for no answer.
Settled(k, usage) ==
    [request EXCEPT ![k].state = IF usage = 0 THEN "unknown" ELSE "settled",
                    ![k].used = usage]

\* Slip: the last settlement wins.
SettleAnyState(k, usage) ==
    request' = IF Fence(k) /\ Standing(k) THEN Settled(k, usage) ELSE request

Settle(k, usage) ==
    request' = IF Fence(k) /\ Standing(k) /\ request[k].state = "reserved"
               THEN Settled(k, usage) ELSE request

\* What the coroutine that made the request does next.  One of a former grant
\* gets LeaseLost from the store and is gone.
GoesOn(k, next) == LET i == request[k].item IN
    agent' = IF i # NoItem /\ Fence(k) /\ Standing(k) THEN [agent EXCEPT ![i] = next] ELSE agent

DriverGoesOn(k) ==
    step' = IF request[k].item # NoItem \/ ~Fence(k) THEN step
            ELSE IF step = "grouping" THEN "freeze" ELSE "closing"

\* The model answers.
Answer(k) ==
    /\ k \in awaiting
    /\ \E usage \in Usages : Settle(k, usage)
    /\ GoesOn(k, "ask")
    /\ awaiting' = awaiting \ {k}
    /\ parsing' = IF request[k].item = NoItem /\ Fence(k) THEN parsing \cup {k} ELSE parsing
    /\ UNCHANGED <<item, grouping, clock, jobVars, step, chosen, packet>>

\* The request fails or times out.
Fails(k) ==
    /\ k \in awaiting
    /\ Settle(k, 0)
    /\ GoesOn(k, "end")
    /\ DriverGoesOn(k)
    /\ awaiting' = awaiting \ {k}
    /\ UNCHANGED <<item, grouping, clock, jobVars, chosen, packet, parsing>>

\* The grouping or the overview is understood, or it is not: then its request
\* is settled once more, as unknown.
Parsed(k) ==
    /\ k \in parsing
    /\ parsing' = parsing \ {k}
    /\ DriverGoesOn(k)
    /\ UNCHANGED <<request, item, grouping, clock, jobVars, agentVars, awaiting>>

Garbled(k) ==
    /\ k \in parsing
    /\ Settle(k, 0)
    /\ parsing' = parsing \ {k}
    /\ DriverGoesOn(k)
    /\ UNCHANGED <<item, grouping, clock, jobVars, agentVars, awaiting>>

-----------------------------------------------------------------------------
(* Grouping *)

\* Slip: the request of a lost grant is not seen.
GroupingAskedByUs == \E k \in DOMAIN request :
    request[k].kind = "grouping" /\ request[k].epoch = epoch

GroupingAsked == \E k \in DOMAIN request : request[k].kind = "grouping"

AskGrouping(estimate) ==
    /\ step = "group"
    /\ ~GroupingAsked
    /\ Admits("grouping", NoItem, estimate)
    /\ Reserve("grouping", NoItem, 0, estimate)
    /\ step' = "grouping"
    /\ UNCHANGED <<item, grouping, clock, jobVars, agentVars, parsing>>

\* It was asked by a former grant, or the budget refuses: the static groups do.
GroupWithoutAsking(estimate) ==
    /\ step = "group"
    /\ GroupingAsked \/ ~Admits("grouping", NoItem, estimate)
    /\ step' = "freeze"
    /\ UNCHANGED <<request, item, grouping, clock, jobVars, agentVars, callVars>>

\* freeze_grouping creates the review items.
FreezeGrouping ==
    /\ step = "freeze"
    /\ clock # "hard"
    /\ grouping' = "frozen"
    /\ item' = [i \in Item |-> IF i \in Unit THEN [status |-> "queued", try |-> 0]
                               ELSE item[i]]
    /\ step' = "begin"
    /\ UNCHANGED <<request, clock, jobVars, agentVars, callVars>>

\* seed_history: a finding of an earlier review becomes a candidate of this one.
SeedHistory(c) ==
    /\ step = "begin" /\ errand = "review" /\ clock # "hard"
    /\ item[c].status = "absent"
    /\ item' = [item EXCEPT ![c] = [status |-> "queued", try |-> 0]]
    /\ UNCHANGED <<request, grouping, clock, jobVars, step, agentVars, callVars>>

\* begin queues what a former grant left running.
Begin ==
    /\ step = "begin"
    /\ item' = [i \in Item |-> IF item[i].status = "running"
                               THEN [item[i] EXCEPT !.status = "queued"] ELSE item[i]]
    /\ step' = errand
    /\ UNCHANGED <<request, grouping, clock, jobVars, agentVars, callVars>>

-----------------------------------------------------------------------------
(* The orchestrator *)

NobodyWorks == chosen = NoItem /\ agent = Idle

\* can_start, then claim: others may ask in between.
MayStart(i, estimate) ==
    /\ step = "review" /\ chosen = NoItem
    /\ clock # "hard" /\ item[i].status = "queued"
    /\ Admits(KindOf(i), i, estimate)
    /\ chosen' = i
    /\ UNCHANGED <<request, item, grouping, clock, jobVars, step, agent, packet, callVars>>

Claim ==
    /\ chosen # NoItem
    /\ item' = [item EXCEPT ![chosen] = [status |-> "running", try |-> @.try + 1]]
    /\ agent' = [agent EXCEPT ![chosen] = IF chosen \in Check THEN "pack" ELSE "ask"]
    /\ packet' = [packet EXCEPT ![chosen] = NoPacket]
    /\ chosen' = NoItem
    /\ UNCHANGED <<request, grouping, clock, jobVars, step, callVars>>

\* Past the cutoff no reviewer starts; an item the budget refuses is dropped
\* when nobody works who could still give something back; past the hard
\* deadline all that is left is dropped, once the agents are cancelled.
Skip(i, estimate) ==
    /\ step = "review" /\ i # chosen
    /\ \/ item[i].status = "queued" /\ i \in Unit /\ clock # "open"
       \/ item[i].status = "queued" /\ NobodyWorks /\ ~Admits(KindOf(i), i, estimate)
       \/ item[i].status \in {"queued", "running"} /\ NobodyWorks /\ clock = "hard"
    /\ item' = [item EXCEPT ![i].status = "skipped"]
    /\ UNCHANGED <<request, grouping, clock, jobVars, step, agentVars, callVars>>

\* A cancelled agent waits for its answer no longer; its row stays reserved.
DrainAgents ==
    /\ step = "review" /\ clock = "hard" /\ agent # Idle /\ chosen = NoItem
    /\ agent' = Idle
    /\ awaiting' = {k \in awaiting : request[k].epoch # epoch}
    /\ UNCHANGED <<request, item, grouping, clock, jobVars, step, chosen, packet, parsing>>

EndReview ==
    /\ step = "review" /\ NobodyWorks
    /\ clock = "hard" \/ \A i \in Item : item[i].status \notin {"queued", "running"}
    /\ step' = "overview"
    /\ UNCHANGED <<request, item, grouping, clock, jobVars, agentVars, callVars>>

-----------------------------------------------------------------------------
(* Agents *)

Working(i) == step = "review" /\ item[i].status = "running"

\* A verifier reads what is committed and cuts its first packet to the limit
\* that leaves; a packet that cannot be cut so far ends it.
Pack(c) ==
    /\ Working(c) /\ agent[c] = "pack"
    /\ \/ \E size \in 1 .. Verification :
            /\ size <= CheckLimit(Committed)
            /\ packet' = [packet EXCEPT ![c] = [size |-> size, limit |-> CheckLimit(Committed)]]
            /\ agent' = [agent EXCEPT ![c] = "ask"]
       \/ packet' = packet /\ agent' = [agent EXCEPT ![c] = "end"]
    /\ UNCHANGED <<request, item, grouping, clock, jobVars, step, chosen, callVars>>

\* awrap_model_call: the first request of a verifier is its packet, the
\* conversations of all others have any size.
Sizes(i) == IF i \in Check /\ ~Requested(i) THEN {packet[i].size + Margin} ELSE Estimates

Ask(i, estimate) ==
    /\ Working(i) /\ agent[i] = "ask"
    /\ estimate \in Sizes(i)
    /\ Admits(KindOf(i), i, estimate)
    /\ Reserve(KindOf(i), i, item[i].try, estimate)
    /\ agent' = [agent EXCEPT ![i] = "wait"]
    /\ UNCHANGED <<item, grouping, clock, jobVars, step, chosen, packet, parsing>>

\* A reviewer submits a candidate between two requests: nobody asks the budget
\* for the verification that comes with it.
Submit(i, c) ==
    /\ Working(i) /\ i \in Unit /\ agent[i] = "ask" /\ CallsOf(i) # {}
    /\ clock # "hard" /\ item[c].status = "absent"
    /\ item' = [item EXCEPT ![c] = [status |-> "queued", try |-> 0]]
    /\ UNCHANGED <<request, grouping, clock, jobVars, step, agentVars, callVars>>

\* finish_work: the result is in, or a refusal, a failure or the lack of
\* progress ends the attempt ("interrupted" here, also what the code calls
\* "failed").
AgentEnds(i, status) ==
    /\ Working(i) /\ agent[i] \in {"ask", "end"}
    /\ status = "completed" => agent[i] = "ask" /\ CallsOf(i) # {} /\ clock # "hard"
    /\ item' = [item EXCEPT ![i].status = status]
    /\ agent' = [agent EXCEPT ![i] = "idle"]
    /\ UNCHANGED <<request, grouping, clock, jobVars, step, chosen, packet, callVars>>

-----------------------------------------------------------------------------
(* Overview *)

AskOverview(estimate) ==
    /\ step = "overview"
    /\ Admits("overview", NoItem, estimate)
    /\ Reserve("overview", NoItem, 0, estimate)
    /\ step' = "summing"
    /\ UNCHANGED <<item, grouping, clock, jobVars, agentVars, parsing>>

\* Refused, too late, no material, or the overview of the same facts is there.
NoOverview ==
    /\ step = "overview"
    /\ step' = "closing"
    /\ UNCHANGED <<request, item, grouping, clock, jobVars, agentVars, callVars>>

Conclude ==
    /\ step = "closing"
    /\ step' = "closed"
    /\ UNCHANGED <<request, item, grouping, clock, jobVars, agentVars, callVars>>

-----------------------------------------------------------------------------
(* Jobs and time *)

\* Where the handler of a job starts to ask.
FirstStep(kind) ==
    IF kind = "review" /\ grouping = "pending" THEN "group" ELSE "begin"

\* The handler meets an exception: fail_run, its coroutines are cancelled.
FailRun ==
    /\ step # "closed"
    /\ step' = "closed"
    /\ agent' = Idle /\ packet' = Unpacked /\ chosen' = NoItem
    /\ awaiting' = {k \in awaiting : request[k].epoch # epoch}
    /\ parsing' = {}
    /\ UNCHANGED <<request, item, grouping, clock, jobVars>>

\* Another grant of the job; the coroutines of the former holder may be alive
\* (its lease expired) or gone (it crashed).
TakeOver ==
    /\ step # "closed" /\ epoch < MaxEpoch
    /\ epoch' = epoch + 1
    /\ step' = FirstStep(errand)
    /\ agent' = Idle /\ packet' = Unpacked /\ chosen' = NoItem
    /\ \/ UNCHANGED <<callVars>>
       \/ awaiting' = {} /\ parsing' = {}
    /\ UNCHANGED <<request, item, grouping, clock, errand, since>>

\* Slip: a retry does not keep the share of its overview.
RetryWithinLimits == Len(request) < MaxCalls /\ Committed <= MaxInput

RetryAffordable == Len(request) < MaxCalls /\ Committed + Overview <= MaxInput

\* store.retry, and the grant of the job it enqueues.
Retry(kind) ==
    /\ step = "closed" /\ clock # "hard" /\ RetryAffordable
    /\ epoch < MaxEpoch
    /\ errand' = kind /\ epoch' = epoch + 1 /\ since' = Len(request)
    /\ item' = [i \in Item |->
         IF kind = "review" /\ item[i].status \notin {"absent", "completed"}
         THEN [item[i] EXCEPT !.status = "queued"] ELSE item[i]]
    /\ step' = FirstStep(kind)
    /\ UNCHANGED <<request, grouping, clock, agentVars, callVars>>

PassDeadline ==
    /\ clock # "hard"
    /\ clock' = IF clock = "open" THEN "cutoff" ELSE "hard"
    /\ UNCHANGED <<request, item, grouping, jobVars, step, agentVars, callVars>>

-----------------------------------------------------------------------------
BudgetNext ==
    \/ \E k \in DOMAIN request : Answer(k) \/ Fails(k) \/ Parsed(k) \/ Garbled(k)
    \/ \E e \in Estimates : AskGrouping(e) \/ GroupWithoutAsking(e)
    \/ FreezeGrouping \/ Begin
    \/ \E i \in Item : \E e \in StartEstimates(i) : MayStart(i, e) \/ Skip(i, e)
    \/ Claim \/ DrainAgents \/ EndReview
    \/ \E c \in Check : SeedHistory(c) \/ Pack(c)
    \/ \E i \in Item : \E e \in Sizes(i) : Ask(i, e)
    \/ \E i \in Unit, c \in Check : Submit(i, c)
    \/ \E i \in Item, s \in {"completed", "interrupted"} : AgentEnds(i, s)
    \/ AskOverview(Overview)
    \/ NoOverview \/ Conclude \/ FailRun \/ TakeOver
    \/ \E kind \in {"review", "overview"} : Retry(kind)
    \/ PassDeadline

BudgetSpec == BudgetInit /\ [][BudgetNext]_vars

-----------------------------------------------------------------------------
(* Properties *)

\* The calls of a run and of each attempt stay within their limits, whoever
\* asks side by side and however often the run is taken over or retried
\* (store.py:357-360; the admission and the row are one transaction).
CallsWithinLimits ==
    /\ Len(request) <= MaxCalls
    /\ \A i \in Item : item[i].try > 0 => Cardinality(CallsOf(i)) <= AgentCalls

\* The model is asked to group the units at most once in the life of a run, and
\* nobody asks it anything else before the grouping is frozen: the request of
\* a grant that was lost is not replayed (store.py:413, grouping.py:69).
GroupingAskedOnce ==
    /\ Cardinality({k \in DOMAIN request : request[k].kind = "grouping"}) <= 1
    /\ \A k \in DOMAIN request : request[k].kind \in {"review", "verification"}
                                   => grouping = "frozen"

Underestimated == \E k \in DOMAIN request : Cost(request[k]) > request[k].reserved

\* Unless an answer used more than was estimated, the input tokens used and
\* reserved stay within the limit (README.md:131 of the repository).
InputWithinLimit == ~Underestimated => Committed <= MaxInput

\* While a job of the run is under way and has not asked for an overview, a
\* call and OVERVIEW_INPUT tokens are left for one: no agent, no verification
\* that nobody asked the budget for, no retry and no lost grant uses them up
\* (store.py:347).
OverviewAffordable ==
    /\ step # "closed" /\ ~Underestimated
    /\ \A k \in since + 1 .. Len(request) : request[k].kind # "overview"
    => Len(request) < MaxCalls /\ Committed + Overview <= MaxInput

\* A verifier that cut its first packet, with room for the margin, to the limit
\* it read is not refused for what reviewers asked for since then, as long as
\* no verifier has asked (store.py:348-356: "concurrent reviewers cannot take
\* the minimal chance of queued candidates", README.md:14).
PackedCheckIsAdmitted ==
    \A c \in Check :
        /\ Working(c) /\ agent[c] = "ask" /\ ~Requested(c)
        /\ packet[c].size + Margin <= packet[c].limit
        /\ clock # "hard" /\ ~Underestimated
        /\ \A k \in DOMAIN request : request[k].kind \notin {"verification", "overview"}
        => Admits("verification", c, packet[c].size + Margin)

\* Both together: what is set aside for verifications and for the overview is
\* there when they ask (_admit_request, store.py:337-380).
SharesAreProtected == OverviewAffordable /\ PackedCheckIsAdmitted

\* A request is never removed, it is settled at most once, and not after its
\* grant is over: an answer that comes late or is rejected later changes
\* nothing that was counted (store.py:472-486).
ReceiptsAreFinal ==
    [][\A k \in DOMAIN request :
         /\ k \in DOMAIN request'
         /\ request'[k] # request[k] => request[k].state = "reserved"
                                       /\ request[k].epoch = epoch]_vars

\* An item that was interrupted may run again: its next attempt is not held to
\* the calls the former one made (README.md:67: interrupted items run again from the
\* start).
InterruptedItemsMayStart ==
    \A i \in Item : item[i].status = "queued" /\ item[i].try > 0
                   => Cardinality(CallsOf(i)) < AgentCalls
=============================================================================
