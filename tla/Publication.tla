----------------------------- MODULE Publication -----------------------------
(***************************************************************************)
(* Delivering reviews to one pull request on GitHub: the attempts users    *)
(* confirm, their jobs, the slot of the pull request that one delivery     *)
(* holds at a time, the batches of inline comments and the sticky summary. *)
(* The publisher's requests travel: GitHub may apply or refuse them, late  *)
(* or never, and the answer may be lost.                                   *)
(*                                                                         *)
(* Order: attempt a delivers the review that completed a-th.  The lease of *)
(* a job is what JobQueue grants (FencedLease): a Boolean here.            *)
(***************************************************************************)
EXTENDS Integers, FiniteSets, FiniteSetsExt

CONSTANTS
    Attempts,    \* how many deliveries are confirmed
    Findings,    \* how many inline findings each of them selects
    BatchSize,   \* repoguardian_github_publish_batch_size
    Unmappable,  \* findings that the diff may have no line for
    MaxTries,    \* WorkerJob.max_attempts of a publication; 5 in the code
    RetryCap,    \* bound: how often a user retries one attempt
    FaultCap,    \* bound: how many mishaps one behaviour sees
    Mishaps      \* what may go wrong, of AllMishaps

AllMishaps == {"crash", "stall", "shutdown", "slot", "moved", "edited",
               "withdrawn", "read", "changed", "refused", "lost"}

ASSUME PublicationAssumption ==
    /\ Attempts \in Nat \ {0} /\ Findings \in Nat
    /\ BatchSize \in Nat \ {0} /\ MaxTries \in Nat \ {0}
    /\ RetryCap \in Nat /\ FaultCap \in Nat
    /\ Unmappable \subseteq 1 .. Findings
    /\ Mishaps \subseteq AllMishaps

VARIABLES
    state,    \* PublicationAttempt.state, with "absent" and "previewed" before
    job,      \* the attempt's worker job
    item,     \* the states of its inline items
    note,     \* its summary item: state and the body last meant to be sent
    batch,    \* the states of its batches, named by the items they hold
    slot,     \* GitHubSummarySlot of the pull request
    handler,  \* PublicationDelivery.execute
    wire,     \* requests GitHub has not answered
    sticky,   \* the summary comments on the pull request
    posted,   \* how often a batch was posted as a review
    pr,       \* is the reviewed head still current, have the reviews a result
    faults    \* mishaps so far, up to FaultCap

rows == <<state, item, note, batch>>
github == <<wire, sticky, posted>>
vars == <<rows, job, slot, handler, github, pr, faults>>

-----------------------------------------------------------------------------
Attempt == 1 .. Attempts
Finding == 1 .. Findings
Lot == (SUBSET Finding) \ {{}}
Posts == Attempt \X Lot                         \* which batch of which attempt
None == 0                                      \* no attempt, no comment

Open == {"queued", "preparing", "publishing"}
Retryable == {"failed", "partial", "uncertain"}
AttemptState ==
    {"absent", "previewed", "succeeded", "stale"} \cup Open \cup Retryable
ItemState == {"pending", "publishing", "published", "failed", "uncertain",
              "summary_only"}
Counted == {"published", "failed", "uncertain"} \* what the summary counts

Body == [pub : Attempt, phase : {"Publishing", "Published", "Partial"},
         told : [Finding -> Counted \cup {"other"}],
         fallback : SUBSET Unmappable, edited : BOOLEAN]
NoBody == [pub |-> None]
NoHolder == <<None, 0>>

Request == [kind : {"create", "update", "review"}, by : Attempt, id : 0 .. 2,
            try : Nat, body : Body \cup {NoBody}, lot : SUBSET Finding,
            at : {"sent", "applied", "refused"}]

Err == {"none", "uncertain", "stale", "throttled", "refused", "lost", "internal"}
Pc == {"none", "acquire", "begin", "reconcile", "recover", "check", "upsert",
       "intent", "send", "answer", "finish", "validate", "mark", "items",
       "batch", "bsend", "banswer", "raised", "leave", "settle"}
Idle == [pc |-> "none", then |-> "check", phase |-> "Publishing", fallback |-> {},
         checked |-> FALSE, todo |-> {}, lot |-> {}, id |-> None,
         err |-> "none", closing |-> FALSE]

PublicationTypeOK ==
    /\ state \in [Attempt -> AttemptState]
    /\ job \in [Attempt ->
          [status : {"none", "queued", "retry", "leased", "completed", "dead"},
           live : BOOLEAN, tries : Nat, max : Nat]]
    /\ item \in [Attempt -> [Finding -> ItemState]]
    /\ note \in [Attempt -> [state : ItemState, body : Body \cup {NoBody}]]
    /\ batch \in [Attempt -> [Lot -> ItemState \cup {"none"}]]
    /\ slot \in [holder : (0 .. Attempts) \X Nat, live : BOOLEAN,
                 comment : 0 .. 2, latest : Attempt \cup {None},
                 hash : Body \cup {NoBody}, pending : Attempt \cup {None}]
    /\ \A a \in Attempt :
          /\ DOMAIN handler[a] = DOMAIN Idle
          /\ handler[a].pc \in Pc /\ handler[a].err \in Err
          /\ handler[a].lot \subseteq Finding /\ handler[a].todo \subseteq Finding
    /\ wire \subseteq Request
    /\ sticky \in [1 .. 2 -> Body \cup {NoBody}]
    /\ posted \in [Posts -> 0 .. 2]
    /\ pr \in [current : BOOLEAN, open : [Attempt -> BOOLEAN]]
    /\ faults \in 0 .. FaultCap

Init ==
    /\ state = [a \in Attempt |-> "absent"]
    /\ job = [a \in Attempt |->
                 [status |-> "none", live |-> FALSE, tries |-> 0, max |-> 0]]
    /\ item = [a \in Attempt |-> [f \in Finding |-> "pending"]]
    /\ note = [a \in Attempt |-> [state |-> "pending", body |-> NoBody]]
    /\ batch = [a \in Attempt |-> [l \in Lot |-> "none"]]
    /\ slot = [holder |-> NoHolder, live |-> FALSE, comment |-> None,
               latest |-> None, hash |-> NoBody, pending |-> None]
    /\ handler = [a \in Attempt |-> Idle]
    /\ wire = {}
    /\ sticky = [c \in 1 .. 2 |-> NoBody]
    /\ posted = [p \in Posts |-> 0]
    /\ pr = [current |-> TRUE, open |-> [a \in Attempt |-> TRUE]]
    /\ faults = 0

\* A mishap of a kind the instance allows; everything else leaves faults alone.
Mishap(kind) == kind \in Mishaps /\ faults < FaultCap /\ faults' = faults + 1
Smooth == UNCHANGED faults

-----------------------------------------------------------------------------
(* What a delivery may do, and what it sees on GitHub *)

At(a, pc) == handler[a].pc = pc
Go(a, pc) == handler' = [handler EXCEPT ![a].pc = pc]
Raise(a, err) == handler' = [handler EXCEPT ![a].pc = "raised", ![a].err = err]

\* Slip: the lease of the job is enough, whoever holds the slot.
LockedByJob(a) == job[a].status = "leased" /\ job[a].live

\* Every write of a delivery: it holds the slot and its job, unexpired, and
\* the review has not been taken back.
Locked(a) ==
    /\ slot.holder = <<a, job[a].tries>> /\ slot.live
    /\ job[a].status = "leased" /\ job[a].live
    /\ pr.open[a]

Unresolved(a) == {l \in Lot : batch[a][l] \in {"publishing", "uncertain"}}

\* The summary comment: by the stored id, else the one that bears the marker.
Shown == {c \in DOMAIN sticky : sticky[c] # NoBody}
Summary ==
    CASE slot.comment \in Shown -> slot.comment
      [] slot.comment \notin Shown /\ Shown = {} -> None
      [] OTHER -> Min(Shown)
SummaryUnclear ==
    \/ slot.comment \notin Shown /\ Cardinality(Shown) > 1
    \/ Summary # None /\ sticky[Summary].edited
SummaryOrder == IF Summary = None THEN None ELSE sticky[Summary].pub

CommentsOn(f) ==
    LET by == {p \in Posts : f \in p[2] /\ posted[p] > 0}
    IN  Cardinality(by) + Cardinality({p \in by : posted[p] > 1})

\* compose_summary and controlled_body, as far as two bodies can differ.
Composed(a, fallback) ==
    [pub |-> a, phase |-> handler[a].phase, edited |-> FALSE,
     fallback |-> fallback,
     told |-> [f \in Finding |->
                  IF item[a][f] \in Counted THEN item[a][f] ELSE "other"]]

\* summary_finish, with comment c showing body b.  It looks at latest_order
\* again, which only the holder of the slot changes.
FinishSummary(a, c, b) ==
    /\ slot' = [slot EXCEPT !.comment = c, !.latest = a, !.hash = b,
                            !.pending = None]
    /\ note' = [note EXCEPT ![a].state = "published"]

\* Slip: an unknown outcome frees the slot like a known one.
FinishBatchFreely(a, l, outcome) ==
    /\ batch' = [batch EXCEPT ![a][l] = outcome]
    /\ item' = [item EXCEPT ![a] = [f \in Finding |->
                   IF f \in l /\ (outcome = "published" \/ @[f] # "published")
                   THEN outcome ELSE @[f]]]
    /\ slot' = [slot EXCEPT !.pending = IF @ = a THEN None ELSE @]

\* Slip: a request whose answer was lost counts as refused.
FateFailed(unknown) == "failed"

Fate(unknown) == IF unknown THEN "uncertain" ELSE "failed"

\* finish_batch with receipts for all items of the batch or for none.
FinishBatch(a, l, outcome) ==
    /\ batch' = [batch EXCEPT ![a][l] = outcome]
    /\ item' = [item EXCEPT ![a] = [f \in Finding |->
                   IF f \in l /\ (outcome = "published" \/ @[f] # "published")
                   THEN outcome ELSE @[f]]]
    /\ slot' = [slot EXCEPT !.pending =
                   IF outcome # "uncertain" /\ @ = a THEN None ELSE @]

-----------------------------------------------------------------------------
(* The user *)

\* PublicationPreflight.check, as far as its answers differ.
Preflight(a) ==
    IF ~pr.open[a] THEN "refused" ELSE IF ~pr.current THEN "stale" ELSE "none"

\* PublicationService.checked: the preflight and a look at the slot.
Preview(a) ==
    /\ state[a] = "absent" /\ Preflight(a) = "none"
    /\ slot.pending = None
    /\ ~SummaryUnclear /\ SummaryOrder <= a
    /\ Summary # None /\ slot.hash # NoBody => sticky[Summary] = slot.hash
    /\ state' = [state EXCEPT ![a] = "previewed"]
    /\ UNCHANGED <<item, note, batch, job, slot, handler, github, pr>>

\* PublicationRepository.create, some time after the preview it relies on.
Create(a) ==
    /\ state[a] = "previewed" /\ pr.open[a]
    /\ state' = [state EXCEPT ![a] = "queued"]
    /\ job' = [job EXCEPT ![a] = [@ EXCEPT !.status = "queued", !.max = MaxTries]]
    /\ UNCHANGED <<item, note, batch, slot, handler, github, pr>>

Retry(a) ==
    /\ job[a].status # "none" /\ ~job[a].live
    /\ pr.open[a] /\ state[a] \in Retryable
    /\ job[a].max < MaxTries * (RetryCap + 1)
    /\ job' = [job EXCEPT ![a] = [@ EXCEPT !.status = "retry",
                                           !.max = job[a].tries + MaxTries]]
    /\ state' = [state EXCEPT ![a] = "queued"]
    /\ UNCHANGED <<item, note, batch, slot, handler, github, pr>>

-----------------------------------------------------------------------------
(* The job of an attempt, as JobQueue grants and ends it *)

Claim(a) ==
    /\ \/ job[a].status \in {"queued", "retry"}
       \/ job[a].status = "leased" /\ ~job[a].live
    /\ job[a].tries < job[a].max
    /\ job' = [job EXCEPT ![a].status = "leased", ![a].live = TRUE,
                          ![a].tries = @ + 1]
    /\ handler' = [handler EXCEPT ![a] = [Idle EXCEPT !.pc =
                      IF state[a] = "succeeded" THEN "settle" ELSE "acquire"]]
    /\ UNCHANGED <<rows, slot, github, pr>>

\* The end of the handler: complete, or fail with what is left of its tries.
Settle(a) ==
    /\ At(a, "settle")
    /\ job' = [job EXCEPT ![a] = [@ EXCEPT
          !.status = IF handler[a].err = "none" THEN "completed"
                     ELSE IF job[a].tries < job[a].max THEN "retry" ELSE "dead",
          !.live = FALSE]]
    /\ handler' = [handler EXCEPT ![a] = Idle]
    /\ UNCHANGED <<rows, slot, github, pr>>

\* finally: release(lease), whatever the state of the lease.
Leave(a) ==
    /\ At(a, "leave")
    /\ slot' = IF slot.holder = <<a, job[a].tries>>
               THEN [slot EXCEPT !.holder = NoHolder, !.live = FALSE] ELSE slot
    /\ Go(a, "settle")
    /\ UNCHANGED <<rows, job, github, pr>>

-----------------------------------------------------------------------------
(* execute: taking the slot, and looking for what is unknown *)

\* A busy slot is an exception of the handler.
Acquire(a) ==
    /\ At(a, "acquire")
    /\ IF pr.open[a] /\ ~slot.live
       THEN /\ slot' = [slot EXCEPT !.holder = <<a, job[a].tries>>, !.live = TRUE]
            /\ Go(a, "begin")
       ELSE /\ handler' = [handler EXCEPT ![a].pc = "settle", ![a].err = "internal"]
            /\ UNCHANGED slot
    /\ UNCHANGED <<rows, job, github, pr>>

\* The next call of the repository finds a lease gone.
Writes == {"begin", "reconcile", "upsert", "intent", "finish", "mark"}
FindsLeaseLost(a) ==
    /\ ~Locked(a)
    /\ \/ handler[a].pc \in Writes
       \/ At(a, "recover") /\ Unresolved(a) # {}
       \/ At(a, "items") /\ Finding # {}
       \/ At(a, "batch") /\ handler[a].todo # {} /\ pr.current
    /\ Raise(a, "lost")
    /\ UNCHANGED <<rows, job, slot, github, pr>>

\* A GET fails: never an unknown outcome, but maybe a rate limit.
Reads == {"check", "upsert", "validate", "reconcile", "recover", "items", "batch"}
ReadFails(a) ==
    /\ Mishap("read") /\ handler[a].pc \in Reads
    /\ At(a, "reconcile") => slot.pending = a
    /\ At(a, "recover") => Unresolved(a) # {}
    /\ At(a, "batch") => handler[a].todo # {}
    /\ \E err \in {"refused", "throttled"} : Raise(a, err)
    /\ UNCHANGED <<rows, job, slot, github, pr>>

Begin(a) ==
    /\ At(a, "begin") /\ Locked(a)
    /\ state' = [state EXCEPT ![a] = "preparing"]
    /\ Go(a, "reconcile")
    /\ UNCHANGED <<item, note, batch, job, slot, github, pr>>

Recovering(a, next) ==
    handler' = [handler EXCEPT ![a].pc = "recover", ![a].then = next]

\* StickySummary.reconcile: a summary of unknown outcome may have arrived.
Reconcile(a) ==
    /\ At(a, "reconcile") /\ Locked(a)
    /\ \/ /\ slot.pending # a \/ note[a].state \notin {"publishing", "uncertain"}
          /\ Recovering(a, "check") /\ UNCHANGED <<note, slot>>
       \/ /\ slot.pending = a /\ note[a].state \in {"publishing", "uncertain"}
          /\ IF SummaryUnclear
             THEN Raise(a, "refused") /\ UNCHANGED <<note, slot>>
             ELSE IF Summary = None \/ sticky[Summary] # note[a].body
             THEN Raise(a, "uncertain") /\ UNCHANGED <<note, slot>>
             ELSE FinishSummary(a, Summary, note[a].body) /\ Recovering(a, "check")
    /\ UNCHANGED <<state, item, batch, job, github, pr>>

\* recover_batches: a batch of unknown outcome is looked for by its marker.
Recover(a) ==
    /\ At(a, "recover")
    /\ \/ /\ Unresolved(a) = {}
          /\ Go(a, handler[a].then)
          /\ UNCHANGED <<item, batch, slot>>
       \/ /\ Locked(a)
          /\ \E l \in Unresolved(a) :
                IF posted[<<a, l>>] = 1
                THEN FinishBatch(a, l, "published") /\ UNCHANGED handler
                ELSE FinishBatch(a, l, "uncertain") /\ Raise(a, "uncertain")
    /\ UNCHANGED <<state, note, job, github, pr>>

\* The review and the pull request are read again, the lines mapped again.
Check(a) ==
    /\ At(a, "check")
    /\ IF Preflight(a) # "none" THEN Raise(a, Preflight(a)) /\ Smooth
       ELSE \E fallback \in SUBSET Unmappable, err \in {"none", "refused"} :
              /\ IF err = "none" THEN Smooth ELSE Mishap("changed")
              /\ handler' = [handler EXCEPT
                    ![a].checked = TRUE, ![a].fallback = fallback, ![a].err = err,
                    ![a].pc = IF err = "none" THEN "recover" ELSE "raised",
                    ![a].then = "upsert"]
    /\ UNCHANGED <<rows, job, slot, github, pr>>

-----------------------------------------------------------------------------
(* StickySummary.upsert *)

\* Slip: the order of the review that published last is not looked at.
VerdictOfAnyOrder(a) ==
    IF slot.pending \notin {None, a} THEN "uncertain"
    ELSE IF SummaryUnclear THEN "refused"
    ELSE IF Summary # None /\ sticky[Summary] = Composed(a, handler[a].fallback)
         THEN "same"
    ELSE IF pr.current THEN "write" ELSE "moved"

\* What upsert decides from the slot and the comment it finds.
Verdict(a) ==
    IF slot.latest > a THEN "stale"
    ELSE IF slot.pending \notin {None, a} THEN "uncertain"
    ELSE IF SummaryUnclear THEN "refused"
    ELSE IF SummaryOrder > a THEN "stale"
    ELSE IF slot.pending = a /\ (Summary = None \/ sticky[Summary] # note[a].body)
         THEN "uncertain"
    ELSE IF /\ slot.pending # a /\ Summary # None /\ slot.hash # NoBody
            /\ sticky[Summary] # slot.hash THEN "refused"
    ELSE IF Summary # None /\ sticky[Summary] = Composed(a, handler[a].fallback)
         THEN "same"
    ELSE IF pr.current THEN "write" ELSE "moved"

Upsert(a) ==
    /\ At(a, "upsert") /\ Locked(a)
    /\ LET v == Verdict(a) IN
       /\ IF v = "same" \/ (v \in {"write", "moved"} /\ slot.pending = a)
          THEN FinishSummary(a, Summary, sticky[Summary])
          ELSE UNCHANGED <<slot, note>>
       /\ CASE v = "same" -> Go(a, "mark")
            [] v = "write" -> handler' = [handler EXCEPT ![a].pc = "intent",
                                                        ![a].id = Summary]
            [] v = "moved" -> Raise(a, "stale")
            [] OTHER -> Raise(a, v)
    /\ UNCHANGED <<state, item, batch, job, github, pr>>

\* The intention is stored before the request leaves.
Intent(a) ==
    /\ At(a, "intent") /\ Locked(a)
    /\ slot' = [slot EXCEPT !.pending = a]
    /\ note' = [note EXCEPT ![a] = [state |-> "publishing",
                    body |-> Composed(a, handler[a].fallback)]]
    /\ Go(a, "send")
    /\ UNCHANGED <<state, item, batch, job, github, pr>>

\* The request that a delivery at send or bsend is about to make.
Outgoing(a) ==
    [kind |-> IF At(a, "bsend") THEN "review"
              ELSE IF handler[a].id = None THEN "create" ELSE "update",
     by |-> a, try |-> job[a].tries, at |-> "sent",
     id |-> IF At(a, "send") THEN handler[a].id ELSE None,
     body |-> IF At(a, "send") THEN note[a].body ELSE NoBody,
     lot |-> IF At(a, "bsend") THEN handler[a].lot ELSE {}]

Send(a) ==
    /\ handler[a].pc \in {"send", "bsend"}
    /\ wire' = wire \cup {Outgoing(a)}
    /\ Go(a, IF At(a, "send") THEN "answer" ELSE "banswer")
    /\ UNCHANGED <<rows, job, slot, sticky, posted, pr>>

\* The request of the running try that GitHub has, or had, in its hands.
Mine(a) == {r \in wire : r.by = a /\ r.try = job[a].tries}
MineAt(a, at) == {r \in Mine(a) : r.at = at}
Unheard == {r \in wire : r.at = "sent"}

SummaryAnswer(a) ==
    /\ At(a, "answer")
    /\ \/ /\ MineAt(a, "applied") # {} /\ Smooth
          /\ wire' = wire \ Mine(a)
          /\ Go(a, "finish") /\ UNCHANGED <<slot, note>>
       \/ /\ MineAt(a, "refused") # {} /\ Smooth
          /\ wire' = wire \ Mine(a)
          /\ IF Locked(a)
             THEN /\ \E err \in {"refused", "throttled"} : Raise(a, err)
                  /\ slot' = [slot EXCEPT !.pending = IF @ = a THEN None ELSE @]
                  /\ note' = [note EXCEPT ![a].state = "failed"]
             ELSE Raise(a, "lost") /\ UNCHANGED <<slot, note>>
       \/ /\ Mishap("lost")
          /\ wire' = wire \ (Mine(a) \ Unheard)
          /\ Raise(a, "uncertain") /\ UNCHANGED <<slot, note>>
    /\ UNCHANGED <<state, item, batch, job, sticky, posted, pr>>

Finish(a) ==
    /\ At(a, "finish") /\ Locked(a)
    /\ FinishSummary(a, IF handler[a].id = None THEN Max(Shown) ELSE handler[a].id,
                     note[a].body)
    /\ Go(a, "validate")
    /\ UNCHANGED <<state, item, batch, job, github, pr>>

\* validate_current after a write.
Validate(a) ==
    /\ At(a, "validate")
    /\ IF ~pr.current THEN Raise(a, "stale")
       ELSE handler' = [handler EXCEPT ![a].lot = {},
               ![a].pc = IF handler[a].lot # {} THEN "batch" ELSE "mark"]
    /\ UNCHANGED <<rows, job, slot, github, pr>>

\* Where execute goes on after the summary of a phase.
Mark(a) ==
    /\ At(a, "mark")
    /\ \/ /\ handler[a].phase = "Partial" /\ Go(a, "leave") /\ UNCHANGED state
       \/ /\ handler[a].phase = "Publishing" /\ Locked(a)
          /\ state' = [state EXCEPT ![a] = "publishing"]
          /\ Recovering(a, "items")
       \/ /\ handler[a].phase = "Published" /\ Locked(a)
          /\ state' = [state EXCEPT ![a] = "succeeded"]
          /\ Go(a, "leave")
    /\ UNCHANGED <<item, note, batch, job, slot, github, pr>>

-----------------------------------------------------------------------------
(* deliver_inline *)

Mapped(a) == Finding \ handler[a].fallback
OnPullRequest(a) == {f \in Mapped(a) : CommentsOn(f) > 0}
\* Items stored as sent, of which GitHub shows nothing.
Vanished(a) == {f \in Mapped(a) \ OnPullRequest(a) :
                    item[a][f] \in {"published", "publishing", "uncertain"}}

\* remote_findings, then the items one by one up to the first unclear one.
Items(a) ==
    /\ At(a, "items") /\ (Finding # {} => Locked(a))
    /\ IF \E f \in Mapped(a) : CommentsOn(f) > 1
       THEN Raise(a, "uncertain") /\ UNCHANGED item
       ELSE /\ item' = [item EXCEPT ![a] = [f \in Finding |->
                   IF \E v \in Vanished(a) : v <= f THEN @[f]
                   ELSE IF f \in handler[a].fallback THEN "summary_only"
                   ELSE IF f \in OnPullRequest(a) THEN "published" ELSE @[f]]]
            /\ IF Vanished(a) # {} THEN Raise(a, "uncertain")
               ELSE handler' = [handler EXCEPT ![a].pc = "batch",
                       ![a].todo = Mapped(a) \ OnPullRequest(a)]
    /\ UNCHANGED <<state, note, batch, job, slot, github, pr>>

\* The next batch, in the order of the keys.
NextLot(a) ==
    {f \in handler[a].todo :
        Cardinality({g \in handler[a].todo : g < f}) < BatchSize}

\* validate_current and prepare_batch; after the last batch, the summary.
Batch(a) ==
    /\ At(a, "batch")
    /\ LET l == NextLot(a) IN
       \/ /\ handler[a].todo = {}
          /\ handler' = [handler EXCEPT ![a].pc = "upsert", ![a].phase = "Published"]
          /\ UNCHANGED <<item, batch, slot>>
       \/ /\ handler[a].todo # {} /\ ~pr.current
          /\ Raise(a, "stale")
          /\ UNCHANGED <<item, batch, slot>>
       \/ /\ handler[a].todo # {} /\ pr.current /\ Locked(a)
          /\ IF slot.pending \in {None, a} /\ batch[a][l] \in {"none", "failed"}
             THEN /\ slot' = [slot EXCEPT !.pending = a]
                  /\ batch' = [batch EXCEPT ![a][l] = "publishing"]
                  /\ item' = [item EXCEPT ![a] = [f \in Finding |->
                                 IF f \in l THEN "publishing" ELSE @[f]]]
                  /\ handler' = [handler EXCEPT ![a].pc = "bsend", ![a].lot = l,
                                                ![a].todo = @ \ l]
             ELSE Raise(a, "internal") /\ UNCHANGED <<item, batch, slot>>
    /\ UNCHANGED <<state, note, job, github, pr>>

BatchAnswer(a) ==
    /\ At(a, "banswer")
    /\ \/ /\ MineAt(a, "applied") # {} /\ Smooth
          /\ wire' = wire \ Mine(a)
          /\ Recovering(a, "validate") /\ UNCHANGED <<item, batch, slot>>
       \/ /\ MineAt(a, "refused") # {} /\ Smooth
          /\ wire' = wire \ Mine(a)
          /\ IF Locked(a)
             THEN /\ FinishBatch(a, handler[a].lot, Fate(FALSE))
                  /\ \E err \in {"refused", "throttled"} : Raise(a, err)
             ELSE Raise(a, "lost") /\ UNCHANGED <<item, batch, slot>>
       \/ /\ Mishap("lost")
          /\ wire' = wire \ (Mine(a) \ Unheard)
          /\ IF Locked(a)
             THEN FinishBatch(a, handler[a].lot, Fate(TRUE)) /\ Raise(a, "uncertain")
             ELSE Raise(a, "lost") /\ UNCHANGED <<item, batch, slot>>
    /\ UNCHANGED <<state, note, job, sticky, posted, pr>>

-----------------------------------------------------------------------------
(* The ends of execute *)

\* Slip: the code of the error becomes the state.
EndedByCode(a) == handler[a].err

Ended(a) ==
    CASE handler[a].err = "uncertain" -> "uncertain"
      [] handler[a].err = "stale" -> "stale"
      [] OTHER -> IF note[a].state = "published"
                     \/ \E f \in Finding : item[a][f] = "published"
                  THEN "partial" ELSE "failed"

\* except GitHubPublishError; the summary tells of a partial delivery, and an
\* error of that last summary counts only when its outcome is unknown.
GitHubError(a) ==
    /\ At(a, "raised")
    /\ handler[a].err \in {"uncertain", "stale", "throttled", "refused"}
    /\ \/ /\ ~handler[a].closing /\ Locked(a)
          /\ state' = [state EXCEPT ![a] = Ended(a)]
          /\ IF Ended(a) = "partial" /\ handler[a].err # "throttled"
                /\ handler[a].checked
             THEN handler' = [handler EXCEPT ![a].pc = "upsert", ![a].closing = TRUE,
                     ![a].phase = "Partial", ![a].err = "none", ![a].lot = {}]
             ELSE handler' = [handler EXCEPT ![a].pc = "leave",
                     ![a].err = IF @ = "throttled" THEN @ ELSE "none"]
       \/ /\ handler[a].closing /\ handler[a].err # "uncertain"
          /\ handler' = [handler EXCEPT ![a].pc = "leave",
                  ![a].err = "none"]
          /\ UNCHANGED state
       \/ /\ handler[a].closing /\ handler[a].err = "uncertain" /\ Locked(a)
          /\ state' = [state EXCEPT ![a] = "uncertain"]
          /\ handler' = [handler EXCEPT ![a].pc = "leave", ![a].err = "none"]
       \/ /\ ~handler[a].closing \/ handler[a].err = "uncertain"
          /\ ~Locked(a)
          /\ handler' = [handler EXCEPT ![a].pc = "leave", ![a].err = "lost"]
          /\ UNCHANGED state
    /\ UNCHANGED <<item, note, batch, job, slot, github, pr>>

\* except PublicationLeaseLost, and any other exception.
OtherError(a) ==
    /\ At(a, "raised") /\ handler[a].err \in {"lost", "internal"}
    /\ state' = IF handler[a].err = "internal" /\ ~handler[a].closing /\ Locked(a)
                THEN [state EXCEPT ![a] = "uncertain"] ELSE state
    /\ Go(a, "leave")
    /\ UNCHANGED <<item, note, batch, job, slot, github, pr>>

Crash(a) ==
    /\ Mishap("crash") /\ handler[a].pc # "none"
    /\ handler' = [handler EXCEPT ![a] = Idle]
    /\ job' = [job EXCEPT ![a].live = FALSE]
    /\ wire' = wire \ (Mine(a) \ Unheard)
    /\ UNCHANGED <<rows, slot, sticky, posted, pr>>

\* The lease of the job runs out under a process that stands still; when it
\* goes on, a request it was about to make leaves, and the slot is released.
Stall(a) ==
    /\ Mishap("stall") /\ handler[a].pc # "none"
    /\ handler' = [handler EXCEPT ![a] = Idle]
    /\ job' = [job EXCEPT ![a].live = FALSE]
    /\ wire' = (wire \ (Mine(a) \ Unheard)) \cup
               (IF handler[a].pc \in {"send", "bsend"} THEN {Outgoing(a)} ELSE {})
    /\ \/ UNCHANGED slot
       \/ /\ slot.holder = <<a, job[a].tries>>
          /\ slot' = [slot EXCEPT !.holder = NoHolder, !.live = FALSE]
    /\ UNCHANGED <<rows, sticky, posted, pr>>

\* CancelledError: nothing is written, the slot is released, the job fails.
Shutdown(a) ==
    /\ Mishap("shutdown") /\ handler[a].pc \notin {"none", "leave", "settle"}
    /\ handler' = [handler EXCEPT ![a].err = "lost",
                      ![a].pc = IF At(a, "acquire") THEN "settle" ELSE "leave"]
    /\ wire' = wire \ (Mine(a) \ Unheard)
    /\ UNCHANGED <<rows, job, slot, sticky, posted, pr>>

-----------------------------------------------------------------------------
(* GitHub, and what others do on it *)

Awaited(r) == /\ handler[r.by].pc \in {"answer", "banswer"}
              /\ job[r.by].tries = r.try
Heard(r, at) ==
    wire' = (wire \ {r}) \cup (IF Awaited(r) THEN {[r EXCEPT !.at = at]} ELSE {})

Apply(r) ==
    /\ r \in Unheard
    /\ CASE r.kind = "review" ->
              /\ posted' = [posted EXCEPT ![<<r.by, r.lot>>] = @ + 1]
              /\ UNCHANGED sticky
         [] r.kind = "create" ->
              /\ sticky' = [sticky EXCEPT ![Cardinality(Shown) + 1] = r.body]
              /\ UNCHANGED posted
         [] OTHER ->
              /\ sticky' = [sticky EXCEPT ![r.id] = r.body]
              /\ UNCHANGED posted
    /\ Heard(r, "applied")
    /\ UNCHANGED <<rows, job, slot, handler, pr>>

Refuse(r) ==
    /\ Mishap("refused") /\ r \in Unheard
    /\ Heard(r, "refused")
    /\ UNCHANGED <<rows, job, slot, handler, sticky, posted, pr>>

Lose(r) ==
    /\ r \in Unheard /\ ~Awaited(r)
    /\ wire' = wire \ {r}
    /\ UNCHANGED <<rows, job, slot, handler, sticky, posted, pr>>

\* 300 s without a renewal: at any time under a delivery that makes no write,
\* surely after the process that held the slot is gone.
SlotExpires ==
    /\ slot.live
    /\ \/ handler[slot.holder[1]].pc = "none" /\ Smooth
       \/ handler[slot.holder[1]].pc # "none" /\ Mishap("slot")
    /\ slot' = [slot EXCEPT !.live = FALSE]
    /\ UNCHANGED <<rows, job, handler, github, pr>>

HeadMoves ==
    /\ Mishap("moved") /\ pr.current
    /\ pr' = [pr EXCEPT !.current = FALSE]
    /\ UNCHANGED <<rows, job, slot, handler, github>>

\* The review is retried or deleted and no longer has a result.
ReviewWithdrawn(a) ==
    /\ Mishap("withdrawn") /\ pr.open[a]
    /\ pr' = [pr EXCEPT !.open[a] = FALSE]
    /\ UNCHANGED <<rows, job, slot, handler, github>>

\* Someone edits the summary by hand.
Edit(c) ==
    /\ Mishap("edited") /\ c \in Shown /\ ~sticky[c].edited
    /\ sticky' = [sticky EXCEPT ![c].edited = TRUE]
    /\ UNCHANGED <<rows, job, slot, handler, wire, posted, pr>>

User(a) == Preview(a) \/ Create(a) \/ Retry(a)

Deliver(a) ==
    \/ Claim(a) \/ Acquire(a) \/ Begin(a) \/ Reconcile(a) \/ Recover(a)
    \/ Upsert(a) \/ Intent(a) \/ Send(a) \/ Finish(a) \/ Validate(a)
    \/ Mark(a) \/ Items(a) \/ Batch(a) \/ FindsLeaseLost(a)
    \/ GitHubError(a) \/ OtherError(a) \/ Leave(a) \/ Settle(a)

Fault(a) ==
    ReadFails(a) \/ Crash(a) \/ Stall(a) \/ Shutdown(a) \/ ReviewWithdrawn(a)

Next ==
    \/ \E a \in Attempt : (User(a) \/ Deliver(a)) /\ Smooth
    \/ \E a \in Attempt : Check(a) \/ SummaryAnswer(a) \/ BatchAnswer(a) \/ Fault(a)
    \/ \E r \in wire : (Apply(r) \/ Lose(r)) /\ Smooth
    \/ \E r \in wire : Refuse(r)
    \/ \E c \in 1 .. 2 : Edit(c)
    \/ SlotExpires \/ HeadMoves

PublicationSpec == Init /\ [][Next]_vars

-----------------------------------------------------------------------------
(* Properties *)

\* A request that GitHub may still carry out holds the slot of the pull
\* request for its attempt, whatever became of the process that sent it
\* (summary_intent and prepare_batch before, finish after the request).
UnknownHoldsSlot ==
    /\ \A r \in Unheard : slot.pending = r.by
    /\ \A a \in Attempt : note[a].state = "publishing" => slot.pending = a

\* Every comment that a review of GitHub carries is known to the attempt that
\* sent it or is still being looked for (recover_batches): what is stored as
\* failed is not on the pull request, and trying it again cannot show it twice
\* (summary_rejected, finish_batch).
PostedIsAccounted ==
    \A p \in Posts :
        posted[p] > 0 => batch[p[1]][p[2]] \in {"publishing", "uncertain", "published"}

\* A delivery ends as succeeded only with every finding accounted for, and
\* with the summary on the pull request saying exactly so (execute).
SuccessIsVisible ==
    [][\A a \in Attempt :
          state'[a] = "succeeded" /\ state[a] # "succeeded" =>
            /\ slot.comment \in Shown
            /\ LET b == sticky[slot.comment] IN
               /\ b.pub = a /\ b.phase = "Published"
               /\ \A f \in Finding :
                     \/ item[a][f] = "summary_only" /\ f \in b.fallback
                     \/ /\ item[a][f] = "published" /\ CommentsOn(f) = 1
                        /\ b.told[f] = "published"]_vars

\* Publication keeps the promise of PublicationPromise: no finding is
\* commented twice, no item is stored as published that is not there, one
\* summary at most, and never back to an earlier review.
Promise == INSTANCE PublicationPromise WITH
    comments <- [f \in Finding |-> CommentsOn(f)],
    told <- {f \in Finding : \E a \in Attempt : item[a][f] = "published"},
    summary <- IF Cardinality(Shown) > 1 THEN -1 ELSE SummaryOrder
KeepsPromise == Promise!PromiseSpec
=============================================================================
