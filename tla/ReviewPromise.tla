--------------------------- MODULE ReviewPromise ---------------------------
(***************************************************************************)
(* What a review promises its callers, without jobs, leases, processes or  *)
(* deadlines: the facts of a review only grow, and only while it runs; a   *)
(* review that claims to be complete has settled everything it knows of;   *)
(* and a review that ended stays as it is until somebody asks for more.    *)
(***************************************************************************)
CONSTANTS Run, Item, Scope    \* Scope: the items a review starts with

VARIABLES
    status,   \* of every review
    known,    \* the items it has to settle
    settled   \* those it has settled for good

reviewVars == <<status, known, settled>>

Open == {"queued", "running"}
Closed == {"completed", "partial", "failed"}

PromiseInit ==
    /\ status = [r \in Run |-> "absent"]
    /\ known = [r \in Run |-> {}]
    /\ settled = [r \in Run |-> {}]

\* The next values of review r's own part of the state.
Turns(r, s, k, d) == status'[r] = s /\ known'[r] = k /\ settled'[r] = d

Create(r) == status[r] = "absent" /\ Turns(r, "queued", Scope, {})

Begin(r) == status[r] \in Open /\ Turns(r, "running", known[r], settled[r])

Discover(r) ==
    /\ status[r] = "running"
    /\ \E i \in Item : Turns(r, "running", known[r] \cup {i}, settled[r])

Settle(r) ==
    /\ status[r] = "running"
    /\ \E i \in known[r] : Turns(r, "running", known[r], settled[r] \cup {i})

\* Complete means complete; anything else may end as partial or failed.
Conclude(r) ==
    /\ status[r] \in Open
    /\ \E s \in Closed : /\ s = "completed" => settled[r] = known[r]
                         /\ Turns(r, s, known[r], settled[r])

Stop(r) == status[r] \in Open /\ Turns(r, "cancelled", known[r], settled[r])

\* A review that was cancelled is never taken up again.
Reopen(r) == status[r] \in Closed /\ Turns(r, "queued", known[r], settled[r])

Erase(r) == status[r] \in Closed \cup {"cancelled"} /\ Turns(r, "erased", {}, {})

ReviewStep(r) ==
    \/ Create(r) \/ Begin(r) \/ Discover(r) \/ Settle(r)
    \/ Conclude(r) \/ Stop(r) \/ Reopen(r) \/ Erase(r)

Rests(r) == Turns(r, status[r], known[r], settled[r])

\* Creating a review stops those it supersedes, in one transaction.
PromiseNext == \A r \in Run : ReviewStep(r) \/ Rests(r)

PromiseSpec == PromiseInit /\ [][PromiseNext]_reviewVars
=============================================================================
