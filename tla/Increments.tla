----------------------------- MODULE Increments -----------------------------
(***************************************************************************)
(* Reviews of the successive heads of one pull request                     *)
(* (review/incremental.py, the planning in review_service.py:_inputs,      *)
(* previous, history and the reuse of create in review/store.py, the       *)
(* status of build_report in review/report.py).  When only documents       *)
(* changed since the last review that has a report, the hunks whose files  *)
(* are the same blobs count as reviewed, and what that review found is a   *)
(* claim to verify again.                                                  *)
(*                                                                         *)
(* A path has one hunk, so a hunk is a path with its blob; a claim is      *)
(* about one hunk and names it.  Options, limits and the base are one      *)
(* value, the frame.                                                       *)
(***************************************************************************)
EXTENDS Naturals, Sequences, FiniteSets

CONSTANTS
    Source, Document,  \* paths of the pull request
    Blob,              \* contents of a path
    BaseBlob,          \* that of the base: a path that has it is not changed
    Faulty,            \* the contents of a source a reviewer can object to
    MaxReviews,        \* bound: reviews made
    MaxPushes          \* bound: pushes, moves of the base among them

PathOfPr == Source \cup Document

ASSUME BlobsAssumption ==
    /\ Source \cap Document = {} /\ BaseBlob \in Blob /\ Faulty \subseteq Blob

VARIABLES
    pr,       \* the pull request now: number of the push, tree, line, frame
    reviews,  \* the reviews in the order they were asked for
    draft     \* <<>>, or the input of one that is not stored yet

incrementVars == <<pr, reviews, draft>>

Hunks(at) == {<<p, at.tree[p]>> : p \in {q \in PathOfPr : at.tree[q] # BaseBlob}}
Ended == {"completed", "partial", "failed", "cancelled", "deleted"}

IncrementsInit ==
    /\ \E tree \in [PathOfPr -> Blob] :
         pr = [no |-> 0, tree |-> tree, line |-> 0, frame |-> 0]
    /\ reviews = <<>> /\ draft = <<>>

-----------------------------------------------------------------------------
(* GitHub: a commit on top, a force push that leaves the old line, another  *)
(* base or another configuration.                                           *)

Push(p, b, force) ==
    /\ pr.no < MaxPushes /\ b # pr.tree[p]
    /\ pr' = [pr EXCEPT !.no = @ + 1, !.tree[p] = b,
                        !.line = IF force THEN pr.no + 1 ELSE @]
    /\ UNCHANGED <<reviews, draft>>

Reframe ==
    /\ pr.no < MaxPushes
    /\ pr' = [pr EXCEPT !.no = @ + 1, !.frame = @ + 1]
    /\ UNCHANGED <<reviews, draft>>

-----------------------------------------------------------------------------
(* Planning. *)

\* The last review that is over and has a report, or 0.
Previous ==
    LET ended == {i \in DOMAIN reviews : reviews[i].status \in {"completed", "partial"}}
    IN IF ended = {} THEN 0 ELSE CHOOSE i \in ended : \A j \in ended : j <= i

\* The findings of its report, as far as the head has a hunk on their path.
HistoryOf(i, at) ==
    IF i = 0 THEN {}
    ELSE {c \in reviews[i].reported : \E h \in Hunks(at) : h[1] = c[1]}

ChangedBetween(old, new) == {p \in PathOfPr : old.tree[p] # new.tree[p]}

Comparable(old, new) ==
    /\ old.no # new.no
    /\ old.frame = new.frame
    /\ old.line = new.line /\ old.no < new.no
    /\ ChangedBetween(old, new) \subseteq Document

\* How an agent completes a unit: "wanting" had not all of its material
\* delivered or left a question open.
Finished == {"reviewed", "wanting"}

ReusableCompleted(review) ==
    {u \in DOMAIN review.work : review.work[u].state \in Finished}

\* The units of a review whose agent finished with all its material.
Reusable(review) ==
    {u \in DOMAIN review.work : review.work[u].state = "reviewed"}

\* A unit as planned, split into what is new and what each unit of the
\* previous review covers: pieces of the unit, with the review they come from.
Refined(u, i, at) ==
    LET same(h) == h[1] \notin ChangedBetween(reviews[i].at, at)
        kept(v) == {h \in u : h \in v /\ same(h)}
        pieces == {<<kept(v), i>> : v \in Reusable(reviews[i])}
        fresh == u \ UNION {piece[1] : piece \in pieces}
    IN {piece \in pieces \cup {<<fresh, 0>>} : piece[1] # {}}

\* Planned when the previous review was read; stored by a later transaction.
\* Few small changes are one unit, otherwise each path is one.
Plan(together) ==
    /\ draft = <<>> /\ Len(reviews) < MaxReviews /\ Hunks(pr) # {}
    /\ LET i == Previous
           planned == IF together THEN {Hunks(pr)} ELSE {{h} : h \in Hunks(pr)}
           units == IF i # 0 /\ Comparable(reviews[i].at, pr)
                    THEN UNION {Refined(u, i, pr) : u \in planned}
                    ELSE {<<u, 0>> : u \in planned}
       IN draft' = <<[at |-> pr, units |-> units, history |-> HistoryOf(i, pr)]>>
    /\ UNCHANGED <<pr, reviews>>

NewWork == [state |-> "queued", from |-> 0]
KeptWork(i) == [state |-> "reviewed", from |-> i]

\* Reviews of other heads that are not over end here.
SupersededBy(at) ==
    [i \in DOMAIN reviews |->
        IF reviews[i].status \notin Ended /\ reviews[i].at.no # at.no
        THEN [reviews[i] EXCEPT !.status = "cancelled"] ELSE reviews[i]]

\* Store the review: its reused units are born completed, if their origin
\* still exists.  Nothing is stored otherwise.
StoreReview ==
    /\ draft # <<>> /\ draft' = <<>> /\ UNCHANGED pr
    /\ LET d == draft[1]
           made == [at |-> d.at, history |-> d.history, status |-> "queued",
                    work |-> [u \in {piece[1] : piece \in d.units} |->
                                LET i == (CHOOSE piece \in d.units : piece[1] = u)[2]
                                IN IF i = 0 THEN NewWork ELSE KeptWork(i)],
                    claims |-> <<>>, reported |-> {}]
       IN IF \E piece \in d.units : piece[2] # 0 /\ reviews[piece[2]].status = "deleted"
          THEN UNCHANGED reviews
          ELSE reviews' = Append(SupersededBy(d.at), made)

-----------------------------------------------------------------------------
(* The reviews. *)

Alter(i, review) == reviews' = [reviews EXCEPT ![i] = review] /\ UNCHANGED <<pr, draft>>

\* A new claim, as a candidate nobody has verified; one that exists stays.
WithClaims(claims, new) ==
    [c \in DOMAIN claims \cup new |-> IF c \in DOMAIN claims THEN claims[c] ELSE "open"]

\* An attempt of its job: claims of history whose lines are still there are
\* candidates of this review.
StartReview(i) ==
    /\ reviews[i].status = "queued"
    /\ LET here == reviews[i].history \cap UNION DOMAIN reviews[i].work
       IN Alter(i, [reviews[i] EXCEPT !.status = "running", !.claims = WithClaims(@, here)])

\* An agent ends: with candidates, with all of its material or not, with a
\* question left open, or by a failure.
ReviewUnit(i, u) ==
    /\ reviews[i].status = "running" /\ reviews[i].work[u].state = "queued"
    /\ \E found \in SUBSET (u \cap (Source \X Faulty)), how \in Finished \cup {"failed"} :
         Alter(i, [reviews[i] EXCEPT !.work[u].state = how, !.claims = WithClaims(@, found)])

VerifyClaim(i, c, verdict) ==
    /\ reviews[i].status = "running" /\ reviews[i].claims[c] = "open"
    /\ Alter(i, [reviews[i] EXCEPT !.claims[c] = verdict])

\* build_report: anything missing makes it partial.
Gaps(review) ==
    \/ \E u \in DOMAIN review.work : review.work[u].state # "reviewed"
    \/ \E c \in DOMAIN review.claims : review.claims[c] = "open"
    \/ \E c \in review.history : c \notin DOMAIN review.claims

ReportOf(review) ==
    [review EXCEPT
        !.reported = {c \in DOMAIN review.claims : review.claims[c] = "confirmed"},
        !.status = IF /\ \A u \in DOMAIN review.work : review.work[u].state = "failed"
                      /\ review.claims = <<>> THEN "failed"
                   ELSE IF Gaps(review) THEN "partial" ELSE "completed"]

\* No review item is left; a verification may have been skipped or have failed.
ReportReview(i) ==
    /\ reviews[i].status = "running"
    /\ \A u \in DOMAIN reviews[i].work : reviews[i].work[u].state # "queued"
    /\ Alter(i, ReportOf(reviews[i]))

\* What is not completed runs again, whatever the head is by now.
RetryReview(i) ==
    /\ reviews[i].status \in {"partial", "failed"}
    /\ Alter(i, [reviews[i] EXCEPT
            !.status = "queued",
            !.work = [u \in DOMAIN @ |-> IF @[u].state \in Finished THEN @[u] ELSE NewWork]])

DeleteReview(i) ==
    /\ reviews[i].status \in Ended \ {"deleted"}
    /\ Alter(i, [reviews[i] EXCEPT !.status = "deleted"])

IncrementsNext ==
    \/ \E p \in PathOfPr, b \in Blob, force \in BOOLEAN : Push(p, b, force)
    \/ Reframe
    \/ \E together \in BOOLEAN : Plan(together)
    \/ StoreReview
    \/ \E i \in DOMAIN reviews :
         \/ StartReview(i) \/ ReportReview(i) \/ RetryReview(i) \/ DeleteReview(i)
         \/ \E u \in DOMAIN reviews[i].work : ReviewUnit(i, u)
         \/ \E c \in DOMAIN reviews[i].claims, verdict \in {"confirmed", "rejected"} :
              VerifyClaim(i, c, verdict)

IncrementsSpec == IncrementsInit /\ [][IncrementsNext]_incrementVars

-----------------------------------------------------------------------------
(* Properties. *)

\* The review an agent of which looked at a hunk that review i counts as done.
UnitOf(i, h) == CHOOSE u \in DOMAIN reviews[i].work : h \in u
TakenOver(i, h) == \E u \in DOMAIN reviews[i].work : h \in u /\ reviews[i].work[u].from # 0
OriginOf(h) ==
    LET origin[i \in DOMAIN reviews] ==
            IF TakenOver(i, h) THEN origin[reviews[i].work[UnitOf(i, h)].from] ELSE i
    IN origin

\* A hunk that counts as reviewed without having been looked at in this review
\* was looked at, completely and with nothing left open, by an agent of an
\* earlier one, through any number of reviews that passed it on; since then
\* its file and the base are the same and nothing but documents changed
\* (refine_plan, ReviewStore.create).
ReuseIsGrounded ==
    \A i \in DOMAIN reviews : \A u \in DOMAIN reviews[i].work : \A h \in u :
        reviews[i].work[u].from # 0 =>
            LET o == OriginOf(h)[i]
                work == reviews[o].work[UnitOf(o, h)]
            IN /\ work.state = "reviewed" /\ work.from = 0
               /\ reviews[o].at.frame = reviews[i].at.frame
               /\ reviews[o].at.tree[h[1]] = reviews[i].at.tree[h[1]]
               /\ ChangedBetween(reviews[o].at, reviews[i].at) \subseteq Document

\* What the chain of reviews that pass on h knows about it: the last report
\* that confirms it, or the last verification that rejected it.
LastWord(h, i) ==
    LET passed == {j \in OriginOf(h)[i] .. i : h \in UNION DOMAIN reviews[j].work}
        said(j) == IF h \in reviews[j].reported THEN "confirmed"
                   ELSE IF h \in DOMAIN reviews[j].claims THEN reviews[j].claims[h] ELSE "none"
        settled == {j \in passed : said(j) \in {"confirmed", "rejected"}}
    IN IF settled = {} THEN "none" ELSE said(CHOOSE j \in settled : \A k \in settled : k <= j)

\* A hunk that is passed on without a new review takes with it what the reviews
\* it was passed through reported about it: a confirmed defect is a claim to
\* verify again ("unchanged bytes are history, current defects are rechecked",
\* review/incremental.py:1).
DefectsAreRechecked ==
    [][draft = <<>> /\ draft' # <<>> =>
        \A piece \in draft'[1].units : piece[2] # 0 =>
            \A h \in piece[1] :
                LastWord(h, piece[2]) = "confirmed" => h \in draft'[1].history]_incrementVars
=============================================================================
