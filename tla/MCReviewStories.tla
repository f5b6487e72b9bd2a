--------------------------- MODULE MCReviewStories ---------------------------
EXTENDS MCReviewLifecycle

(***************************************************************************)
(* Two stories of one process.  Of one review: candidates, a crash, the    *)
(* review cutoff, retries of the whole and of the overview.  Of two        *)
(* reviews that replace one another: a shutdown and exceptions anywhere.   *)
(* The head of the first review says which of the two is told.             *)
(***************************************************************************)
CONSTANTS
    OnlyRun,          \* the run that comes first, or alone
    OnlyHead          \* its head in the story of one review

ASSUME StoriesAssumption == OnlyRun \in Run /\ OnlyHead \in Head

Mishap(w) == worker[w].stopping \/ worker[w].phase \in {"raised", "fatal", "cancelled"}

Alone == run[OnlyRun].head = OnlyHead

OneReview ==
    /\ \A r \in Run \ {OnlyRun} : run[r].status = "absent"
    /\ \A w \in ReviewWorker : ~Mishap(w)

\* Either review may be called the first.
TwoReviews ==
    /\ run[OnlyRun].status = "absent" => \A r \in Run : run[r].status = "absent"
    /\ \A w \in ReviewWorker : worker[w].phase # "killed"
    /\ \A r \in Run : deadline[r] = "open" /\ ~HasCandidate(work[r])
    /\ \A j \in ReviewJob : jobOf[j].kind = "review"

Told == IF Alone THEN OneReview ELSE TwoReviews
=============================================================================
