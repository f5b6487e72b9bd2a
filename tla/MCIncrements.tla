---------------------------- MODULE MCIncrements ----------------------------
(***************************************************************************)
(* The reviews of Increments one after the other: at most one is not over, *)
(* the pull request moves between two plans, and what a reviewer objects   *)
(* to is there from the start.                                             *)
(***************************************************************************)
EXTENDS Increments, TLC

IncrementStoryInit ==
    /\ IncrementsInit
    /\ pr.tree = [p \in PathOfPr |->
                     IF p \in Source THEN CHOOSE b \in Faulty : TRUE ELSE BaseBlob]

OneAtATime ==
    /\ \A i \in DOMAIN reviews : i < Len(reviews) => reviews[i].status \in Ended
    /\ \A i \in DOMAIN reviews : i > 1 => DOMAIN reviews[i].claims \subseteq reviews[i].history
    /\ Len(reviews) = MaxReviews =>
         /\ reviews[MaxReviews].status = "queued"
         /\ \A i \in DOMAIN reviews : reviews[i].status # "deleted"
    /\ pr.no \in Len(reviews) - 1 .. Len(reviews)

InTurn ==
    /\ OneAtATime'
    /\ pr' # pr => draft = <<>>
    /\ \A i \in DOMAIN reviews :
         reviews[i].status # "deleted" /\ reviews'[i].status = "deleted" => draft # <<>>

IncrementStory == IncrementStoryInit /\ [][IncrementsNext /\ InTurn]_incrementVars
=============================================================================
