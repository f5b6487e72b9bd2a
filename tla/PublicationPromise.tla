------------------------- MODULE PublicationPromise -------------------------
(***************************************************************************)
(* What the publisher promises a pull request, without attempts, leases or *)
(* requests: a finding is commented at most once, the delivery is told     *)
(* only of comments that are there, and the sticky summary, of which there *)
(* is at most one, only moves on to later reviews.                         *)
(* Publication implements this module.                                     *)
(***************************************************************************)
EXTENDS Naturals, FiniteSets

CONSTANT Finding  \* findings that may become comments on lines of the diff

VARIABLES
    comments,  \* how many comments on the pull request carry a finding
    told,      \* the findings whose items are stored as published
    summary    \* the order of the review in the sticky summary, 0 for none

promiseVars == <<comments, told, summary>>

PromiseInit ==
    /\ comments = [f \in Finding |-> 0]
    /\ told = {}
    /\ summary = 0

\* One request comments findings that have no comment yet.
Comment ==
    /\ UNCHANGED <<told, summary>>
    /\ comments' \in [Finding -> {0, 1}]
    /\ \A f \in Finding : comments[f] > 0 => comments'[f] = comments[f]

Record ==
    /\ told' \in SUBSET {f \in Finding : comments[f] = 1}
    /\ UNCHANGED <<comments, summary>>

\* The summary shows the same or a later review; its owner may take it down.
Summarize ==
    /\ summary' \in Nat
    /\ summary' >= summary \/ summary' = 0
    /\ UNCHANGED <<comments, told>>

PromiseSpec ==
    PromiseInit /\ [][Comment \/ Record \/ Summarize]_promiseVars
=============================================================================
