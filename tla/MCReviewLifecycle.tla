------------------------- MODULE MCReviewLifecycle -------------------------
(* Instances of ReviewLifecycle for TLC. *)
EXTENDS ReviewLifecycle, TLC

Symmetry == Permutations(ReviewJob) \cup Permutations(ReviewWorker)
                \cup Permutations(Unit) \cup Permutations(Candidate)
=============================================================================
