----------------------------- MODULE MCJobQueue -----------------------------
(* Instances of JobQueue for TLC. *)
EXTENDS JobQueue, TLC

\* Review jobs and workers are interchangeable where no property names one.
Symmetry == Permutations(ReviewJob) \cup Permutations(ReviewWorker)
=============================================================================
