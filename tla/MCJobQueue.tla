----------------------------- MODULE MCJobQueue -----------------------------
(* Model checking of JobQueue: the job ids are interchangeable.            *)
EXTENDS JobQueue, TLC

JobSymmetry == Permutations(Jobs)

=============================================================================
