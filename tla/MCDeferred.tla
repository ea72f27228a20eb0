----------------------------- MODULE MCDeferred -----------------------------
(***************************************************************************)
(* Deferred for TLC, with the threads and the tasks interchangeable.       *)
(***************************************************************************)
EXTENDS Deferred, TLC

ThreadSymmetry == Permutations(Threads)
=============================================================================
