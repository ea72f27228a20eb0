----------------------------- MODULE MCBexBus ------------------------------
(***************************************************************************)
(* BexBus for TLC, with what is interchangeable.                           *)
(***************************************************************************)
EXTENDS BexBus, TLC

MCSymmetry == Permutations(Devs) \cup Permutations(Names) \cup Permutations(Deleters)
=============================================================================
