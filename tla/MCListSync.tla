---------------------------- MODULE MCListSync -----------------------------
(***************************************************************************)
(* ListSync for TLC, with the users, the pids and the nodes                *)
(* interchangeable.                                                        *)
(***************************************************************************)
EXTENDS ListSync, TLC

MCSymmetry ==
  Permutations(Clients) \cup Permutations(Nodes) \cup Permutations(Pids)
=============================================================================
