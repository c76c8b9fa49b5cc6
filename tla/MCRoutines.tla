----------------------------- MODULE MCRoutines -----------------------------
(***************************************************************************)
(* Routines for TLC.  Suggestions, groups and workers have no order.       *)
(***************************************************************************)
EXTENDS Routines, TLC

Symmetry == Permutations(Ids) \cup Permutations(Groups) \cup Permutations(Workers)
=============================================================================
