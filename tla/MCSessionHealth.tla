---------------------------- MODULE MCSessionHealth ----------------------------
(* Instances of SessionHealth for TLC; the values are in the .cfg files. *)
EXTENDS SessionHealth, TLC

Symmetry == Permutations(Alert) \cup Permutations(Manual)
=============================================================================
