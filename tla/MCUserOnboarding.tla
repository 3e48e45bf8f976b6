--------------------------- MODULE MCUserOnboarding ----------------------------
(* Instances of UserOnboarding for TLC; the values are in the .cfg files. *)
EXTENDS UserOnboarding, TLC

CONSTANTS r1, r2, c1, c2

Symmetry == Permutations(Request) \cup Permutations(Client)
=============================================================================
