---------------------------- MODULE MCUserAccounts -----------------------------
(* Instances of UserAccounts for TLC: one account that exists and one that may
   come. *)
EXTENDS UserAccounts, TLC

CONSTANTS u1, u2, mail1, mail2

FounderEmail == u1 :> mail1

Symmetry == Permutations(Request)
=============================================================================
