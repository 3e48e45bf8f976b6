--------------------------- MODULE MCEntityHierarchy ---------------------------
(* Instances of EntityHierarchy for TLC; the values are in the .cfg files. *)
EXTENDS EntityHierarchy, TLC

CONSTANTS e1, e2, e3, e4, r1, r2, none

Symmetry == Permutations(Entity)

(* Where both slots take requests of every kind. *)
SlotSymmetry == Permutations(Entity) \cup Permutations({r1, r2})

PlacesApart == ~PlacesCross

(* Which unused identity a new entity gets makes no difference: the order of
   this list is one choice.  Used in place of Symmetry where a liveness property
   is checked; creations are under no fairness. *)
CreatedInOrder ==
  LET order == <<e1, e2, e3, e4>>
  IN  \A i \in 2 .. Len(order) :
        state'[order[i]] # "absent" => state'[order[i - 1]] # "absent"
=============================================================================
