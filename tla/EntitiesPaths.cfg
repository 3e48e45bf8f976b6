SPECIFICATION Spec
CONSTANTS
  e1 = e1
  e2 = e2
  e3 = e3
  e4 = e4
  r1 = r1
  r2 = r2
  none = none
  Entity = {e1, e2, e3, e4}
  Creator = {r1, r2}
  Mover = {r1, r2}
  Remover = {r1, r2}
  None = none
  Admins = FALSE
  SelfMoves = TRUE
  MaxMoves = 2
SYMMETRY SlotSymmetry
CONSTRAINT NothingLost
CONSTRAINT PlacesApart
INVARIANT PathFollowsParent
CHECK_DEADLOCK FALSE
