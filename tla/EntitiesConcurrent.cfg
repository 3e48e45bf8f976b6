SPECIFICATION Spec
CONSTANTS
  e1 = e1
  e2 = e2
  e3 = e3
  e4 = e4
  r1 = r1
  r2 = r2
  none = none
  Entity = {e1, e2, e3}
  Creator = {r1, r2}
  Mover = {r1, r2}
  Remover = {r1, r2}
  None = none
  Admins = TRUE
  SelfMoves = FALSE
  MaxMoves = 2
SYMMETRY SlotSymmetry
CONSTRAINT NothingLost
INVARIANT TypeOK
INVARIANT Acyclic
INVARIANT IdPathWithinTenant
INVARIANT TenantIsolation
INVARIANT ActiveUnderActive
PROPERTY ForestSpec
CHECK_DEADLOCK FALSE
