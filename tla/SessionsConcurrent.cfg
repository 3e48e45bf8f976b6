SPECIFICATION Spec
CONSTANTS
  s1 = s1
  c1 = c1
  c2 = c2
  r1 = r1
  r2 = r2
  boot = boot
  none = none
  Session = {s1}
  Client = {c1, c2}
  Request = {r1, r2}
  Boot = boot
  None = none
  Faults = {"logout", "closed", "auth_failure", "init_fails", "init_leaves", "destroy_fails", "late_write"}
  MaxHandlers = 2
  MaxCrashes = 0
  MaxDbFaults = 0
SYMMETRY Symmetry
INVARIANT QRCodeMatchesStatus
INVARIANT NoZombieInMap
PROPERTY RegistrySpec
CHECK_DEADLOCK FALSE
