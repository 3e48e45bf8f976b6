SPECIFICATION Spec
CONSTANTS
  s1 = s1
  s2 = s2
  c1 = c1
  c2 = c2
  c3 = c3
  r1 = r1
  boot = boot
  none = none
  Session = {s1, s2}
  Client = {c1, c2, c3}
  Request = {r1}
  Boot = boot
  None = none
  Faults = {"closed", "auth_failure", "init_fails"}
  MaxHandlers = 1
  MaxCrashes = 1
  MaxDbFaults = 1
SYMMETRY ClientSymmetry
INVARIANT TypeOK
INVARIANT StartupListStaysFresh
CHECK_DEADLOCK FALSE
