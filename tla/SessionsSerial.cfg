SPECIFICATION FairSpec
CONSTANTS
  s1 = s1
  c1 = c1
  c2 = c2
  c3 = c3
  r1 = r1
  boot = boot
  none = none
  Session = {s1}
  Client = {c1, c2, c3}
  Request = {r1}
  Boot = boot
  None = none
  Faults = {"closed", "auth_failure", "init_fails"}
  MaxHandlers = 3
  MaxCrashes = 2
  MaxDbFaults = 0
INVARIANT ConnectedIsManaged
PROPERTY DisconnectLeavesNothingRunning
PROPERTY RequestsReturn
PROPERTY StartupCompletes
PROPERTY ZombieIsDropped
CHECK_DEADLOCK FALSE
