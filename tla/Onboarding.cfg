SPECIFICATION ObSpec
CONSTANTS
  s1 = s1
  adm = adm
  c1 = c1
  c2 = c2
  r1 = r1
  r2 = r2
  boot = boot
  none = none
  Session = {s1}
  Admin = {adm}
  Client = {c1, c2}
  Request = {r1, r2}
  Boot = boot
  None = none
  Faults = {"init_fails"}
  MaxHandlers = 1
  MaxCrashes = 1
  MaxDbFaults = 1
  MaxInvites = 2
  MaxRequests = 2
  MaxMailFaults = 1
SYMMETRY Symmetry
INVARIANT InviteReplyTruthful
INVARIANT RegeneratedCodeIsFresh
 
CHECK_DEADLOCK FALSE
