SPECIFICATION Spec
CONSTANTS
  s1 = s1
  m1 = m1
  a1 = a1
  a2 = a2
  none = none
  Session = {s1}
  Cron = {}
  Manual = {m1}
  Alert = {a1, a2}
  None = none
  EnvStatus = {"ready", "qr_required", "failed"}
  Ageing = FALSE
  Threshold = 3
  MaxChecks = 8
  MaxCrashes = 0
  MaxDbFaults = 0
SYMMETRY Symmetry
INVARIANT RecoveredSessionHasNoOpenAlert
INVARIANT SustainedFailureHasOpenAlert
INVARIANT AtMostOneOpenAlert
CHECK_DEADLOCK FALSE
