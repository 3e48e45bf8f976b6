SPECIFICATION Spec
CONSTANTS
  s1 = s1
  cron = cron
  m1 = m1
  a1 = a1
  a2 = a2
  none = none
  Session = {s1}
  Cron = {cron}
  Manual = {m1}
  Alert = {a1, a2}
  None = none
  EnvStatus = {"ready", "disconnected"}
  Ageing = TRUE
  Threshold = 3
  MaxChecks = 5
  MaxCrashes = 1
  MaxDbFaults = 1
SYMMETRY Symmetry
INVARIANT TypeOK
INVARIANT AlertBackedByFailures
INVARIANT OccurrencesNotOvercounted
INVARIANT FlaggedCheckHasAlert
PROPERTY ResolvedStaysResolved
CHECK_DEADLOCK FALSE
