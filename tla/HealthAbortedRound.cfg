SPECIFICATION Spec
CONSTANTS
  s1 = s1
  s2 = s2
  cron = cron
  a1 = a1
  none = none
  Session = {s1, s2}
  Cron = {cron}
  Manual = {}
  Alert = {a1}
  None = none
  EnvStatus = {"ready", "disconnected"}
  Ageing = FALSE
  Threshold = 3
  MaxChecks = 4
  MaxCrashes = 0
  MaxDbFaults = 0
PROPERTY RoundReachesEverySession
CHECK_DEADLOCK FALSE
