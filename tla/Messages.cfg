SPECIFICATION Spec
CONSTANTS
  s1 = s1
  s2 = s2
  in1 = in1
  out1 = out1
  Session = {s1, s2}
  Incoming = {in1}
  Outgoing = {out1}
  SessionsOf <- SessionsOfMessage
  WithMedia = {in1}
  Acked = {out1}
  Ack <- Acks
  Handler = {h1, h2}
  h1 = h1
  h2 = h2
  None = None
  MaxEmits = 1
  MaxFailures = 1
INVARIANT TypeOK
INVARIANT StoredOnce
INVARIANT StatusFollowsAcks
INVARIANT CountersMatchStore
INVARIANT MediaUrlResolves
PROPERTY EveryMessageIsKept
CHECK_DEADLOCK FALSE
