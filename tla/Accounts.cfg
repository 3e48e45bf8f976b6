SPECIFICATION Spec
CONSTANTS
  u1 = u1
  u2 = u2
  mail1 = mail1
  mail2 = mail2
  phone1 = phone1
  r1 = r1
  r2 = r2
  none = none
  User = {u1, u2}
  Founder = {u1}
  Email = {mail1, mail2}
  Phone = {phone1}
  FirstEmail <- FounderEmail
  Request = {r1, r2}
  None = none
  MaxRequests = 5
  MaxFaults = 1
SYMMETRY Symmetry
INVARIANT TokenUsedOnce
INVARIANT LinkStaysValid
PROPERTY EmailChangeIsProven
CHECK_DEADLOCK FALSE
