SPECIFICATION Spec
CONSTANTS
  Request = {p1}
  StopOrder = {d1}
  Runner = {r1}
  Authorized = FALSE
  MaxJobs = 1
  MaxRetries = 1
INVARIANTS ActingIsAdmitted
CHECK_DEADLOCK FALSE
