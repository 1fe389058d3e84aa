SPECIFICATION FairSpec
CONSTANTS
  o1 = o1
  o2 = o2
  Job <- MCJob
  Owner <- MCOwner
  OwnerOf <- MCOwnerOf
  Runner = {r1}
  Id = {r1}
  IdOf <- MCIdOf
  Operator = {p1}
  Nobody = Nobody
  Slow = TRUE
  MaxRetries = 2
  MaxCrashes = 2
INVARIANTS
  
  
  SucceededPerformed
PROPERTIES
  JobsSettle
CHECK_DEADLOCK FALSE
