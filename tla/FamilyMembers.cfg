SPECIFICATION Spec
CONSTANTS
  Customer = {c1, c2}
  Nobody = Nobody
  Operator = {p1}
  Capacity = 3
  Seats = 1
  MaxJobs = 2
  MaxRetries = 1
  MaxCrashes = 1

  
PROPERTIES
  RemovalAccounted
  ImplementsRoster
CHECK_DEADLOCK FALSE
SYMMETRY Symmetry
