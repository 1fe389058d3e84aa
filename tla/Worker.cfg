SPECIFICATION WorkerSpec
CONSTANTS
  Sub = {s1}
  Request = {p1, p2}
  Scheduler = {w1, w2}
  MaxCrashes = 1
  Limit = 2
  MaxMessages = 3
INVARIANTS
  WorkListed
  
  
PROPERTIES
  OverdueAsked
