SPECIFICATION FairSpec
CONSTANTS
  g1 = g1
  Slot <- MCSlot
  Group <- MCGroup
  GroupOf <- MCGroupOf
  Sub = {s1, s2}
  Payer = {p1}
  Worker = {w1}
  Alloc = {a1, a2}
  NoRow = NoRow
  Nobody = Nobody
  Batch = 2
  MaxMembers = 1
  MaxCrashes = 1
INVARIANTS
  PaidNotForgotten
  WaitlistFIFO
  ServedHasRow
PROPERTIES
  
  WaitersServed
CHECK_DEADLOCK FALSE
