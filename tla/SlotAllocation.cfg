SPECIFICATION Spec
CONSTANTS
  g1 = g1
  g2 = g2
  Slot <- MCSlot
  Group <- MCGroup
  GroupOf <- MCGroupOf
  Sub = {s1, s2}
  Session = {p1, p2}
  Alloc = {a1, a2}
  NoRow = NoRow
  Nobody = Nobody
SYMMETRY Symmetry
INVARIANTS
  Exclusive
PROPERTIES
  OnlyOpenGroups
  ImplementsLedger
