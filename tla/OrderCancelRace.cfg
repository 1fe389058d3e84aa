SPECIFICATION Spec
CONSTANTS
  Order = {o1, o2}
  Payment = {y1, y2, y3}
  Session = {p1, p2, p3}
  NoPayment = NoPayment
  Demo = FALSE
SYMMETRY Symmetry
PROPERTIES
  PaidNeverCancelled
CHECK_DEADLOCK FALSE
