SPECIFICATION OrdersSpec
CONSTANTS
  Order = {o1, o2}
  Payment = {y1, y2, y3}
  Session = {p1, p2, p3}
  NoPayment = NoPayment
  Demo = TRUE
  Refund = {r1, r2, r3, r4}
  Member = {m1, m2}
  Operator = {a1}
  NoRefund = NoRefund
  Paid = 3
SYMMETRY AllAlike
INVARIANTS
  OneSubscription
  PaidFor
  

  
  
CHECK_DEADLOCK FALSE
