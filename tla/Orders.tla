-------------------------------- MODULE Orders --------------------------------
(***************************************************************************)
(* The money of the service: OrderPayment and Refunds side by side.  They  *)
(* share no state - Refunds has one order whose payment is confirmed - so  *)
(* nothing is lost by letting one of them work only while the other is as  *)
(* it began.                                                               *)
(***************************************************************************)
EXTENDS OrderPayment, Naturals, FiniteSets

CONSTANTS Refund, Member, Operator, NoRefund, Paid

VARIABLES refund, refunding  \* Refunds' tables and requests

R == INSTANCE Refunds WITH job <- refunding

ASSUME PaidAssumption == Paid \in Nat \ {0}
ASSUME NoRefundAssumption == NoRefund \notin R!Row
ASSUME RefundAssumption == IsFiniteSet(Refund)

refunds == <<refund, refunding>>

OrdersInit == Init /\ R!Init

\* Nobody has an order yet; nobody has asked for a refund.
OrdersNext ==
  \/ R!Init /\ Next /\ UNCHANGED refunds
  \/ Init /\ R!Next /\ UNCHANGED vars

OrdersSpec == OrdersInit /\ [][OrdersNext]_<<vars, refunds>>

\* The approvals of one order never add up to more than was paid for it, and every row of
\* the refunds table has one of the forms the code gives it: approveRefund.
NotOverRefunded == R!TypeOK /\ R!NotOverRefunded

\* What is rejected or paid out stays so: the routes of the operators.
SettledStays ==
  [][\A r \in Refund :
       R!HasStatus(r, {"REJECTED", "PAID_OUT"}) => refund'[r] = refund[r]]_refunds
===============================================================================
