----------------------------- MODULE OrderPayment -----------------------------
(***************************************************************************)
(* Orders and their payments: OrderService, the bank-transfer report of    *)
(* ManualBankPaymentProvider, the DEMO payment, and the transaction of     *)
(* confirmPayment statement by statement, with the row locks PostgreSQL    *)
(* takes for it at READ COMMITTED.  A request reads a status in one        *)
(* statement and writes by id in a later one, so any other request may     *)
(* come in between.                                                        *)
(***************************************************************************)

CONSTANTS
  Order,      \* orders; an order stands for its unique idempotencyKey
  Payment,    \* identifiers of payment rows: bounds how many are made
  Session,    \* requests under way at one time
  NoPayment,  \* an identifier whose row does not exist yet
  Demo        \* BUSINESS_MODE = DEMO

Row == [order : Order, status : {"PENDING", "CONFIRMED"}]

ASSUME NoPaymentAssumption == NoPayment \notin Row
ASSUME DemoAssumption == Demo \in BOOLEAN

VARIABLES
  order,         \* status of each order, "NONE" before it is created
  payment,       \* the payments table
  subscription,  \* of each order, the payments that created a subscription of it
  job            \* where each request is

vars == <<order, payment, subscription, job>>

-------------------------------------------------------------------------------
(* Where a request is                                                             *)
(*   cancelling  it has read its order PENDING_PAYMENT and will cancel it         *)
(*   reporting   it has read its order PENDING_PAYMENT and will make a payment    *)
(*   confirming  in confirmPayment's transaction, it has read its payment PENDING *)
(*   paid        and has updated the payment: it holds the payment's row lock     *)
(*   ordered     and has updated the order: it holds the order's row lock too     *)
(*   found, missing   and has found that the order has, or lacks, a subscription  *)
(* What a transaction has written is seen by others only after it commits.        *)

Idle == [pc |-> "idle"]

Writing == {"paid", "ordered", "found", "missing"}

HasOrderLock == {"ordered", "found", "missing"}

Job ==
  {Idle} \cup [pc : {"cancelling", "reporting"}, order : Order]
         \cup [pc : {"confirming"} \cup Writing, pay : Payment]

Goto(p, j) == job' = [job EXCEPT ![p] = j]

LocksPayment(p, y) == job[p].pc \in Writing /\ job[p].pay = y

LocksOrder(p, o) == job[p].pc \in HasOrderLock /\ payment[job[p].pay].order = o

OrderFree(o) == \A p \in Session : ~LocksOrder(p, o)

Exists(y) == payment[y] # NoPayment

Confirmed(o) == \E y \in Payment : Exists(y) /\ payment[y] = [order |-> o, status |-> "CONFIRMED"]

TypeOK ==
  /\ order \in [Order -> {"NONE", "PENDING_PAYMENT", "CONFIRMED", "CANCELLED", "EXPIRED"}]
  /\ payment \in [Payment -> Row \cup {NoPayment}]
  /\ subscription \in [Order -> SUBSET Payment]
  /\ job \in [Session -> Job]
  /\ \A p \in Session :
       job[p].pc \in {"confirming"} \cup Writing => Exists(job[p].pay)

Init ==
  /\ order = [o \in Order |-> "NONE"]
  /\ payment = [y \in Payment |-> NoPayment]
  /\ subscription = [o \in Order |-> {}]
  /\ job = [p \in Session |-> Idle]

-------------------------------------------------------------------------------
(* OrderService *)

\* A key used before returns the order it made; the unique index on the key lets one
\* of two simultaneous inserts through.
CreateOrder(o) ==
  /\ order[o] = "NONE"
  /\ order' = [order EXCEPT ![o] = "PENDING_PAYMENT"]
  /\ UNCHANGED <<payment, subscription, job>>

\* cancelOrder, and the cancel scenario of the DEMO payment, read the order ...
CancelRead(p, o) ==
  /\ job[p] = Idle
  /\ order[o] = "PENDING_PAYMENT"
  /\ Goto(p, [pc |-> "cancelling", order |-> o])
  /\ UNCHANGED <<order, payment, subscription>>

\* ... and write it by id, whatever it has become, once its row lock is free.
CancelWrite(p) ==
  /\ job[p].pc = "cancelling"
  /\ OrderFree(job[p].order)
  /\ order' = [order EXCEPT ![job[p].order] = "CANCELLED"]
  /\ Goto(p, Idle)
  /\ UNCHANGED <<payment, subscription>>

\* Seeded fault: the sweep updates the orders it selected without looking again.
ExpireUnchecked(late) ==
  /\ late # {}
  /\ \A o \in late : order[o] # "NONE" /\ OrderFree(o)
  /\ order' = [o \in Order |-> IF o \in late THEN "EXPIRED" ELSE order[o]]
  /\ UNCHANGED <<payment, subscription, job>>

\* expireUnpaidOrders: one UPDATE, which waits for locked rows and looks at their status
\* again.  The orders past their expiresAt are any of the unpaid ones.
ExpireUnpaid(late) ==
  /\ late # {}
  /\ \A o \in late : order[o] = "PENDING_PAYMENT" /\ OrderFree(o)
  /\ order' = [o \in Order |-> IF o \in late THEN "EXPIRED" ELSE order[o]]
  /\ UNCHANGED <<payment, subscription, job>>

-------------------------------------------------------------------------------
(* Making a payment *)

\* createCheckout of the manual provider.  Payments are never removed nor cancelled, so
\* its two reads, of the order and then of the order's payments, act as one.
ReportRead(p, o) ==
  /\ job[p] = Idle
  /\ order[o] = "PENDING_PAYMENT"
  /\ \A y \in Payment : Exists(y) => payment[y].order # o
  /\ Goto(p, [pc |-> "reporting", order |-> o])
  /\ UNCHANGED <<order, payment, subscription>>

\* simulateDemoPayment does not ask whether the order has a payment.
DemoRead(p, o) ==
  /\ Demo
  /\ job[p] = Idle
  /\ order[o] = "PENDING_PAYMENT"
  /\ Goto(p, [pc |-> "reporting", order |-> o])
  /\ UNCHANGED <<order, payment, subscription>>

\* The row is inserted.  The DEMO payment goes on to confirm it, like an operator.
CreatePayment(p, y) ==
  /\ job[p].pc = "reporting"
  /\ ~Exists(y)
  /\ payment' = [payment EXCEPT ![y] = [order |-> job[p].order, status |-> "PENDING"]]
  /\ Goto(p, Idle)
  /\ UNCHANGED <<order, subscription>>

-------------------------------------------------------------------------------
(* confirmPayment *)

\* A CONFIRMED payment is returned as it is; the transaction's own read of the payment
\* takes no lock.
ConfirmRead(p, y) ==
  /\ job[p] = Idle
  /\ Exists(y)
  /\ payment[y].status = "PENDING"
  /\ Goto(p, [pc |-> "confirming", pay |-> y])
  /\ UNCHANGED <<order, payment, subscription>>

\* payment.update waits for the row lock.
ConfirmPay(p) ==
  /\ job[p].pc = "confirming"
  /\ \A q \in Session : ~LocksPayment(q, job[p].pay)
  /\ Goto(p, [pc |-> "paid", pay |-> job[p].pay])
  /\ UNCHANGED <<order, payment, subscription>>

ConfirmOrderUnlocked(p) ==
  /\ job[p].pc = "paid"
  /\ Goto(p, [pc |-> "ordered", pay |-> job[p].pay])
  /\ UNCHANGED <<order, payment, subscription>>

\* order.update waits for the row lock.
ConfirmOrder(p) ==
  /\ job[p].pc = "paid"
  /\ OrderFree(payment[job[p].pay].order)
  /\ Goto(p, [pc |-> "ordered", pay |-> job[p].pay])
  /\ UNCHANGED <<order, payment, subscription>>

\* Seeded fault: any subscription will do, not only one of this order.
ConfirmFindAny(p) ==
  /\ job[p].pc = "ordered"
  /\ Goto(p, [pc  |-> IF \E o \in Order : subscription[o] # {} THEN "found" ELSE "missing",
              pay |-> job[p].pay])
  /\ UNCHANGED <<order, payment, subscription>>

\* subscription.findFirst, which sees what is committed by now.
ConfirmFind(p) ==
  /\ job[p].pc = "ordered"
  /\ Goto(p, [pc  |-> IF subscription[payment[job[p].pay].order] # {}
                      THEN "found" ELSE "missing",
              pay |-> job[p].pay])
  /\ UNCHANGED <<order, payment, subscription>>

\* The subscription and its period are created unless there is one, and all commits.
ConfirmCommit(p) ==
  LET y == job[p].pay
      o == payment[y].order
  IN
  /\ job[p].pc \in {"found", "missing"}
  /\ payment' = [payment EXCEPT ![y].status = "CONFIRMED"]
  /\ order' = [order EXCEPT ![o] = "CONFIRMED"]
  /\ subscription' = [subscription EXCEPT ![o] = IF job[p].pc = "found" THEN @ ELSE @ \cup {y}]
  /\ Goto(p, Idle)

\* A request fails or its process dies; an open transaction rolls back.
Fail(p) ==
  /\ job[p] # Idle
  /\ Goto(p, Idle)
  /\ UNCHANGED <<order, payment, subscription>>

Next ==
  \/ \E o \in Order : CreateOrder(o)
  \/ \E late \in SUBSET Order : ExpireUnpaid(late)
  \/ \E p \in Session :
       \/ \E o \in Order : CancelRead(p, o) \/ ReportRead(p, o) \/ DemoRead(p, o)
       \/ \E y \in Payment : CreatePayment(p, y) \/ ConfirmRead(p, y)
       \/ CancelWrite(p)
       \/ ConfirmPay(p)
       \/ ConfirmOrder(p)
       \/ ConfirmFind(p)
       \/ ConfirmCommit(p)
       \/ Fail(p)

Spec == Init /\ [][Next]_vars

-------------------------------------------------------------------------------
(* Properties *)

\* However many payments an order has collected and however often each is confirmed at
\* the same time, the order gets one subscription: "find or create" in confirmPayment
\* is safe because the order's row is locked first.
OneSubscription ==
  \A o \in Order : \A x, y \in subscription[o] : x = y

\* What a confirmation has read about the subscription is still so when it commits on
\* the strength of it, and no two confirmations of an order are past that point at once.
LookupFresh ==
  /\ \A p \in Session :
       /\ job[p].pc = "found" => subscription[payment[job[p].pay].order] # {}
       /\ job[p].pc = "missing" => subscription[payment[job[p].pay].order] = {}
  /\ \A p, q \in Session :
       p # q /\ job[p].pc \in HasOrderLock /\ job[q].pc \in HasOrderLock
         => payment[job[p].pay].order # payment[job[q].pay].order

\* An order has a subscription exactly when one of its payments is confirmed, through
\* every failure in the middle of a confirmation, and the subscription's period names
\* one of those payments.
SubscriptionPaid ==
  \A o \in Order :
    /\ Confirmed(o) <=> subscription[o] # {}
    /\ \A y \in subscription[o] :
         Exists(y) /\ payment[y] = [order |-> o, status |-> "CONFIRMED"]

\* No order counts as CONFIRMED without a confirmed payment.
ConfirmedIsPaid ==
  \A o \in Order : order[o] = "CONFIRMED" => Confirmed(o)

\* Whoever has a subscription has paid for it, and whose order is CONFIRMED has both.
PaidFor == SubscriptionPaid /\ ConfirmedIsPaid

\* The sweep of unpaid orders never takes an order that has been confirmed, even when
\* it races the confirmation.
PaidNeverExpires ==
  [][\A o \in Order : order[o] = "CONFIRMED" => order'[o] # "EXPIRED"]_vars

\* cancelOrder refuses an order that is not waiting for payment ("not in a state that
\* can be cancelled"): a confirmed order is never CANCELLED.
PaidNeverCancelled ==
  [][\A o \in Order : order[o] = "CONFIRMED" => order'[o] # "CANCELLED"]_vars
===============================================================================
