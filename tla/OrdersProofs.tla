----------------------------- MODULE OrdersProofs -----------------------------
(***************************************************************************)
(* Theorems of OrderPayment, for any number of orders, payments and        *)
(* requests, in the DEMO mode and outside it, and of Refunds, for any      *)
(* finite number of refunds and any number of members.  That approvals     *)
(* never add up to more than was paid takes facts about sums over sets,    *)
(* which are proved here from the definition of the folds: each by the     *)
(* smallest set for which it would be false.                               *)
(***************************************************************************)
EXTENDS Orders, FiniteSetTheorems, NaturalsInduction, WellFoundedInduction, TLAPS

-------------------------------------------------------------------------------
(* Type correctness *)

\* A request that is about to make a payment, or to write an order, has an order in
\* hand; one inside confirmPayment has a payment.
LEMMA JobParts ==
  ASSUME TypeOK, NEW p \in Session
  PROVE  /\ job[p].pc \in {"cancelling", "reporting"} => job[p].order \in Order
         /\ job[p].pc \in {"confirming"} \cup Writing =>
              /\ job[p].pay \in Payment
              /\ payment[job[p].pay] \in Row
              /\ payment[job[p].pay].order \in Order
<1>1. job[p] \in Job
  BY DEF TypeOK
<1>2. job[p].pc \in {"cancelling", "reporting"} => job[p].order \in Order
  BY <1>1 DEF Job, Idle, Writing
<1>3. job[p].pc \in {"confirming"} \cup Writing => job[p].pay \in Payment
  BY <1>1 DEF Job, Idle, Writing
<1> QED
  BY <1>2, <1>3 DEF TypeOK, Exists, Row

\* One step of a request, of the sweep or of a new order keeps the tables well formed,
\* and a confirmation keeps pointing at a payment that exists.
LEMMA TypeStep == TypeOK /\ [Next]_vars => TypeOK'
<1> SUFFICES ASSUME TypeOK, [Next]_vars PROVE TypeOK'
  OBVIOUS
<1>1. ASSUME NEW o \in Order, CreateOrder(o)
      PROVE  TypeOK'
  BY <1>1 DEF CreateOrder, TypeOK, Exists
<1>2. ASSUME NEW late \in SUBSET Order, ExpireUnpaid(late)
      PROVE  TypeOK'
  BY <1>2 DEF ExpireUnpaid, TypeOK, Exists
<1>3. ASSUME NEW p \in Session, NEW j \in Job, Goto(p, j), UNCHANGED payment,
             j.pc \in {"confirming"} \cup Writing => Exists(j.pay)
      PROVE  /\ job' \in [Session -> Job]
             /\ \A q \in Session :
                  job'[q].pc \in {"confirming"} \cup Writing => Exists(job[q].pay)'
  BY <1>3 DEF Goto, TypeOK, Exists
<1>4. Idle \in Job /\ Idle.pc \notin {"confirming"} \cup Writing
  BY DEF Idle, Job, Writing
<1>5. ASSUME NEW p \in Session, NEW o \in Order,
             CancelRead(p, o) \/ ReportRead(p, o) \/ DemoRead(p, o)
      PROVE  TypeOK'
  <2>1. PICK j \in Job : /\ Goto(p, j)
                         /\ j.pc \notin {"confirming"} \cup Writing
    BY <1>5 DEF CancelRead, ReportRead, DemoRead, Job, Writing
  <2> QED
    BY <1>3, <1>5, <2>1 DEF CancelRead, ReportRead, DemoRead, TypeOK
<1>6. ASSUME NEW p \in Session, CancelWrite(p)
      PROVE  TypeOK'
  BY <1>3, <1>4, <1>6 DEF CancelWrite, TypeOK
<1>7. ASSUME NEW p \in Session, NEW y \in Payment, CreatePayment(p, y)
      PROVE  TypeOK'
  <2>1. [order |-> job[p].order, status |-> "PENDING"] \in Row
    BY <1>7, JobParts DEF CreatePayment, Row
  <2>2. payment' \in [Payment -> Row \cup {NoPayment}]
    BY <1>7, <2>1 DEF CreatePayment, TypeOK
  <2>3. \A x \in Payment : Exists(x) => Exists(x)'
    BY <1>7, <2>1, NoPaymentAssumption DEF CreatePayment, TypeOK, Exists
  <2>4. job' = [job EXCEPT ![p] = Idle]
    BY <1>7 DEF CreatePayment, Goto
  <2>5. job' \in [Session -> Job]
    BY <1>4, <2>4 DEF TypeOK
  <2>6. ASSUME NEW q \in Session, job'[q].pc \in {"confirming"} \cup Writing
        PROVE  Exists(job[q].pay)'
    <3>1. job'[q] = job[q]
      BY <1>4, <2>4, <2>6 DEF TypeOK
    <3> QED
      BY <2>3, <2>6, <3>1, JobParts DEF TypeOK
  <2> QED
    BY <1>7, <2>2, <2>5, <2>6 DEF CreatePayment, TypeOK
<1>8. ASSUME NEW p \in Session, NEW y \in Payment, ConfirmRead(p, y)
      PROVE  TypeOK'
  <2>1. [pc |-> "confirming", pay |-> y] \in Job
    BY DEF Job
  <2> QED
    BY <1>3, <1>8, <2>1 DEF ConfirmRead, TypeOK
<1>9. ASSUME NEW p \in Session, ConfirmPay(p) \/ ConfirmOrder(p) \/ ConfirmFind(p)
      PROVE  TypeOK'
  <2>1. job[p].pc \in {"confirming"} \cup Writing
    BY <1>9 DEF ConfirmPay, ConfirmOrder, ConfirmFind, Writing
  <2>2. job[p].pay \in Payment /\ Exists(job[p].pay)
    BY <2>1, JobParts DEF TypeOK
  <2>3. PICK where \in Writing : Goto(p, [pc |-> where, pay |-> job[p].pay])
    BY <1>9 DEF ConfirmPay, ConfirmOrder, ConfirmFind, Writing
  <2>4. [pc |-> where, pay |-> job[p].pay] \in Job
    BY <2>2 DEF Job
  <2> QED
    BY <1>3, <1>9, <2>2, <2>3, <2>4 DEF ConfirmPay, ConfirmOrder, ConfirmFind, TypeOK
<1>10. ASSUME NEW p \in Session, ConfirmCommit(p)
       PROVE  TypeOK'
  <2> DEFINE y == job[p].pay
  <2>1. y \in Payment /\ payment[y] \in Row /\ payment[y].order \in Order
    BY <1>10, JobParts DEF ConfirmCommit, Writing
  <2>2. [payment[y] EXCEPT !.status = "CONFIRMED"] \in Row
    BY <2>1 DEF Row
  <2>3. payment' = [payment EXCEPT ![y] = [payment[y] EXCEPT !.status = "CONFIRMED"]]
    BY <1>10 DEF ConfirmCommit
  <2>4. payment' \in [Payment -> Row \cup {NoPayment}]
    BY <2>2, <2>3 DEF TypeOK
  <2>5. \A x \in Payment : Exists(x) => Exists(x)'
    BY <2>2, <2>3, NoPaymentAssumption DEF TypeOK, Exists
  <2>6. order' \in [Order -> {"NONE", "PENDING_PAYMENT", "CONFIRMED", "CANCELLED", "EXPIRED"}]
    BY <1>10 DEF ConfirmCommit, TypeOK
  <2>7. subscription' \in [Order -> SUBSET Payment]
    BY <1>10, <2>1 DEF ConfirmCommit, TypeOK
  <2>8. job' = [job EXCEPT ![p] = Idle]
    BY <1>10 DEF ConfirmCommit, Goto
  <2>9. job' \in [Session -> Job]
    BY <1>4, <2>8 DEF TypeOK
  <2>10. ASSUME NEW q \in Session, job'[q].pc \in {"confirming"} \cup Writing
         PROVE  Exists(job[q].pay)'
    <3>1. job'[q] = job[q]
      BY <1>4, <2>8, <2>10 DEF TypeOK
    <3> QED
      BY <2>5, <2>10, <3>1, JobParts DEF TypeOK
  <2> QED
    BY <2>4, <2>6, <2>7, <2>9, <2>10 DEF TypeOK
<1>11. ASSUME NEW p \in Session, Fail(p)
       PROVE  TypeOK'
  BY <1>3, <1>4, <1>11 DEF Fail, TypeOK
<1>12. CASE UNCHANGED vars
  BY <1>12 DEF vars, TypeOK, Exists
<1> QED
  BY <1>1, <1>2, <1>5, <1>6, <1>7, <1>8, <1>9, <1>10, <1>11, <1>12 DEF Next

\* Orders, payments, subscriptions and requests always have their types.
THEOREM TypeCorrect == Spec => []TypeOK
<1>1. Init => TypeOK
  BY DEF Init, TypeOK, Job, Idle, Writing
<1> QED
  BY <1>1, TypeStep, PTL DEF Spec

-------------------------------------------------------------------------------
(* One subscription for an order, and exactly for a paid one *)

\* The steps that have no part in a confirmation once it holds its order: they leave
\* the subscriptions and the payments there are, and confirm no order.
Quiet ==
  /\ UNCHANGED subscription
  /\ \A y \in Payment :
       \/ payment'[y] = payment[y]
       \/ ~Exists(y) /\ payment'[y].status = "PENDING"
  /\ \A p \in Session : job'[p].pc \in HasOrderLock => job'[p] = job[p]
  /\ \A o \in Order : order'[o] = "CONFIRMED" => order[o] = "CONFIRMED"

\* Every step is quiet or one of the last three of a confirmation.
LEMMA StepShape ==
  ASSUME TypeOK, [Next]_vars
  PROVE  Quiet \/ \E p \in Session : ConfirmOrder(p) \/ ConfirmFind(p) \/ ConfirmCommit(p)
<1>1. ASSUME NEW o \in Order, CreateOrder(o)
      PROVE  Quiet
  BY <1>1 DEF CreateOrder, Quiet, TypeOK
<1>2. ASSUME NEW late \in SUBSET Order, ExpireUnpaid(late)
      PROVE  Quiet
  BY <1>2 DEF ExpireUnpaid, Quiet, TypeOK
<1>3. ASSUME NEW p \in Session, NEW o \in Order,
             CancelRead(p, o) \/ ReportRead(p, o) \/ DemoRead(p, o)
      PROVE  Quiet
  BY <1>3 DEF CancelRead, ReportRead, DemoRead, Goto, Quiet, TypeOK, HasOrderLock
<1>4. ASSUME NEW p \in Session, CancelWrite(p)
      PROVE  Quiet
  BY <1>4 DEF CancelWrite, Goto, Idle, Quiet, TypeOK, HasOrderLock
<1>5. ASSUME NEW p \in Session, NEW y \in Payment, CreatePayment(p, y)
      PROVE  Quiet
  BY <1>5 DEF CreatePayment, Goto, Idle, Quiet, TypeOK, HasOrderLock
<1>6. ASSUME NEW p \in Session, NEW y \in Payment, ConfirmRead(p, y)
      PROVE  Quiet
  BY <1>6 DEF ConfirmRead, Goto, Quiet, TypeOK, HasOrderLock
<1>7. ASSUME NEW p \in Session, ConfirmPay(p)
      PROVE  Quiet
  BY <1>7 DEF ConfirmPay, Goto, Quiet, TypeOK, HasOrderLock
<1>8. ASSUME NEW p \in Session, Fail(p)
      PROVE  Quiet
  BY <1>8 DEF Fail, Goto, Idle, Quiet, TypeOK, HasOrderLock
<1>9. CASE UNCHANGED vars
  BY <1>9 DEF vars, Quiet
<1> QED
  BY <1>1, <1>2, <1>3, <1>4, <1>5, <1>6, <1>7, <1>8, <1>9 DEF Next

\* The order of a payment some request confirms is the same before and after a step.
LEMMA OrderOfPayment ==
  ASSUME TypeOK, [Next]_vars, NEW y \in Payment, Exists(y)
  PROVE  payment'[y].order = payment[y].order
<1>1. ASSUME NEW p \in Session, ConfirmCommit(p)
      PROVE  payment'[y].order = payment[y].order
  <2>1. payment' = [payment EXCEPT ![job[p].pay] =
                      [payment[job[p].pay] EXCEPT !.status = "CONFIRMED"]]
    BY <1>1 DEF ConfirmCommit
  <2>2. payment[y] \in Row
    BY DEF TypeOK, Exists
  <2> QED
    BY <2>1, <2>2 DEF TypeOK, Row
<1>2. ASSUME NEW p \in Session, ConfirmOrder(p) \/ ConfirmFind(p)
      PROVE  payment'[y].order = payment[y].order
  BY <1>2 DEF ConfirmOrder, ConfirmFind
<1>3. CASE Quiet
  BY <1>3 DEF Quiet
<1> QED
  BY <1>1, <1>2, <1>3, StepShape

\* A confirmation's answer about the subscription stays right: only the holder of the
\* order's row lock changes the order's subscriptions, and there is one holder.
LEMMA LookupStep ==
  ASSUME TypeOK, LookupFresh, [Next]_vars
  PROVE  LookupFresh'
<1> DEFINE Of(p) == payment[job[p].pay].order
           Holds(p) == job[p].pc \in HasOrderLock
<1>1. ASSUME NEW p \in Session, job[p].pc \in {"confirming"} \cup Writing
      PROVE  /\ job[p].pay \in Payment
             /\ Exists(job[p].pay)
             /\ payment'[job[p].pay].order = Of(p)
             /\ Of(p) \in Order
  BY <1>1, JobParts, OrderOfPayment DEF TypeOK
<1>2. CASE Quiet
  <2>1. ASSUME NEW p \in Session, Holds(p)'
        PROVE  job'[p] = job[p] /\ Holds(p) /\ Of(p)' = Of(p)
    BY <1>1, <1>2, <2>1 DEF Quiet, HasOrderLock, Writing
  <2>2. subscription' = subscription
    BY <1>2 DEF Quiet
  <2> QED
    BY <2>1, <2>2 DEF LookupFresh, HasOrderLock
<1>3. ASSUME NEW p \in Session, ConfirmOrder(p)
      PROVE  LookupFresh'
  <2>1. job' = [job EXCEPT ![p] = [pc |-> "ordered", pay |-> job[p].pay]]
    BY <1>3 DEF ConfirmOrder, Goto
  <2>2. UNCHANGED <<payment, subscription>>
    BY <1>3 DEF ConfirmOrder
  <2>3. \A q \in Session : Holds(q) => Of(q) # Of(p)
    BY <1>3 DEF ConfirmOrder, OrderFree, LocksOrder
  <2>4. \A q \in Session \ {p} : job'[q] = job[q]
    BY <2>1 DEF TypeOK
  <2>5. job'[p].pc = "ordered" /\ job'[p].pay = job[p].pay
    BY <2>1 DEF TypeOK
  <2> QED
    BY <2>2, <2>3, <2>4, <2>5 DEF LookupFresh
<1>4. ASSUME NEW p \in Session, ConfirmFind(p)
      PROVE  LookupFresh'
  <2>1. UNCHANGED <<payment, subscription>>
    BY <1>4 DEF ConfirmFind
  <2>2. \A q \in Session \ {p} : job'[q] = job[q]
    BY <1>4 DEF ConfirmFind, Goto, TypeOK
  <2>3. /\ job'[p].pc = IF subscription[Of(p)] # {} THEN "found" ELSE "missing"
        /\ job'[p].pay = job[p].pay
        /\ job[p].pc = "ordered"
    BY <1>4 DEF ConfirmFind, Goto, TypeOK
  <2> QED
    BY <2>1, <2>2, <2>3 DEF LookupFresh, HasOrderLock
<1>5. ASSUME NEW p \in Session, ConfirmCommit(p)
      PROVE  LookupFresh'
  <2>1. job[p].pc \in {"found", "missing"} /\ Holds(p)
    BY <1>5 DEF ConfirmCommit, HasOrderLock
  <2>2. job'[p] = Idle /\ \A q \in Session \ {p} : job'[q] = job[q]
    BY <1>5 DEF ConfirmCommit, Goto, TypeOK
  <2>3. \A o \in Order \ {Of(p)} : subscription'[o] = subscription[o]
    BY <1>5 DEF ConfirmCommit, TypeOK
  <2>4. ASSUME NEW q \in Session, Holds(q)'
        PROVE  /\ q # p /\ job'[q] = job[q] /\ Holds(q)
               /\ Of(q)' = Of(q)
               /\ subscription'[Of(q)] = subscription[Of(q)]
    <3>1. q # p /\ job'[q] = job[q] /\ Holds(q)
      BY <2>2, <2>4 DEF Idle, HasOrderLock
    <3>2. Of(q)' = Of(q) /\ Of(q) \in Order
      BY <1>1, <3>1 DEF HasOrderLock, Writing
    <3>3. Of(q) # Of(p)
      BY <2>1, <3>1 DEF LookupFresh
    <3> QED
      BY <2>3, <3>1, <3>2, <3>3
  <2> QED
    BY <2>4 DEF LookupFresh, HasOrderLock
<1> QED
  BY <1>2, <1>3, <1>4, <1>5, StepShape

\* What a confirmation finds out about the subscription still holds when it commits.
THEOREM LookupsFresh == Spec => []LookupFresh
<1>1. Init => LookupFresh
  BY DEF Init, LookupFresh, Idle, HasOrderLock
<1>2. TypeOK /\ LookupFresh /\ [Next]_vars => LookupFresh'
  BY LookupStep
<1> QED
  BY <1>1, <1>2, TypeCorrect, PTL DEF Spec

\* Who is paid for: the three facts confirmPayment is to keep.
Accounts == OneSubscription /\ SubscriptionPaid /\ ConfirmedIsPaid

\* Each step keeps them, a commit because its lookup is fresh.
LEMMA AccountsStep ==
  ASSUME TypeOK, LookupFresh, Accounts, [Next]_vars
  PROVE  Accounts'
<1>1. CASE Quiet
  <2>1. ASSUME NEW o \in Order PROVE Confirmed(o)' <=> Confirmed(o)
    <3>1. ASSUME NEW y \in Payment
          PROVE  (Exists(y) /\ payment[y] = [order |-> o, status |-> "CONFIRMED"])'
                 <=> (Exists(y) /\ payment[y] = [order |-> o, status |-> "CONFIRMED"])
      BY <1>1 DEF Quiet, Exists
    <3> QED
      BY <3>1 DEF Confirmed
  <2>2. subscription' = subscription
    BY <1>1 DEF Quiet
  <2>3. \A y \in Payment : Exists(y) => payment'[y] = payment[y]
    BY <1>1 DEF Quiet
  <2>4. OneSubscription'
    BY <2>2 DEF Accounts, OneSubscription
  <2>5. SubscriptionPaid'
    BY <2>1, <2>2, <2>3 DEF Accounts, SubscriptionPaid, TypeOK, Exists
  <2>6. ConfirmedIsPaid'
    BY <1>1, <2>1 DEF Accounts, ConfirmedIsPaid, Quiet
  <2> QED
    BY <2>4, <2>5, <2>6 DEF Accounts
<1>2. ASSUME NEW p \in Session, ConfirmOrder(p) \/ ConfirmFind(p)
      PROVE  Accounts'
  BY <1>2 DEF ConfirmOrder, ConfirmFind, Accounts, OneSubscription, SubscriptionPaid,
              ConfirmedIsPaid, Confirmed, Exists
<1>3. ASSUME NEW p \in Session, ConfirmCommit(p)
      PROVE  Accounts'
  <2>0. PICK y \in Payment, o \in Order :
          y = job[p].pay /\ o = payment[y].order /\ payment[y] \in Row /\ Exists(y)
    BY <1>3, JobParts DEF ConfirmCommit, Writing, TypeOK
  <2> DEFINE paid == [order |-> o, status |-> "CONFIRMED"]
  <2>1. y = job[p].pay /\ o = payment[y].order /\ payment[y] \in Row /\ Exists(y)
    BY <2>0
  <2>2. payment'[y] = paid /\ \A x \in Payment \ {y} : payment'[x] = payment[x]
    BY <1>3, <2>1 DEF ConfirmCommit, TypeOK, Row
  <2>3. Exists(y)' /\ paid \in Row
    BY <2>1, <2>2, NoPaymentAssumption DEF Exists, Row
  <2>4. /\ subscription'[o] = IF job[p].pc = "found" THEN subscription[o]
                                                    ELSE subscription[o] \cup {y}
        /\ \A u \in Order \ {o} : subscription'[u] = subscription[u]
    BY <1>3, <2>1 DEF ConfirmCommit, TypeOK
  <2>5. /\ job[p].pc = "found" => subscription[o] # {}
        /\ job[p].pc # "found" => subscription[o] = {}
    BY <1>3, <2>1 DEF ConfirmCommit, LookupFresh
  <2>6. ASSUME NEW u \in Order, u # o PROVE Confirmed(u)' <=> Confirmed(u)
    <3>1. (Exists(y) /\ payment[y] = [order |-> u, status |-> "CONFIRMED"])' <=> FALSE
      BY <2>2, <2>6
    <3>2. (Exists(y) /\ payment[y] = [order |-> u, status |-> "CONFIRMED"]) <=> FALSE
      BY <2>1, <2>6
    <3> QED
      BY <2>2, <3>1, <3>2 DEF Confirmed, Exists
  <2>7. Confirmed(o)'
    BY <2>1, <2>2, <2>3 DEF Confirmed
  <2>8. OneSubscription'
    BY <2>4, <2>5 DEF Accounts, OneSubscription
  <2>9. ASSUME NEW u \in Order, NEW x \in subscription'[u]
        PROVE  (Exists(x) /\ payment[x] = [order |-> u, status |-> "CONFIRMED"])'
    <3>1. CASE x = y
      <4>1. u = o
        <5>1. CASE x \in subscription[u]
          <6>1. payment[y] = [order |-> u, status |-> "CONFIRMED"]
            BY <3>1, <5>1 DEF Accounts, SubscriptionPaid
          <6> QED
            BY <2>1, <6>1
        <5>2. CASE x \notin subscription[u]
          BY <2>4, <2>9, <5>2
        <5> QED
          BY <5>1, <5>2
      <4> QED
        BY <2>2, <2>3, <3>1, <4>1
    <3>2. CASE x # y
      <4>1. x \in subscription[u]
        BY <2>4, <2>9, <3>2
      <4>2. Exists(x) /\ payment[x] = [order |-> u, status |-> "CONFIRMED"] /\ x \in Payment
        BY <4>1 DEF Accounts, SubscriptionPaid, TypeOK
      <4> QED
        BY <2>2, <3>2, <4>2 DEF Exists
    <3> QED
      BY <3>1, <3>2
  <2>10. ASSUME NEW u \in Order PROVE Confirmed(u)' <=> subscription'[u] # {}
    <3>1. CASE u = o
      BY <2>4, <2>5, <2>7, <3>1
    <3>2. CASE u # o
      BY <2>4, <2>6, <3>2 DEF Accounts, SubscriptionPaid
    <3> QED
      BY <3>1, <3>2
  <2>11. SubscriptionPaid'
    BY <2>9, <2>10 DEF SubscriptionPaid
  <2>12. ConfirmedIsPaid'
    <3>1. \A u \in Order \ {o} : order'[u] = order[u]
      BY <1>3, <2>1 DEF ConfirmCommit, TypeOK
    <3> QED
      BY <2>6, <2>7, <3>1 DEF Accounts, ConfirmedIsPaid
  <2> QED
    BY <2>8, <2>11, <2>12 DEF Accounts
<1> QED
  BY <1>1, <1>2, <1>3, StepShape

\* An order gets one subscription however its payments are confirmed, it gets it exactly
\* when one of them is, and it only counts as CONFIRMED with such a payment.
THEOREM AccountsRight == Spec => [](OneSubscription /\ PaidFor)
<1>1. Init => Accounts
  BY DEF Init, Accounts, OneSubscription, SubscriptionPaid, ConfirmedIsPaid, Confirmed, Exists
<1>2. TypeOK /\ LookupFresh /\ Accounts /\ [Next]_vars => Accounts'
  BY AccountsStep
<1>3. Spec => []Accounts
  BY <1>1, <1>2, TypeCorrect, LookupsFresh, PTL DEF Spec
<1>4. Accounts => OneSubscription /\ PaidFor
  BY DEF Accounts, PaidFor
<1> QED
  BY <1>3, <1>4, PTL

\* However many payments of an order are confirmed at once, it gets one subscription.
THEOREM OneSubscriptionEach == Spec => []OneSubscription
BY AccountsRight, PTL

\* An order has a subscription exactly when one of its payments is confirmed, and is not
\* CONFIRMED without that.
THEOREM SubscriptionsPaid == Spec => []PaidFor
BY AccountsRight, PTL

-------------------------------------------------------------------------------
(* Sums over finite sets *)

Sum(f, S) == R!SumFunctionOnSet(f, S)

First(s) == CHOOSE x \in s : TRUE

\* g sums f over each part of S, taking the part to pieces in the sum's order.
Sums(f, S, g) ==
  g = [s \in SUBSET S |-> IF s = {} THEN 0 ELSE f[First(s)] + g[s \ {First(s)}]]

LEMMA SumIsOne == ASSUME NEW f, NEW S PROVE Sum(f, S) = (CHOOSE g : Sums(f, S, g))[S]
BY DEF Sum, Sums, First, R!SumFunctionOnSet, R!FoldFunctionOnSet, R!MapThenFoldSet

Less == {ij \in Nat \X Nat : ij[1] < ij[2]}

\* A nonempty set of naturals has a least element.
LEMMA Least ==
  ASSUME NEW T \in SUBSET Nat, T # {}
  PROVE  \E n \in T : \A m \in T : n <= m
<1>1. Less = OpToRel(<, Nat)
  BY Zenon DEF OpToRel, Less
<1>2. IsWellFoundedOn(Less, Nat)
  BY <1>1, NatLessThanWellFounded
<1>3. PICK n \in T : \A m \in T : ~ (<<m, n>> \in Less)
  BY <1>2, WFMin
<1>4. ASSUME NEW m \in T PROVE n <= m
  <2>1. <<m, n>> \notin Less /\ m \in Nat /\ n \in Nat
    BY <1>3
  <2>2. ~(m < n)
    BY <2>1 DEF Less
  <2> QED BY <2>1, <2>2
<1> QED BY <1>4

\* Among sets of parts of a finite set, one has the fewest elements.
LEMMA Smallest ==
  ASSUME NEW S, IsFiniteSet(S), NEW Bad \in SUBSET (SUBSET S), Bad # {}
  PROVE  \E s \in Bad : \A t \in Bad : Cardinality(s) <= Cardinality(t)
<1> DEFINE T == {Cardinality(s) : s \in Bad}
<1>1. T \in SUBSET Nat /\ T # {}
  BY FS_Subset, FS_CardinalityType
<1>2. PICK n \in T : \A m \in T : n <= m
  BY <1>1, Least
<1> QED BY <1>2

LEMMA Smaller ==
  ASSUME NEW S, IsFiniteSet(S), NEW s \in SUBSET S, NEW x \in s
  PROVE  /\ Cardinality(s \ {x}) \in Nat /\ Cardinality(s) \in Nat
         /\ Cardinality(s) = Cardinality(s \ {x}) + 1
<1>1. IsFiniteSet(s)
  BY FS_Subset
<1>2. IsFiniteSet(s \ {x}) /\ Cardinality(s \ {x}) = Cardinality(s) - 1
  BY <1>1, FS_RemoveElement
<1>3. Cardinality(s \ {x}) \in Nat /\ Cardinality(s) \in Nat
  BY <1>1, <1>2, FS_CardinalityType
<1> QED BY <1>2, <1>3

LEMMA FirstIn == ASSUME NEW s, s # {} PROVE First(s) \in s
BY DEF First

\* There is such a function: of the parts with n elements, for every n.
LEMMA SumsExist ==
  ASSUME NEW S, IsFiniteSet(S), NEW f, \A x \in S : f[x] \in Nat
  PROVE  \E g : Sums(f, S, g)
<1> DEFINE Parts(n) == {s \in SUBSET S : Cardinality(s) <= n}
           Up(n, g) ==
             /\ g \in [Parts(n) -> Nat]
             /\ \A s \in Parts(n) :
                  g[s] = IF s = {} THEN 0 ELSE f[First(s)] + g[s \ {First(s)}]
           Bad == {n \in Nat : \A g : ~Up(n, g)}
<1>1. \A s \in SUBSET S : IsFiniteSet(s) /\ Cardinality(s) \in Nat
  BY FS_Subset, FS_CardinalityType
<1>2. ASSUME NEW n \in Nat, NEW s \in Parts(n), s # {}
      PROVE  /\ First(s) \in S /\ f[First(s)] \in Nat
             /\ s \ {First(s)} \in Parts(n)
             /\ n > 0 /\ s \ {First(s)} \in Parts(n - 1)
  <2>1. First(s) \in s
    BY <1>2, FirstIn
  <2>2. Cardinality(s) = Cardinality(s \ {First(s)}) + 1
        /\ Cardinality(s \ {First(s)}) \in Nat
    BY <2>1, Smaller
  <2> QED BY <2>1, <2>2
<1>3. \A n \in Nat : n \notin Bad <=> \E g : Up(n, g)
  <2> HIDE DEF Up
  <2> QED OBVIOUS
<1>4. Bad \in SUBSET Nat
  <2> HIDE DEF Up
  <2> QED OBVIOUS
<1> HIDE DEF Bad
<1>5. 0 \notin Bad
  <2>1. \A s \in Parts(0) : s = {}
    <3> SUFFICES ASSUME NEW s \in Parts(0), s # {} PROVE FALSE
      OBVIOUS
    <3>1. 0 > 0
      BY <1>2
    <3> QED BY <3>1
  <2>2. Up(0, [s \in Parts(0) |-> 0])
    BY <2>1
  <2> HIDE DEF Up
  <2> QED BY <1>3, <2>2
<1>6. ASSUME NEW n \in Nat, n > 0, n - 1 \notin Bad PROVE n \notin Bad
  <2>1. n - 1 \in Nat
    BY <1>6
  <2>2. PICK g : Up(n - 1, g)
    <3> HIDE DEF Up
    <3> QED BY <1>3, <1>6, <2>1
  <2> DEFINE h == [s \in Parts(n) |-> IF s = {} THEN 0 ELSE f[First(s)] + g[s \ {First(s)}]]
  <2>3. h \in [Parts(n) -> Nat]
    <3>1. ASSUME NEW s \in Parts(n), s # {} PROVE f[First(s)] + g[s \ {First(s)}] \in Nat
      <4>1. g[s \ {First(s)}] \in Nat
        BY <1>2, <2>2, <3>1
      <4> QED BY <1>2, <3>1, <4>1
    <3> QED BY <3>1
  <2>4. \A s \in Parts(n - 1) : s \in Parts(n) /\ h[s] = g[s]
    BY <1>1, <2>1, <2>2
  <2>5. ASSUME NEW s \in Parts(n)
        PROVE  h[s] = IF s = {} THEN 0 ELSE f[First(s)] + h[s \ {First(s)}]
    BY <1>2, <2>4
  <2>6. Up(n, h)
    BY <2>3, <2>5
  <2> HIDE DEF Up
  <2> QED BY <1>3, <2>6
<1>7. Bad = {}
  <2> SUFFICES ASSUME Bad # {} PROVE FALSE
    OBVIOUS
  <2>1. PICK n \in Bad : \A m \in Bad : n <= m
    BY <1>4, Least
  <2>2. n \in Nat /\ n > 0 /\ n - 1 \in Nat
    BY <1>4, <1>5, <2>1
  <2>3. n - 1 \notin Bad
    BY <2>1, <2>2
  <2> QED BY <1>6, <2>1, <2>2, <2>3
<1>8. PICK g : Up(Cardinality(S), g)
  <2>1. Cardinality(S) \in Nat
    BY <1>1
  <2> HIDE DEF Up
  <2> QED BY <1>3, <1>7, <2>1
<1>9. Parts(Cardinality(S)) = SUBSET S
  BY FS_Subset
<1> HIDE DEF Parts
<1>10. g = [s \in SUBSET S |-> g[s]]
  BY <1>8, <1>9
<1>11. \A s \in SUBSET S : g[s] = IF s = {} THEN 0 ELSE f[First(s)] + g[s \ {First(s)}]
  BY <1>8, <1>9
<1> QED BY <1>10, <1>11 DEF Sums

\* What such a function gives for a part is a natural number, and does not depend on
\* the set it is defined for.
LEMMA SumsAgree ==
  ASSUME NEW S, IsFiniteSet(S), NEW T \in SUBSET S, NEW f, \A x \in S : f[x] \in Nat,
         NEW g, Sums(f, S, g), NEW h, Sums(f, T, h)
  PROVE  \A t \in SUBSET T : g[t] \in Nat /\ h[t] = g[t]
<1>1. \A t \in SUBSET T :
        /\ g[t] = IF t = {} THEN 0 ELSE f[First(t)] + g[t \ {First(t)}]
        /\ h[t] = IF t = {} THEN 0 ELSE f[First(t)] + h[t \ {First(t)}]
  BY DEF Sums
<1> DEFINE Good(t) == g[t] \in Nat /\ h[t] = g[t]
           Bad == {t \in SUBSET T : ~Good(t)}
<1>2. ASSUME NEW t \in SUBSET T, t # {}, Good(t \ {First(t)})
      PROVE  Good(t)
  <2>1. f[First(t)] \in Nat
    BY <1>2, FirstIn
  <2> QED BY <1>1, <1>2, <2>1
<1>3. Good({})
  BY <1>1
<1>4. Bad \in SUBSET (SUBSET S)
  OBVIOUS
<1>5. \A t \in SUBSET T : t \notin Bad <=> Good(t)
  OBVIOUS
<1> HIDE DEF Good, Bad
<1>6. Bad = {}
  <2> SUFFICES ASSUME Bad # {} PROVE FALSE
    OBVIOUS
  <2>1. PICK t \in Bad : \A u \in Bad : Cardinality(t) <= Cardinality(u)
    BY <1>4, Smallest
  <2>2. t \in SUBSET T
    BY DEF Bad
  <2>3. t # {} /\ First(t) \in t
    BY <1>3, <1>5, <2>2, FirstIn
  <2>4. ~(Cardinality(t) <= Cardinality(t \ {First(t)}))
    BY <2>2, <2>3, Smaller
  <2>5. t \ {First(t)} \notin Bad
    BY <2>1, <2>4
  <2>6. Good(t \ {First(t)})
    BY <1>5, <2>2, <2>5
  <2> QED BY <1>2, <1>5, <2>2, <2>3, <2>6
<1> QED BY <1>5, <1>6 DEF Good

\* The sum takes its set to pieces.
LEMMA SumStep ==
  ASSUME NEW S, IsFiniteSet(S), NEW f, \A x \in S : f[x] \in Nat
  PROVE  /\ Sum(f, S) \in Nat
         /\ S # {} => Sum(f, S) = f[First(S)] + Sum(f, S \ {First(S)})
         /\ S = {} => Sum(f, S) = 0
<1> DEFINE T == S \ {First(S)}
           g == CHOOSE u : Sums(f, S, u)
           h == CHOOSE u : Sums(f, T, u)
<1>1. Sums(f, S, g)
  BY SumsExist
<1>2. IsFiniteSet(T)
  BY FS_Subset
<1>3. Sums(f, T, h)
  BY <1>2, SumsExist
<1>4. Sum(f, S) = g[S] /\ Sum(f, T) = h[T]
  BY SumIsOne
<1> HIDE DEF g, h
<1>5. g[S] \in Nat
  BY <1>1, SumsAgree
<1>6. h[T] = g[T]
  BY <1>1, <1>3, SumsAgree
<1>7. g[S] = IF S = {} THEN 0 ELSE f[First(S)] + g[T]
  BY <1>1 DEF Sums
<1> QED BY <1>4, <1>5, <1>6, <1>7

\* Any element may be taken out of a sum.
LEMMA SumRemove ==
  ASSUME NEW S, IsFiniteSet(S), NEW f, \A x \in S : f[x] \in Nat, NEW z \in S
  PROVE  Sum(f, S) = f[z] + Sum(f, S \ {z})
<1> DEFINE Good(s) == \A y \in s : Sum(f, s) = f[y] + Sum(f, s \ {y})
           Bad == {s \in SUBSET S : ~Good(s)}
<1>1. \A s \in SUBSET S : IsFiniteSet(s) /\ \A x \in s : f[x] \in Nat
  BY FS_Subset
<1>2. \A s \in SUBSET S :
        /\ Sum(f, s) \in Nat
        /\ s # {} => Sum(f, s) = f[First(s)] + Sum(f, s \ {First(s)})
  BY <1>1, SumStep
<1>3. ASSUME NEW s \in SUBSET S, \A x \in s : Good(s \ {x})
      PROVE  Good(s)
  <2> SUFFICES ASSUME NEW y \in s
               PROVE  Sum(f, s) = f[y] + Sum(f, s \ {y})
    OBVIOUS
  <2> DEFINE x == First(s)
  <2>1. x \in s
    BY FirstIn
  <2> HIDE DEF x
  <2>2. Sum(f, s) = f[x] + Sum(f, s \ {x})
    BY <1>2 DEF x
  <2>3. CASE x = y
    BY <2>2, <2>3
  <2>4. CASE x # y
    <3>1. Sum(f, s \ {x}) = f[y] + Sum(f, (s \ {x}) \ {y})
      BY <1>3, <2>1, <2>4
    <3>2. Sum(f, s \ {y}) = f[x] + Sum(f, (s \ {y}) \ {x})
      BY <1>3, <2>1, <2>4
    <3>3. (s \ {x}) \ {y} = (s \ {y}) \ {x}
      OBVIOUS
    <3>4. f[x] \in Nat /\ f[y] \in Nat /\ Sum(f, (s \ {y}) \ {x}) \in Nat
      <4>1. (s \ {y}) \ {x} \in SUBSET S
        OBVIOUS
      <4> QED BY <1>1, <1>2, <2>1, <4>1
    <3> QED BY <2>2, <3>1, <3>2, <3>3, <3>4
  <2> QED BY <2>3, <2>4
<1>4. Bad \in SUBSET (SUBSET S)
  OBVIOUS
<1>5. \A s \in SUBSET S : s \notin Bad <=> Good(s)
  OBVIOUS
<1> HIDE DEF Good, Bad
<1>6. Bad = {}
  <2> SUFFICES ASSUME Bad # {} PROVE FALSE
    OBVIOUS
  <2>1. PICK s \in Bad : \A u \in Bad : Cardinality(s) <= Cardinality(u)
    BY <1>4, Smallest
  <2>2. s \in SUBSET S
    BY DEF Bad
  <2>3. ASSUME NEW x \in s PROVE Good(s \ {x})
    <3>1. ~(Cardinality(s) <= Cardinality(s \ {x}))
      BY <2>2, <2>3, Smaller
    <3>2. s \ {x} \notin Bad
      BY <2>1, <3>1
    <3> QED BY <1>5, <2>2, <3>2
  <2> QED BY <1>3, <1>5, <2>2, <2>3
<1>7. Good(S)
  BY <1>5, <1>6
<1> QED BY <1>7 DEF Good

\* Nothing adds up to nothing.
LEMMA SumOfZeros == ASSUME NEW S, IsFiniteSet(S) PROVE Sum([x \in S |-> 0], S) = 0
<1> DEFINE f == [x \in S |-> 0]
           Good(s) == Sum(f, s) = 0
           Bad == {s \in SUBSET S : ~Good(s)}
<1>1. \A s \in SUBSET S : IsFiniteSet(s) /\ \A x \in s : f[x] \in Nat
  BY FS_Subset
<1>2. \A x \in S : f[x] = 0
  OBVIOUS
<1> HIDE DEF f
<1>3. ASSUME NEW s \in SUBSET S, s # {}, Good(s \ {First(s)})
      PROVE  Good(s)
  <2>1. Sum(f, s) = f[First(s)] + Sum(f, s \ {First(s)})
    BY <1>1, <1>3, SumStep
  <2>2. f[First(s)] = 0
    BY <1>2, <1>3, FirstIn
  <2> QED BY <1>3, <2>1, <2>2
<1>4. Good({})
  BY <1>1, SumStep
<1>5. Bad \in SUBSET (SUBSET S)
  OBVIOUS
<1>6. \A s \in SUBSET S : s \notin Bad <=> Good(s)
  OBVIOUS
<1> HIDE DEF Good, Bad
<1>7. Bad = {}
  <2> SUFFICES ASSUME Bad # {} PROVE FALSE
    OBVIOUS
  <2>1. PICK s \in Bad : \A u \in Bad : Cardinality(s) <= Cardinality(u)
    BY <1>5, Smallest
  <2>2. s \in SUBSET S
    BY DEF Bad
  <2>3. s # {} /\ First(s) \in s
    BY <1>4, <1>6, <2>2, FirstIn
  <2>4. ~(Cardinality(s) <= Cardinality(s \ {First(s)}))
    BY <2>2, <2>3, Smaller
  <2>5. Good(s \ {First(s)})
    BY <1>6, <2>1, <2>2, <2>4
  <2> QED BY <1>3, <1>6, <2>2, <2>3, <2>5
<1>8. Good(S)
  BY <1>6, <1>7
<1> QED BY <1>8 DEF Good, f

\* A sum depends on what is summed only.
LEMMA SumSame ==
  ASSUME NEW S, IsFiniteSet(S), NEW f, \A x \in S : f[x] \in Nat,
         NEW g, \A x \in S : g[x] = f[x]
  PROVE  Sum(g, S) = Sum(f, S)
<1> DEFINE Good(s) == Sum(g, s) = Sum(f, s)
           Bad == {s \in SUBSET S : ~Good(s)}
<1>1. \A s \in SUBSET S :
        IsFiniteSet(s) /\ (\A x \in s : f[x] \in Nat) /\ (\A x \in s : g[x] \in Nat)
  BY FS_Subset
<1>2. ASSUME NEW s \in SUBSET S, s # {}, Good(s \ {First(s)})
      PROVE  Good(s)
  <2>1. Sum(f, s) = f[First(s)] + Sum(f, s \ {First(s)})
    BY <1>1, <1>2, SumStep
  <2>2. Sum(g, s) = g[First(s)] + Sum(g, s \ {First(s)})
    BY <1>1, <1>2, SumStep
  <2>3. g[First(s)] = f[First(s)]
    BY <1>2, FirstIn
  <2> QED BY <1>2, <2>1, <2>2, <2>3
<1>3. Good({})
  <2>1. Sum(f, {}) = 0
    BY <1>1, SumStep
  <2>2. Sum(g, {}) = 0
    BY <1>1, SumStep
  <2> QED BY <2>1, <2>2
<1>4. Bad \in SUBSET (SUBSET S)
  OBVIOUS
<1>5. \A s \in SUBSET S : s \notin Bad <=> Good(s)
  OBVIOUS
<1> HIDE DEF Good, Bad
<1>6. Bad = {}
  <2> SUFFICES ASSUME Bad # {} PROVE FALSE
    OBVIOUS
  <2>1. PICK s \in Bad : \A u \in Bad : Cardinality(s) <= Cardinality(u)
    BY <1>4, Smallest
  <2>2. s \in SUBSET S
    BY DEF Bad
  <2>3. s # {} /\ First(s) \in s
    BY <1>3, <1>5, <2>2, FirstIn
  <2>4. ~(Cardinality(s) <= Cardinality(s \ {First(s)}))
    BY <2>2, <2>3, Smaller
  <2>5. Good(s \ {First(s)})
    BY <1>5, <2>1, <2>2, <2>4
  <2> QED BY <1>2, <1>5, <2>2, <2>3, <2>5
<1>7. Good(S)
  BY <1>5, <1>6
<1> QED BY <1>7 DEF Good

-------------------------------------------------------------------------------
(* Refunds *)

\* The requests of the routes for operators are made by operators, and what they have read
\* of a refund is of a refund that exists.
LEMMA RefundJobParts ==
  ASSUME R!TypeOK, NEW p \in R!Anyone
  PROVE  /\ refunding[p] \in R!Job
         /\ refunding[p].pc \in {"locked", "summed", "rejecting", "paying"} =>
              /\ refunding[p].of \in Refund
              /\ refund[refunding[p].of] \in R!Row
         /\ refunding[p].pc \in {"locked", "summed"} => refunding[p].amount \in R!Amount
<1>1. refunding[p] \in R!Job
  BY DEF R!TypeOK
<1>2. ASSUME refunding[p].pc \in {"locked", "summed", "rejecting", "paying"}
      PROVE  refunding[p].of \in Refund /\ refund[refunding[p].of] \in R!Row
  <2>1. refunding[p].of \in Refund
    BY <1>1, <1>2 DEF R!Job, R!Idle
  <2>2. refunding[p] # R!Idle /\ refunding[p].pc # "requesting"
    BY <1>2 DEF R!Idle
  <2> QED BY <2>1, <2>2 DEF R!TypeOK, R!Exists
<1>3. refunding[p].pc \in {"locked", "summed"} => refunding[p].amount \in R!Amount
  BY <1>1 DEF R!Job, R!Idle
<1> QED BY <1>1, <1>2, <1>3

\* Of every refund the amount approved is a natural number, and so are their sums.
LEMMA ApprovedNat ==
  ASSUME R!TypeOK
  PROVE  /\ \A r \in Refund : R!Approved[r] \in Nat
         /\ \A S \in SUBSET Refund : Sum(R!Approved, S) \in Nat
<1>1. ASSUME NEW r \in Refund PROVE R!Approved[r] \in Nat
  BY PaidAssumption DEF R!Approved, R!HasStatus, R!Exists, R!TypeOK, R!Row
<1>2. ASSUME NEW S \in SUBSET Refund PROVE Sum(R!Approved, S) \in Nat
  <2>1. IsFiniteSet(S)
    BY RefundAssumption, FS_Subset
  <2> QED BY <1>1, <2>1, SumStep
<1> QED BY <1>1, <1>2

\* No approval goes past its check with more than was paid: what makes the types of the
\* approved amounts inductive.
Affordable ==
  \A p \in R!Anyone : refunding[p].pc = "summed" => refunding[p].amount <= Paid

RefundTypes == R!TypeOK /\ Affordable

\* One request moves on to a job of the right form.
LEMMA GotoType ==
  ASSUME RefundTypes, NEW p \in R!Anyone, NEW j \in R!Job, R!Goto(p, j),
         refund' \in [Refund -> R!Row \cup {NoRefund}],
         \A r \in Refund : R!Exists(r) => R!Exists(r)',
         j # R!Idle /\ j.pc # "requesting" => R!Exists(j.of)',
         j.pc = "summed" => j.amount <= Paid
  PROVE  RefundTypes'
<1>1. refunding' \in [R!Anyone -> R!Job]
  BY DEF RefundTypes, R!TypeOK, R!Goto
<1>2. refunding'[p] = j /\ \A q \in R!Anyone \ {p} : refunding'[q] = refunding[q]
  BY DEF RefundTypes, R!TypeOK, R!Goto
<1>3. ASSUME NEW q \in R!Anyone, refunding'[q] # R!Idle, refunding'[q].pc # "requesting"
      PROVE  R!Exists(refunding[q].of)'
  <2>1. CASE q = p
    BY <1>2, <1>3, <2>1 DEF R!Exists
  <2>2. CASE q # p
    <3>1. refunding'[q] = refunding[q] /\ refunding[q] \in R!Job
      BY <1>2, <2>2 DEF RefundTypes, R!TypeOK
    <3>2. R!Exists(refunding[q].of)
      BY <1>3, <3>1 DEF RefundTypes, R!TypeOK
    <3>3. refunding[q].of \in Refund
      BY <1>3, <3>1 DEF R!Job
    <3> QED BY <3>1, <3>2, <3>3 DEF R!Exists
  <2> QED BY <2>1, <2>2
<1>4. Affordable'
  BY <1>2 DEF RefundTypes, Affordable
<1> QED BY <1>1, <1>3, <1>4 DEF RefundTypes, R!TypeOK

\* A row of the table is written, and one request is done.
LEMMA WriteType ==
  ASSUME RefundTypes, NEW p \in R!Anyone, NEW r \in Refund, NEW row \in R!Row,
         refund' = [refund EXCEPT ![r] = row], R!Goto(p, R!Idle)
  PROVE  RefundTypes'
<1>1. row # NoRefund
  BY NoRefundAssumption
<1>2. refund' \in [Refund -> R!Row \cup {NoRefund}]
  BY DEF RefundTypes, R!TypeOK
<1>3. \A x \in Refund : R!Exists(x) => R!Exists(x)'
  BY <1>1 DEF RefundTypes, R!TypeOK, R!Exists
<1>4. R!Idle \in R!Job /\ R!Idle.pc # "summed"
  BY DEF R!Job, R!Idle
<1> QED BY <1>2, <1>3, <1>4, GotoType

\* Every step keeps the refunds and the requests what they are.
LEMMA RefundTypeStep == RefundTypes /\ [R!Next]_(R!vars) => RefundTypes'
<1> SUFFICES ASSUME RefundTypes, [R!Next]_(R!vars) PROVE RefundTypes'
  OBVIOUS
<1>0. R!TypeOK
  BY DEF RefundTypes
<1>1. /\ R!Idle \in R!Job /\ R!Idle.pc # "summed"
      /\ Member \subseteq R!Anyone /\ Operator \subseteq R!Anyone
  BY DEF R!Job, R!Idle, R!Anyone
<1>2. ASSUME NEW p \in Member, R!RequestRead(p)
      PROVE  RefundTypes'
  <2>1. [pc |-> "requesting"] \in R!Job
    BY DEF R!Job
  <2> QED BY <1>0, <1>1, <1>2, <2>1, GotoType DEF R!RequestRead, R!TypeOK, R!Exists
<1>3. ASSUME NEW p \in Member, NEW r \in Refund, R!RequestCreate(p, r)
      PROVE  RefundTypes'
  <2>1. [status |-> "REQUESTED", approved |-> 0] \in R!Row
    BY PaidAssumption DEF R!Row
  <2> QED BY <1>1, <1>3, <2>1, WriteType DEF R!RequestCreate
<1>4. ASSUME NEW p \in Operator, NEW r \in Refund, NEW amount \in R!Amount,
             R!ApproveLock(p, r, amount)
      PROVE  RefundTypes'
  <2>1. [pc |-> "locked", of |-> r, amount |-> amount] \in R!Job
    BY DEF R!Job
  <2>2. R!Goto(p, [pc |-> "locked", of |-> r, amount |-> amount])
        /\ refund' = refund /\ R!Exists(r)
    BY <1>4 DEF R!ApproveLock, R!HasStatus
  <2> QED BY <1>0, <1>1, <2>1, <2>2, GotoType DEF R!TypeOK, R!Exists
<1>5. ASSUME NEW p \in Operator, NEW r \in Refund, R!RejectRead(p, r) \/ R!PayoutRead(p, r)
      PROVE  RefundTypes'
  <2>1. PICK pc \in {"rejecting", "paying"} : R!Goto(p, [pc |-> pc, of |-> r])
    BY <1>5 DEF R!RejectRead, R!PayoutRead
  <2>2. [pc |-> pc, of |-> r] \in R!Job
    BY DEF R!Job
  <2>3. refund' = refund /\ R!Exists(r)
    BY <1>5 DEF R!RejectRead, R!PayoutRead, R!HasStatus
  <2> QED BY <1>0, <1>1, <2>1, <2>2, <2>3, GotoType DEF R!TypeOK, R!Exists
<1>6. ASSUME NEW p \in Operator, R!ApproveSum(p)
      PROVE  RefundTypes'
  <2> DEFINE elsewhere == Sum(R!Approved, Refund \ {refunding[p].of})
  <2>1. p \in R!Anyone /\ refunding[p].pc = "locked"
    BY <1>1, <1>6 DEF R!ApproveSum
  <2>2. /\ refunding[p] \in R!Job /\ refunding[p].of \in Refund
        /\ refund[refunding[p].of] \in R!Row /\ refunding[p].amount \in R!Amount
    BY <1>0, <2>1, RefundJobParts
  <2>3. refunding[p] \in [pc : {"locked", "summed"}, of : Refund, amount : R!Amount]
    BY <2>1, <2>2 DEF R!Job, R!Idle
  <2>0. PICK j : j = [refunding[p] EXCEPT !.pc = "summed"]
    OBVIOUS
  <2>4. /\ j \in [pc : {"locked", "summed"}, of : Refund, amount : R!Amount]
        /\ j.of = refunding[p].of /\ j.amount = refunding[p].amount
    BY <2>0, <2>3
  <2>5. j \in R!Job
    BY <2>4 DEF R!Job
  <2>6. R!Goto(p, j) /\ refund' = refund
    BY <1>6, <2>0 DEF R!ApproveSum
  <2>7. R!Exists(j.of)'
    BY <2>2, <2>4, <2>6, NoRefundAssumption DEF R!Exists
  <2>8. elsewhere + refunding[p].amount <= Paid
    BY <1>6 DEF R!ApproveSum, R!ApprovedElsewhere, Sum
  <2>9. elsewhere \in Nat
    BY <1>0, ApprovedNat
  <2> HIDE DEF elsewhere
  <2>10. refunding[p].amount <= Paid
    BY <2>2, <2>8, <2>9, PaidAssumption DEF R!Amount
  <2> QED
    BY <1>0, <2>1, <2>4, <2>5, <2>6, <2>7, <2>10, GotoType DEF R!TypeOK, R!Exists
<1>7. ASSUME NEW p \in Operator, R!ApproveCommit(p)
      PROVE  RefundTypes'
  <2>1. p \in R!Anyone /\ refunding[p].pc = "summed"
    BY <1>1, <1>7 DEF R!ApproveCommit
  <2>2. refunding[p].of \in Refund /\ refunding[p].amount \in R!Amount
    BY <1>0, <2>1, RefundJobParts
  <2>3. refunding[p].amount <= Paid
    BY <2>1 DEF RefundTypes, Affordable
  <2>4. [status |-> "APPROVED", approved |-> refunding[p].amount] \in R!Row
    BY <2>2, <2>3, PaidAssumption DEF R!Row, R!Amount
  <2> QED BY <1>7, <2>1, <2>2, <2>4, WriteType DEF R!ApproveCommit
<1>8. ASSUME NEW p \in Operator, R!RejectWrite(p) \/ R!PayoutWrite(p)
      PROVE  RefundTypes'
  <2>1. PICK pc \in {"rejecting", "paying"}, status \in {"REJECTED", "PAID_OUT"} :
          R!Write(p, pc, status)
    BY <1>8 DEF R!RejectWrite, R!PayoutWrite
  <2>2. refunding[p].of \in Refund /\ refund[refunding[p].of] \in R!Row
    BY <1>0, <1>1, <2>1, RefundJobParts DEF R!Write
  <2>3. [refund[refunding[p].of] EXCEPT !.status = status] \in R!Row
    BY <2>2 DEF R!Row
  <2>4. /\ refund' = [refund EXCEPT ![refunding[p].of] =
                        [refund[refunding[p].of] EXCEPT !.status = status]]
        /\ R!Goto(p, R!Idle)
    BY <2>1 DEF R!Write
  <2> QED BY <1>1, <2>2, <2>3, <2>4, WriteType
<1>9. ASSUME NEW p \in R!Anyone, R!Fail(p)
      PROVE  RefundTypes'
  BY <1>0, <1>1, <1>9, GotoType DEF R!Fail, R!TypeOK, R!Exists
<1>10. CASE UNCHANGED R!vars
  BY <1>10 DEF R!vars, RefundTypes, Affordable, R!TypeOK, R!Exists
<1> QED
  BY <1>2, <1>3, <1>4, <1>5, <1>6, <1>7, <1>8, <1>9, <1>10 DEF R!Next

\* Whoever asks and approves at once, refunds and requests have their types; above all, no
\* refund is approved for more than was paid for the order.
THEOREM RefundsTyped == R!Spec => []R!TypeOK
<1>1. R!Init => RefundTypes
  BY DEF R!Init, RefundTypes, Affordable, R!TypeOK, R!Job, R!Idle
<1>2. RefundTypes => R!TypeOK
  BY DEF RefundTypes
<1> QED BY <1>1, <1>2, RefundTypeStep, PTL DEF R!Spec

-------------------------------------------------------------------------------
(* Refunds when one operator works on them at a time.  The approval reads the order's other *)
(* refunds without a lock, and the other routes write by id what they read before: with two *)
(* operators neither property below holds.                                                  *)

OneAtATime == (\A p, q \in Operator : p = q) /\ Operator \cap Member = {}

\* What an operator has read of a refund is still so.
ReadsFresh ==
  \A p \in R!Anyone :
    /\ refunding[p].pc \in {"locked", "summed", "rejecting", "paying"} => p \in Operator
    /\ refunding[p].pc \in {"locked", "summed", "rejecting"} =>
         R!HasStatus(refunding[p].of, {"REQUESTED"})
    /\ refunding[p].pc = "paying" => R!HasStatus(refunding[p].of, {"APPROVED"})

\* What the approvals add up to, with the one that has been compared with what was paid.
WithinPaid ==
  /\ Sum(R!Approved, Refund) <= Paid
  /\ \A p \in R!Anyone :
       refunding[p].pc = "summed" =>
         Sum(R!Approved, Refund \ {refunding[p].of}) + refunding[p].amount <= Paid

\* Each step is one of these: it writes nothing, or asks for a refund that did not exist
\* before, or is an operator's write of a refund that is still as it was read.
Writes(p, r, row) ==
  /\ refund' = [refund EXCEPT ![r] = row]
  /\ R!Goto(p, R!Idle)
  /\ \/ /\ refunding[p].pc = "summed"
        /\ row = [status |-> "APPROVED", approved |-> refunding[p].amount]
     \/ /\ refunding[p].pc = "rejecting"
        /\ row = [refund[r] EXCEPT !.status = "REJECTED"]
     \/ /\ refunding[p].pc = "paying"
        /\ row = [refund[r] EXCEPT !.status = "PAID_OUT"]
  /\ r = refunding[p].of

\* An operator who has written is idle, and what the others have read is untouched: they
\* have read nothing.
LEMMA WritesKeepReads ==
  ASSUME OneAtATime, RefundTypes, ReadsFresh, NEW p \in Operator, NEW r, NEW row,
         Writes(p, r, row)
  PROVE  ReadsFresh'
<1>1. /\ refunding'[p] = R!Idle
      /\ \A q \in R!Anyone \ {p} : refunding'[q] = refunding[q]
  BY DEF Writes, R!Goto, RefundTypes, R!TypeOK, R!Anyone
<1>2. ASSUME NEW q \in R!Anyone,
             refunding'[q].pc \in {"locked", "summed", "rejecting", "paying"}
      PROVE  FALSE
  <2>1. q # p
    BY <1>1, <1>2 DEF R!Idle
  <2>2. q \in Operator
    BY <1>1, <1>2, <2>1 DEF ReadsFresh
  <2> QED BY <2>1, <2>2 DEF OneAtATime
<1> QED BY <1>2 DEF ReadsFresh

\* An operator who reads changes nothing, and has read what is so.
LEMMA ReadsKeepReads ==
  ASSUME OneAtATime, RefundTypes, ReadsFresh, NEW p \in Operator, NEW j,
         R!Goto(p, j), refund' = refund,
         j.pc \in {"locked", "summed", "rejecting"} => R!HasStatus(j.of, {"REQUESTED"}),
         j.pc = "paying" => R!HasStatus(j.of, {"APPROVED"})
  PROVE  ReadsFresh'
<1>1. /\ refunding'[p] = j
      /\ \A q \in R!Anyone \ {p} : refunding'[q] = refunding[q]
  BY DEF R!Goto, RefundTypes, R!TypeOK, R!Anyone
<1>2. \A r, S : R!HasStatus(r, S)' <=> R!HasStatus(r, S)
  BY DEF R!HasStatus, R!Exists
<1> QED BY <1>1, <1>2 DEF ReadsFresh, R!HasStatus, R!Exists

\* A member's step makes new rows only.
LEMMA MembersKeepReads ==
  ASSUME OneAtATime, RefundTypes, ReadsFresh, NEW p \in R!Anyone, NEW j,
         R!Goto(p, j), j.pc \in {"idle", "requesting"},
         \A r \in Refund : R!Exists(r) => refund'[r] = refund[r]
  PROVE  ReadsFresh'
<1>1. /\ refunding'[p] = j
      /\ \A q \in R!Anyone \ {p} : refunding'[q] = refunding[q]
  BY DEF R!Goto, RefundTypes, R!TypeOK, R!Anyone
<1>2. ASSUME NEW q \in R!Anyone,
             refunding'[q].pc \in {"locked", "summed", "rejecting", "paying"}
      PROVE  /\ refunding'[q] = refunding[q]
             /\ refund'[refunding[q].of] = refund[refunding[q].of]
  <2>1. refunding'[q] = refunding[q]
    BY <1>1, <1>2
  <2>2. refunding[q].of \in Refund /\ refund[refunding[q].of] \in R!Row
    BY <1>2, <2>1, RefundJobParts DEF RefundTypes
  <2>3. R!Exists(refunding[q].of)
    BY <2>2, NoRefundAssumption DEF R!Exists
  <2> QED BY <2>1, <2>2, <2>3
<1> QED BY <1>2 DEF ReadsFresh, R!HasStatus, R!Exists

\* A step that writes no refund that existed before.
Harmless ==
  \A r \in Refund :
    \/ refund'[r] = refund[r]
    \/ ~R!Exists(r) /\ refund'[r] = [status |-> "REQUESTED", approved |-> 0]

\* Who has compared an amount with what was paid had done so before, or does it now.
Compares ==
  \A p \in R!Anyone : refunding'[p].pc = "summed" =>
    \/ refunding'[p] = refunding[p]
    \/ /\ refund' = refund
       /\ refunding'[p].of = refunding[p].of
       /\ refunding'[p].amount = refunding[p].amount
       /\ R!ApprovedElsewhere(refunding[p].of) + refunding[p].amount <= Paid

\* Each step keeps what the operator has read true, and writes as is said above.
LEMMA RefundStep ==
  ASSUME OneAtATime, RefundTypes, ReadsFresh, [R!Next]_(R!vars)
  PROVE  /\ ReadsFresh'
         /\ \/ Harmless /\ Compares
            \/ \E p \in Operator, r \in Refund, row \in R!Row : Writes(p, r, row)
<1>0. /\ R!TypeOK /\ Member \subseteq R!Anyone /\ Operator \subseteq R!Anyone
      /\ R!Idle.pc = "idle"
  BY DEF RefundTypes, R!Anyone, R!Idle
<1>1. ASSUME NEW p \in R!Anyone, NEW j, R!Goto(p, j), j.pc # "summed"
      PROVE  Compares
  BY <1>1 DEF Compares, R!Goto, R!TypeOK, RefundTypes
<1>2. refund' = refund => Harmless
  BY Zenon DEF Harmless
<1> DEFINE Wrote == \E p \in Operator, r \in Refund, row \in R!Row : Writes(p, r, row)
<1> SUFFICES ReadsFresh' /\ ((Harmless /\ Compares) \/ Wrote)
  OBVIOUS
<1>3. ASSUME NEW p \in Member, R!RequestRead(p)
      PROVE  ReadsFresh' /\ Harmless /\ Compares
  <2>1. PICK j : j = [pc |-> "requesting"]
    OBVIOUS
  <2>2. R!Goto(p, j) /\ refund' = refund /\ j.pc = "requesting"
    BY <1>3, <2>1 DEF R!RequestRead
  <2> QED BY <1>0, <1>1, <1>2, <2>2, MembersKeepReads
<1>4. ASSUME NEW p \in Member, NEW r \in Refund, R!RequestCreate(p, r)
      PROVE  ReadsFresh' /\ Harmless /\ Compares
  <2>1. /\ R!Goto(p, R!Idle) /\ ~R!Exists(r)
        /\ refund' = [refund EXCEPT ![r] = [status |-> "REQUESTED", approved |-> 0]]
    BY <1>4 DEF R!RequestCreate
  <2>2. Harmless
    <3>1. PICK row : row = [status |-> "REQUESTED", approved |-> 0]
      OBVIOUS
    <3>2. refund'[r] = row /\ \A x \in Refund \ {r} : refund'[x] = refund[x]
      BY <1>0, <2>1, <3>1 DEF R!TypeOK
    <3> QED BY <2>1, <3>1, <3>2 DEF Harmless
  <2>3. \A x \in Refund : R!Exists(x) => refund'[x] = refund[x]
    BY <2>2 DEF Harmless
  <2> QED BY <1>0, <1>1, <2>1, <2>2, <2>3, MembersKeepReads
<1>5. ASSUME NEW p \in Operator, NEW r \in Refund, NEW amount \in R!Amount,
             R!ApproveLock(p, r, amount)
      PROVE  ReadsFresh' /\ Harmless /\ Compares
  <2>1. PICK j : j = [pc |-> "locked", of |-> r, amount |-> amount]
    OBVIOUS
  <2>2. R!Goto(p, j) /\ refund' = refund /\ j.pc = "locked"
        /\ R!HasStatus(j.of, {"REQUESTED"})
    BY <1>5, <2>1 DEF R!ApproveLock
  <2> QED BY <1>0, <1>1, <1>2, <2>2, ReadsKeepReads
<1>6. ASSUME NEW p \in Operator, NEW r \in Refund, R!RejectRead(p, r)
      PROVE  ReadsFresh' /\ Harmless /\ Compares
  <2>1. PICK j : j = [pc |-> "rejecting", of |-> r]
    OBVIOUS
  <2>2. R!Goto(p, j) /\ refund' = refund /\ j.pc = "rejecting"
        /\ R!HasStatus(j.of, {"REQUESTED"})
    BY <1>6, <2>1 DEF R!RejectRead
  <2> QED BY <1>0, <1>1, <1>2, <2>2, ReadsKeepReads
<1>7. ASSUME NEW p \in Operator, NEW r \in Refund, R!PayoutRead(p, r)
      PROVE  ReadsFresh' /\ Harmless /\ Compares
  <2>1. PICK j : j = [pc |-> "paying", of |-> r]
    OBVIOUS
  <2>2. R!Goto(p, j) /\ refund' = refund /\ j.pc = "paying"
        /\ R!HasStatus(j.of, {"APPROVED"})
    BY <1>7, <2>1 DEF R!PayoutRead
  <2> QED BY <1>0, <1>1, <1>2, <2>2, ReadsKeepReads
<1>8. ASSUME NEW p \in Operator, R!ApproveSum(p)
      PROVE  ReadsFresh' /\ Harmless /\ Compares
  <2>0. PICK j : j = [refunding[p] EXCEPT !.pc = "summed"]
    OBVIOUS
  <2>1. /\ R!Goto(p, j) /\ refund' = refund /\ refunding[p].pc = "locked"
        /\ R!ApprovedElsewhere(refunding[p].of) + refunding[p].amount <= Paid
    BY <1>8, <2>0 DEF R!ApproveSum
  <2>2. refunding[p] \in [pc : {"locked", "summed"}, of : Refund, amount : R!Amount]
    BY <1>0, <2>1, RefundJobParts DEF R!Job, R!Idle
  <2>3. j.pc = "summed" /\ j.of = refunding[p].of /\ j.amount = refunding[p].amount
    BY <2>0, <2>2
  <2>4. R!HasStatus(j.of, {"REQUESTED"})
    BY <1>0, <2>1, <2>3 DEF ReadsFresh
  <2>5. ReadsFresh'
    BY <2>1, <2>3, <2>4, ReadsKeepReads
  <2>6. Compares
    BY <1>0, <2>1, <2>3 DEF Compares, R!Goto, R!TypeOK
  <2> QED BY <1>2, <2>1, <2>5, <2>6
<1>9. ASSUME NEW p \in Operator, R!ApproveCommit(p) \/ R!RejectWrite(p) \/ R!PayoutWrite(p)
      PROVE  ReadsFresh' /\ Wrote
  <2>1. refunding[p].pc \in {"summed", "rejecting", "paying"}
    BY <1>9 DEF R!ApproveCommit, R!RejectWrite, R!PayoutWrite, R!Write
  <2>2. PICK r \in Refund : r = refunding[p].of /\ refund[r] \in R!Row
    BY <1>0, <2>1, RefundJobParts
  <2>3. \E row : Writes(p, r, row)
    BY <1>9, <2>2 DEF R!ApproveCommit, R!RejectWrite, R!PayoutWrite, R!Write, Writes
  <2>4. PICK row : Writes(p, r, row)
    BY <2>3
  <2>5. row \in R!Row
    <3>1. refunding[p].pc = "summed" =>
            refunding[p].amount \in R!Amount /\ refunding[p].amount <= Paid
      BY <1>0, RefundJobParts DEF RefundTypes, Affordable
    <3> QED BY <2>2, <2>4, <3>1, PaidAssumption DEF Writes, R!Row, R!Amount
  <2> QED BY <2>4, <2>5, WritesKeepReads
<1>10. ASSUME NEW p \in R!Anyone, R!Fail(p)
       PROVE  ReadsFresh' /\ Harmless /\ Compares
  <2>1. R!Goto(p, R!Idle) /\ refund' = refund
    BY <1>10 DEF R!Fail
  <2> QED BY <1>0, <1>1, <1>2, <2>1, MembersKeepReads
<1>11. CASE UNCHANGED R!vars
  BY <1>2, <1>11 DEF R!vars, Compares, ReadsFresh, R!HasStatus, R!Exists
<1> HIDE DEF Wrote
<1> QED
  BY <1>3, <1>4, <1>5, <1>6, <1>7, <1>8, <1>9, <1>10, <1>11 DEF R!Next

\* A step that writes nothing, or asks for a new refund, leaves what is approved.
LEMMA HarmlessSums ==
  ASSUME RefundTypes, RefundTypes', Harmless, NEW S \in SUBSET Refund
  PROVE  Sum(R!Approved, S)' = Sum(R!Approved, S)
<1>1. ASSUME NEW r \in Refund PROVE R!Approved'[r] = R!Approved[r]
  <2>1. CASE refund'[r] = refund[r]
    BY <2>1 DEF R!Approved, R!HasStatus, R!Exists
  <2>2. CASE ~R!Exists(r) /\ refund'[r] = [status |-> "REQUESTED", approved |-> 0]
    BY <2>2 DEF R!Approved, R!HasStatus, R!Exists
  <2> QED BY <2>1, <2>2 DEF Harmless
<1>2. IsFiniteSet(S)
  BY RefundAssumption, FS_Subset
<1>3. \A r \in S : R!Approved[r] \in Nat
  BY ApprovedNat DEF RefundTypes
<1>4. \A f, g : (\A r \in S : f[r] \in Nat) /\ (\A r \in S : g[r] = f[r])
                  => Sum(g, S) = Sum(f, S)
  BY <1>2, SumSame
<1> QED BY <1>1, <1>3, <1>4 DEF Sum

\* An operator's write adds what the refund is approved for now to what the others are.
LEMMA WriteSums ==
  ASSUME RefundTypes, ReadsFresh, NEW p \in Operator, NEW r \in Refund, NEW row \in R!Row,
         Writes(p, r, row)
  PROVE  \/ Sum(R!Approved, Refund)' = Sum(R!Approved, Refund)
         \/ /\ refunding[p].pc = "summed"
            /\ Sum(R!Approved, Refund)' =
                 refunding[p].amount + Sum(R!Approved, Refund \ {r})
<1>0. R!TypeOK /\ p \in R!Anyone /\ r = refunding[p].of
  BY DEF RefundTypes, R!Anyone, Writes
<1>1. refund'[r] = row /\ \A x \in Refund \ {r} : refund'[x] = refund[x]
  BY <1>0 DEF Writes, R!TypeOK
<1>2. \A x \in Refund \ {r} : R!Approved'[x] = R!Approved[x]
  BY <1>1 DEF R!Approved, R!HasStatus, R!Exists
<1>3. row # NoRefund /\ refund[r] \in R!Row
  <2>1. refunding[p].pc \in {"locked", "summed", "rejecting", "paying"}
    BY DEF Writes
  <2> QED BY <1>0, <2>1, RefundJobParts, NoRefundAssumption
<1>4. R!Approved'[r] = IF refunding[p].pc = "summed" THEN refunding[p].amount ELSE R!Approved[r]
  <2>1. CASE refunding[p].pc = "summed"
    BY <1>0, <1>1, <1>3, <2>1 DEF Writes, R!Approved, R!HasStatus, R!Exists
  <2>2. CASE refunding[p].pc = "rejecting"
    <3>1. refund[r].status = "REQUESTED" /\ row.status = "REJECTED"
      BY <1>0, <1>3, <2>2 DEF Writes, ReadsFresh, R!HasStatus, R!Row
    <3> QED BY <1>1, <2>2, <3>1 DEF R!Approved, R!HasStatus, R!Exists
  <2>3. CASE refunding[p].pc = "paying"
    <3>1. refund[r].status = "APPROVED" /\ R!Exists(r)
      BY <1>0, <2>3 DEF ReadsFresh, R!HasStatus
    <3>2. row.status = "PAID_OUT" /\ row.approved = refund[r].approved
      BY <1>3, <2>3 DEF Writes, R!Row
    <3> QED BY <1>1, <1>3, <2>3, <3>1, <3>2 DEF R!Approved, R!HasStatus, R!Exists
  <2> QED BY <2>1, <2>2, <2>3 DEF Writes
<1>5. \A x \in Refund : R!Approved[x] \in Nat /\ R!Approved'[x] \in Nat
  <2>1. \A x \in Refund : R!Approved[x] \in Nat
    BY <1>0, ApprovedNat
  <2>2. refunding[p].pc = "summed" => refunding[p].amount \in Nat
    BY <1>0, RefundJobParts, PaidAssumption DEF R!Amount
  <2> QED BY <1>2, <1>4, <2>1, <2>2
<1>6. IsFiniteSet(Refund) /\ IsFiniteSet(Refund \ {r})
  BY RefundAssumption, FS_Subset
<1>7. \A f, g : /\ \A x \in Refund : f[x] \in Nat /\ g[x] \in Nat
                /\ \A x \in Refund \ {r} : g[x] = f[x]
                => /\ Sum(f, Refund) = f[r] + Sum(f, Refund \ {r})
                   /\ Sum(g, Refund) = g[r] + Sum(f, Refund \ {r})
  <2> SUFFICES ASSUME NEW f, NEW g,
                      \A x \in Refund : f[x] \in Nat /\ g[x] \in Nat,
                      \A x \in Refund \ {r} : g[x] = f[x]
               PROVE  /\ Sum(f, Refund) = f[r] + Sum(f, Refund \ {r})
                      /\ Sum(g, Refund) = g[r] + Sum(f, Refund \ {r})
    OBVIOUS
  <2>1. Sum(f, Refund) = f[r] + Sum(f, Refund \ {r})
    BY <1>6, SumRemove
  <2>2. Sum(g, Refund) = g[r] + Sum(g, Refund \ {r})
    BY <1>6, SumRemove
  <2>3. Sum(g, Refund \ {r}) = Sum(f, Refund \ {r})
    BY <1>6, SumSame
  <2> QED BY <2>1, <2>2, <2>3
<1>8. /\ Sum(R!Approved, Refund) = R!Approved[r] + Sum(R!Approved, Refund \ {r})
      /\ Sum(R!Approved', Refund) = R!Approved'[r] + Sum(R!Approved, Refund \ {r})
  BY <1>2, <1>5, <1>7
<1>9. Sum(R!Approved, Refund)' = Sum(R!Approved', Refund)
  BY DEF Sum
<1> QED BY <1>4, <1>8, <1>9

\* No step approves more than was paid.
LEMMA WithinPaidStep ==
  ASSUME OneAtATime, RefundTypes, RefundTypes', ReadsFresh, WithinPaid, [R!Next]_(R!vars)
  PROVE  WithinPaid'
<1>1. CASE Harmless /\ Compares
  <2>1. \A S \in SUBSET Refund : Sum(R!Approved, S)' = Sum(R!Approved, S)
    BY <1>1, HarmlessSums
  <2>2. Sum(R!Approved, Refund)' <= Paid
    BY <2>1 DEF WithinPaid
  <2>3. ASSUME NEW p \in R!Anyone, refunding'[p].pc = "summed"
        PROVE  (Sum(R!Approved, Refund \ {refunding[p].of}) + refunding[p].amount <= Paid)'
    <3>1. CASE refunding'[p] = refunding[p]
      <4>1. Sum(R!Approved, Refund \ {refunding[p].of}) + refunding[p].amount <= Paid
        BY <2>3, <3>1 DEF WithinPaid
      <4>2. PICK S \in SUBSET Refund : S = Refund \ {refunding[p].of}
        OBVIOUS
      <4>3. Sum(R!Approved, S)' = Sum(R!Approved, S)
        BY <2>1
      <4>4. Sum(R!Approved, Refund \ {refunding[p].of})' = Sum(R!Approved, S)'
        BY <3>1, <4>2 DEF Sum
      <4> QED BY <3>1, <4>1, <4>2, <4>3, <4>4
    <3>2. CASE /\ refund' = refund
               /\ refunding'[p].of = refunding[p].of
               /\ refunding'[p].amount = refunding[p].amount
               /\ R!ApprovedElsewhere(refunding[p].of) + refunding[p].amount <= Paid
      <4>1. Sum(R!Approved, Refund \ {refunding[p].of}) + refunding[p].amount <= Paid
        BY <3>2 DEF R!ApprovedElsewhere, Sum
      <4>2. PICK S \in SUBSET Refund : S = Refund \ {refunding[p].of}
        OBVIOUS
      <4>3. Sum(R!Approved, S)' = Sum(R!Approved, S)
        BY <2>1
      <4>4. Sum(R!Approved, Refund \ {refunding[p].of})' = Sum(R!Approved, S)'
        BY <3>2, <4>2 DEF Sum
      <4> QED BY <3>2, <4>1, <4>2, <4>3, <4>4
    <3> QED BY <1>1, <2>3, <3>1, <3>2 DEF Compares
  <2> QED BY <2>2, <2>3 DEF WithinPaid
<1>2. ASSUME NEW p \in Operator, NEW r \in Refund, NEW row \in R!Row, Writes(p, r, row)
      PROVE  WithinPaid'
  <2>0. p \in R!Anyone /\ r = refunding[p].of
    BY <1>2 DEF R!Anyone, Writes
  <2>1. Sum(R!Approved, Refund)' <= Paid
    <3>1. CASE Sum(R!Approved, Refund)' = Sum(R!Approved, Refund)
      BY <3>1 DEF WithinPaid
    <3>2. CASE /\ refunding[p].pc = "summed"
               /\ Sum(R!Approved, Refund)' =
                    refunding[p].amount + Sum(R!Approved, Refund \ {r})
      <4>1. Sum(R!Approved, Refund \ {r}) + refunding[p].amount <= Paid
        BY <2>0, <3>2 DEF WithinPaid
      <4>2. Sum(R!Approved, Refund \ {r}) \in Nat
        BY ApprovedNat DEF RefundTypes
      <4>3. refunding[p].amount \in Nat
        BY <2>0, <3>2, RefundJobParts, PaidAssumption DEF RefundTypes, R!Amount
      <4> QED BY <3>2, <4>1, <4>2, <4>3
    <3> QED BY <1>2, <3>1, <3>2, WriteSums
  <2>2. ASSUME NEW q \in R!Anyone, refunding'[q].pc = "summed"
        PROVE  FALSE
    <3>1. refunding'[p] = R!Idle /\ \A x \in R!Anyone \ {p} : refunding'[x] = refunding[x]
      BY <1>2, <2>0 DEF Writes, R!Goto, RefundTypes, R!TypeOK
    <3>2. q # p
      BY <2>2, <3>1 DEF R!Idle
    <3>3. q \in Operator
      BY <2>2, <3>1, <3>2 DEF ReadsFresh
    <3> QED BY <3>2, <3>3 DEF OneAtATime
  <2> QED BY <2>1, <2>2 DEF WithinPaid
<1>3. (Harmless /\ Compares)
        \/ \E p \in Operator, r \in Refund, row \in R!Row : Writes(p, r, row)
  BY RefundStep
<1> QED BY <1>1, <1>2, <1>3

\* What the steps keep, and that holds at the start.
LEMMA RefundsKept ==
  ASSUME OneAtATime
  PROVE  R!Spec => [](RefundTypes /\ ReadsFresh /\ WithinPaid)
<1>1. R!Init => RefundTypes /\ ReadsFresh
  BY DEF R!Init, RefundTypes, Affordable, R!TypeOK, R!Job, R!Idle, ReadsFresh
<1>2. R!Init => WithinPaid
  <2> SUFFICES ASSUME R!Init PROVE WithinPaid
    OBVIOUS
  <2>1. \A r \in Refund : R!Approved[r] = 0
    BY DEF R!Init, R!Approved, R!HasStatus, R!Exists
  <2>2. Sum(R!Approved, Refund) = Sum([r \in Refund |-> 0], Refund)
    BY <2>1, RefundAssumption, SumSame
  <2>3. Sum([r \in Refund |-> 0], Refund) = 0
    BY RefundAssumption, SumOfZeros
  <2>4. \A p \in R!Anyone : refunding[p].pc # "summed"
    BY DEF R!Init, R!Idle
  <2> QED BY <2>2, <2>3, <2>4, PaidAssumption DEF WithinPaid
<1>3. RefundTypes /\ ReadsFresh /\ WithinPaid /\ [R!Next]_(R!vars)
        => (RefundTypes /\ ReadsFresh /\ WithinPaid)'
  BY RefundTypeStep, RefundStep, WithinPaidStep
<1> QED BY <1>1, <1>2, <1>3, PTL DEF R!Spec

\* The routes for operators never change a refund that is settled: nobody has it in hand.
LEMMA SettledStep ==
  ASSUME OneAtATime, RefundTypes, ReadsFresh, [R!Next]_(R!vars)
  PROVE  \A r \in Refund :
           R!HasStatus(r, {"REJECTED", "PAID_OUT"}) => refund'[r] = refund[r]
<1> SUFFICES ASSUME NEW r \in Refund, R!HasStatus(r, {"REJECTED", "PAID_OUT"})
             PROVE  refund'[r] = refund[r]
  OBVIOUS
<1>1. CASE Harmless
  BY <1>1 DEF Harmless, R!HasStatus
<1>2. ASSUME NEW p \in Operator, NEW x \in Refund, NEW row \in R!Row, Writes(p, x, row)
      PROVE  refund'[r] = refund[r]
  <2>1. R!HasStatus(x, {"REQUESTED", "APPROVED"})
    BY <1>2 DEF Writes, ReadsFresh, R!HasStatus, R!Anyone
  <2>2. x # r
    BY <2>1 DEF R!HasStatus
  <2> QED BY <1>2, <2>2 DEF Writes, RefundTypes, R!TypeOK
<1> QED BY <1>1, <1>2, RefundStep

-------------------------------------------------------------------------------
(* Orders and refunds side by side *)

\* Each side steps as it does alone.
LEMMA OrdersParts == OrdersSpec => Spec /\ R!Spec
<1>1. OrdersInit => Init /\ R!Init
  BY DEF OrdersInit
<1>2. [OrdersNext]_<<vars, refunds>> => [Next]_vars /\ [R!Next]_(R!vars)
  BY DEF OrdersNext, refunds, R!vars
<1> QED BY <1>1, <1>2, PTL DEF OrdersSpec, Spec, R!Spec

\* While one operator at a time works on the refunds of an order, what is approved and paid
\* out of it never exceeds what was paid, however many members ask at once.
THEOREM RefundsWithinPaid == OneAtATime => (OrdersSpec => []NotOverRefunded)
<1> SUFFICES ASSUME OneAtATime PROVE OrdersSpec => []NotOverRefunded
  OBVIOUS
<1>1. RefundTypes /\ WithinPaid => NotOverRefunded
  BY DEF RefundTypes, WithinPaid, NotOverRefunded, R!NotOverRefunded, Sum
<1> QED BY <1>1, OrdersParts, RefundsKept, PTL

\* While one operator at a time works on the refunds of an order, a refund that was rejected
\* or paid out stays as it is.
THEOREM RefundsStaySettled == OneAtATime => (OrdersSpec => SettledStays)
<1> SUFFICES ASSUME OneAtATime PROVE OrdersSpec => SettledStays
  OBVIOUS
<1> DEFINE Stay ==
      \A r \in Refund : R!HasStatus(r, {"REJECTED", "PAID_OUT"}) => refund'[r] = refund[r]
<1>1. RefundTypes /\ ReadsFresh /\ [R!Next]_(R!vars) => [Stay]_refunds
  BY SettledStep
<1>2. R!Spec => [][Stay]_refunds
  BY <1>1, RefundsKept, PTL DEF R!Spec
<1> QED BY <1>2, OrdersParts, PTL DEF SettledStays

\* The sweep takes unpaid orders only, at the moment it writes: a confirmed order does not
\* expire, whatever races the sweep.
THEOREM ConfirmedNeverExpire == Spec => PaidNeverExpires
<1> DEFINE Keeps == \A o \in Order : order[o] = "CONFIRMED" => order'[o] # "EXPIRED"
<1>1. TypeOK /\ [Next]_vars => [Keeps]_vars
  <2> SUFFICES ASSUME TypeOK, [Next]_vars, NEW o \in Order, order[o] = "CONFIRMED"
               PROVE  order'[o] # "EXPIRED"
    BY DEF vars
  <2>1. ASSUME NEW late \in SUBSET Order, ExpireUnpaid(late)
        PROVE  order'[o] # "EXPIRED"
    BY <2>1 DEF ExpireUnpaid
  <2>2. ASSUME NEW x \in Order, CreateOrder(x)
        PROVE  order'[o] # "EXPIRED"
    BY <2>2 DEF CreateOrder, TypeOK
  <2>3. ASSUME NEW p \in Session, CancelWrite(p)
        PROVE  order'[o] # "EXPIRED"
    BY <2>3 DEF CancelWrite, TypeOK
  <2>4. ASSUME NEW p \in Session, ConfirmCommit(p)
        PROVE  order'[o] # "EXPIRED"
    BY <2>4 DEF ConfirmCommit, TypeOK
  <2>5. ASSUME order' = order PROVE order'[o] # "EXPIRED"
    BY <2>5
  <2> QED
    BY <2>1, <2>2, <2>3, <2>4, <2>5 DEF Next, vars, CancelRead, ReportRead, DemoRead,
       CreatePayment, ConfirmRead, ConfirmPay, ConfirmOrder, ConfirmFind, Fail
<1> QED BY <1>1, TypeCorrect, PTL DEF Spec, PaidNeverExpires

\* The orders' theorems, of orders and refunds side by side.
THEOREM OrdersRight == OrdersSpec => [](OneSubscription /\ PaidFor) /\ PaidNeverExpires
BY OrdersParts, AccountsRight, ConfirmedNeverExpire, PTL
===============================================================================
