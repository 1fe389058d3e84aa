------------------------------- MODULE Refunds --------------------------------
(***************************************************************************)
(* The refunds of one order: RefundService and the route that rejects a    *)
(* refund.  Members ask, operators approve, reject and record payouts.     *)
(* Everything but the approval reads a status and writes by id later; the  *)
(* approval locks its own refund's row but reads the order's other refunds *)
(* without a lock, at READ COMMITTED.                                      *)
(***************************************************************************)
EXTENDS Naturals, Functions

CONSTANTS
  Refund,    \* identifiers of refund rows: bounds how many are asked for
  Member,    \* requests under way of the order's owner
  Operator,  \* requests under way of administrators
  NoRefund,  \* an identifier whose row does not exist yet
  Paid       \* what the order's confirmed payment amounts to

\* The approve route takes any positive amount.
Amount == 1 .. Paid + 1

\* The statuses the code writes; a refund not approved yet has no approved amount.
Row == [status : {"REQUESTED", "APPROVED", "PAID_OUT", "REJECTED"}, approved : 0 .. Paid]

Anyone == Member \cup Operator

VARIABLES
  refund,  \* the refunds table
  job      \* where each request is

vars == <<refund, job>>

-------------------------------------------------------------------------------
(* Where a request is                                                             *)
(*   requesting  it has found no refund under way and will insert one             *)
(*   locked      in approveRefund, it holds the row lock of a refund it read open *)
(*   summed      and has found that the order's total stays within what was paid  *)
(*   rejecting   it has read its refund REQUESTED and will write it by id         *)
(*   paying      it has read its refund APPROVED and will write it by id          *)

Idle == [pc |-> "idle"]

Job ==
  {Idle, [pc |-> "requesting"]}
    \cup [pc : {"locked", "summed"}, of : Refund, amount : Amount]
    \cup [pc : {"rejecting", "paying"}, of : Refund]

Goto(p, j) == job' = [job EXCEPT ![p] = j]

Exists(r) == refund[r] # NoRefund

HasStatus(r, S) == Exists(r) /\ refund[r].status \in S

RowFree(r) == \A p \in Anyone : job[p].pc \in {"locked", "summed"} => job[p].of # r

TypeOK ==
  /\ refund \in [Refund -> Row \cup {NoRefund}]
  /\ job \in [Anyone -> Job]
  /\ \A p \in Anyone : job[p] # Idle /\ job[p].pc # "requesting" => Exists(job[p].of)

Init ==
  /\ refund = [r \in Refund |-> NoRefund]
  /\ job = [p \in Anyone |-> Idle]

-------------------------------------------------------------------------------
(* requestRefund, of an order with a confirmed payment *)

UnderWay == {"REQUESTED", "APPROVED"}

RequestRead(p) ==
  /\ job[p] = Idle
  /\ \A r \in Refund : ~HasStatus(r, UnderWay)
  /\ Goto(p, [pc |-> "requesting"])
  /\ UNCHANGED refund

RequestCreate(p, r) ==
  /\ job[p].pc = "requesting"
  /\ ~Exists(r)
  /\ refund' = [refund EXCEPT ![r] = [status |-> "REQUESTED", approved |-> 0]]
  /\ Goto(p, Idle)

-------------------------------------------------------------------------------
(* approveRefund *)

\* Seeded fault: a refund that was settled before can be approved again.
ApproveLockAny(p, r, amount) ==
  /\ job[p] = Idle
  /\ Exists(r) /\ RowFree(r)
  /\ Goto(p, [pc |-> "locked", of |-> r, amount |-> amount])
  /\ UNCHANGED refund

\* SELECT ... FOR UPDATE waits for the row, reads it as it is then and keeps it locked.
ApproveLock(p, r, amount) ==
  /\ job[p] = Idle
  /\ HasStatus(r, {"REQUESTED"}) /\ RowFree(r)
  /\ Goto(p, [pc |-> "locked", of |-> r, amount |-> amount])
  /\ UNCHANGED refund

\* What has been approved of each refund, in the rows committed by now.
Approved ==
  [r \in Refund |-> IF HasStatus(r, {"APPROVED", "PAID_OUT"}) THEN refund[r].approved ELSE 0]

\* The aggregate over the order's other refunds.
ApprovedElsewhere(r) == SumFunctionOnSet(Approved, Refund \ {r})

\* Seeded fault: the amount is not compared with what was paid.
ApproveSumUnchecked(p) ==
  /\ job[p].pc = "locked"
  /\ Goto(p, [job[p] EXCEPT !.pc = "summed"])
  /\ UNCHANGED refund

\* An amount too high makes the approval throw and roll back (see Fail).
ApproveSum(p) ==
  /\ job[p].pc = "locked"
  /\ ApprovedElsewhere(job[p].of) + job[p].amount <= Paid
  /\ Goto(p, [job[p] EXCEPT !.pc = "summed"])
  /\ UNCHANGED refund

ApproveCommit(p) ==
  /\ job[p].pc = "summed"
  /\ refund' = [refund EXCEPT ![job[p].of] = [status |-> "APPROVED", approved |-> job[p].amount]]
  /\ Goto(p, Idle)

-------------------------------------------------------------------------------
(* The reject route, and completeDemoRefund or recordManualPayout *)

RejectRead(p, r) ==
  /\ job[p] = Idle
  /\ HasStatus(r, {"REQUESTED"})
  /\ Goto(p, [pc |-> "rejecting", of |-> r])
  /\ UNCHANGED refund

PayoutRead(p, r) ==
  /\ job[p] = Idle
  /\ HasStatus(r, {"APPROVED"})
  /\ Goto(p, [pc |-> "paying", of |-> r])
  /\ UNCHANGED refund

\* Both write by id, whatever the refund has become, once its row lock is free.
Write(p, pc, status) ==
  /\ job[p].pc = pc
  /\ RowFree(job[p].of)
  /\ refund' = [refund EXCEPT ![job[p].of].status = status]
  /\ Goto(p, Idle)

RejectWrite(p) == Write(p, "rejecting", "REJECTED")

PayoutWrite(p) == Write(p, "paying", "PAID_OUT")

\* A request throws or its process dies; an open transaction rolls back.
Fail(p) ==
  /\ job[p] # Idle
  /\ Goto(p, Idle)
  /\ UNCHANGED refund

Next ==
  \/ \E p \in Member : RequestRead(p) \/ \E r \in Refund : RequestCreate(p, r)
  \/ \E p \in Operator :
       \/ \E r \in Refund :
            \/ \E amount \in Amount : ApproveLock(p, r, amount)
            \/ RejectRead(p, r)
            \/ PayoutRead(p, r)
       \/ ApproveSum(p)
       \/ ApproveCommit(p)
       \/ RejectWrite(p)
       \/ PayoutWrite(p)
  \/ \E p \in Anyone : Fail(p)

Spec == Init /\ [][Next]_vars

-------------------------------------------------------------------------------
(* Properties *)

\* What is approved and paid out of an order never exceeds what was paid for it, though
\* the owner's simultaneous requests can have several of its refunds under way at once.
NotOverRefunded == SumFunctionOnSet(Approved, Refund) <= Paid

\* A refund that was rejected or paid out stays as it was settled: it is neither
\* approved, rejected nor paid again.
SettledStays ==
  [][\A r \in Refund : HasStatus(r, {"REJECTED", "PAID_OUT"}) => refund'[r] = refund[r]]_vars
===============================================================================
