---------------------------- MODULE SlotAllocation ----------------------------
(***************************************************************************)
(* AllocationService.allocateSlot and everything else that writes the      *)
(* allocations table, down to the PostgreSQL behaviour the service relies  *)
(* on: the snapshot of a SERIALIZABLE transaction, FOR UPDATE SKIP LOCKED  *)
(* on the joined slot and group rows, and the two partial unique indexes.  *)
(*                                                                         *)
(* One product is modelled: allocateSlot's query never looks outside the   *)
(* product it is given, and a group belongs to one product.                *)
(***************************************************************************)
EXTENDS Naturals, FiniteSets

CONSTANTS
  Slot,           \* slots, numbered in the query's ORDER BY g.id, s."slotIndex"
  Group,          \* the subscription groups that own the slots
  GroupOf,        \* the group of each slot
  Sub,            \* subscriptions
  Session,        \* concurrent callers of allocateSlot
  Alloc,          \* identifiers of allocation rows: bounds how many are made
  NoRow,          \* an identifier whose row does not exist yet
  Nobody          \* no subscription (the ledger's free slot)

Status == {"RESERVED", "INVITED", "ACTIVE", "PENDING_RECLAIM", "RECLAIMED"}
Row == [slot : Slot, sub : Sub, status : Status]

ASSUME SlotAssumption   == Slot \subseteq Nat
ASSUME GroupAssumption  == GroupOf \in [Slot -> Group]
ASSUME NoRowAssumption  == NoRow \notin Row
ASSUME FreeAssumption   == Nobody \notin Sub

VARIABLES
  allocation,  \* the allocations table
  open,        \* groups that are ACTIVE and policyVerified
  tx           \* the allocateSlot transaction each session has in flight

vars == <<allocation, open, tx>>

-------------------------------------------------------------------------------
(* Rows and indexes *)

Live(a) == allocation[a] # NoRow /\ allocation[a].status # "RECLAIMED"

Held(k) == \E a \in Alloc : Live(a) /\ allocation[a].slot = k

HasAllocation(s) == \E a \in Alloc : Live(a) /\ allocation[a].sub = s

\* Seeded faults: one of the two partial unique indexes is missing.
NoSlotIndex(a, r) ==
  r.status # "RECLAIMED" =>
    \A b \in Alloc \ {a} : Live(b) => allocation[b].sub # r.sub

NoSubscriptionIndex(a, r) ==
  r.status # "RECLAIMED" =>
    \A b \in Alloc \ {a} : Live(b) => allocation[b].slot # r.slot

\* The partial unique indexes on "slotId" and "subscriptionId", both WHERE
\* status != 'RECLAIMED', let r become the row a.
IndexesAdmit(a, r) ==
  r.status # "RECLAIMED" =>
    \A b \in Alloc \ {a} :
      Live(b) => allocation[b].slot # r.slot /\ allocation[b].sub # r.sub

-------------------------------------------------------------------------------
(* The transaction of allocateSlot                                         *)
(*   scan    its snapshot is taken and shows no live row for sub;          *)
(*           candidates is what the query's WHERE keeps of that snapshot   *)
(*   locked  it holds FOR UPDATE locks on slot and on the slot's group     *)

Idle == [phase |-> "idle"]

Scan == [phase : {"scan"}, sub : Sub, candidates : SUBSET Slot, patched : SUBSET Group]

Locked == [phase : {"locked"}, sub : Sub, slot : Slot]

LockedByOther(p, g) ==
  \E q \in Session \ {p} : tx[q].phase = "locked" /\ GroupOf[tx[q].slot] = g

\* The candidates SKIP LOCKED does not pass over.  A group row changed since the
\* snapshot is not passed over: locking it fails the transaction.
Lockable(p) ==
  {k \in tx[p].candidates :
     GroupOf[k] \in tx[p].patched \/ ~LockedByOther(p, GroupOf[k])}

First(S) == CHOOSE k \in S : \A l \in S : k <= l

TypeOK ==
  /\ allocation \in [Alloc -> Row \cup {NoRow}]
  /\ open \subseteq Group
  /\ tx \in [Session -> {Idle} \cup Scan \cup Locked]

Init ==
  /\ allocation = [a \in Alloc |-> NoRow]
  /\ open \in SUBSET Group
  /\ tx = [p \in Session |-> Idle]

-------------------------------------------------------------------------------
(* Steps of one allocateSlot transaction *)

\* First query of the transaction: the snapshot is taken.  A live row of s would be
\* returned as it is; with none, the slots the SELECT will range over are settled now.
BeginScan(p, s) ==
  /\ tx[p].phase = "idle"
  /\ ~HasAllocation(s)
  /\ tx' = [tx EXCEPT ![p] =
              [phase      |-> "scan",
               sub        |-> s,
               candidates |-> {k \in Slot : GroupOf[k] \in open /\ ~Held(k)},
               patched    |-> {}]]
  /\ UNCHANGED <<allocation, open>>

\* SELECT ... ORDER BY ... LIMIT 1 FOR UPDATE SKIP LOCKED returns slot k.  Both joined
\* rows are locked, the slot's and its group's.
LockSlot(p, k) ==
  /\ tx[p].phase = "scan"
  /\ k \in Lockable(p)
  /\ k = First(Lockable(p))
  /\ GroupOf[k] \notin tx[p].patched
  /\ tx' = [tx EXCEPT ![p] = [phase |-> "locked", sub |-> tx[p].sub, slot |-> k]]
  /\ UNCHANGED <<allocation, open>>

\* The SELECT returns nothing and allocateSlot throws.
NoSlot(p) ==
  /\ tx[p].phase = "scan"
  /\ Lockable(p) = {}
  /\ tx' = [tx EXCEPT ![p] = Idle]
  /\ UNCHANGED <<allocation, open>>

\* The RESERVED row is inserted and the transaction commits.
Reserve(p, a) ==
  LET r == [slot |-> tx[p].slot, sub |-> tx[p].sub, status |-> "RESERVED"] IN
  /\ tx[p].phase = "locked"
  /\ allocation[a] = NoRow
  /\ IndexesAdmit(a, r)
  /\ allocation' = [allocation EXCEPT ![a] = r]
  /\ tx' = [tx EXCEPT ![p] = Idle]
  /\ UNCHANGED open

\* The transaction ends without a row: unique violation, serialization failure, the
\* ten-second timeout, a failed audit write or a lost connection.
Abort(p) ==
  /\ tx[p].phase # "idle"
  /\ tx' = [tx EXCEPT ![p] = Idle]
  /\ UNCHANGED <<allocation, open>>

-------------------------------------------------------------------------------
(* The other writers of the table.  Each is an UPDATE by id whose caller looked *)
(* at the row, if at all, in an earlier statement: the row may be in any status *)
(* by the time it is written, RECLAIMED included.                               *)

WriteStatus(a, st) ==
  /\ allocation[a] # NoRow
  /\ IndexesAdmit(a, [allocation[a] EXCEPT !.status = st])
  /\ allocation' = [allocation EXCEPT ![a].status = st]
  /\ UNCHANGED <<open, tx>>

Invite(a) == WriteStatus(a, "INVITED")

Activate(a) == WriteStatus(a, "ACTIVE")

MarkPendingReclaim(a) == WriteStatus(a, "PENDING_RECLAIM")

\* Seeded fault: releasing hands the seat straight to the next subscription.
ReleaseToNext(a) ==
  /\ allocation[a] # NoRow
  /\ \E s \in Sub :
       LET r == [allocation[a] EXCEPT !.sub = s] IN
       IndexesAdmit(a, r) /\ allocation' = [allocation EXCEPT ![a] = r]
  /\ UNCHANGED <<open, tx>>

ReleaseSlot(a) == WriteStatus(a, "RECLAIMED")

\* Seeded fault: the PATCH does not wait for the lock on the group row.
PatchGroupAtOnce(g, opened) ==
  /\ open' = IF opened THEN open \cup {g} ELSE open \ {g}
  /\ tx' = [p \in Session |->
              IF tx[p].phase = "scan"
              THEN [tx[p] EXCEPT !.patched = @ \cup {g}] ELSE tx[p]]
  /\ UNCHANGED allocation

\* The administrator's PATCH of a group.  It waits for the row lock of a transaction
\* that has locked the group, and is a concurrent update for every older snapshot.
PatchGroup(g, opened) ==
  /\ \A p \in Session : tx[p].phase = "locked" => GroupOf[tx[p].slot] # g
  /\ open' = IF opened THEN open \cup {g} ELSE open \ {g}
  /\ tx' = [p \in Session |->
              IF tx[p].phase = "scan"
              THEN [tx[p] EXCEPT !.patched = @ \cup {g}] ELSE tx[p]]
  /\ UNCHANGED allocation

Next ==
  \/ \E p \in Session :
       \/ \E s \in Sub : BeginScan(p, s)
       \/ \E k \in Slot : LockSlot(p, k)
       \/ NoSlot(p)
       \/ \E a \in Alloc : Reserve(p, a)
       \/ Abort(p)
  \/ \E a \in Alloc : Invite(a) \/ Activate(a) \/ MarkPendingReclaim(a) \/ ReleaseSlot(a)
  \/ \E g \in Group, opened \in BOOLEAN : PatchGroup(g, opened)

Spec == Init /\ [][Next]_vars

-------------------------------------------------------------------------------
(* Properties *)

\* No slot is ever in use by two subscriptions at once, whatever transactions overlap
\* and however stale the status writers are: allocation_slot_active_unique.
SlotExclusive ==
  \A a, b \in Alloc :
    Live(a) /\ Live(b) /\ a # b => allocation[a].slot # allocation[b].slot

\* No subscription ever occupies two slots at once, although two calls of allocateSlot
\* for it may both have seen no live row: allocation_subscription_active_unique.
SubscriptionExclusive ==
  \A a, b \in Alloc :
    Live(a) /\ Live(b) /\ a # b => allocation[a].sub # allocation[b].sub

\* A live row pairs one slot with one subscription: what a slot sold twice would break.
Exclusive == SlotExclusive /\ SubscriptionExclusive

\* Two transactions never hold locks in the same group: the lock on the joined group
\* row is exclusive, which serializes allocation within a group.
GroupLockExclusive ==
  \A p, q \in Session :
    /\ p # q
    /\ tx[p].phase = "locked"
    /\ tx[q].phase = "locked"
    => GroupOf[tx[p].slot] # GroupOf[tx[q].slot]

\* A candidate of an old snapshot is in a group that is still open, or in one whose
\* change this transaction will run into when it tries to lock it.
ScanFresh ==
  \A p \in Session :
    tx[p].phase = "scan" =>
      \A k \in tx[p].candidates : GroupOf[k] \in open \cup tx[p].patched

\* While a transaction holds its locks the group it allocates in stays open.
LockedOpen ==
  \A p \in Session : tx[p].phase = "locked" => GroupOf[tx[p].slot] \in open

\* What FOR UPDATE on the joined rows buys allocateSlot, at every moment of every
\* overlap of transactions and group PATCHes.
LockDiscipline == GroupLockExclusive /\ ScanFresh /\ LockedOpen

\* A seat is only handed out in a group that is ACTIVE and policyVerified at that very
\* moment, not just when the caller's snapshot was taken: an administrator who suspends
\* a group has, once the PATCH returns, seen the last new subscriber arrive there.
OnlyOpenGroups ==
  [][\A a \in Alloc :
       allocation[a] = NoRow /\ allocation'[a] # NoRow
         => GroupOf[allocation'[a].slot] \in open]_vars

\* The table implements the ledger: the holder of a slot is the subscription of its
\* live row.
HolderOf ==
  [k \in Slot |->
     IF Held(k)
     THEN allocation[CHOOSE a \in Alloc : Live(a) /\ allocation[a].slot = k].sub
     ELSE Nobody]

Ledger == INSTANCE SlotLedger WITH holder <- HolderOf

\* Every step of allocateSlot and of the status writers assigns a free slot to a
\* subscription without one, releases a slot, or leaves the ledger alone.  A stale
\* write that brings a RECLAIMED row back is such an assignment too.
ImplementsLedger == Ledger!LedgerSpec
===============================================================================
