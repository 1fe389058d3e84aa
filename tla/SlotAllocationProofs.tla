------------------------- MODULE SlotAllocationProofs -------------------------
(***************************************************************************)
(* Theorems of SlotAllocation, for any number of slots, groups, sessions,  *)
(* subscriptions and rows.                                                 *)
(***************************************************************************)
EXTENDS SlotAllocation, TLAPS

-------------------------------------------------------------------------------
(* Type correctness *)

\* One step of allocateSlot, of a status writer or of the group PATCH keeps the
\* tables and the transactions well formed.
LEMMA TypeStep == TypeOK /\ [Next]_vars => TypeOK'
<1> SUFFICES ASSUME TypeOK, [Next]_vars PROVE TypeOK'
  OBVIOUS
<1> USE DEF TypeOK
<1>1. ASSUME NEW p \in Session, NEW s \in Sub, BeginScan(p, s)
      PROVE  TypeOK'
  <2> DEFINE t == [phase |-> "scan", sub |-> s,
                   candidates |-> {k \in Slot : GroupOf[k] \in open /\ ~Held(k)},
                   patched |-> {}]
  <2>1. t \in Scan
    BY DEF Scan
  <2>2. tx' = [tx EXCEPT ![p] = t]
    BY <1>1 DEF BeginScan
  <2> QED
    BY <1>1, <2>1, <2>2 DEF BeginScan
<1>2. ASSUME NEW p \in Session, NEW k \in Slot, LockSlot(p, k)
      PROVE  TypeOK'
  <2>1. tx[p].sub \in Sub
    BY <1>2 DEF LockSlot, Idle, Scan, Locked
  <2>2. [phase |-> "locked", sub |-> tx[p].sub, slot |-> k] \in Locked
    BY <2>1 DEF Locked
  <2> QED
    BY <1>2, <2>2 DEF LockSlot
<1>3. ASSUME NEW p \in Session, NoSlot(p)
      PROVE  TypeOK'
  BY <1>3 DEF NoSlot
<1>4. ASSUME NEW p \in Session, NEW a \in Alloc, Reserve(p, a)
      PROVE  TypeOK'
  <2>1. tx[p] \in Locked
    BY <1>4 DEF Reserve, Idle, Scan, Locked
  <2>2. [slot |-> tx[p].slot, sub |-> tx[p].sub, status |-> "RESERVED"] \in Row
    BY <2>1 DEF Locked, Row, Status
  <2> QED
    BY <1>4, <2>2 DEF Reserve
<1>5. ASSUME NEW p \in Session, Abort(p)
      PROVE  TypeOK'
  BY <1>5 DEF Abort
<1>6. ASSUME NEW a \in Alloc, NEW st \in Status, WriteStatus(a, st)
      PROVE  TypeOK'
  <2>1. allocation[a] \in Row
    BY <1>6 DEF WriteStatus
  <2>2. [allocation[a] EXCEPT !.status = st] \in Row
    BY <2>1 DEF Row
  <2>3. allocation' = [allocation EXCEPT ![a] = [allocation[a] EXCEPT !.status = st]]
    BY <1>6 DEF WriteStatus
  <2> QED
    BY <1>6, <2>2, <2>3 DEF WriteStatus
<1>7. ASSUME NEW g \in Group, NEW opened \in BOOLEAN, PatchGroup(g, opened)
      PROVE  TypeOK'
  <2>1. \A p \in Session : tx'[p] \in {Idle} \cup Scan \cup Locked
    <3> TAKE p \in Session
    <3>1. CASE tx[p].phase = "scan"
      <4>1. tx[p] \in Scan
        BY <3>1 DEF Idle, Scan, Locked
      <4>2. [tx[p] EXCEPT !.patched = @ \cup {g}] \in Scan
        BY <4>1 DEF Scan
      <4> QED
        BY <3>1, <4>2, <1>7 DEF PatchGroup
    <3>2. CASE tx[p].phase # "scan"
      BY <3>2, <1>7 DEF PatchGroup
    <3> QED
      BY <3>1, <3>2
  <2>2. tx' \in [Session -> {Idle} \cup Scan \cup Locked]
    BY <2>1, <1>7 DEF PatchGroup
  <2> QED
    BY <2>2, <1>7 DEF PatchGroup
<1>8. CASE UNCHANGED vars
  BY <1>8 DEF vars
<1> QED
  BY <1>1, <1>2, <1>3, <1>4, <1>5, <1>6, <1>7, <1>8
     DEF Next, Invite, Activate, MarkPendingReclaim, ReleaseSlot, Status

\* The allocations table, the set of open groups and the transactions in flight
\* always have their types.
THEOREM TypeCorrect == Spec => []TypeOK
<1>1. Init => TypeOK
  BY DEF Init, TypeOK
<1> QED
  BY <1>1, TypeStep, PTL DEF Spec

-------------------------------------------------------------------------------
(* The unique indexes keep slots and subscriptions apart *)

\* A row the indexes admit can be written without two live rows ever sharing a slot
\* or a subscription.
LEMMA AdmittedWrite ==
  ASSUME TypeOK, Exclusive, NEW a \in Alloc, NEW r \in Row,
         IndexesAdmit(a, r), allocation' = [allocation EXCEPT ![a] = r]
  PROVE  Exclusive'
<1>1. ASSUME NEW b \in Alloc, NEW c \in Alloc, b # c, Live(b)', Live(c)'
      PROVE  /\ allocation'[b].slot # allocation'[c].slot
             /\ allocation'[b].sub # allocation'[c].sub
  <2>1. ASSUME NEW d \in Alloc, d # a
        PROVE  allocation'[d] = allocation[d] /\ (Live(d)' <=> Live(d))
    BY <2>1 DEF TypeOK, Live
  <2>2. allocation'[a] = r /\ (Live(a)' => r.status # "RECLAIMED")
    BY DEF TypeOK, Live
  <2>3. CASE b = a
    BY <1>1, <2>1, <2>2, <2>3 DEF IndexesAdmit
  <2>4. CASE c = a
    BY <1>1, <2>1, <2>2, <2>4 DEF IndexesAdmit
  <2>5. CASE b # a /\ c # a
    BY <1>1, <2>1, <2>5 DEF Exclusive, SlotExclusive, SubscriptionExclusive
  <2> QED
    BY <2>3, <2>4, <2>5
<1> QED
  BY <1>1 DEF Exclusive, SlotExclusive, SubscriptionExclusive

\* Reserve and every status writer is a write the indexes admit; no other step
\* touches the table.
LEMMA TableStep ==
  ASSUME TypeOK, [Next]_vars
  PROVE  \/ UNCHANGED allocation
         \/ \E a \in Alloc, r \in Row :
              /\ IndexesAdmit(a, r)
              /\ allocation' = [allocation EXCEPT ![a] = r]
              /\ \/ allocation[a] = NoRow
                 \/ /\ allocation[a] # NoRow
                    /\ r.slot = allocation[a].slot
                    /\ r.sub = allocation[a].sub
<1> USE DEF TypeOK
<1>1. ASSUME NEW p \in Session, NEW a \in Alloc, Reserve(p, a)
      PROVE  \E r \in Row : /\ IndexesAdmit(a, r)
                            /\ allocation' = [allocation EXCEPT ![a] = r]
                            /\ allocation[a] = NoRow
  <2>1. tx[p] \in Locked
    BY <1>1 DEF Reserve, Idle, Scan, Locked
  <2>2. [slot |-> tx[p].slot, sub |-> tx[p].sub, status |-> "RESERVED"] \in Row
    BY <2>1 DEF Locked, Row, Status
  <2> QED
    BY <1>1, <2>2 DEF Reserve
<1>2. ASSUME NEW a \in Alloc, NEW st \in Status, WriteStatus(a, st)
      PROVE  \E r \in Row : /\ IndexesAdmit(a, r)
                            /\ allocation' = [allocation EXCEPT ![a] = r]
                            /\ allocation[a] # NoRow
                            /\ r.slot = allocation[a].slot
                            /\ r.sub = allocation[a].sub
  <2> DEFINE r == [allocation[a] EXCEPT !.status = st]
  <2>1. allocation[a] \in Row /\ allocation[a] # NoRow
    BY <1>2 DEF WriteStatus
  <2>2. r \in Row /\ r.slot = allocation[a].slot /\ r.sub = allocation[a].sub
    BY <2>1 DEF Row
  <2>3. allocation' = [allocation EXCEPT ![a] = r] /\ IndexesAdmit(a, r)
    BY <1>2 DEF WriteStatus
  <2> HIDE DEF r
  <2> QED
    BY <2>1, <2>2, <2>3
<1>3. CASE UNCHANGED vars
  BY <1>3 DEF vars
<1>4. ASSUME NEW p \in Session,
             \/ \E s \in Sub : BeginScan(p, s)
             \/ \E k \in Slot : LockSlot(p, k)
             \/ NoSlot(p)
             \/ Abort(p)
      PROVE  UNCHANGED allocation
  BY <1>4 DEF BeginScan, LockSlot, NoSlot, Abort
<1>5. ASSUME NEW g \in Group, NEW opened \in BOOLEAN, PatchGroup(g, opened)
      PROVE  UNCHANGED allocation
  BY <1>5 DEF PatchGroup
<1> QED
  BY <1>1, <1>2, <1>3, <1>4, <1>5
     DEF Next, Invite, Activate, MarkPendingReclaim, ReleaseSlot, Status

\* Whatever overlaps, the rows that are not RECLAIMED never share a slot and never
\* share a subscription.
THEOREM AllocationExclusive == Spec => []Exclusive
<1>1. Init => Exclusive
  BY DEF Init, Exclusive, SlotExclusive, SubscriptionExclusive, Live
<1>2. TypeOK /\ Exclusive /\ [Next]_vars => Exclusive'
  <2> SUFFICES ASSUME TypeOK, Exclusive, [Next]_vars PROVE Exclusive'
    OBVIOUS
  <2>1. CASE UNCHANGED allocation
    BY <2>1 DEF Exclusive, SlotExclusive, SubscriptionExclusive, Live
  <2>2. CASE \E a \in Alloc, r \in Row :
               IndexesAdmit(a, r) /\ allocation' = [allocation EXCEPT ![a] = r]
    BY <2>2, AdmittedWrite
  <2> QED
    BY <2>1, <2>2, TableStep
<1> QED
  BY <1>1, <1>2, TypeCorrect, PTL DEF Spec

-------------------------------------------------------------------------------
(* The lock on the group row *)

\* Each step of Next keeps the three parts of LockDiscipline together.
LEMMA LockStep == TypeOK /\ LockDiscipline /\ [Next]_vars => LockDiscipline'
<1> SUFFICES ASSUME TypeOK, LockDiscipline, [Next]_vars
             PROVE  LockDiscipline'
  OBVIOUS
<1> USE DEF LockDiscipline, GroupLockExclusive, ScanFresh, LockedOpen
<1>1. ASSUME NEW p \in Session, NEW s \in Sub, BeginScan(p, s)
      PROVE  LockDiscipline'
  <2>1. /\ tx'[p].phase = "scan"
        /\ \A k \in tx'[p].candidates : GroupOf[k] \in open
    BY <1>1 DEF TypeOK, BeginScan
  <2>2. \A q \in Session \ {p} : tx'[q] = tx[q]
    BY <1>1 DEF TypeOK, BeginScan
  <2>3. open' = open
    BY <1>1 DEF BeginScan
  <2> QED
    BY <2>1, <2>2, <2>3
<1>2. ASSUME NEW p \in Session, NEW k \in Slot, LockSlot(p, k)
      PROVE  LockDiscipline'
  <2>1. tx'[p].phase = "locked" /\ tx'[p].slot = k
    BY <1>2 DEF TypeOK, LockSlot
  <2>2. \A q \in Session \ {p} : tx'[q] = tx[q]
    BY <1>2 DEF TypeOK, LockSlot
  <2>3. open' = open /\ GroupOf[k] \in open
    BY <1>2 DEF LockSlot, Lockable
  <2>4. \A q \in Session \ {p} : tx[q].phase = "locked" => GroupOf[tx[q].slot] # GroupOf[k]
    BY <1>2 DEF LockSlot, Lockable, LockedByOther
  <2> QED
    BY <2>1, <2>2, <2>3, <2>4
<1>3. ASSUME NEW p \in Session, tx' = [tx EXCEPT ![p] = Idle], UNCHANGED open
      PROVE  LockDiscipline'
  <2>1. tx'[p].phase = "idle"
    BY <1>3 DEF TypeOK, Idle
  <2>2. \A q \in Session \ {p} : tx'[q] = tx[q]
    BY <1>3 DEF TypeOK
  <2> QED
    BY <1>3, <2>1, <2>2
<1>4. ASSUME NEW g \in Group, NEW opened \in BOOLEAN, PatchGroup(g, opened)
      PROVE  LockDiscipline'
  <2>1. open \ {g} \subseteq open'
    BY <1>4 DEF PatchGroup
  <2>2. ASSUME NEW q \in Session, tx[q].phase # "scan"
        PROVE  tx'[q] = tx[q]
    BY <1>4, <2>2 DEF PatchGroup
  <2>3. ASSUME NEW q \in Session, tx[q].phase = "scan"
        PROVE  /\ tx'[q].phase = "scan"
               /\ tx'[q].candidates = tx[q].candidates
               /\ tx'[q].patched = tx[q].patched \cup {g}
    <3>1. tx[q] \in Scan
      BY <2>3 DEF TypeOK, Idle, Locked, Scan
    <3>2. tx'[q] = [tx[q] EXCEPT !.patched = @ \cup {g}]
      BY <1>4, <2>3 DEF PatchGroup
    <3> QED
      BY <2>3, <3>1, <3>2 DEF Scan
  <2>4. \A q \in Session : tx[q].phase = "locked" => GroupOf[tx[q].slot] # g
    BY <1>4 DEF PatchGroup
  <2>5. GroupLockExclusive'
    BY <2>2, <2>3
  <2>6. ScanFresh'
    <3> SUFFICES ASSUME NEW q \in Session, tx'[q].phase = "scan",
                        NEW k \in tx'[q].candidates
                 PROVE  GroupOf[k] \in open' \cup tx'[q].patched
      OBVIOUS
    <3>1. tx[q].phase = "scan"
      BY <2>2
    <3>2. GroupOf[k] \in open \cup tx[q].patched
      BY <3>1, <2>3
    <3> QED
      BY <3>1, <3>2, <2>1, <2>3
  <2>7. LockedOpen'
    BY <2>1, <2>2, <2>3, <2>4
  <2> QED
    BY <2>5, <2>6, <2>7
<1>5. CASE UNCHANGED <<open, tx>>
  BY <1>5
<1> QED
  BY <1>1, <1>2, <1>3, <1>4, <1>5
     DEF Next, NoSlot, Reserve, Abort, Invite, Activate, MarkPendingReclaim,
         ReleaseSlot, WriteStatus, vars

\* No two transactions ever hold locks in one group, and a group in which a slot is
\* locked stays ACTIVE and policyVerified until the transaction ends.
THEOREM LocksDisciplined == Spec => []LockDiscipline
<1>1. Init => LockDiscipline
  BY DEF Init, Idle, LockDiscipline, GroupLockExclusive, ScanFresh, LockedOpen
<1> QED
  BY <1>1, LockStep, TypeCorrect, PTL DEF Spec

\* No slot is handed out in a group that is not open when the row is inserted,
\* although the choice was made on an older snapshot.
THEOREM AllocatedInOpenGroup == Spec => OnlyOpenGroups
<1> DEFINE Opened == \A a \in Alloc : allocation[a] = NoRow /\ allocation'[a] # NoRow
                                      => GroupOf[allocation'[a].slot] \in open
<1>1. TypeOK /\ LockDiscipline /\ [Next]_vars => [Opened]_vars
  <2> SUFFICES ASSUME TypeOK, LockDiscipline, [Next]_vars, NEW a \in Alloc,
                      allocation[a] = NoRow, allocation'[a] # NoRow
               PROVE  GroupOf[allocation'[a].slot] \in open
    OBVIOUS
  <2>1. PICK p \in Session : Reserve(p, a)
    BY DEF TypeOK, Next, vars, BeginScan, LockSlot, NoSlot, Reserve, Abort, Invite,
           Activate, MarkPendingReclaim, ReleaseSlot, WriteStatus, PatchGroup
  <2>2. allocation'[a].slot = tx[p].slot /\ tx[p].phase = "locked"
    BY <2>1 DEF TypeOK, Reserve
  <2> QED
    BY <2>2 DEF LockDiscipline, LockedOpen
<1> QED
  BY <1>1, TypeCorrect, LocksDisciplined, PTL DEF Spec, OnlyOpenGroups

-------------------------------------------------------------------------------
(* The table implements the ledger *)

HoldersKnown ==
  /\ HolderOf \in [Slot -> Sub \cup {Nobody}]
  /\ \A a \in Alloc : Live(a) => HolderOf[allocation[a].slot] = allocation[a].sub
  /\ \A k \in Slot : ~Held(k) => HolderOf[k] = Nobody

\* With live rows apart, the row CHOOSE picks for a slot is the only one there is.
LEMMA HolderFacts == TypeOK /\ Exclusive => HoldersKnown
<1> SUFFICES ASSUME TypeOK, Exclusive PROVE HoldersKnown
  OBVIOUS
<1>1. ASSUME NEW k \in Slot, Held(k)
      PROVE  \E a \in Alloc : /\ Live(a) /\ allocation[a].slot = k
                             /\ HolderOf[k] = allocation[a].sub
  <2> DEFINE c == CHOOSE a \in Alloc : Live(a) /\ allocation[a].slot = k
  <2>1. c \in Alloc /\ Live(c) /\ allocation[c].slot = k
    BY <1>1 DEF Held
  <2>2. HolderOf[k] = allocation[c].sub
    BY <1>1 DEF HolderOf
  <2> QED
    BY <2>1, <2>2
<1>2. ASSUME NEW a \in Alloc, Live(a)
      PROVE  allocation[a] \in Row /\ Held(allocation[a].slot)
  BY <1>2 DEF TypeOK, Live, Held, Row
<1>3. \A a \in Alloc : Live(a) => HolderOf[allocation[a].slot] = allocation[a].sub
  <2> TAKE a \in Alloc
  <2> HAVE Live(a)
  <2>1. allocation[a].slot \in Slot /\ Held(allocation[a].slot)
    BY <1>2 DEF Row
  <2>2. PICK b \in Alloc : /\ Live(b) /\ allocation[b].slot = allocation[a].slot
                           /\ HolderOf[allocation[a].slot] = allocation[b].sub
    BY <1>1, <2>1
  <2>3. b = a
    BY <2>2 DEF Exclusive, SlotExclusive
  <2> QED
    BY <2>2, <2>3
<1>4. \A k \in Slot : ~Held(k) => HolderOf[k] = Nobody
  BY DEF HolderOf
<1>5. HolderOf \in [Slot -> Sub \cup {Nobody}]
  <2>1. \A k \in Slot : HolderOf[k] \in Sub \cup {Nobody}
    <3> TAKE k \in Slot
    <3>1. CASE Held(k)
      BY <3>1, <1>1, <1>2 DEF Row
    <3>2. CASE ~Held(k)
      BY <3>2, <1>4
    <3> QED
      BY <3>1, <3>2
  <2> QED
    BY <2>1 DEF HolderOf
<1> QED
  BY <1>3, <1>4, <1>5 DEF HoldersKnown

\* A write the indexes admit is, seen through HolderOf, an assignment of a free slot
\* to a subscription without one, a release, or nothing.
LEMMA LedgerWrite ==
  ASSUME TypeOK, Exclusive, HoldersKnown, HoldersKnown',
         NEW a \in Alloc, NEW r \in Row,
         IndexesAdmit(a, r), allocation' = [allocation EXCEPT ![a] = r],
         \/ allocation[a] = NoRow
         \/ /\ allocation[a] # NoRow
            /\ r.slot = allocation[a].slot
            /\ r.sub = allocation[a].sub
  PROVE  Ledger!LedgerNext \/ HolderOf' = HolderOf
<1> DEFINE k == r.slot
           s == r.sub
<1>1. k \in Slot /\ s \in Sub /\ s # Nobody
  BY FreeAssumption DEF Row
<1>2. /\ allocation'[a] = r
      /\ \A b \in Alloc \ {a} : allocation'[b] = allocation[b] /\ (Live(b)' <=> Live(b))
  BY DEF TypeOK, Live
<1>3. Live(a)' <=> r.status # "RECLAIMED"
  BY <1>2, NoRowAssumption DEF Live
<1>4. \A l \in Slot \ {k} : Held(l)' <=> Held(l)
  BY <1>2 DEF Held, Live
<1>5. \A l \in Slot \ {k} : HolderOf'[l] = HolderOf[l]
  <2> TAKE l \in Slot \ {k}
  <2>1. CASE Held(l)
    <3>1. PICK b \in Alloc : Live(b) /\ allocation[b].slot = l
      BY <2>1 DEF Held
    <3>2. b # a
      BY <3>1 DEF Live
    <3>3. Live(b)' /\ allocation'[b] = allocation[b]
      BY <1>2, <3>1, <3>2
    <3> QED
      BY <3>1, <3>3 DEF HoldersKnown
  <2>2. CASE ~Held(l)
    BY <1>4, <2>2 DEF HoldersKnown
  <2> QED
    BY <2>1, <2>2
<1>6. HolderOf \in [Slot -> Sub \cup {Nobody}] /\ HolderOf' \in [Slot -> Sub \cup {Nobody}]
  BY DEF HoldersKnown
<1>7. CASE r.status # "RECLAIMED" /\ Live(a)
  <2>1. HolderOf'[k] = s /\ HolderOf[k] = s
    BY <1>2, <1>3, <1>7 DEF HoldersKnown, Live
  <2> QED
    BY <1>5, <1>6, <2>1
<1>8. CASE r.status # "RECLAIMED" /\ ~Live(a)
  <2>1. ~Held(k)
    BY <1>8 DEF Held, IndexesAdmit
  <2>2. HolderOf[k] = Nobody /\ HolderOf'[k] = s
    BY <1>1, <1>2, <1>3, <1>8, <2>1 DEF HoldersKnown
  <2>3. \A l \in Slot : HolderOf[l] # s
    <3> TAKE l \in Slot
    <3>1. CASE Held(l)
      <4>1. PICK b \in Alloc : Live(b) /\ allocation[b].slot = l
        BY <3>1 DEF Held
      <4>2. HolderOf[l] = allocation[b].sub
        BY <4>1 DEF HoldersKnown
      <4> QED
        BY <1>8, <4>1, <4>2 DEF IndexesAdmit
    <3>2. CASE ~Held(l)
      BY <1>1, <3>2 DEF HoldersKnown
    <3> QED
      BY <3>1, <3>2
  <2>4. HolderOf' = [HolderOf EXCEPT ![k] = s]
    BY <1>1, <1>5, <1>6, <2>2
  <2>5. Ledger!Assign(k, s)
    BY <2>2, <2>3, <2>4 DEF Ledger!Assign, Ledger!HoldsNone
  <2> QED
    BY <1>1, <2>5 DEF Ledger!LedgerNext
<1>9. CASE r.status = "RECLAIMED" /\ Live(a)
  <2>1. HolderOf[k] = s
    BY <1>9 DEF HoldersKnown, Live
  <2>2. ~Held(k)'
    BY <1>2, <1>3, <1>9 DEF Held, Exclusive, SlotExclusive, Live
  <2>3. HolderOf'[k] = Nobody
    BY <1>1, <2>2 DEF HoldersKnown
  <2>4. HolderOf' = [HolderOf EXCEPT ![k] = Nobody]
    BY <1>1, <1>5, <1>6, <2>3
  <2>5. Ledger!Release(k)
    BY <1>1, <2>1, <2>4 DEF Ledger!Release
  <2> QED
    BY <1>1, <2>5 DEF Ledger!LedgerNext
<1>10. CASE r.status = "RECLAIMED" /\ ~Live(a)
  <2>1. Held(k)' <=> Held(k)
    BY <1>2, <1>3, <1>10 DEF Held
  <2>2. HolderOf'[k] = HolderOf[k]
    <3>1. CASE Held(k)
      <4>1. PICK b \in Alloc : Live(b) /\ allocation[b].slot = k
        BY <3>1 DEF Held
      <4>2. Live(b)' /\ allocation'[b] = allocation[b]
        BY <1>2, <1>10, <4>1
      <4> QED
        BY <4>1, <4>2 DEF HoldersKnown
    <3>2. CASE ~Held(k)
      BY <1>1, <2>1, <3>2 DEF HoldersKnown
    <3> QED
      BY <3>1, <3>2
  <2> QED
    BY <1>5, <1>6, <2>2
<1> QED
  BY <1>7, <1>8, <1>9, <1>10

\* allocateSlot with its overlapping transactions, and every writer of the table,
\* implements the ledger: each step is one ledger step or none.
THEOREM AllocationImplementsLedger == Spec => ImplementsLedger
<1>1. Init => Ledger!LedgerInit
  BY DEF Init, Ledger!LedgerInit, HolderOf, Held, Live
<1>2. /\ TypeOK /\ Exclusive /\ HoldersKnown /\ HoldersKnown' /\ [Next]_vars
      => [Ledger!LedgerNext]_HolderOf
  <2> SUFFICES ASSUME TypeOK, Exclusive, HoldersKnown, HoldersKnown', [Next]_vars
               PROVE  Ledger!LedgerNext \/ HolderOf' = HolderOf
    OBVIOUS
  <2>1. CASE UNCHANGED allocation
    BY <2>1 DEF HolderOf, Held, Live
  <2>2. CASE ~UNCHANGED allocation
    BY <2>2, TableStep, LedgerWrite
  <2> QED
    BY <2>1, <2>2
<1>3. Spec => []Exclusive
  BY AllocationExclusive, PTL
<1>4. Spec => []HoldersKnown
  BY <1>3, TypeCorrect, HolderFacts, PTL
<1> QED
  BY <1>1, <1>2, <1>3, <1>4, TypeCorrect, PTL
     DEF Spec, ImplementsLedger, Ledger!LedgerSpec
===============================================================================
