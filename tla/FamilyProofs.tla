------------------------------ MODULE FamilyProofs -----------------------------
(***************************************************************************)
(* Theorems about the family groups an operator does not see: FamilyQueue, *)
(* whose jobs work on their owner accounts, for any number of jobs,        *)
(* accounts, retries and crashes; and CsvImport, which makes them of a     *)
(* sheet, for a sheet of any size and any number of groups, edits and      *)
(* breaks.  The two share no state, and each has its own specification.    *)
(***************************************************************************)
EXTENDS FamilyQueue, CsvImport, FiniteSetTheorems, NaturalsInduction, WellFoundedInduction,
        TLAPS

-------------------------------------------------------------------------------
(* Least and greatest *)

\* The order of the naturals, as a relation, is well founded.
Less == {ij \in Nat \X Nat : ij[1] < ij[2]}

\* A nonempty set of naturals has a least element.
LEMMA Least ==
  ASSUME NEW T \in SUBSET Nat, T # {}
  PROVE  \E n \in T : \A m \in T : n <= m
<1>1. Less = OpToRel(<, Nat)
  BY Zenon DEF OpToRel, Less
<1>2. IsWellFoundedOn(Less, Nat)
  BY <1>1, NatLessThanWellFounded
<1>3. PICK n \in T : \A m \in T : ~ (<<m, n>> \in Less)
  BY <1>2, WFMin
<1>4. ASSUME NEW m \in T PROVE n <= m
  <2>1. <<m, n>> \notin Less /\ m \in Nat /\ n \in Nat
    BY <1>3
  <2>2. ~(m < n)
    BY <2>1 DEF Less
  <2> QED BY <2>1, <2>2
<1> QED BY <1>4

\* Min is a least element: the first row.
LEMMA MinIn ==
  ASSUME NEW S \in SUBSET Nat, S # {}
  PROVE  Min(S) \in S /\ \A x \in S : Min(S) <= x
BY Least DEF Min

\* A finite nonempty set of naturals has a greatest element.
LEMMA Greatest ==
  ASSUME NEW S \in SUBSET Nat, IsFiniteSet(S), S # {}
  PROVE  \E x \in S : \A y \in S : x >= y
<1> DEFINE Above(x) == {y \in S : y > x}
           T == {Cardinality(Above(x)) : x \in S}
<1>1. \A x \in S : IsFiniteSet(Above(x)) /\ Cardinality(Above(x)) \in Nat
  BY FS_Subset, FS_CardinalityType
<1>2. T \in SUBSET Nat /\ T # {}
  BY <1>1
<1>3. PICK n \in T : \A m \in T : n <= m
  BY <1>2, Least
<1>4. PICK x \in S : n = Cardinality(Above(x))
  BY <1>3
<1>5. \A y \in S : Cardinality(Above(x)) <= Cardinality(Above(y))
  BY <1>3, <1>4
<1>6. ASSUME NEW y \in S, y > x PROVE FALSE
  <2>0. x \in Nat /\ y \in Nat /\ y > x
    BY <1>6
  <2>1. ASSUME NEW z \in Above(y) PROVE z \in Above(x) \ {y}
    <3>1. z \in S /\ z \in Nat /\ z > y
      OBVIOUS
    <3> QED BY <2>0, <3>1
  <2>2. y \in Above(x)
    BY <2>0
  <2>3. IsFiniteSet(Above(x) \ {y})
        /\ Cardinality(Above(x) \ {y}) = Cardinality(Above(x)) - 1
    BY <1>1, <2>2, FS_RemoveElement
  <2>4. Cardinality(Above(y)) <= Cardinality(Above(x) \ {y})
    BY <2>1, <2>3, FS_Subset
  <2> HIDE DEF Above
  <2> QED BY <1>1, <1>5, <2>3, <2>4
<1>7. ASSUME NEW y \in S PROVE x >= y
  <2>1. ~(y > x) /\ x \in Nat /\ y \in Nat
    BY <1>6
  <2> QED BY <2>1
<1> HIDE DEF Above, T
<1> QED BY <1>7

\* Max is an element: the last row.
LEMMA MaxIn ==
  ASSUME NEW S \in SUBSET Nat, IsFiniteSet(S), S # {}
  PROVE  Max(S) \in S
BY Greatest DEF Max

-------------------------------------------------------------------------------
(* Where runners and operators are *)

LEMMA RunnerParts ==
  ASSUME TypeOK, NEW r \in Runner
  PROVE  /\ InClaim(r) => at[r].rows \subseteq Job
         /\ at[r].pc = "surveyed" => at[r].busy \subseteq Owner
         /\ at[r].pc = "picked" => at[r].of \in Job
         /\ Working(r) => at[r].of \in Job
         /\ at[r].pc = "reporting" => at[r].outcome \in Outcome
         /\ at[r].pc # "retrying"
         /\ r \notin Operator
  BY SessionAssumption DEF TypeOK, RunnerAt, Idle, InClaim, Working

LEMMA OperatorParts ==
  ASSUME TypeOK, NEW p \in Operator
  PROVE  at[p].pc = "retrying" => at[p].of \in Job
  BY DEF TypeOK, OperatorAt, Idle

LEMMA GotoRunner ==
  ASSUME TypeOK, NEW r \in Runner, NEW where \in RunnerAt, Goto(r, where)
  PROVE  /\ at' \in [Runner \cup Operator -> RunnerAt \cup OperatorAt]
         /\ \A q \in Runner : at'[q] \in RunnerAt
         /\ \A p \in Operator : at'[p] \in OperatorAt
         /\ at'[r] = where
         /\ \A q \in Runner \cup Operator : q # r => at'[q] = at[q]
  BY SessionAssumption DEF TypeOK, Goto

LEMMA GotoOperator ==
  ASSUME TypeOK, NEW p \in Operator, NEW where \in OperatorAt, Goto(p, where)
  PROVE  /\ at' \in [Runner \cup Operator -> RunnerAt \cup OperatorAt]
         /\ \A q \in Runner : at'[q] \in RunnerAt
         /\ \A q \in Operator : at'[q] \in OperatorAt
         /\ at'[p] = where
         /\ \A q \in Runner \cup Operator : q # p => at'[q] = at[q]
  BY SessionAssumption DEF TypeOK, Goto

LEMMA IdleTyped == Idle \in RunnerAt /\ Idle \in OperatorAt
  BY DEF RunnerAt, OperatorAt

LEMMA FreeTyped ==
  ASSUME NEW status \in Status
  PROVE  /\ Free(status) \in Row
         /\ Free(status).status = status /\ Free(status).lockedBy = Nobody
  BY DEF Free, Row

LEMMA RowParts ==
  ASSUME TypeOK, NEW j \in Job
  PROVE  /\ job[j] \in Row
         /\ job[j].status \in Status /\ job[j].lockedBy \in Id \cup {Nobody}
         /\ job[j].stale \in BOOLEAN
  BY DEF TypeOK, Row

\* One row is written, the others stay.
LEMMA RowWritten ==
  ASSUME TypeOK, NEW j \in Job, NEW row \in Row, job' = [job EXCEPT ![j] = row]
  PROVE  /\ job' \in [Job -> Row]
         /\ job'[j] = row /\ \A i \in Job : i # j => job'[i] = job[i]
  BY DEF TypeOK

-------------------------------------------------------------------------------
(* What each step writes to the jobs *)

LEMMA EnqueueWrites ==
  ASSUME TypeOK, NEW j \in Job, Enqueue(j)
  PROVE  /\ job' \in [Job -> Row]
         /\ job[j].status = "NONE" /\ job'[j].status \in {"QUEUED", "FAILED"}
         /\ job'[j].lockedBy = Nobody
         /\ \A i \in Job : i # j => job'[i] = job[i]
<1>1. PICK status \in {"QUEUED", "FAILED"} : job' = [job EXCEPT ![j] = Free(status)]
  BY DEF Enqueue
<1>2. status \in Status
  BY <1>1 DEF Status, Queue, Outcome
<1> QED
  BY <1>1, <1>2, FreeTyped, RowWritten DEF Enqueue, Has

LEMMA LockAgesWrites ==
  ASSUME TypeOK, NEW j \in Job, LockAges(j)
  PROVE  /\ job' \in [Job -> Row]
         /\ \A i \in Job : job'[i].status = job[i].status /\ job'[i].lockedBy = job[i].lockedBy
<1>1. job' = [job EXCEPT ![j] = [job[j] EXCEPT !.stale = TRUE]]
  BY DEF LockAges
<1>2. /\ [job[j] EXCEPT !.stale = TRUE] \in Row
      /\ [job[j] EXCEPT !.stale = TRUE].status = job[j].status
      /\ [job[j] EXCEPT !.stale = TRUE].lockedBy = job[j].lockedBy
  BY RowParts DEF Row
<1> QED
  BY <1>1, <1>2, RowWritten

LEMMA RetryWrites ==
  ASSUME TypeOK, NEW p \in Operator, RetryWrite(p)
  PROVE  /\ job' \in [Job -> Row] /\ at[p].of \in Job
         /\ job'[at[p].of].status = "QUEUED" /\ job'[at[p].of].lockedBy = Nobody
         /\ \A i \in Job : i # at[p].of => job'[i] = job[i]
<1>1. "QUEUED" \in Status
  BY DEF Status, Queue
<1> QED
  BY <1>1, OperatorParts, FreeTyped, RowWritten DEF RetryWrite

LEMMA ReturnWrites ==
  ASSUME TypeOK, NEW r \in Runner, PickNone(r)
  PROVE  /\ job' \in [Job -> Row]
         /\ \A i \in Job : IF i \in at[r].rows
                           THEN job'[i].status = "QUEUED" /\ job'[i].lockedBy = Nobody
                           ELSE job'[i] = job[i]
<1>1. "QUEUED" \in Status
  BY DEF Status, Queue
<1> QED
  BY <1>1, FreeTyped, RowParts DEF PickNone

LEMMA ClaimWrites ==
  ASSUME TypeOK, NEW r \in Runner, Claim(r)
  PROVE  /\ job' \in [Job -> Row] /\ at[r].of \in Job
         /\ job'[at[r].of].status = "CLAIMED" /\ job'[at[r].of].lockedBy = IdOf[r]
         /\ \A i \in Job \ {at[r].of} :
              IF i \in at[r].rows THEN job'[i].status = "QUEUED" /\ job'[i].lockedBy = Nobody
                                  ELSE job'[i] = job[i]
<1> DEFINE claimed == [status |-> "CLAIMED", lockedBy |-> IdOf[r], stale |-> FALSE]
<1>1. at[r].of \in Job
  BY RunnerParts DEF Claim
<1>2. claimed \in Row /\ claimed.status = "CLAIMED" /\ claimed.lockedBy = IdOf[r]
  BY RunnerAssumption DEF Row, Status, Busy
<1>3. "QUEUED" \in Status
  BY DEF Status, Queue
<1>4. job' = [j \in Job |-> IF j = at[r].of THEN claimed
                            ELSE IF j \in at[r].rows THEN Free("QUEUED") ELSE job[j]]
  BY DEF Claim
<1> HIDE DEF claimed
<1> QED
  BY <1>1, <1>2, <1>3, <1>4, FreeTyped, RowParts

LEMMA MarkWrites ==
  ASSUME TypeOK, NEW r \in Runner, MarkWrite(r)
  PROVE  /\ job' \in [Job -> Row] /\ at[r].of \in Job
         /\ job'[at[r].of].status = "IN_PROGRESS"
         /\ job'[at[r].of].lockedBy = job[at[r].of].lockedBy
         /\ \A i \in Job : i # at[r].of => job'[i] = job[i]
<1> DEFINE j == at[r].of
<1>1. j \in Job
  BY RunnerParts DEF MarkWrite, Working
<1>2. job' = [job EXCEPT ![j] = [job[j] EXCEPT !.status = "IN_PROGRESS"]]
  BY DEF MarkWrite
<1>3. /\ [job[j] EXCEPT !.status = "IN_PROGRESS"] \in Row
      /\ [job[j] EXCEPT !.status = "IN_PROGRESS"].status = "IN_PROGRESS"
      /\ [job[j] EXCEPT !.status = "IN_PROGRESS"].lockedBy = job[j].lockedBy
  BY <1>1, RowParts DEF Row, Status, Busy
<1> HIDE DEF j
<1>4. /\ job' \in [Job -> Row]
      /\ job'[j] = [job[j] EXCEPT !.status = "IN_PROGRESS"]
      /\ \A i \in Job : i # j => job'[i] = job[i]
  BY <1>1, <1>2, <1>3, RowWritten
<1> QED
  BY <1>1, <1>3, <1>4 DEF j

LEMMA ReportWrites ==
  ASSUME TypeOK, NEW r \in Runner, Report(r)
  PROVE  /\ job' \in [Job -> Row] /\ at[r].of \in Job /\ at[r].outcome \in Outcome
         /\ job'[at[r].of].status = at[r].outcome /\ job'[at[r].of].lockedBy = Nobody
         /\ \A i \in Job : i # at[r].of => job'[i] = job[i]
<1>1. at[r].of \in Job /\ at[r].outcome \in Outcome
  BY RunnerParts DEF Report, Working
<1>2. at[r].outcome \in Status
  BY <1>1 DEF Status
<1> QED
  BY <1>1, <1>2, FreeTyped, RowWritten DEF Report

\* What a runner picks is a candidate.
LEMMA EarliestCandidate ==
  ASSUME TypeOK, NEW r \in Runner, Pick(r)
  PROVE  Earliest(Candidates(r)) \in Candidates(r) /\ Earliest(Candidates(r)) \in Job
<1> DEFINE S == Candidates(r)
<1>1. S \subseteq Job /\ S \subseteq Nat /\ S # {}
  BY JobAssumption DEF Candidates, Pick
<1> HIDE DEF S
<1>2. \E i \in S : \A j \in S : i <= j
  BY <1>1, Least
<1>3. Earliest(S) \in S
  BY <1>2 DEF Earliest
<1> QED
  BY <1>1, <1>3 DEF S

-------------------------------------------------------------------------------
(* Types *)

LEMMA TypeInit == Init => TypeOK
<1> SUFFICES ASSUME Init PROVE TypeOK
  OBVIOUS
<1>1. job \in [Job -> Row]
  <2>1. "NONE" \in Status
    BY DEF Status
  <2> QED
    BY <2>1, FreeTyped DEF Init
<1>2. 0 \in 0..MaxRetries /\ 0 \in 0..MaxCrashes
  BY BoundAssumption
<1>3. \A p \in Runner \cup Operator : at[p] = Idle
  BY DEF Init
<1>4. at \in [Runner \cup Operator -> RunnerAt \cup OperatorAt]
  BY IdleTyped DEF Init
<1> QED
  BY <1>1, <1>2, <1>3, <1>4, IdleTyped DEF Init, TypeOK

LEMMA OperatorTypes ==
  ASSUME TypeOK, NEW p \in Operator,
         (\E j \in Job : RetryRead(p, j)) \/ RetryWrite(p) \/ RetryFail(p)
  PROVE  TypeOK'
<1>1. ASSUME NEW j \in Job, RetryRead(p, j) PROVE TypeOK'
  <2>1. [pc |-> "retrying", of |-> j] \in OperatorAt
    BY DEF OperatorAt
  <2>2. retries' \in 0..MaxRetries
    BY <1>1, BoundAssumption DEF RetryRead, TypeOK
  <2> QED
    BY <1>1, <2>1, <2>2, GotoOperator DEF RetryRead, TypeOK
<1>2. CASE RetryWrite(p)
  BY <1>2, IdleTyped, GotoOperator, RetryWrites DEF RetryWrite, TypeOK
<1>3. CASE RetryFail(p)
  BY <1>3, IdleTyped, GotoOperator DEF RetryFail, TypeOK
<1> QED
  BY <1>1, <1>2, <1>3

LEMMA RunnerTypes ==
  ASSUME TypeOK, NEW r \in Runner, Step(r) \/ Crash(r)
  PROVE  TypeOK'
<1> USE GotoRunner, IdleTyped
<1>1. CASE Poll(r)
  <2>1. [pc |-> "polling"] \in RunnerAt
    BY DEF RunnerAt
  <2> QED
    BY <1>1, <2>1 DEF Poll, TypeOK
<1>2. CASE Reclaim(r)
  <2> DEFINE rows == {j \in Job : Has(j, Busy) /\ job[j].stale}
  <2>1. [pc |-> "reclaimed", rows |-> rows] \in RunnerAt
    BY DEF RunnerAt
  <2> QED
    BY <1>2, <2>1 DEF Reclaim, TypeOK
<1>3. CASE Survey(r)
  <2> DEFINE busy == {OwnerOf[j] : j \in {i \in Job \ at[r].rows : Has(i, Busy)}}
  <2>1. at[r].rows \subseteq Job /\ busy \subseteq Owner
    BY <1>3, RunnerParts, JobAssumption DEF Survey, InClaim
  <2> HIDE DEF busy
  <2>2. [pc |-> "surveyed", rows |-> at[r].rows, busy |-> busy] \in RunnerAt
    BY <2>1 DEF RunnerAt
  <2> QED
    BY <1>3, <2>2 DEF Survey, TypeOK, busy
<1>4. CASE Pick(r)
  <2>1. at[r].rows \subseteq Job
    BY <1>4, RunnerParts DEF Pick, InClaim
  <2>2. Earliest(Candidates(r)) \in Job
    BY <1>4, EarliestCandidate
  <2>3. [pc |-> "picked", rows |-> at[r].rows, of |-> Earliest(Candidates(r))] \in RunnerAt
    BY <2>1, <2>2 DEF RunnerAt
  <2> QED
    BY <1>4, <2>3 DEF Pick, TypeOK
<1>5. CASE PickNone(r)
  BY <1>5, ReturnWrites DEF PickNone, TypeOK
<1>6. CASE Claim(r)
  <2>1. [pc |-> "claimed", of |-> at[r].of] \in RunnerAt
    BY <1>6, ClaimWrites DEF RunnerAt
  <2> QED
    BY <1>6, <2>1, ClaimWrites DEF Claim, TypeOK
<1>7. CASE MarkRead(r)
  <2>1. at[r].of \in Job
    BY <1>7, RunnerParts DEF MarkRead, Working
  <2>2. [pc |-> "marking", of |-> at[r].of] \in RunnerAt
    BY <2>1 DEF RunnerAt
  <2> QED
    BY <1>7, <2>2 DEF MarkRead, TypeOK
<1>8. CASE MarkWrite(r)
  <2>1. [pc |-> "executing", of |-> at[r].of] \in RunnerAt
    BY <1>8, MarkWrites DEF RunnerAt
  <2> QED
    BY <1>8, <2>1, MarkWrites DEF MarkWrite, TypeOK
<1>9. ASSUME NEW outcome \in Outcome, Execute(r, outcome) PROVE TypeOK'
  <2>1. at[r].of \in Job
    BY <1>9, RunnerParts DEF Execute, Working
  <2>2. [pc |-> "reporting", of |-> at[r].of, outcome |-> outcome] \in RunnerAt
    BY <2>1 DEF RunnerAt
  <2> QED
    BY <1>9, <2>1, <2>2 DEF Execute, TypeOK
<1>10. CASE Report(r)
  BY <1>10, ReportWrites DEF Report, TypeOK
<1>11. CASE Crash(r)
  <2>1. crashes' \in 0..MaxCrashes
    BY <1>11, BoundAssumption DEF Crash, TypeOK
  <2> QED
    BY <1>11, <2>1 DEF Crash, TypeOK
<1> QED
  BY <1>1, <1>2, <1>3, <1>4, <1>5, <1>6, <1>7, <1>8, <1>9, <1>10, <1>11 DEF Step

LEMMA TypeStep == TypeOK /\ [Next]_vars => TypeOK'
<1> SUFFICES ASSUME TypeOK, [Next]_vars PROVE TypeOK'
  OBVIOUS
<1>1. ASSUME NEW j \in Job, Enqueue(j) PROVE TypeOK'
  BY <1>1, EnqueueWrites DEF Enqueue, TypeOK
<1>2. ASSUME NEW j \in Job, LockAges(j) PROVE TypeOK'
  BY <1>2, LockAgesWrites DEF LockAges, TypeOK
<1>3. CASE EmergencyStop
  BY <1>3 DEF EmergencyStop, TypeOK
<1>4. CASE UNCHANGED vars
  BY <1>4 DEF vars, TypeOK
<1> QED
  BY <1>1, <1>2, <1>3, <1>4, OperatorTypes, RunnerTypes DEF Next

\* Jobs, runners and operators' requests keep their types.
THEOREM TypeCorrect == Spec => []TypeOK
  BY TypeInit, TypeStep, PTL DEF Spec

-------------------------------------------------------------------------------
(* One runner, and one operator's retry at a time *)

OneEach == (\A r, q \in Runner : r = q) /\ (\A p, q \in Operator : p = q)

\* The job an operator is about to put back into the queue is still in nobody's hands.
RetryFresh ==
  \A p \in Operator :
    at[p].pc = "retrying" =>
      Has(at[p].of, {"FAILED", "AWAITING_HUMAN", "EXTERNAL_RESULT_UNKNOWN"})

\* The jobs that claimNext gives back are busy until it commits.
RowsBusy == \A r \in Runner : InClaim(r) => \A j \in at[r].rows : Has(j, Busy)

\* What claimNext has read of the accounts still holds,
SurveyFresh ==
  \A r \in Runner :
    at[r].pc = "surveyed" =>
      \A j \in Job \ at[r].rows : Has(j, Busy) => OwnerOf[j] \in at[r].busy

\* and so does what it has read of the job it picked.
PickFresh ==
  \A r \in Runner :
    at[r].pc = "picked" =>
      /\ Has(at[r].of, Queue) \/ at[r].of \in at[r].rows
      /\ \A j \in Job \ at[r].rows : Has(j, Busy) => OwnerOf[j] # OwnerOf[at[r].of]

QueueInv ==
  /\ AccountLock /\ WorkLocked /\ NoZombie
  /\ RetryFresh /\ RowsBusy /\ SurveyFresh /\ PickFresh

LEMMA QueueInit == Init => QueueInv
<1> SUFFICES ASSUME Init PROVE QueueInv
  OBVIOUS
<1>1. \A p \in Runner \cup Operator : at[p].pc = "idle"
  BY DEF Init, Idle
<1>2. \A j \in Job : job[j].status = "NONE" /\ job[j].lockedBy = Nobody
  BY DEF Init, Free
<1> QED
  BY <1>1, <1>2 DEF QueueInv, AccountLock, WorkLocked, NoZombie, RetryFresh, RowsBusy,
                    SurveyFresh, PickFresh, InClaim, Working, Has, Busy

\* A step that moves nobody and changes no status and no lock.
LEMMA QuietStep ==
  ASSUME TypeOK, QueueInv, at' = at,
         \A j \in Job : job'[j].status = job[j].status /\ job'[j].lockedBy = job[j].lockedBy
  PROVE  QueueInv'
<1>1. \A r \in Runner : InClaim(r) => at[r].rows \subseteq Job
  BY RunnerParts
<1>2. \A r \in Runner : at[r].pc = "picked" \/ Working(r) => at[r].of \in Job
  BY RunnerParts
<1>3. \A p \in Operator : at[p].pc = "retrying" => at[p].of \in Job
  BY OperatorParts
<1>4. AccountLock' /\ NoZombie'
  BY DEF QueueInv, AccountLock, NoZombie, Has
<1>5. WorkLocked'
  BY <1>2 DEF QueueInv, WorkLocked, Working, Has
<1>6. RetryFresh' /\ RowsBusy'
  BY <1>1, <1>3 DEF QueueInv, RetryFresh, RowsBusy, InClaim, Has
<1>7. SurveyFresh' /\ PickFresh'
  BY <1>1, <1>2 DEF QueueInv, SurveyFresh, PickFresh, InClaim, Has
<1> QED
  BY <1>4, <1>5, <1>6, <1>7 DEF QueueInv

\* A step that writes one row nobody works on, gives back or has picked, and leaves it
\* without a lock.
LEMMA FreeStep ==
  ASSUME TypeOK, QueueInv, NEW j \in Job,
         ~Has(j, Busy), ~Has(j, Queue), job'[j].status \notin Busy, job'[j].lockedBy = Nobody,
         \A i \in Job : i # j => job'[i] = job[i],
         \A r \in Runner : at'[r] = at[r],
         \A p \in Operator : at'[p].pc = "retrying" => at'[p] = at[p] /\ at[p].of # j
  PROVE  QueueInv'
<1>1. \A r \in Runner : InClaim(r) => at[r].rows \subseteq Job /\ j \notin at[r].rows
  BY RunnerParts DEF QueueInv, RowsBusy
<1>2. \A r \in Runner : at[r].pc = "picked" \/ Working(r) => at[r].of \in Job
  BY RunnerParts
<1>3. \A r \in Runner : Working(r) => at[r].of # j
  BY DEF QueueInv, WorkLocked, Has, Busy
<1>4. \A r \in Runner : at[r].pc = "picked" => at[r].of # j
  BY <1>1 DEF QueueInv, PickFresh, Has, InClaim
<1>5. \A p \in Operator : at[p].pc = "retrying" => at[p].of \in Job
  BY OperatorParts
<1>6. AccountLock' /\ NoZombie'
  BY DEF QueueInv, AccountLock, NoZombie, Has
<1>7. WorkLocked'
  BY <1>2, <1>3 DEF QueueInv, WorkLocked, Working, Has
<1>8. RetryFresh' /\ RowsBusy'
  BY <1>1, <1>5 DEF QueueInv, RetryFresh, RowsBusy, InClaim, Has
<1>9. SurveyFresh' /\ PickFresh'
  BY <1>1, <1>2, <1>4 DEF QueueInv, SurveyFresh, PickFresh, InClaim, Has
<1> QED
  BY <1>6, <1>7, <1>8, <1>9 DEF QueueInv

LEMMA OnlyRunner ==
  ASSUME TypeOK, OneEach, NEW r \in Runner, NEW where, Goto(r, where)
  PROVE  /\ at'[r] = where /\ \A q \in Runner : q = r
         /\ \A p \in Operator : at'[p] = at[p]
  BY SessionAssumption DEF TypeOK, Goto, OneEach

\* The only runner moves, outside its claim, and changes no row.
LEMMA MoveStep ==
  ASSUME TypeOK, OneEach, QueueInv, NEW r \in Runner, NEW where, Goto(r, where), job' = job,
         where.pc \notin {"reclaimed", "surveyed", "picked"},
         where.pc \in {"claimed", "marking", "executing", "reporting"} =>
           /\ Working(r) /\ where.of = at[r].of
           /\ where.pc \in {"executing", "reporting"} <=> at[r].pc \in {"executing", "reporting"}
  PROVE  QueueInv'
<1>1. AccountLock' /\ NoZombie'
  BY DEF QueueInv, AccountLock, NoZombie, Has
<1>2. WorkLocked'
  BY OnlyRunner DEF QueueInv, WorkLocked, Working, Has
<1>3. RetryFresh'
  BY OnlyRunner DEF QueueInv, RetryFresh, Has
<1>4. RowsBusy' /\ SurveyFresh' /\ PickFresh'
  BY OnlyRunner DEF RowsBusy, SurveyFresh, PickFresh, InClaim
<1> QED
  BY <1>1, <1>2, <1>3, <1>4 DEF QueueInv

\* The only runner moves within its claim, which changes no row either.
LEMMA ClaimingStep ==
  ASSUME TypeOK, OneEach, QueueInv, NEW r \in Runner, NEW where, Goto(r, where), job' = job,
         where.pc \in {"reclaimed", "surveyed", "picked"},
         \A j \in where.rows : Has(j, Busy),
         where.pc = "surveyed" =>
           \A j \in Job \ where.rows : Has(j, Busy) => OwnerOf[j] \in where.busy,
         where.pc = "picked" =>
           /\ Has(where.of, Queue) \/ where.of \in where.rows
           /\ \A j \in Job \ where.rows : Has(j, Busy) => OwnerOf[j] # OwnerOf[where.of]
  PROVE  QueueInv'
<1>1. AccountLock' /\ NoZombie'
  BY DEF QueueInv, AccountLock, NoZombie, Has
<1>2. WorkLocked'
  BY OnlyRunner DEF WorkLocked, Working
<1>3. RetryFresh'
  BY OnlyRunner DEF QueueInv, RetryFresh, Has
<1>4. RowsBusy'
  BY OnlyRunner DEF RowsBusy, InClaim, Has
<1>5. SurveyFresh' /\ PickFresh'
  BY OnlyRunner DEF SurveyFresh, PickFresh, Has
<1> QED
  BY <1>1, <1>2, <1>3, <1>4, <1>5 DEF QueueInv

\* Reading keeps the invariant: Reclaim has seen busy rows, Survey the other busy
\* accounts, and Pick takes a job of neither.
LEMMA ReadingStep ==
  ASSUME TypeOK, OneEach, QueueInv, NEW r \in Runner, Reclaim(r) \/ Survey(r) \/ Pick(r)
  PROVE  QueueInv'
<1>1. CASE Reclaim(r)
  <2> DEFINE rows == {j \in Job : Has(j, Busy) /\ job[j].stale}
  <2>1. Goto(r, [pc |-> "reclaimed", rows |-> rows]) /\ job' = job
    BY <1>1 DEF Reclaim
  <2> QED
    BY <2>1, ClaimingStep
<1>2. CASE Survey(r)
  <2> DEFINE busy == {OwnerOf[j] : j \in {i \in Job \ at[r].rows : Has(i, Busy)}}
  <2>1. Goto(r, [pc |-> "surveyed", rows |-> at[r].rows, busy |-> busy]) /\ job' = job
    BY <1>2 DEF Survey
  <2>2. \A j \in at[r].rows : Has(j, Busy)
    BY <1>2 DEF Survey, QueueInv, RowsBusy, InClaim
  <2>3. \A j \in Job \ at[r].rows : Has(j, Busy) => OwnerOf[j] \in busy
    OBVIOUS
  <2> HIDE DEF busy
  <2> QED
    BY <2>1, <2>2, <2>3, ClaimingStep
<1>3. CASE Pick(r)
  <2> DEFINE c == Earliest(Candidates(r))
  <2>1. Goto(r, [pc |-> "picked", rows |-> at[r].rows, of |-> c]) /\ job' = job
    BY <1>3 DEF Pick
  <2>2. c \in Candidates(r)
    BY <1>3, EarliestCandidate
  <2> HIDE DEF c
  <2>3. (Has(c, Queue) \/ c \in at[r].rows) /\ OwnerOf[c] \notin at[r].busy
    BY <2>2 DEF Candidates
  <2>4. \A j \in at[r].rows : Has(j, Busy)
    BY <1>3 DEF Pick, QueueInv, RowsBusy, InClaim
  <2>5. \A j \in Job \ at[r].rows : Has(j, Busy) => OwnerOf[j] # OwnerOf[c]
    BY <1>3, <2>3 DEF Pick, QueueInv, SurveyFresh
  <2> QED
    BY <2>1, <2>3, <2>4, <2>5, ClaimingStep
<1> QED
  BY <1>1, <1>2, <1>3

\* The commit without a claim: jobs go from busy to the queue.
LEMMA ReturnStep ==
  ASSUME TypeOK, OneEach, QueueInv, NEW r \in Runner, PickNone(r)
  PROVE  QueueInv'
<1>1. at'[r].pc = "idle" /\ \A q \in Runner : q = r
  BY OnlyRunner DEF PickNone, Idle
<1>2. \A p \in Operator : at'[p] = at[p]
  BY OnlyRunner DEF PickNone
<1>3. \A j \in at[r].rows : Has(j, Busy)
  BY DEF PickNone, QueueInv, RowsBusy, InClaim
<1>4. AccountLock' /\ NoZombie'
  BY ReturnWrites DEF QueueInv, AccountLock, NoZombie, Has, Busy
<1>5. WorkLocked' /\ RowsBusy' /\ SurveyFresh' /\ PickFresh'
  BY <1>1 DEF WorkLocked, RowsBusy, SurveyFresh, PickFresh, InClaim, Working
<1>6. RetryFresh'
  BY <1>2, <1>3, ReturnWrites, OperatorParts DEF QueueInv, RetryFresh, Has, Busy
<1> QED
  BY <1>4, <1>5, <1>6 DEF QueueInv

\* The commit of a claim: of the account of the job that was picked nothing is left busy.
LEMMA ClaimStep ==
  ASSUME TypeOK, OneEach, QueueInv, NEW r \in Runner, Claim(r)
  PROVE  QueueInv'
<1> DEFINE c == at[r].of
<1>1. at'[r] = [pc |-> "claimed", of |-> c] /\ \A q \in Runner : q = r
  BY OnlyRunner DEF Claim
<1>2. \A p \in Operator : at'[p] = at[p]
  BY OnlyRunner DEF Claim
<1>3. /\ \A j \in at[r].rows : Has(j, Busy)
      /\ Has(c, Queue) \/ c \in at[r].rows
      /\ \A j \in Job \ at[r].rows : Has(j, Busy) => OwnerOf[j] # OwnerOf[c]
  BY DEF Claim, QueueInv, RowsBusy, PickFresh, InClaim
<1>4. c \in Job /\ job'[c].status = "CLAIMED" /\ job'[c].lockedBy = IdOf[r]
  BY ClaimWrites
<1>5. \A i \in Job \ {c} :
        IF i \in at[r].rows THEN job'[i].status = "QUEUED" /\ job'[i].lockedBy = Nobody
                            ELSE job'[i] = job[i]
  BY ClaimWrites
<1> HIDE DEF c
<1>6. AccountLock'
  BY <1>3, <1>4, <1>5 DEF QueueInv, AccountLock, Has, Busy
<1>7. NoZombie'
  BY <1>4, <1>5, RunnerAssumption DEF QueueInv, NoZombie, Has, Busy
<1>8. WorkLocked'
  BY <1>1, <1>4 DEF WorkLocked, Has
<1>9. RetryFresh'
  BY <1>2, <1>3, <1>4, <1>5, OperatorParts DEF QueueInv, RetryFresh, Has, Busy, Queue
<1>10. RowsBusy' /\ SurveyFresh' /\ PickFresh'
  BY <1>1 DEF RowsBusy, SurveyFresh, PickFresh, InClaim
<1> QED
  BY <1>6, <1>7, <1>8, <1>9, <1>10 DEF QueueInv

\* The runner marks its job or reports it: the row is its own, so nothing else changes.
LEMMA OwnJobStep ==
  ASSUME TypeOK, OneEach, QueueInv, NEW r \in Runner, MarkWrite(r) \/ Report(r)
  PROVE  QueueInv'
<1> DEFINE j == at[r].of
<1>1. j \in Job /\ Has(j, Busy) /\ job[j].lockedBy = IdOf[r]
  BY RunnerParts DEF MarkWrite, Report, QueueInv, WorkLocked, Working, Has, Busy
<1>2. \A i \in Job : i # j => job'[i] = job[i]
  BY MarkWrites, ReportWrites
<1>3. \A q \in Runner : q = r
  BY OnlyRunner DEF MarkWrite, Report
<1>4. \A p \in Operator : at'[p] = at[p]
  BY OnlyRunner DEF MarkWrite, Report
<1>5. job'[j].status \in Busy <=> job'[j].lockedBy # Nobody
  BY <1>1, MarkWrites, ReportWrites, RunnerAssumption DEF Busy, Outcome
<1>6. /\ MarkWrite(r) => job'[j].status = "IN_PROGRESS" /\ job'[j].lockedBy = IdOf[r]
      /\ MarkWrite(r) => at'[r] = [pc |-> "executing", of |-> j]
      /\ Report(r) => at'[r] = Idle
  BY <1>1, MarkWrites, OnlyRunner DEF MarkWrite, Report
<1> HIDE DEF j
<1>7. AccountLock'
  BY <1>1, <1>2 DEF QueueInv, AccountLock, Has
<1>8. NoZombie'
  BY <1>2, <1>5 DEF QueueInv, NoZombie, Has
<1>9. WorkLocked'
  BY <1>3, <1>6 DEF WorkLocked, Working, Idle, Has
<1>10. RetryFresh'
  BY <1>1, <1>2, <1>4, OperatorParts DEF QueueInv, RetryFresh, Has, Busy
<1>11. RowsBusy' /\ SurveyFresh' /\ PickFresh'
  BY <1>3, <1>6 DEF RowsBusy, SurveyFresh, PickFresh, InClaim, Idle
<1> QED
  BY <1>7, <1>8, <1>9, <1>10, <1>11 DEF QueueInv

LEMMA RunnerQueueStep ==
  ASSUME TypeOK, OneEach, QueueInv, NEW r \in Runner, Step(r) \/ Crash(r)
  PROVE  QueueInv'
<1>1. CASE Poll(r)
  BY <1>1, MoveStep DEF Poll
<1>2. CASE MarkRead(r)
  <2>1. job[at[r].of].lockedBy = IdOf[r]
    BY <1>2 DEF MarkRead, QueueInv, WorkLocked, Working
  <2>2. Goto(r, [pc |-> "marking", of |-> at[r].of]) /\ job' = job
    BY <1>2, <2>1 DEF MarkRead
  <2> QED
    BY <1>2, <2>2, MoveStep DEF MarkRead, Working
<1>3. ASSUME NEW outcome \in Outcome, Execute(r, outcome) PROVE QueueInv'
  <2>1. Goto(r, [pc |-> "reporting", of |-> at[r].of, outcome |-> outcome]) /\ job' = job
    BY <1>3 DEF Execute
  <2> QED
    BY <1>3, <2>1, MoveStep DEF Execute, Working
<1>4. CASE Crash(r)
  <2>1. Goto(r, Idle) /\ job' = job /\ Idle.pc = "idle"
    BY <1>4 DEF Crash, Idle
  <2> QED
    BY <2>1, MoveStep
<1> QED
  BY <1>1, <1>2, <1>3, <1>4, ReadingStep, ReturnStep, ClaimStep, OwnJobStep DEF Step

LEMMA OperatorQueueStep ==
  ASSUME TypeOK, OneEach, QueueInv, NEW p \in Operator,
         (\E j \in Job : RetryRead(p, j)) \/ RetryWrite(p) \/ RetryFail(p)
  PROVE  QueueInv'
<1>1. \A r \in Runner : at'[r] = at[r]
  BY SessionAssumption DEF RetryRead, RetryWrite, RetryFail, Goto, TypeOK
<1>2. \A q \in Operator : q = p
  BY DEF OneEach
<1>3. \A r \in Runner : (at[r].pc = "picked" \/ Working(r) => at[r].of \in Job)
  BY RunnerParts
<1>4. ASSUME job' = job, RetryFresh' PROVE QueueInv'
  <2>1. AccountLock' /\ NoZombie' /\ WorkLocked'
    BY <1>1, <1>4 DEF QueueInv, AccountLock, NoZombie, WorkLocked, Working, Has
  <2>2. RowsBusy' /\ SurveyFresh' /\ PickFresh'
    BY <1>1, <1>4 DEF QueueInv, RowsBusy, SurveyFresh, PickFresh, InClaim, Has
  <2> QED
    BY <1>4, <2>1, <2>2 DEF QueueInv
<1>5. ASSUME NEW j \in Job, RetryRead(p, j) PROVE QueueInv'
  <2>1. at'[p] = [pc |-> "retrying", of |-> j] /\ job' = job
    BY <1>5 DEF RetryRead, Goto, TypeOK
  <2>2. RetryFresh'
    BY <1>2, <1>5, <2>1 DEF RetryFresh, RetryRead, Has
  <2> QED
    BY <1>4, <2>1, <2>2
<1>6. CASE RetryFail(p)
  <2>1. at'[p].pc = "idle" /\ job' = job
    BY <1>6 DEF RetryFail, Goto, TypeOK, Idle
  <2>2. RetryFresh'
    BY <1>2, <2>1 DEF RetryFresh
  <2> QED
    BY <1>4, <2>1, <2>2
<1>7. CASE RetryWrite(p)
  <2> DEFINE j == at[p].of
  <2>1. j \in Job /\ ~Has(j, Busy) /\ ~Has(j, Queue)
    BY <1>7, OperatorParts DEF RetryWrite, QueueInv, RetryFresh, Has, Busy, Queue
  <2>2. /\ job'[j].status \notin Busy /\ job'[j].lockedBy = Nobody
        /\ \A i \in Job : i # j => job'[i] = job[i]
    BY <1>7, RetryWrites DEF Busy
  <2>3. at'[p].pc = "idle"
    BY <1>7 DEF RetryWrite, Goto, TypeOK, Idle
  <2>4. \A q \in Operator : at'[q].pc # "retrying"
    BY <1>2, <2>3
  <2> HIDE DEF j
  <2> QED
    BY <1>1, <2>1, <2>2, <2>4, FreeStep
<1> QED
  BY <1>5, <1>6, <1>7

LEMMA QueueStep == OneEach /\ TypeOK /\ QueueInv /\ [Next]_vars => QueueInv'
<1> SUFFICES ASSUME OneEach, TypeOK, QueueInv, [Next]_vars PROVE QueueInv'
  OBVIOUS
<1>1. ASSUME NEW j \in Job, Enqueue(j) PROVE QueueInv'
  <2>1. at' = at /\ ~Has(j, Busy) /\ ~Has(j, Queue)
    BY <1>1 DEF Enqueue, Has, Busy, Queue
  <2>2. /\ job'[j].status \notin Busy /\ job'[j].lockedBy = Nobody
        /\ \A i \in Job : i # j => job'[i] = job[i]
    BY <1>1, EnqueueWrites DEF Busy
  <2>3. \A p \in Operator : at[p].pc = "retrying" => at[p].of # j
    BY <1>1 DEF Enqueue, QueueInv, RetryFresh, Has
  <2> QED
    BY <2>1, <2>2, <2>3, FreeStep
<1>2. ASSUME NEW j \in Job, LockAges(j) PROVE QueueInv'
  BY <1>2, LockAgesWrites, QuietStep DEF LockAges
<1>3. CASE EmergencyStop
  BY <1>3, QuietStep DEF EmergencyStop
<1>4. CASE UNCHANGED vars
  BY <1>4, QuietStep DEF vars
<1> QED
  BY <1>1, <1>2, <1>3, <1>4, OperatorQueueStep, RunnerQueueStep DEF Next

\* With one runner and one retry at a time the account lock, the lock of the job at work
\* and the locks that can age stand together, whatever crashes, hangs and is retried.
THEOREM LocksKept == OneEach /\ Spec => []QueueInv
<1> DEFINE Inv == OneEach /\ QueueInv
<1>1. OneEach /\ Init => Inv
  BY QueueInit
<1>2. TypeOK /\ Inv /\ [Next]_vars => Inv'
  BY QueueStep DEF OneEach
<1>3. Inv => QueueInv
  OBVIOUS
<1> HIDE DEF Inv
<1> QED
  BY <1>1, <1>2, <1>3, TypeCorrect, PTL DEF Spec

\* No two jobs of an owner account are worked on at the same time.
THEOREM AccountsLocked == OneEach /\ Spec => []AccountLock
<1>1. QueueInv => AccountLock
  BY DEF QueueInv
<1> QED
  BY <1>1, LocksKept, PTL

\* Nothing takes a job away from under the runner that works on it.
THEOREM WorkStaysLocked == OneEach /\ Spec => []WorkLocked
<1>1. QueueInv => WorkLocked
  BY DEF QueueInv
<1> QED
  BY <1>1, LocksKept, PTL

\* A busy job has a lock that can age, so that its account is not blocked for good.
THEOREM LocksCanAge == OneEach /\ Spec => []NoZombie
<1>1. QueueInv => NoZombie
  BY DEF QueueInv
<1> QED
  BY <1>1, LocksKept, PTL

-------------------------------------------------------------------------------
(* What SUCCEEDED means, for any number of runners *)

\* A runner reports a success only of a job that its driver has carried out.
SuccessSeen ==
  \A r \in Runner :
    at[r].pc = "reporting" /\ at[r].outcome = "SUCCEEDED" => at[r].of \in performed

SuccessInv == SucceededPerformed /\ SuccessSeen

LEMMA PerformedGrows == [Next]_vars => performed \subseteq performed'
  BY DEF Next, Enqueue, LockAges, RetryRead, RetryWrite, RetryFail, EmergencyStop, Step, Poll,
         Reclaim, Survey, Pick, PickNone, Claim, MarkRead, MarkWrite, Execute, Report, Crash, vars

\* Only a report writes SUCCEEDED.
LEMMA SuccessWritten ==
  ASSUME TypeOK, [Next]_vars, NEW j \in Job, Has(j, {"SUCCEEDED"})'
  PROVE  \/ Has(j, {"SUCCEEDED"})
         \/ \E r \in Runner : at[r].pc = "reporting" /\ at[r].outcome = "SUCCEEDED" /\ at[r].of = j
<1>1. ASSUME NEW i \in Job, Enqueue(i) PROVE Has(j, {"SUCCEEDED"})
  BY <1>1, EnqueueWrites DEF Has
<1>2. ASSUME NEW i \in Job, LockAges(i) PROVE Has(j, {"SUCCEEDED"})
  BY <1>2, LockAgesWrites DEF Has
<1>3. ASSUME NEW p \in Operator, RetryWrite(p) PROVE Has(j, {"SUCCEEDED"})
  BY <1>3, RetryWrites DEF Has
<1>4. ASSUME NEW r \in Runner, PickNone(r) PROVE Has(j, {"SUCCEEDED"})
  BY <1>4, ReturnWrites DEF Has
<1>5. ASSUME NEW r \in Runner, Claim(r) PROVE Has(j, {"SUCCEEDED"})
  BY <1>5, ClaimWrites DEF Has
<1>6. ASSUME NEW r \in Runner, MarkWrite(r) PROVE Has(j, {"SUCCEEDED"})
  BY <1>6, MarkWrites DEF Has
<1>7. ASSUME NEW r \in Runner, Report(r), ~Has(j, {"SUCCEEDED"})
      PROVE  at[r].pc = "reporting" /\ at[r].outcome = "SUCCEEDED" /\ at[r].of = j
  BY <1>7, ReportWrites DEF Has, Report
<1>8. CASE job' = job
  BY <1>8 DEF Has
<1>9. ASSUME NEW p \in Operator, (\E i \in Job : RetryRead(p, i)) \/ RetryFail(p)
      PROVE  job' = job
  BY <1>9 DEF RetryRead, RetryFail
<1>10. ASSUME NEW r \in Runner, NEW outcome \in Outcome,
              Poll(r) \/ Reclaim(r) \/ Survey(r) \/ Pick(r) \/ MarkRead(r)
                \/ Execute(r, outcome) \/ Crash(r)
       PROVE  job' = job
  BY <1>10 DEF Poll, Reclaim, Survey, Pick, MarkRead, Execute, Crash
<1>11. EmergencyStop \/ UNCHANGED vars => job' = job
  BY DEF EmergencyStop, vars
<1> QED
  BY <1>1, <1>2, <1>3, <1>4, <1>5, <1>6, <1>7, <1>8, <1>9, <1>10, <1>11
     DEF Next, Step, Outcome

\* A runner comes to report by the driver's return only.
LEMMA SuccessReached ==
  ASSUME TypeOK, [Next]_vars, NEW r \in Runner, SuccessSeen,
         at'[r].pc = "reporting", at'[r].outcome = "SUCCEEDED"
  PROVE  at'[r].of \in performed'
<1>1. CASE at'[r] = at[r]
  BY <1>1, PerformedGrows DEF SuccessSeen
<1>2. ASSUME NEW outcome \in Outcome, Execute(r, outcome) PROVE at'[r].of \in performed'
  <2>1. at'[r] = [pc |-> "reporting", of |-> at[r].of, outcome |-> outcome]
    BY <1>2 DEF Execute, Goto, TypeOK
  <2> QED
    BY <1>2, <2>1 DEF Execute
<1>3. ASSUME NEW q \in Runner \cup Operator, NEW where, q # r, Goto(q, where)
      PROVE  at'[r] = at[r]
  BY <1>3 DEF Goto, TypeOK
<1>4. ASSUME NEW where, Goto(r, where) PROVE where.pc = "reporting"
  BY <1>4 DEF Goto, TypeOK
<1>5. ~(Poll(r) \/ Reclaim(r) \/ Survey(r) \/ Pick(r) \/ PickNone(r) \/ Claim(r)
          \/ MarkRead(r) \/ MarkWrite(r) \/ Report(r) \/ Crash(r))
  BY <1>4 DEF Poll, Reclaim, Survey, Pick, PickNone, Claim, MarkRead, MarkWrite, Report, Crash,
              Idle
<1>6. ASSUME NEW q \in Runner, q # r, Step(q) \/ Crash(q) PROVE at'[r] = at[r]
  BY <1>3, <1>6 DEF Step, Poll, Reclaim, Survey, Pick, PickNone, Claim, MarkRead, MarkWrite,
                    Execute, Report, Crash
<1>7. ASSUME NEW p \in Operator,
             (\E j \in Job : RetryRead(p, j)) \/ RetryWrite(p) \/ RetryFail(p)
      PROVE  at'[r] = at[r]
  BY <1>3, <1>7, SessionAssumption DEF RetryRead, RetryWrite, RetryFail
<1>8. ASSUME (\E j \in Job : Enqueue(j) \/ LockAges(j)) \/ EmergencyStop \/ UNCHANGED vars
      PROVE  at' = at
  BY <1>8 DEF Enqueue, LockAges, EmergencyStop, vars
<1> QED
  BY <1>1, <1>2, <1>5, <1>6, <1>7, <1>8 DEF Next, Step

\* No job is marked SUCCEEDED that no driver has carried out.
THEOREM SuccessEarned == Spec => []SucceededPerformed
<1>1. Init => SuccessInv
  BY DEF Init, SuccessInv, SucceededPerformed, SuccessSeen, Has, Free, Idle
<1>2. TypeOK /\ SuccessInv /\ [Next]_vars => SuccessInv'
  <2> SUFFICES ASSUME TypeOK, SuccessInv, [Next]_vars PROVE SuccessInv'
    OBVIOUS
  <2>1. SucceededPerformed'
    BY PerformedGrows, SuccessWritten DEF SuccessInv, SucceededPerformed, SuccessSeen
  <2>2. SuccessSeen'
    BY SuccessReached DEF SuccessInv, SuccessSeen
  <2> QED
    BY <2>1, <2>2 DEF SuccessInv
<1>3. SuccessInv => SucceededPerformed
  BY DEF SuccessInv
<1> QED
  BY <1>1, <1>2, <1>3, TypeCorrect, PTL DEF Spec

-------------------------------------------------------------------------------
(* Folds over rows *)

\* A set has one element more than without one of its own.
LEMMA Smaller ==
  ASSUME NEW S, IsFiniteSet(S), NEW s \in SUBSET S, NEW x \in s
  PROVE  /\ Cardinality(s \ {x}) \in Nat /\ Cardinality(s) \in Nat
         /\ Cardinality(s) = Cardinality(s \ {x}) + 1
<1>1. IsFiniteSet(s)
  BY FS_Subset
<1>2. IsFiniteSet(s \ {x}) /\ Cardinality(s \ {x}) = Cardinality(s) - 1
  BY <1>1, FS_RemoveElement
<1>3. Cardinality(s \ {x}) \in Nat /\ Cardinality(s) \in Nat
  BY <1>1, <1>2, FS_CardinalityType
<1> QED BY <1>2, <1>3

\* What holds of no rows, and of rows when it does without the last of them, holds of all.
LEMMA RowByRow ==
  ASSUME NEW S \in SUBSET Nat, IsFiniteSet(S), NEW G \in SUBSET (SUBSET S), {} \in G,
         \A s \in SUBSET S : s # {} /\ s \ {Max(s)} \in G => s \in G
  PROVE  G = SUBSET S
<1> DEFINE Bad == (SUBSET S) \ G
           T == {Cardinality(s) : s \in Bad}
<1>1. \A s \in SUBSET S : IsFiniteSet(s) /\ Cardinality(s) \in Nat
  BY FS_Subset, FS_CardinalityType
<1>2. ASSUME Bad # {} PROVE FALSE
  <2>1. T \in SUBSET Nat /\ T # {}
    BY <1>1, <1>2
  <2>2. PICK n \in T : \A m \in T : n <= m
    BY <2>1, Least
  <2>3. PICK s \in Bad : n = Cardinality(s)
    BY <2>2
  <2>4. s \in SUBSET S /\ s # {}
    OBVIOUS
  <2>5. Max(s) \in s
    BY <1>1, <2>4, MaxIn
  <2>6. s \ {Max(s)} \in Bad
    BY <2>4
  <2>7. Cardinality(s) <= Cardinality(s \ {Max(s)})
    BY <2>2, <2>3, <2>6
  <2>8. /\ Cardinality(s \ {Max(s)}) \in Nat
        /\ Cardinality(s) = Cardinality(s \ {Max(s)}) + 1
    BY <2>4, <2>5, Smaller
  <2> HIDE DEF Bad, T
  <2> QED BY <2>7, <2>8
<1> QED BY <1>2

\* One step of the refunds or of the placement.
StepOf(refunds, done, a) == IF refunds THEN RefundOne(done, a) ELSE PlaceOne(done, a)

\* f is what comes of base after each part of S.
Folds(refunds, base, S, f) ==
  f = [s \in SUBSET S |->
         IF s = {} THEN base ELSE StepOf(refunds, f[s \ {Max(s)}], Max(s))]

\* There is such a function: of the parts with n elements, for every n.
LEMMA FoldsExist ==
  ASSUME NEW S \in SUBSET Nat, IsFiniteSet(S), NEW refunds, NEW base
  PROVE  \E f : Folds(refunds, base, S, f)
<1> DEFINE Parts(n) == {s \in SUBSET S : Cardinality(s) <= n}
           Up(n, f) ==
             f = [s \in Parts(n) |->
                    IF s = {} THEN base ELSE StepOf(refunds, f[s \ {Max(s)}], Max(s))]
           Bad == {n \in Nat : \A f : ~Up(n, f)}
<1>1. \A s \in SUBSET S : IsFiniteSet(s) /\ Cardinality(s) \in Nat
  BY FS_Subset, FS_CardinalityType
<1>2. ASSUME NEW n \in Nat, NEW s \in Parts(n), s # {}
      PROVE  s \ {Max(s)} \in Parts(n) /\ n > 0 /\ s \ {Max(s)} \in Parts(n - 1)
  <2>0. s \in SUBSET S /\ IsFiniteSet(s) /\ Cardinality(s) <= n
    BY <1>1
  <2>1. Max(s) \in s
    BY <1>2, <2>0, MaxIn
  <2>2. Cardinality(s) = Cardinality(s \ {Max(s)}) + 1
        /\ Cardinality(s \ {Max(s)}) \in Nat
    BY <2>0, <2>1, Smaller
  <2>3. s \ {Max(s)} \in SUBSET S
    BY <2>0
  <2>4. Cardinality(s \ {Max(s)}) <= n - 1 /\ Cardinality(s \ {Max(s)}) <= n /\ n > 0
    BY <2>0, <2>2
  <2> QED BY <2>3, <2>4
<1>3. \A n \in Nat : n \notin Bad <=> \E f : Up(n, f)
  <2> HIDE DEF Up
  <2> QED OBVIOUS
<1>4. Bad \in SUBSET Nat
  <2> HIDE DEF Up
  <2> QED OBVIOUS
<1> HIDE DEF Bad
<1>5. 0 \notin Bad
  <2>1. \A s \in Parts(0) : s = {}
    <3> SUFFICES ASSUME NEW s \in Parts(0), s # {} PROVE FALSE
      OBVIOUS
    <3>1. 0 > 0
      BY <1>2
    <3> QED BY <3>1
  <2>2. Up(0, [s \in Parts(0) |-> base])
    BY <2>1
  <2> HIDE DEF Up
  <2> QED BY <1>3, <2>2
<1>6. ASSUME NEW n \in Nat, n > 0, n - 1 \notin Bad PROVE n \notin Bad
  <2>1. n - 1 \in Nat
    BY <1>6
  <2>2. PICK g : Up(n - 1, g)
    <3> HIDE DEF Up
    <3> QED BY <1>3, <1>6, <2>1
  <2> DEFINE h == [s \in Parts(n) |->
                     IF s = {} THEN base ELSE StepOf(refunds, g[s \ {Max(s)}], Max(s))]
  <2>3. \A s \in Parts(n - 1) : s \in Parts(n)
    BY <1>1, <2>1
  <2>4. \A s \in Parts(n - 1) : s \in Parts(n) /\ h[s] = g[s]
    <3> HIDE DEF Parts
    <3> QED BY <2>2, <2>3
  <2>5. ASSUME NEW s \in Parts(n)
        PROVE  h[s] = IF s = {} THEN base ELSE StepOf(refunds, h[s \ {Max(s)}], Max(s))
    BY <1>2, <2>4
  <2>6. Up(n, h)
    <3> HIDE DEF Parts
    <3> QED BY <2>5
  <2> HIDE DEF Up
  <2> QED BY <1>3, <2>6
<1>7. Bad = {}
  <2> SUFFICES ASSUME Bad # {} PROVE FALSE
    OBVIOUS
  <2>1. PICK n \in Bad : \A m \in Bad : n <= m
    BY <1>4, Least
  <2>2. n \in Nat /\ n > 0 /\ n - 1 \in Nat
    BY <1>4, <1>5, <2>1
  <2>3. n - 1 \notin Bad
    BY <2>1, <2>2
  <2> QED BY <1>6, <2>1, <2>2, <2>3
<1>8. PICK f : Up(Cardinality(S), f)
  <2>1. Cardinality(S) \in Nat
    BY <1>1
  <2> HIDE DEF Up
  <2> QED BY <1>3, <1>7, <2>1
<1>9. Parts(Cardinality(S)) = SUBSET S
  BY FS_Subset
<1> HIDE DEF Parts
<1> QED BY <1>8, <1>9 DEF Folds

\* Sets of accounts are finite.
LEMMA Accounts ==
  ASSUME NEW S \in SUBSET Account
  PROVE  S \in SUBSET Nat /\ IsFiniteSet(S) /\ Cardinality(S) \in Nat
BY AccountAssumption, FS_Subset, FS_CardinalityType

\* Refunded is what comes of the sheet after all of Refundable.
LEMMA RefundedFolds ==
  ASSUME NEW sheet
  PROVE  \E f : /\ Folds(TRUE, sheet, Refundable(sheet), f)
                /\ Refunded(sheet) = f[Refundable(sheet)]
<1> DEFINE S == Refundable(sheet)
           Is(f) == f = [s \in SUBSET S |->
                           IF s = {} THEN sheet ELSE RefundOne(f[s \ {Max(s)}], Max(s))]
<1>1. Refunded(sheet) = (CHOOSE f : Is(f))[S]
  BY DEF Refunded, MapThenFoldSet
<1>2. S \in SUBSET Nat /\ IsFiniteSet(S)
  BY Accounts DEF Refundable
<1>3. \A f : Folds(TRUE, sheet, S, f) <=> Is(f)
  BY DEF Folds, StepOf
<1>4. \E f : Is(f)
  <2> HIDE DEF S, Is
  <2> QED BY <1>2, <1>3, FoldsExist
<1> HIDE DEF S, Is
<1>5. Is(CHOOSE f : Is(f))
  BY <1>4
<1> QED BY <1>1, <1>3, <1>5 DEF S

\* Placed is what comes of the sheet after all of Placeable.
LEMMA PlacedFolds ==
  ASSUME NEW sheet, NEW n
  PROVE  \E f : /\ Folds(FALSE, [sheet |-> sheet, next |-> n], Placeable(sheet), f)
                /\ Placed(sheet, n) = f[Placeable(sheet)]
<1> DEFINE S == Placeable(sheet)
           base == [sheet |-> sheet, next |-> n]
           Is(f) == f = [s \in SUBSET S |->
                           IF s = {} THEN base ELSE PlaceOne(f[s \ {Max(s)}], Max(s))]
<1>1. Placed(sheet, n) = (CHOOSE f : Is(f))[S]
  BY DEF Placed, MapThenFoldSet
<1>2. S \in SUBSET Nat /\ IsFiniteSet(S)
  BY Accounts DEF Placeable
<1>3. \A f : Folds(FALSE, base, S, f) <=> Is(f)
  BY DEF Folds, StepOf
<1>4. \E f : Is(f)
  <2> HIDE DEF S, Is, base
  <2> QED BY <1>2, <1>3, FoldsExist
<1> HIDE DEF S, Is
<1>5. Is(CHOOSE f : Is(f))
  BY <1>4
<1> QED BY <1>1, <1>3, <1>5 DEF S

-------------------------------------------------------------------------------
(* Refunds *)

\* A sheet whose groups are among the first n - 1 identifiers and sound; a role is a role
\* in a group.
SheetOK(sheet, n) ==
  /\ sheet \in [Account -> CsvAccount(1..(n - 1))]
  /\ \A a \in Account : sheet[a].role = "none" <=> sheet[a].group = NoGroup
  /\ GroupsSound(sheet)

\* What refunds leave as it was.
Kept(before, after) ==
  \A a \in Account :
    /\ after[a].status = before[a].status
    /\ after[a].group \in {before[a].group, NoGroup}
    /\ before[a].status = "PAID" => after[a].group = before[a].group

\* What a row of a sheet holds.
LEMMA RowFields ==
  ASSUME NEW G, NEW r \in CsvAccount(G)
  PROVE  /\ r.status \in {"PAID", "REFUNDED", "PENDING", "BLOCKED_POLICY"}
         /\ r.group \in G \cup {NoGroup}
         /\ r.role \in {"none", "MANAGER", "MEMBER"}
         /\ r.joined \in {"none", "recent", "old"}
         /\ r.email \in {"plain", "formula", "quoted"}
         /\ r = [status |-> r.status, group |-> r.group, role |-> r.role,
                 joined |-> r.joined, email |-> r.email]
BY DEF CsvAccount

\* Those of a role in a group are finitely many accounts.
LEMMA WithFinite ==
  ASSUME NEW sheet, NEW g, NEW role
  PROVE  With(sheet, g, role) \in SUBSET Account /\ IsFiniteSet(With(sheet, g, role))
BY Accounts DEF With, In

\* A group is sound that has one manager and no more members than another that was.
LEMMA SoundParts ==
  ASSUME NEW sheet
  PROVE  GroupsSound(sheet) <=>
           \A g \in Groups(sheet) :
             /\ \E m : With(sheet, g, "MANAGER") = {m}
             /\ Cardinality(With(sheet, g, "MEMBER")) <= MaxMembers
<1>1. \A g : Cardinality(With(sheet, g, "MANAGER")) = 1
               <=> \E m : With(sheet, g, "MANAGER") = {m}
  BY WithFinite, FS_Singleton
<1> QED BY <1>1 DEF GroupsSound

\* Fewer members than not too many are not too many.
LEMMA FewerMembers ==
  ASSUME NEW before, NEW after, NEW g,
         With(after, g, "MEMBER") \subseteq With(before, g, "MEMBER"),
         Cardinality(With(before, g, "MEMBER")) <= MaxMembers
  PROVE  Cardinality(With(after, g, "MEMBER")) <= MaxMembers
<1>1. IsFiniteSet(With(before, g, "MEMBER")) /\ IsFiniteSet(With(after, g, "MEMBER"))
  BY WithFinite
<1>2. Cardinality(With(after, g, "MEMBER")) <= Cardinality(With(before, g, "MEMBER"))
  BY <1>1, FS_Subset
<1>3. /\ Cardinality(With(after, g, "MEMBER")) \in Nat
      /\ Cardinality(With(before, g, "MEMBER")) \in Nat
  BY <1>1, FS_CardinalityType
<1> QED BY <1>2, <1>3, MembersAssumption

\* Rows that leave their groups keep everything else, and so do all other rows.
LEMMA WithoutRows ==
  ASSUME NEW G, NEW sheet \in [Account -> CsvAccount(G)], NEW out \in SUBSET Account
  PROVE  /\ Without(sheet, out) \in [Account -> CsvAccount(G)]
         /\ \A a \in Account :
              /\ Without(sheet, out)[a].status = sheet[a].status
              /\ a \in out => /\ Without(sheet, out)[a].group = NoGroup
                              /\ Without(sheet, out)[a].role = "none"
              /\ a \notin out => Without(sheet, out)[a] = sheet[a]
<1>1. ASSUME NEW a \in Account
      PROVE  /\ [sheet[a] EXCEPT !.group = NoGroup, !.role = "none"] \in CsvAccount(G)
             /\ [sheet[a] EXCEPT !.group = NoGroup, !.role = "none"].status = sheet[a].status
             /\ [sheet[a] EXCEPT !.group = NoGroup, !.role = "none"].group = NoGroup
             /\ [sheet[a] EXCEPT !.group = NoGroup, !.role = "none"].role = "none"
  <2>1. sheet[a] \in CsvAccount(G)
    OBVIOUS
  <2> QED BY <2>1 DEF CsvAccount
<1>2. \A a \in Account : a \notin out => Without(sheet, out)[a] = sheet[a]
  BY DEF Without
<1>3. \A a \in Account :
        a \in out => Without(sheet, out)[a]
                       = [sheet[a] EXCEPT !.group = NoGroup, !.role = "none"]
  BY DEF Without
<1>4. \A a \in Account : Without(sheet, out)[a] \in CsvAccount(G)
  BY <1>1, <1>2, <1>3
<1>5. Without(sheet, out) = [a \in Account |-> Without(sheet, out)[a]]
  BY DEF Without
<1> QED BY <1>1, <1>2, <1>3, <1>4, <1>5

\* What groups are made of after rows have left them.
LEMMA SoundAfter ==
  ASSUME NEW before, NEW after, GroupsSound(before),
         \A a \in Account : after[a].group \in {before[a].group, NoGroup},
         \A g \in Groups(after) :
           /\ \E m : With(after, g, "MANAGER") = {m}
           /\ With(after, g, "MEMBER") \subseteq With(before, g, "MEMBER")
  PROVE  GroupsSound(after)
<1> SUFFICES ASSUME NEW g \in Groups(after)
             PROVE  Cardinality(With(after, g, "MEMBER")) <= MaxMembers
  BY SoundParts
<1>1. g \in Groups(before)
  BY DEF Groups
<1> QED BY <1>1, FewerMembers DEF GroupsSound

\* A refund takes its row out of its group, no payer out of one, and leaves groups sound.
LEMMA RefundOneOK ==
  ASSUME NEW n \in Nat, NEW sheet, SheetOK(sheet, n),
         NEW a \in Account, sheet[a].status = "REFUNDED"
  PROVE  /\ SheetOK(RefundOne(sheet, a), n)
         /\ Kept(sheet, RefundOne(sheet, a))
         /\ RefundOne(sheet, a)[a].group = NoGroup
<1> DEFINE g == sheet[a].group
           r == RefundOne(sheet, a)
           G == 1..(n - 1)
<1>1. /\ sheet \in [Account -> CsvAccount(G)]
      /\ \A b \in Account : sheet[b].role = "none" <=> sheet[b].group = NoGroup
      /\ GroupsSound(sheet)
  BY DEF SheetOK
<1>2. \A b \in Account :
        /\ sheet[b] \in CsvAccount(G)
        /\ sheet[b].group \in G \cup {NoGroup}
        /\ sheet[b].role \in {"none", "MANAGER", "MEMBER"}
  BY <1>1, RowFields
<1> HIDE DEF G
<1>3. CASE sheet[a].role # "MANAGER"
  <2>1. r = Without(sheet, {a})
    BY <1>3 DEF RefundOne
  <2>2. /\ r \in [Account -> CsvAccount(G)]
        /\ \A b \in Account :
             /\ r[b].status = sheet[b].status
             /\ b = a => r[b].group = NoGroup /\ r[b].role = "none"
             /\ b # a => r[b] = sheet[b]
    BY <1>1, <2>1, WithoutRows
  <2> HIDE DEF r
  <2>3. Kept(sheet, r)
    BY <2>2 DEF Kept
  <2>4. ASSUME NEW h \in Groups(r)
        PROVE  /\ \E m : With(r, h, "MANAGER") = {m}
               /\ With(r, h, "MEMBER") \subseteq With(sheet, h, "MEMBER")
    <3>0. h # NoGroup
      BY DEF Groups
    <3>1. h \in Groups(sheet)
      BY <2>2 DEF Groups
    <3>2. With(r, h, "MANAGER") = With(sheet, h, "MANAGER")
      BY <1>3, <2>2, <3>0 DEF With, In
    <3>3. With(r, h, "MEMBER") \subseteq With(sheet, h, "MEMBER")
      BY <2>2, <3>0 DEF With, In
    <3> QED BY <1>1, <3>1, <3>2, <3>3, SoundParts
  <2>5. GroupsSound(r)
    BY <1>1, <2>2, <2>4, SoundAfter
  <2>6. \A b \in Account : r[b].role = "none" <=> r[b].group = NoGroup
    BY <1>1, <2>2
  <2> QED BY <2>2, <2>3, <2>5, <2>6 DEF SheetOK, r, G
<1>4. CASE sheet[a].role = "MANAGER"
  <2>1. g # NoGroup /\ g \in Groups(sheet)
    BY <1>1, <1>4 DEF Groups
  <2>2. With(sheet, g, "MANAGER") = {a}
    <3>1. a \in With(sheet, g, "MANAGER")
      BY <1>4 DEF With, In
    <3>2. PICK m : With(sheet, g, "MANAGER") = {m}
      BY <1>1, <2>1, SoundParts
    <3> QED BY <3>1, <3>2
  <2>3. CASE Heirs(sheet, a) = {}
    <3>1. r = Without(sheet, In(sheet, g) \cup {a})
      BY <1>4, <2>3 DEF RefundOne
    <3>2. /\ r \in [Account -> CsvAccount(G)]
          /\ \A b \in Account :
               /\ r[b].status = sheet[b].status
               /\ b \in In(sheet, g) => r[b].group = NoGroup /\ r[b].role = "none"
               /\ b \notin In(sheet, g) => r[b] = sheet[b]
      <4>1. In(sheet, g) \cup {a} = In(sheet, g) /\ In(sheet, g) \in SUBSET Account
        BY DEF In
      <4> QED BY <1>1, <3>1, <4>1, WithoutRows
    <3>3. a \in In(sheet, g)
      BY DEF In
    <3> HIDE DEF r
    <3>4. ASSUME NEW b \in In(sheet, g), sheet[b].status = "PAID" PROVE FALSE
      <4>1. b \in Account /\ sheet[b].group = g /\ b # a
        BY <3>4 DEF In
      <4>2. sheet[b].role = "MEMBER"
        BY <1>1, <1>2, <2>1, <2>2, <4>1 DEF With, In
      <4>3. b \in Heirs(sheet, a)
        BY <3>4, <4>1, <4>2 DEF Heirs, With, In
      <4> QED BY <2>3, <4>3
    <3>5. Kept(sheet, r)
      BY <3>2, <3>4 DEF Kept
    <3>6. ASSUME NEW h \in Groups(r)
          PROVE  /\ \E m : With(r, h, "MANAGER") = {m}
                 /\ With(r, h, "MEMBER") \subseteq With(sheet, h, "MEMBER")
      <4>1. PICK c \in Account : r[c].group = h /\ h # NoGroup
        BY DEF Groups
      <4>2. c \notin In(sheet, g) /\ sheet[c].group = h /\ h # g
        BY <3>2, <4>1 DEF In
      <4>3. h \in Groups(sheet)
        BY <4>1, <4>2 DEF Groups
      <4>4. \A role : With(r, h, role) = With(sheet, h, role)
        BY <3>2, <4>1, <4>2 DEF With, In
      <4> QED BY <1>1, <4>3, <4>4, SoundParts
    <3>7. GroupsSound(r)
      BY <1>1, <3>2, <3>6, SoundAfter
    <3>8. \A b \in Account : r[b].role = "none" <=> r[b].group = NoGroup
      BY <1>1, <3>2
    <3> QED BY <3>2, <3>3, <3>5, <3>7, <3>8 DEF SheetOK, r, G
  <2>4. CASE Heirs(sheet, a) # {}
    <3> DEFINE e == Min(Heirs(sheet, a))
               t == [sheet EXCEPT ![e].role = "MANAGER"]
    <3>1. r = Without(t, {a})
      BY <1>4, <2>4 DEF RefundOne
    <3>2. e \in Heirs(sheet, a)
      <4>1. Heirs(sheet, a) \in SUBSET Nat
        BY AccountAssumption DEF Heirs, With, In
      <4> QED BY <2>4, <4>1, MinIn
    <3>3. e \in Account /\ e # a /\ sheet[e].role = "MEMBER" /\ sheet[e].group = g
      BY <3>2 DEF Heirs, With, In
    <3> HIDE DEF e
    <3>4. /\ t \in [Account -> CsvAccount(G)]
          /\ \A b \in Account :
               /\ t[b].status = sheet[b].status
               /\ t[b].group = sheet[b].group
               /\ b = e => t[b].role = "MANAGER"
               /\ b # e => t[b].role = sheet[b].role
      <4>1. /\ [sheet[e] EXCEPT !.role = "MANAGER"] \in CsvAccount(G)
            /\ [sheet[e] EXCEPT !.role = "MANAGER"].status = sheet[e].status
            /\ [sheet[e] EXCEPT !.role = "MANAGER"].group = sheet[e].group
            /\ [sheet[e] EXCEPT !.role = "MANAGER"].role = "MANAGER"
        BY <1>2, <3>3 DEF CsvAccount
      <4>2. t[e] = [sheet[e] EXCEPT !.role = "MANAGER"]
        BY <1>1, <3>3
      <4>3. \A b \in Account : b # e => t[b] = sheet[b]
        BY <1>1, <3>3
      <4>4. t = [b \in Account |-> t[b]]
        BY <1>1
      <4> HIDE DEF t
      <4>5. \A b \in Account : t[b] \in CsvAccount(G)
        BY <1>2, <4>1, <4>2, <4>3
      <4>6. t \in [Account -> CsvAccount(G)]
        BY <4>4, <4>5
      <4> QED BY <4>1, <4>2, <4>3, <4>6
    <3> HIDE DEF t
    <3>5. /\ r \in [Account -> CsvAccount(G)]
          /\ \A b \in Account :
               /\ r[b].status = sheet[b].status
               /\ b = a => r[b].group = NoGroup /\ r[b].role = "none"
               /\ b # a => /\ r[b].group = sheet[b].group
                           /\ r[b].role = IF b = e THEN "MANAGER" ELSE sheet[b].role
      <4>1. /\ r \in [Account -> CsvAccount(G)]
            /\ \A b \in Account :
                 /\ r[b].status = t[b].status
                 /\ b = a => r[b].group = NoGroup /\ r[b].role = "none"
                 /\ b # a => r[b] = t[b]
        BY <3>1, <3>4, WithoutRows
      <4> HIDE DEF r
      <4> QED BY <3>4, <4>1
    <3> HIDE DEF r
    <3>6. Kept(sheet, r)
      BY <3>5 DEF Kept
    <3>7. ASSUME NEW h \in Groups(r)
          PROVE  /\ \E m : With(r, h, "MANAGER") = {m}
                 /\ With(r, h, "MEMBER") \subseteq With(sheet, h, "MEMBER")
      <4>0. h # NoGroup
        BY DEF Groups
      <4>1. h \in Groups(sheet)
        BY <3>5, <4>0 DEF Groups
      <4>2. With(r, h, "MEMBER") \subseteq With(sheet, h, "MEMBER")
        BY <3>5, <4>0 DEF With, In
      <4>3. CASE h = g
        <5>1. \A b \in Account : sheet[b].group = g /\ sheet[b].role = "MANAGER" <=> b = a
          BY <2>2 DEF With, In
        <5>2. With(r, g, "MANAGER") = {e}
          BY <2>1, <3>3, <3>5, <5>1 DEF With, In
        <5> QED BY <4>2, <4>3, <5>2
      <4>4. CASE h # g
        <5>1. With(r, h, "MANAGER") = With(sheet, h, "MANAGER")
          BY <3>3, <3>5, <4>0, <4>4 DEF With, In
        <5> QED BY <1>1, <4>1, <4>2, <5>1, SoundParts
      <4> QED BY <4>3, <4>4
    <3>8. GroupsSound(r)
      BY <1>1, <3>5, <3>7, SoundAfter
    <3>9. \A b \in Account : r[b].role = "none" <=> r[b].group = NoGroup
      BY <1>1, <3>5, <3>3
    <3> QED BY <3>5, <3>6, <3>8, <3>9 DEF SheetOK, r, G
  <2> QED BY <2>3, <2>4
<1> QED BY <1>3, <1>4

\* All refunds together.
LEMMA RefundedOK ==
  ASSUME NEW n \in Nat, NEW sheet, SheetOK(sheet, n)
  PROVE  /\ SheetOK(Refunded(sheet), n)
         /\ Kept(sheet, Refunded(sheet))
         /\ \A a \in Account :
              Refunded(sheet)[a].status = "REFUNDED" => Refunded(sheet)[a].group = NoGroup
<1> DEFINE S == Refundable(sheet)
<1>1. PICK f : Folds(TRUE, sheet, S, f) /\ Refunded(sheet) = f[S]
  BY RefundedFolds
<1>2. S \in SUBSET Account /\ S \in SUBSET Nat /\ IsFiniteSet(S)
  BY Accounts DEF Refundable
<1> DEFINE Good(s) == /\ SheetOK(f[s], n)
                      /\ Kept(sheet, f[s])
                      /\ \A a \in s : f[s][a].group = NoGroup
           G == {s \in SUBSET S : Good(s)}
<1>3. Good({})
  <2>1. f[{}] = sheet
    BY <1>1 DEF Folds
  <2>2. Kept(sheet, sheet)
    BY DEF Kept
  <2> QED BY <2>1, <2>2
<1>4. ASSUME NEW s \in SUBSET S, s # {}, Good(s \ {Max(s)})
      PROVE  Good(s)
  <2> DEFINE a == Max(s)
             u == f[s \ {a}]
  <2>1. a \in s /\ a \in Account
    BY <1>2, <1>4, FS_Subset, MaxIn
  <2>2. f[s] = RefundOne(u, a)
    BY <1>1, <1>4 DEF Folds, StepOf
  <2>3. SheetOK(u, n) /\ Kept(sheet, u) /\ \A b \in s \ {a} : u[b].group = NoGroup
    BY <1>4
  <2>4. u[a].status = "REFUNDED"
    BY <2>1, <2>3 DEF Kept, Refundable
  <2> HIDE DEF a, u
  <2>5. SheetOK(f[s], n) /\ Kept(u, f[s]) /\ f[s][a].group = NoGroup
    BY <2>1, <2>2, <2>3, <2>4, RefundOneOK
  <2>6. Kept(sheet, f[s])
    BY <2>3, <2>5 DEF Kept
  <2>7. \A b \in s : f[s][b].group = NoGroup
    BY <1>2, <2>3, <2>5 DEF Kept
  <2> QED BY <2>5, <2>6, <2>7
<1>5. Good(S)
  <2>1. G \in SUBSET (SUBSET S) /\ {} \in G
    BY <1>3
  <2>2. \A s \in SUBSET S : s # {} /\ s \ {Max(s)} \in G => s \in G
    BY <1>4
  <2> HIDE DEF G, S, Good
  <2>3. G = SUBSET S
    BY <1>2, <2>1, <2>2, RowByRow
  <2> QED BY <2>3 DEF G
<1>6. ASSUME NEW a \in Account, f[S][a].status = "REFUNDED"
      PROVE  f[S][a].group = NoGroup
  <2>1. sheet[a].status = "REFUNDED" /\ f[S][a].group \in {sheet[a].group, NoGroup}
    BY <1>5, <1>6 DEF Kept
  <2>2. CASE sheet[a].group = NoGroup
    BY <2>1, <2>2
  <2>3. CASE sheet[a].group # NoGroup
    <3>1. a \in S
      BY <2>1, <2>3 DEF Refundable
    <3> QED BY <1>5, <3>1
  <2> QED BY <2>2, <2>3
<1> QED BY <1>1, <1>5, <1>6

-------------------------------------------------------------------------------
(* Placement *)

\* A group is vacant exactly when it has fewer members than it may have.
LEMMA VacancyNat ==
  ASSUME NEW sheet, NEW g
  PROVE  /\ Vacancy(sheet, g) \in Nat
         /\ Vacancy(sheet, g) > 0 <=> Cardinality(With(sheet, g, "MEMBER")) < MaxMembers
<1>1. Cardinality(With(sheet, g, "MEMBER")) \in Nat
  BY WithFinite, FS_CardinalityType
<1> QED BY <1>1, MembersAssumption DEF Vacancy

\* There is a first among the least vacant groups.
LEMMA LeastVacantIn ==
  ASSUME NEW sheet, Vacant(sheet) # {}
  PROVE  LeastVacant(sheet) \in Vacant(sheet)
<1> DEFINE V == Vacant(sheet)
           T == {Vacancy(sheet, g) : g \in V}
<1>1. T \in SUBSET Nat /\ T # {}
  BY VacancyNat
<1>2. PICK v \in T : \A w \in T : v <= w
  BY <1>1, Least
<1> DEFINE W == {g \in V : Vacancy(sheet, g) = v}
           F == {Min(In(sheet, g)) : g \in W}
<1>3. \A g \in V : Min(In(sheet, g)) \in In(sheet, g) /\ Min(In(sheet, g)) \in Nat
  <2> SUFFICES ASSUME NEW g \in V
               PROVE  Min(In(sheet, g)) \in In(sheet, g) /\ Min(In(sheet, g)) \in Nat
    OBVIOUS
  <2>1. In(sheet, g) # {} /\ In(sheet, g) \in SUBSET Nat
    BY AccountAssumption DEF Vacant, Groups, In
  <2> QED BY <2>1, MinIn
<1>4. F \in SUBSET Nat /\ F # {}
  BY <1>2, <1>3
<1>5. PICK m \in F : \A k \in F : m <= k
  BY <1>4, Least
<1>6. PICK g \in W : m = Min(In(sheet, g))
  BY <1>5
<1>7. ASSUME NEW h \in V \ {g}
      PROVE  \/ Vacancy(sheet, g) < Vacancy(sheet, h)
             \/ /\ Vacancy(sheet, g) = Vacancy(sheet, h)
                /\ Min(In(sheet, g)) < Min(In(sheet, h))
  <2>1. v <= Vacancy(sheet, h) /\ v = Vacancy(sheet, g) /\ v \in Nat
        /\ Vacancy(sheet, h) \in Nat
    BY <1>1, <1>2
  <2>2. CASE Vacancy(sheet, h) # v
    BY <2>1, <2>2
  <2>3. CASE Vacancy(sheet, h) = v
    <3>1. Min(In(sheet, h)) \in F
      BY <2>3
    <3>2. m <= Min(In(sheet, h)) /\ m \in Nat /\ Min(In(sheet, h)) \in Nat
      BY <1>4, <1>5, <3>1
    <3>3. Min(In(sheet, g)) \in In(sheet, g) /\ Min(In(sheet, h)) \in In(sheet, h)
      BY <1>3
    <3>4. Min(In(sheet, g)) # Min(In(sheet, h))
      BY <3>3 DEF In
    <3> HIDE DEF F, W, V, T
    <3> QED BY <1>6, <2>1, <2>3, <3>2, <3>4
  <2> QED BY <2>2, <2>3
<1>8. \E x \in V : \A h \in V \ {x} :
        \/ Vacancy(sheet, x) < Vacancy(sheet, h)
        \/ /\ Vacancy(sheet, x) = Vacancy(sheet, h)
           /\ Min(In(sheet, x)) < Min(In(sheet, h))
  BY <1>7
<1> QED BY <1>8 DEF LeastVacant

\* An account joins a group and nothing else changes.
LEMMA JoinsRow ==
  ASSUME NEW G, NEW t \in [Account -> CsvAccount(G)], NEW n, NEW a \in Account, NEW g \in G,
         NEW role \in {"MANAGER", "MEMBER"}, NEW r,
         r = Joins([sheet |-> t, next |-> n], a, g, role)
  PROVE  /\ r = [sheet |-> r.sheet, next |-> n]
         /\ r.sheet \in [Account -> CsvAccount(G)]
         /\ r.sheet[a].status = t[a].status
         /\ r.sheet[a].group = g
         /\ r.sheet[a].role = role
         /\ \A b \in Account : b # a => r.sheet[b] = t[b]
<1> DEFINE x == [t[a] EXCEPT !.group = g, !.role = role,
                             !.joined = IF t[a].joined = "none" THEN "recent" ELSE t[a].joined]
<1>1. t[a] \in CsvAccount(G)
  OBVIOUS
<1>2. /\ x \in CsvAccount(G) /\ x.status = t[a].status
      /\ x.group = g /\ x.role = role
  BY <1>1 DEF CsvAccount
<1>3. r = [sheet |-> [t EXCEPT ![a] = x], next |-> n]
  BY DEF Joins
<1> DEFINE y == [t EXCEPT ![a] = x]
<1> HIDE DEF x
<1>4. /\ y \in [Account -> CsvAccount(G)]
      /\ y[a] = x
      /\ \A b \in Account : b # a => y[b] = t[b]
  BY <1>2
<1>5. r = [sheet |-> y, next |-> n]
  BY <1>3
<1> HIDE DEF y
<1>6. r.sheet = y
  BY <1>5
<1> QED BY <1>2, <1>4, <1>5, <1>6

\* Groups that have the same rows in the same roles are vacant alike and sound alike.
LEMMA SameGroup ==
  ASSUME NEW t, NEW u, NEW g,
         \A a \in Account : (t[a].group = g \/ u[a].group = g) =>
           u[a].group = t[a].group /\ u[a].role = t[a].role
  PROVE  /\ g \in Groups(t) <=> g \in Groups(u)
         /\ \A role : With(t, g, role) = With(u, g, role)
         /\ Vacancy(t, g) = Vacancy(u, g)
<1>1. g \in Groups(t) <=> g \in Groups(u)
  BY DEF Groups
<1>2. \A role : With(t, g, role) = With(u, g, role)
  BY DEF With, In
<1> QED BY <1>1, <1>2 DEF Vacancy

\* Where a payer without a group may come to.
PlacedRow(row, n) ==
  \/ row.status = "BLOCKED_POLICY" /\ row.group = NoGroup
  \/ row.status = "PAID" /\ row.group \in 1..(n - 1)

\* Placing a payer keeps the sheet in order, moves nobody else, and founds a group only
\* when none has room.
LEMMA PlaceOneOK ==
  ASSUME NEW n \in Nat, n > 0, NEW t, SheetOK(t, n),
         NEW a \in Account, t[a].status = "PAID", t[a].group = NoGroup
  PROVE  LET r == PlaceOne([sheet |-> t, next |-> n], a) IN
         /\ r = [sheet |-> r.sheet, next |-> r.next]
         /\ r.next \in {n, n + 1}
         /\ SheetOK(r.sheet, r.next)
         /\ PlacedRow(r.sheet[a], r.next)
         /\ \A b \in Account : b # a => r.sheet[b] = t[b]
         /\ Groups(r.sheet) \subseteq Groups(t) \cup n..(r.next - 1)
         /\ Vacant(r.sheet) \subseteq IF r.next = n THEN Vacant(t) ELSE {n}
<1> DEFINE state == [sheet |-> t, next |-> n]
           r == PlaceOne(state, a)
           G(m) == 1..(m - 1)
<1>1. /\ t \in [Account -> CsvAccount(G(n))]
      /\ \A b \in Account : t[b].role = "none" <=> t[b].group = NoGroup
      /\ GroupsSound(t)
  BY DEF SheetOK
<1>2. state.sheet = t /\ state.next = n
  OBVIOUS
<1>3. \A b \in Account : t[b].group \in G(n) \cup {NoGroup}
  BY <1>1, RowFields
<1>4. CASE Blocked(t[a])
  <2> DEFINE u == [t EXCEPT ![a].status = "BLOCKED_POLICY"]
  <2>1. r = [state EXCEPT !.sheet[a].status = "BLOCKED_POLICY"]
    BY <1>2, <1>4 DEF PlaceOne
  <2>2. r = [sheet |-> u, next |-> n]
    <3> HIDE DEF r
    <3> QED BY <2>1
  <2>3. r.sheet = u /\ r.next = n
    <3> HIDE DEF r, u
    <3> QED BY <2>2
  <2>4. [t[a] EXCEPT !.status = "BLOCKED_POLICY"] \in CsvAccount(G(n))
    <3>1. t[a] \in CsvAccount(G(n))
      BY <1>1
    <3> QED BY <3>1 DEF CsvAccount
  <2>5. /\ u \in [Account -> CsvAccount(G(n))]
        /\ u[a].status = "BLOCKED_POLICY" /\ u[a].group = NoGroup /\ u[a].role = t[a].role
        /\ \A b \in Account : b # a => u[b] = t[b]
    <3>1. t[a] \in CsvAccount(G(n))
      BY <1>1
    <3>2. u[a] = [t[a] EXCEPT !.status = "BLOCKED_POLICY"]
      BY <1>1
    <3>3. \A b \in Account : b # a => u[b] = t[b]
      BY <1>1
    <3>4. u = [b \in Account |-> u[b]]
      BY <1>1
    <3>5. u[a].status = "BLOCKED_POLICY" /\ u[a].group = NoGroup /\ u[a].role = t[a].role
      BY <3>1, <3>2 DEF CsvAccount
    <3> HIDE DEF u
    <3>6. \A b \in Account : u[b] \in CsvAccount(G(n))
      BY <1>1, <2>4, <3>2, <3>3
    <3> QED BY <3>3, <3>4, <3>5, <3>6
  <2> HIDE DEF u, r
  <2>6. \A b \in Account : u[b].group = t[b].group /\ u[b].role = t[b].role
    BY <2>5
  <2>7. /\ Groups(u) = Groups(t)
        /\ \A g : Vacancy(u, g) = Vacancy(t, g)
        /\ \A g, role : With(u, g, role) = With(t, g, role)
    <3>1. ASSUME NEW g
          PROVE  /\ g \in Groups(t) <=> g \in Groups(u)
                 /\ \A role : With(t, g, role) = With(u, g, role)
                 /\ Vacancy(t, g) = Vacancy(u, g)
      <4>1. \A b \in Account : (t[b].group = g \/ u[b].group = g) =>
              u[b].group = t[b].group /\ u[b].role = t[b].role
        BY <2>6
      <4> QED BY <4>1, SameGroup
    <3> QED BY <3>1
  <2>8. GroupsSound(u) /\ Vacant(u) = Vacant(t)
    BY <1>1, <2>7 DEF GroupsSound, Vacant
  <2>9. SheetOK(u, n)
    BY <1>1, <2>5, <2>6, <2>8 DEF SheetOK
  <2>10. PlacedRow(u[a], n)
    BY <2>5 DEF PlacedRow
  <2> QED BY <2>2, <2>3, <2>5, <2>7, <2>8, <2>9, <2>10 DEF r
<1>5. CASE ~Blocked(t[a]) /\ Vacant(t) # {}
  <2> DEFINE g == LeastVacant(t)
             u == r.sheet
  <2>1. r = Joins(state, a, g, "MEMBER")
    BY <1>2, <1>5 DEF PlaceOne
  <2>2. g \in Vacant(t)
    BY <1>5, LeastVacantIn
  <2>3. g \in Groups(t) /\ g \in G(n) /\ g # NoGroup
    BY <1>3, <2>2 DEF Vacant, Groups
  <2> HIDE DEF g
  <2>4. /\ r = [sheet |-> u, next |-> n]
        /\ u \in [Account -> CsvAccount(G(n))]
        /\ u[a].status = "PAID" /\ u[a].group = g /\ u[a].role = "MEMBER"
        /\ \A b \in Account : b # a => u[b] = t[b]
    <3> HIDE DEF r, G
    <3>1. /\ t \in [Account -> CsvAccount(G(n))] /\ g \in G(n)
          /\ r = Joins([sheet |-> t, next |-> n], a, g, "MEMBER")
      BY <1>1, <2>1, <2>3
    <3> QED BY <3>1, JoinsRow
  <2> HIDE DEF r
  <2>5. r.next = n
    BY <2>4
  <2> HIDE DEF u
  <2>6. ASSUME NEW h, h # g, h # NoGroup
        PROVE  /\ h \in Groups(t) <=> h \in Groups(u)
               /\ \A role : With(t, h, role) = With(u, h, role)
               /\ Vacancy(t, h) = Vacancy(u, h)
    <3>1. \A b \in Account : (t[b].group = h \/ u[b].group = h) =>
            u[b].group = t[b].group /\ u[b].role = t[b].role
      BY <2>4, <2>6
    <3> QED BY <3>1, SameGroup
  <2>7. NoGroup \notin Groups(u) /\ Groups(u) \subseteq Groups(t)
    BY <2>3, <2>6 DEF Groups
  <2>8. Vacant(u) \subseteq Vacant(t)
    BY <2>2, <2>6, <2>7 DEF Vacant
  <2>9. With(u, g, "MANAGER") = With(t, g, "MANAGER")
        /\ With(u, g, "MEMBER") = With(t, g, "MEMBER") \cup {a}
        /\ a \notin With(t, g, "MEMBER")
    BY <2>3, <2>4 DEF With, In
  <2>10. Cardinality(With(u, g, "MEMBER")) <= MaxMembers
    <3>1. Cardinality(With(t, g, "MEMBER")) < MaxMembers
      BY <2>2, VacancyNat DEF Vacant
    <3>2. Cardinality(With(u, g, "MEMBER")) = Cardinality(With(t, g, "MEMBER")) + 1
      BY <2>9, WithFinite, FS_AddElement
    <3>3. Cardinality(With(t, g, "MEMBER")) \in Nat
      BY WithFinite, FS_CardinalityType
    <3> QED BY <3>1, <3>2, <3>3, MembersAssumption
  <2>11. GroupsSound(u)
    BY <1>1, <2>3, <2>6, <2>7, <2>9, <2>10 DEF GroupsSound
  <2>12. \A b \in Account : u[b].role = "none" <=> u[b].group = NoGroup
    BY <1>1, <2>3, <2>4
  <2>13. SheetOK(u, n)
    BY <2>4, <2>11, <2>12 DEF SheetOK
  <2>14. PlacedRow(u[a], n)
    BY <2>3, <2>4 DEF PlacedRow
  <2> QED BY <2>4, <2>5, <2>7, <2>8, <2>13, <2>14 DEF r, u
<1>6. CASE ~Blocked(t[a]) /\ Vacant(t) = {}
  <2> DEFINE j == Joins(state, a, n, "MANAGER")
             u == j.sheet
  <2>1. r = [j EXCEPT !.next = @ + 1]
    BY <1>2, <1>6 DEF PlaceOne
  <2>2. G(n) \subseteq G(n + 1) /\ n \in G(n + 1) /\ n \notin G(n) /\ n # NoGroup
    BY DEF NoGroup
  <2>3. t \in [Account -> CsvAccount(G(n + 1))]
    <3>1. CsvAccount(G(n)) \subseteq CsvAccount(G(n + 1))
      BY <2>2 DEF CsvAccount
    <3> QED BY <1>1, <3>1
  <2>4. /\ j = [sheet |-> u, next |-> n]
        /\ u \in [Account -> CsvAccount(G(n + 1))]
        /\ u[a].status = "PAID" /\ u[a].group = n /\ u[a].role = "MANAGER"
        /\ \A b \in Account : b # a => u[b] = t[b]
    <3>1. j = Joins([sheet |-> t, next |-> n], a, n, "MANAGER")
      OBVIOUS
    <3> HIDE DEF j, G
    <3> QED BY <2>2, <2>3, <3>1, JoinsRow
  <2> HIDE DEF j
  <2>5. r = [sheet |-> u, next |-> n + 1]
    <3> HIDE DEF r, u
    <3> QED BY <2>1, <2>4
  <2> HIDE DEF r, u
  <2>6. r.sheet = u /\ r.next = n + 1
    BY <2>5
  <2>7. \A b \in Account : t[b].group # n
    BY <1>3, <2>2
  <2>8. ASSUME NEW h, h # n, h # NoGroup
        PROVE  /\ h \in Groups(t) <=> h \in Groups(u)
               /\ \A role : With(t, h, role) = With(u, h, role)
               /\ Vacancy(t, h) = Vacancy(u, h)
    <3>1. \A b \in Account : (t[b].group = h \/ u[b].group = h) =>
            u[b].group = t[b].group /\ u[b].role = t[b].role
      BY <2>4, <2>8
    <3> QED BY <3>1, SameGroup
  <2>9. NoGroup \notin Groups(u) /\ Groups(u) \subseteq Groups(t) \cup {n}
    BY <2>8 DEF Groups
  <2>10. Vacant(u) \subseteq {n}
    BY <1>6, <2>8, <2>9 DEF Vacant
  <2>11. With(u, n, "MANAGER") = {a} /\ With(u, n, "MEMBER") = {}
    BY <2>4, <2>7 DEF With, In
  <2>12. GroupsSound(u)
    <3>1. Cardinality(With(u, n, "MANAGER")) = 1 /\ Cardinality(With(u, n, "MEMBER")) = 0
      BY <2>11, FS_Singleton, FS_EmptySet
    <3> QED BY <1>1, <2>8, <2>9, <3>1, MembersAssumption DEF GroupsSound
  <2>13. \A b \in Account : u[b].role = "none" <=> u[b].group = NoGroup
    BY <1>1, <2>2, <2>4
  <2>14. SheetOK(u, n + 1)
    BY <2>4, <2>12, <2>13 DEF SheetOK
  <2>15. PlacedRow(u[a], n + 1)
    BY <2>2, <2>4 DEF PlacedRow
  <2>16. Groups(u) \subseteq Groups(t) \cup n..((n + 1) - 1)
    BY <2>9
  <2> QED BY <2>4, <2>5, <2>6, <2>10, <2>14, <2>15, <2>16 DEF r
<1> QED BY <1>4, <1>5, <1>6

\* All placements together.
LEMMA PlacedOK ==
  ASSUME NEW n \in Nat, n > 0, NEW sheet, SheetOK(sheet, n),
         NEW r, r = Placed(sheet, n)
  PROVE  /\ r = [sheet |-> r.sheet, next |-> r.next]
         /\ r.next \in Nat /\ r.next >= n
         /\ SheetOK(r.sheet, r.next)
         /\ \A b \in Account \ Placeable(sheet) : r.sheet[b] = sheet[b]
         /\ \A b \in Placeable(sheet) : PlacedRow(r.sheet[b], r.next)
         /\ Groups(r.sheet) \subseteq Groups(sheet) \cup n..(r.next - 1)
         /\ r.next # n => Vacant(r.sheet) \subseteq {r.next - 1}
<1> DEFINE S == Placeable(sheet)
           base == [sheet |-> sheet, next |-> n]
<1>1. PICK f : Folds(FALSE, base, S, f) /\ r = f[S]
  BY PlacedFolds
<1>2. S \in SUBSET Account /\ S \in SUBSET Nat /\ IsFiniteSet(S)
  BY Accounts DEF Placeable
<1> DEFINE Good(s) ==
             /\ f[s] = [sheet |-> f[s].sheet, next |-> f[s].next]
             /\ f[s].next \in Nat /\ f[s].next >= n
             /\ SheetOK(f[s].sheet, f[s].next)
             /\ \A b \in Account \ s : f[s].sheet[b] = sheet[b]
             /\ \A b \in s : PlacedRow(f[s].sheet[b], f[s].next)
             /\ Groups(f[s].sheet) \subseteq Groups(sheet) \cup n..(f[s].next - 1)
             /\ f[s].next # n => Vacant(f[s].sheet) \subseteq {f[s].next - 1}
           G == {s \in SUBSET S : Good(s)}
<1>3. Good({})
  <2>1. f[{}] = base
    BY <1>1 DEF Folds
  <2>2. base.sheet = sheet /\ base.next = n
    OBVIOUS
  <2>3. base = [sheet |-> base.sheet, next |-> base.next]
    BY <2>2
  <2> HIDE DEF base
  <2> QED BY <2>1, <2>2, <2>3
<1>4. ASSUME NEW s \in SUBSET S, s # {}, Good(s \ {Max(s)})
      PROVE  Good(s)
  <2> DEFINE a == Max(s)
             u == f[s \ {a}]
             t == u.sheet
             m == u.next
             v == f[s]
  <2>1. a \in s /\ a \in Account
    BY <1>2, <1>4, FS_Subset, MaxIn
  <2>2. v = PlaceOne(u, a)
    BY <1>1, <1>4 DEF Folds, StepOf
  <2>3. /\ u = [sheet |-> t, next |-> m]
        /\ m \in Nat /\ m >= n
        /\ SheetOK(t, m)
        /\ \A b \in Account \ (s \ {a}) : t[b] = sheet[b]
        /\ \A b \in s \ {a} : PlacedRow(t[b], m)
        /\ Groups(t) \subseteq Groups(sheet) \cup n..(m - 1)
        /\ m # n => Vacant(t) \subseteq {m - 1}
    BY <1>4
  <2> HIDE DEF a, u, t, m, Good
  <2>4. t[a].status = "PAID" /\ t[a].group = NoGroup
    <3>1. t[a] = sheet[a]
      BY <2>1, <2>3
    <3>2. a \in S
      BY <2>1
    <3> QED BY <3>1, <3>2 DEF Placeable
  <2>5. v = PlaceOne([sheet |-> t, next |-> m], a)
    BY <2>2, <2>3
  <2> HIDE DEF v
  <2>6. /\ v = [sheet |-> v.sheet, next |-> v.next]
        /\ v.next \in {m, m + 1}
        /\ SheetOK(v.sheet, v.next)
        /\ PlacedRow(v.sheet[a], v.next)
        /\ \A b \in Account : b # a => v.sheet[b] = t[b]
        /\ Groups(v.sheet) \subseteq Groups(t) \cup m..(v.next - 1)
        /\ Vacant(v.sheet) \subseteq IF v.next = m THEN Vacant(t) ELSE {m}
    <3>1. m > 0
      BY <2>3
    <3> QED BY <2>1, <2>3, <2>4, <2>5, <3>1, PlaceOneOK
  <2>7. v.next \in Nat /\ v.next >= n /\ v.next >= m
    BY <2>3, <2>6
  <2>8. \A b \in Account \ s : v.sheet[b] = sheet[b]
    BY <2>1, <2>3, <2>6
  <2>9. \A b \in s : PlacedRow(v.sheet[b], v.next)
    <3>1. ASSUME NEW b \in s, b # a PROVE PlacedRow(v.sheet[b], v.next)
      <4>1. PlacedRow(t[b], m) /\ v.sheet[b] = t[b]
        BY <1>2, <2>3, <2>6, <3>1
      <4>2. 1..(m - 1) \subseteq 1..(v.next - 1)
        BY <2>3, <2>7
      <4> QED BY <4>1, <4>2 DEF PlacedRow
    <3> QED BY <2>6, <3>1
  <2>10. Groups(v.sheet) \subseteq Groups(sheet) \cup n..(v.next - 1)
    <3>1. n..(m - 1) \subseteq n..(v.next - 1) /\ m..(v.next - 1) \subseteq n..(v.next - 1)
      BY <2>3, <2>7
    <3> QED BY <2>3, <2>6, <3>1
  <2>11. v.next # n => Vacant(v.sheet) \subseteq {v.next - 1}
    <3>1. CASE v.next = m
      BY <2>3, <2>6, <3>1
    <3>2. CASE v.next # m
      <4>1. v.next - 1 = m
        BY <2>3, <2>6, <3>2
      <4> QED BY <2>6, <3>2, <4>1
    <3> QED BY <3>1, <3>2
  <2> QED BY <2>6, <2>7, <2>8, <2>9, <2>10, <2>11 DEF Good, v
<1>5. Good(S)
  <2>1. G \in SUBSET (SUBSET S) /\ {} \in G
    BY <1>3
  <2>2. \A s \in SUBSET S : s # {} /\ s \ {Max(s)} \in G => s \in G
    BY <1>4
  <2> HIDE DEF G, S, Good
  <2>3. G = SUBSET S
    BY <1>2, <2>1, <2>2, RowByRow
  <2> QED BY <2>3 DEF G
<1> QED BY <1>1, <1>5

-------------------------------------------------------------------------------
(* What a sheet has been worked through for *)

\* Nobody is left to refund or to place.
AtRest(sheet) == Refundable(sheet) = {} /\ Placeable(sheet) = {}

\* What parseAndProcess promises of one sheet.
LEMMA ProcessedOK ==
  ASSUME NEW n \in Nat, n > 0, NEW sheet, SheetOK(sheet, n),
         NEW r, r = Processed(sheet, n)
  PROVE  /\ r.next \in Nat /\ r.next >= n
         /\ SheetOK(r.sheet, r.next)
         /\ PayersServed(sheet, r.sheet)
         /\ FoundedOfNeed(sheet, r.sheet)
         /\ AtRest(r.sheet)
<1> DEFINE t == Refunded(sheet)
           u == r.sheet
<1>1. /\ SheetOK(t, n) /\ Kept(sheet, t)
      /\ \A a \in Account : t[a].status = "REFUNDED" => t[a].group = NoGroup
  BY RefundedOK
<1>2. r = Placed(t, n)
  BY DEF Processed
<1> HIDE DEF t
<1>3. /\ r.next \in Nat /\ r.next >= n
      /\ SheetOK(u, r.next)
      /\ \A b \in Account \ Placeable(t) : u[b] = t[b]
      /\ \A b \in Placeable(t) : PlacedRow(u[b], r.next)
      /\ Groups(u) \subseteq Groups(t) \cup n..(r.next - 1)
      /\ r.next # n => Vacant(u) \subseteq {r.next - 1}
  <2>1. SheetOK(t, n)
    BY <1>1
  <2> HIDE DEF u
  <2>2. /\ r = [sheet |-> r.sheet, next |-> r.next]
        /\ r.next \in Nat /\ r.next >= n
        /\ SheetOK(r.sheet, r.next)
        /\ \A b \in Account \ Placeable(t) : r.sheet[b] = t[b]
        /\ \A b \in Placeable(t) : PlacedRow(r.sheet[b], r.next)
        /\ Groups(r.sheet) \subseteq Groups(t) \cup n..(r.next - 1)
        /\ r.next # n => Vacant(r.sheet) \subseteq {r.next - 1}
    BY <1>2, <2>1, PlacedOK, Zenon
  <2> QED BY <2>2 DEF u
<1> HIDE DEF u
<1>4. \A g \in 1..(r.next - 1) : g # NoGroup
  BY DEF NoGroup
<1>5. ASSUME NEW a \in Account
      PROVE  /\ u[a].status = "PAID" => u[a].group # NoGroup
             /\ u[a].status = "REFUNDED" => u[a].group = NoGroup
             /\ sheet[a].status = "PAID" /\ sheet[a].group # NoGroup
                  => u[a].status = "PAID" /\ u[a].group = sheet[a].group
  <2>1. CASE a \in Placeable(t)
    <3>1. PlacedRow(u[a], r.next) /\ t[a].status = "PAID" /\ t[a].group = NoGroup
      BY <1>3, <2>1 DEF Placeable
    <3>2. sheet[a].status = "PAID" => sheet[a].group = NoGroup
      BY <1>1, <3>1 DEF Kept
    <3> QED BY <1>4, <3>1, <3>2 DEF PlacedRow
  <2>2. CASE a \notin Placeable(t)
    <3>1. u[a] = t[a]
      BY <1>3, <2>2
    <3>2. t[a].status = "PAID" => t[a].group # NoGroup
      BY <2>2 DEF Placeable
    <3> QED BY <1>1, <3>1, <3>2 DEF Kept
  <2> QED BY <2>1, <2>2
<1>6. PayersServed(sheet, u)
  BY <1>5 DEF PayersServed
<1>7. AtRest(u)
  BY <1>5 DEF AtRest, Refundable, Placeable
<1>8. FoundedOfNeed(sheet, u)
  <2> SUFFICES ASSUME Groups(u) \ Groups(sheet) # {}
               PROVE  Cardinality(Vacant(u)) <= 1
    BY DEF FoundedOfNeed
  <2>1. Groups(t) \subseteq Groups(sheet)
    BY <1>1 DEF Kept, Groups
  <2>2. r.next # n
    BY <1>3, <2>1
  <2>3. Vacant(u) \in SUBSET {r.next - 1}
    BY <1>3, <2>2
  <2>4. Cardinality(Vacant(u)) <= Cardinality({r.next - 1})
    BY <2>3, FS_Subset, FS_Singleton
  <2>5. Cardinality({r.next - 1}) = 1
    BY FS_Singleton
  <2> QED BY <2>4, <2>5
<1> QED BY <1>3, <1>6, <1>7, <1>8 DEF u

\* Working through a sheet at rest changes nothing.
LEMMA RestSettled ==
  ASSUME NEW n, NEW sheet, AtRest(sheet)
  PROVE  Settled(sheet, n)
<1>1. PICK f : /\ Folds(TRUE, sheet, Refundable(sheet), f)
               /\ Refunded(sheet) = f[Refundable(sheet)]
  BY RefundedFolds
<1>2. Refunded(sheet) = sheet
  BY <1>1 DEF AtRest, Folds
<1>3. PICK h : /\ Folds(FALSE, [sheet |-> sheet, next |-> n], Placeable(sheet), h)
               /\ Placed(sheet, n) = h[Placeable(sheet)]
  BY PlacedFolds
<1>4. Placed(sheet, n) = [sheet |-> sheet, next |-> n]
  BY <1>3 DEF AtRest, Folds
<1> QED BY <1>2, <1>4 DEF Settled, Processed

\* Exporting changes e-mails only.
LEMMA ExportedOK ==
  ASSUME NEW n, NEW sheet, SheetOK(sheet, n)
  PROVE  /\ SheetOK(Exported(sheet), n)
         /\ \A a \in Account :
              /\ Exported(sheet)[a].status = sheet[a].status
              /\ Exported(sheet)[a].group = sheet[a].group
              /\ Exported(sheet)[a].role = sheet[a].role
         /\ Groups(Exported(sheet)) = Groups(sheet)
         /\ Vacant(Exported(sheet)) = Vacant(sheet)
<1> DEFINE e == Exported(sheet)
           G == 1..(n - 1)
<1>1. /\ sheet \in [Account -> CsvAccount(G)]
      /\ \A a \in Account : sheet[a].role = "none" <=> sheet[a].group = NoGroup
      /\ GroupsSound(sheet)
  BY DEF SheetOK
<1>2. e = [a \in Account |-> [sheet[a] EXCEPT !.email = Quoted(sheet[a].email)]]
  BY DEF Exported
<1> HIDE DEF e, G
<1>3. ASSUME NEW a \in Account
      PROVE  /\ e[a] \in CsvAccount(G)
             /\ e[a].status = sheet[a].status
             /\ e[a].group = sheet[a].group
             /\ e[a].role = sheet[a].role
  <2>1. sheet[a] \in CsvAccount(G)
    BY <1>1
  <2>2. Quoted(sheet[a].email) \in {"plain", "formula", "quoted"}
    BY <2>1, RowFields DEF Quoted
  <2>3. e[a] = [sheet[a] EXCEPT !.email = Quoted(sheet[a].email)]
    BY <1>2
  <2> QED BY <2>1, <2>2, <2>3 DEF CsvAccount
<1>4. e \in [Account -> CsvAccount(G)]
  BY <1>2, <1>3
<1>5. ASSUME NEW g
      PROVE  /\ g \in Groups(sheet) <=> g \in Groups(e)
             /\ \A role : With(sheet, g, role) = With(e, g, role)
             /\ Vacancy(sheet, g) = Vacancy(e, g)
  <2>1. \A b \in Account : (sheet[b].group = g \/ e[b].group = g) =>
          e[b].group = sheet[b].group /\ e[b].role = sheet[b].role
    BY <1>3
  <2> QED BY <2>1, SameGroup
<1>6. Groups(e) = Groups(sheet) /\ Vacant(e) = Vacant(sheet) /\ GroupsSound(e)
  BY <1>1, <1>5 DEF Vacant, GroupsSound
<1>7. SheetOK(e, n)
  BY <1>1, <1>3, <1>4, <1>6 DEF SheetOK, G
<1> QED BY <1>3, <1>6, <1>7 DEF e

-------------------------------------------------------------------------------
(* The operator's sheet and the sheet at hand *)

\* Both sheets are in order, and the one that has been worked through keeps the promises.
Sheets ==
  /\ SheetOK(file, next)
  /\ SheetOK(work, next)
  /\ At("processed") =>
       /\ PayersServed(file, work)
       /\ FoundedOfNeed(file, work)
       /\ AtRest(work)

\* A sheet stays in order while more group identifiers are given out.
LEMMA SheetGrows ==
  ASSUME NEW n \in Nat, NEW m \in Nat, n <= m, NEW sheet, SheetOK(sheet, n)
  PROVE  SheetOK(sheet, m)
<1>1. 1..(n - 1) \subseteq 1..(m - 1)
  OBVIOUS
<1>2. CsvAccount(1..(n - 1)) \subseteq CsvAccount(1..(m - 1))
  BY <1>1 DEF CsvAccount
<1> QED BY <1>2 DEF SheetOK

\* What is served and founded is the same of a sheet and of its export.
LEMMA ExportedServes ==
  ASSUME NEW n, NEW before, NEW sheet, SheetOK(sheet, n),
         PayersServed(before, sheet), FoundedOfNeed(before, sheet), AtRest(sheet)
  PROVE  /\ PayersServed(before, Exported(sheet))
         /\ FoundedOfNeed(before, Exported(sheet))
         /\ AtRest(Exported(sheet))
<1>1. /\ \A a \in Account :
           /\ Exported(sheet)[a].status = sheet[a].status
           /\ Exported(sheet)[a].group = sheet[a].group
      /\ Groups(Exported(sheet)) = Groups(sheet)
      /\ Vacant(Exported(sheet)) = Vacant(sheet)
  BY ExportedOK
<1>2. PayersServed(before, Exported(sheet))
  BY <1>1 DEF PayersServed
<1>3. FoundedOfNeed(before, Exported(sheet))
  BY <1>1 DEF FoundedOfNeed
<1>4. AtRest(Exported(sheet))
  BY <1>1 DEF AtRest, Refundable, Placeable
<1> QED BY <1>2, <1>3, <1>4

\* An edit leaves groups and roles alone.
LEMMA EditedOK ==
  ASSUME NEW n, SheetOK(file, n), NEW a \in Account, Edit(a)
  PROVE  SheetOK(file', n)
<1> DEFINE G == 1..(n - 1)
<1>1. /\ file \in [Account -> CsvAccount(G)]
      /\ \A b \in Account : file[b].role = "none" <=> file[b].group = NoGroup
      /\ GroupsSound(file)
  BY DEF SheetOK
<1> HIDE DEF G
<1>2. \E x \in CsvAccount(G) : /\ x.group = file[a].group /\ x.role = file[a].role
                        /\ file' = [file EXCEPT ![a] = x]
  <2>1. file[a] \in CsvAccount(G)
    BY <1>1
  <2>2. CASE \E status \in {"PAID", "REFUNDED", "PENDING"} :
               file' = [file EXCEPT ![a].status = status]
    <3>1. PICK status \in {"PAID", "REFUNDED", "PENDING"} :
            file' = [file EXCEPT ![a].status = status]
      BY <2>2
    <3> DEFINE x == [file[a] EXCEPT !.status = status]
    <3>2. x \in CsvAccount(G) /\ x.group = file[a].group /\ x.role = file[a].role
      BY <2>1 DEF CsvAccount
    <3>3. file' = [file EXCEPT ![a] = x]
      BY <3>1
    <3> QED BY <3>2, <3>3
  <2>3. CASE file' = [file EXCEPT ![a].joined = "old"]
    <3> DEFINE x == [file[a] EXCEPT !.joined = "old"]
    <3>2. x \in CsvAccount(G) /\ x.group = file[a].group /\ x.role = file[a].role
      BY <2>1 DEF CsvAccount
    <3>3. file' = [file EXCEPT ![a] = x]
      BY <2>3
    <3> QED BY <3>2, <3>3
  <2> QED BY <2>2, <2>3 DEF Edit
<1>3. /\ file' \in [Account -> CsvAccount(G)]
      /\ \A b \in Account : file'[b].role = file[b].role /\ file'[b].group = file[b].group
  BY <1>1, <1>2
<1>4. PICK e : e = file'
  OBVIOUS
<1>5. GroupsSound(e)
  <2>1. ASSUME NEW g
        PROVE  /\ g \in Groups(file) <=> g \in Groups(e)
               /\ \A role : With(file, g, role) = With(e, g, role)
    <3>1. \A b \in Account : (file[b].group = g \/ e[b].group = g) =>
            e[b].group = file[b].group /\ e[b].role = file[b].role
      BY <1>3, <1>4
    <3> QED BY <3>1, SameGroup
  <2> QED BY <1>1, <2>1 DEF GroupsSound
<1>6. \A b \in Account : file'[b].role = "none" <=> file'[b].group = NoGroup
  BY <1>1, <1>3
<1> QED BY <1>3, <1>4, <1>5, <1>6 DEF SheetOK, G

Writing == {"owner", "lookup", "regroup", "relink", "group", "slots", "link", "setting", "members"}

\* What an import between two statements has in hand.
LEMMA ImportParts ==
  ASSUME import \in ImportAt
  PROVE  /\ import.pc \in Writing \cup {"idle", "processed", "saved", "snapshot"}
         /\ At("idle") => import = NoImport
         /\ import.pc \in {"processed", "saved", "snapshot"} => import = [pc |-> import.pc]
         /\ import.pc \in Writing =>
              import.of \in Group /\ import.todo \in SUBSET Group
         /\ import.pc \in Writing \ {"members"} =>
              import = [pc |-> import.pc, of |-> import.of, todo |-> import.todo]
         /\ At("members") =>
              /\ import.left \in SUBSET Account /\ import.left # {}
              /\ import = [pc |-> "members", of |-> import.of, todo |-> import.todo,
                           left |-> import.left]
<1> DEFINE P == Writing \ {"members"}
<1>1. CASE import = NoImport
  BY <1>1 DEF NoImport, Writing, At
<1>2. CASE import \in [pc : {"processed", "saved"}] \cup [pc : {"snapshot"}]
  BY <1>2 DEF Writing, At
<1>3. CASE import \in [pc : P, of : Group, todo : SUBSET Group]
  BY <1>3 DEF Writing, At
<1>4. CASE import \in [pc : {"members"}, of : Group, todo : SUBSET Group,
                       left : (SUBSET Account) \ {{}}]
  BY <1>4 DEF Writing, At
<1>5. P = {"owner", "lookup", "regroup", "relink", "group", "slots", "link", "setting"}
  BY DEF Writing
<1> QED BY <1>1, <1>2, <1>3, <1>4, <1>5 DEF ImportAt

\* Going on to another statement.
LEMMA ReachParts ==
  ASSUME import \in ImportAt, import.pc \in Writing \ {"members"},
         NEW pc \in Writing \ {"members"}, Reach(pc)
  PROVE  /\ import' = [pc |-> pc, of |-> import.of, todo |-> import.todo]
         /\ import'.pc = pc /\ import'.of = import.of /\ import'.todo = import.todo
         /\ import' \in ImportAt
<1>1. /\ import = [pc |-> import.pc, of |-> import.of, todo |-> import.todo]
      /\ import.of \in Group /\ import.todo \in SUBSET Group
  BY ImportParts
<1>2. import' = [pc |-> pc, of |-> import.of, todo |-> import.todo]
  BY <1>1 DEF Reach
<1> QED BY <1>1, <1>2 DEF ImportAt, Writing

\* Going on to the members of the group at hand.
LEMMA MembersParts ==
  ASSUME import \in ImportAt, import.pc \in Writing, Rows(import.of) # {}, ToMembers
  PROVE  /\ import' = [pc |-> "members", of |-> import.of, todo |-> import.todo,
                       left |-> Rows(import.of)]
         /\ import'.pc = "members" /\ import'.of = import.of /\ import'.todo = import.todo
         /\ import'.left = Rows(import.of)
         /\ import' \in ImportAt
<1>1. import.of \in Group /\ import.todo \in SUBSET Group
  BY ImportParts
<1>2. Rows(import.of) \in (SUBSET Account) \ {{}}
  BY DEF Rows, In
<1>3. import' = [pc |-> "members", of |-> import.of, todo |-> import.todo,
                 left |-> Rows(import.of)]
  BY DEF ToMembers
<1>4. import' \in [pc : {"members"}, of : Group, todo : SUBSET Group,
                   left : (SUBSET Account) \ {{}}]
  BY <1>1, <1>2, <1>3
<1> QED BY <1>3, <1>4 DEF ImportAt

\* The next group is one of those left.
LEMMA TurnParts ==
  ASSUME NEW rest \in SUBSET Group, \A g \in rest : Rows(g) # {}
  PROVE  /\ rest = {} => Turn(rest) = [pc |-> "snapshot"]
         /\ rest # {} => \E g \in rest :
                           Turn(rest) = [pc |-> "owner", of |-> g, todo |-> rest \ {g}]
         /\ Turn(rest) \in ImportAt
<1>1. CASE rest = {}
  BY <1>1 DEF Turn, ImportAt
<1>2. CASE rest # {}
  <2> DEFINE F == {Min(Rows(g)) : g \in rest}
  <2>1. \A g \in rest : Min(Rows(g)) \in Nat
    <3>1. \A g \in rest : Rows(g) \in SUBSET Nat
      BY AccountAssumption DEF Rows, In
    <3> QED BY <3>1, MinIn
  <2>2. F \in SUBSET Nat /\ F # {}
    BY <1>2, <2>1
  <2>3. PICK m \in F : \A k \in F : m <= k
    BY <2>2, Least
  <2>4. \E h \in rest : \A k \in rest : Min(Rows(h)) <= Min(Rows(k))
    BY <2>3
  <2> DEFINE g == CHOOSE h \in rest : \A k \in rest : Min(Rows(h)) <= Min(Rows(k))
  <2>5. g \in rest
    BY <2>4
  <2>6. Turn(rest) = [pc |-> "owner", of |-> g, todo |-> rest \ {g}]
    BY <1>2 DEF Turn
  <2> HIDE DEF g
  <2>7. Turn(rest) \in ImportAt
    BY <2>5, <2>6 DEF ImportAt
  <2> QED BY <1>2, <2>5, <2>6, <2>7
<1> QED BY <1>1, <1>2

\* The first sheet has no groups.
LEMMA SheetsInit == ImportInit => Sheets /\ next = 1
<1> SUFFICES ASSUME ImportInit PROVE Sheets /\ next = 1
  OBVIOUS
<1>1. PICK status \in [Account -> {"PAID", "PENDING"}] :
        file = [a \in Account |->
                  [status |-> status[a], group |-> NoGroup, role |-> "none",
                   joined |-> "none",
                   email |-> IF a \in Formula THEN "formula" ELSE "plain"]]
  BY DEF ImportInit
<1>2. \A a \in Account : /\ file[a] \in CsvAccount(1..0)
                         /\ file[a].role = "none" /\ file[a].group = NoGroup
  BY <1>1 DEF CsvAccount
<1>3. file \in [Account -> CsvAccount(1..0)]
  BY <1>1, <1>2
<1>4. Groups(file) = {}
  BY <1>2 DEF Groups
<1>5. SheetOK(file, 1)
  BY <1>2, <1>3, <1>4 DEF SheetOK, GroupsSound
<1>6. next = 1 /\ work = file /\ ~At("processed")
  BY DEF ImportInit, At, NoImport
<1> QED BY <1>5, <1>6 DEF Sheets

-------------------------------------------------------------------------------
(* Writing a sheet to the database *)

\* The groups that are still to be written, the one at hand with them.
Ahead == IF import.pc \in Writing THEN import.todo \cup {import.of} ELSE {}

\* A group as it is written: but for its slots and its setting.
Done(g) ==
  /\ link[g] = ManagerOf(g) /\ holder[g] = link[g] /\ EmailOf(link[g]) \in owner
  /\ \A a \in Rows(g) : \E kind \in Kind : <<g, EmailOf(a), kind>> \in member

\* A group that has a link has its slots, and its setting unless it is about to be given it
\* or never will be.
Backed(g) ==
  link[g] # Unlinked =>
    /\ g \in slots
    /\ g \in setting \cup cut \/ (At("setting") /\ import.of = g)

\* What the statement to come relies on.
Relied ==
  LET g == import.of IN
  /\ import.pc \in Writing \ {"owner"} => EmailOf(ManagerOf(g)) \in owner
  /\ import.pc \in {"regroup", "relink"} => link[g] # Unlinked
  /\ import.pc \in {"group", "slots", "link"} => link[g] = Unlinked
  /\ import.pc \in {"relink", "slots", "link", "setting", "members"} =>
       holder[g] = ManagerOf(g)
  /\ At("link") => g \in slots
  /\ import.pc \in {"setting", "members"} => link[g] = ManagerOf(g)
  /\ At("members") =>
       /\ import.left \subseteq Rows(g)
       /\ \A a \in Rows(g) \ import.left : \E kind \in Kind : <<g, EmailOf(a), kind>> \in member

\* The sheet is written group by group, each whole before the next.
Persisted ==
  /\ ~At("idle") => \A a \in Account : work[a].email # "formula"
  /\ \A g \in Ahead : Rows(g) # {}
  /\ import.pc \in Writing => import.of \notin import.todo
  /\ import.pc \in Writing \cup {"snapshot", "saved"} =>
       \A g \in Groups(work) \ Ahead : Rows(g) # {} => Done(g)
  /\ \A g \in Group : Backed(g)
  /\ Relied

ImportInv == ImportTypeOK /\ Sheets /\ Persisted

\* What is to be written depends on the sheet at hand only.
LEMMA WorkSame ==
  ASSUME work' = work
  PROVE  /\ \A g : Rows(g)' = Rows(g) /\ ManagerOf(g)' = ManagerOf(g)
         /\ \A a : EmailOf(a)' = EmailOf(a)
         /\ Groups(work)' = Groups(work)
BY DEF Rows, ManagerOf, EmailOf, Groups, In

\* The rows of a group are in the group.
LEMMA RowsIn ==
  ASSUME NEW g
  PROVE  Rows(g) \in SUBSET Account /\ \A a \in Rows(g) : work[a].group = g
BY DEF Rows, In

\* The manager of a group is in one of its rows.
LEMMA ManagerIn ==
  ASSUME NEW g, Rows(g) # {}
  PROVE  ManagerOf(g) \in Rows(g) /\ ManagerOf(g) \in Account /\ ManagerOf(g) # Unlinked
<1> DEFINE managers == {a \in Rows(g) : work[a].role = "MANAGER"}
           payers == {a \in Rows(g) : work[a].status = "PAID"}
           S == IF managers # {} THEN managers ELSE IF payers # {} THEN payers ELSE Rows(g)
<1>1. ManagerOf(g) = Min(S)
  BY DEF ManagerOf
<1>2. Rows(g) \in SUBSET Account
  BY RowsIn
<1>3. S \in SUBSET Rows(g) /\ S # {}
  OBVIOUS
<1> HIDE DEF S
<1>4. Min(S) \in S
  BY <1>2, <1>3, AccountAssumption, MinIn
<1> QED BY <1>1, <1>2, <1>3, <1>4, AccountAssumption DEF Unlinked

\* The groups of the sheet at hand are groups, and its rows can be written.
LEMMA WorkParts ==
  ASSUME ImportTypeOK, ~At("idle") => \A a \in Account : work[a].email # "formula"
  PROVE  /\ Groups(work) \subseteq Group
         /\ ~At("idle") => \A a \in Account : EmailOf(a) \in Email
<1>1. \A a \in Account : work[a] \in CsvAccount(Group)
  BY DEF ImportTypeOK
<1>2. \A a \in Account : /\ work[a].group \in Group \cup {NoGroup}
                         /\ work[a].email \in {"plain", "formula", "quoted"}
  BY <1>1, RowFields
<1>3. Groups(work) \subseteq Group
  BY <1>2 DEF Groups
<1> QED BY <1>2, <1>3 DEF EmailOf, Email

\* The groups of a sheet in order are among those there ever are.
LEMMA SheetType ==
  ASSUME NEW n \in 1..(MaxGroups + 1), NEW sheet, SheetOK(sheet, n)
  PROVE  sheet \in [Account -> CsvAccount(Group)]
<1>1. 1..(n - 1) \subseteq Group
  BY ImportBounds DEF Group
<1>2. CsvAccount(1..(n - 1)) \subseteq CsvAccount(Group)
  BY <1>1 DEF CsvAccount
<1> QED BY <1>2 DEF SheetOK

\* A statement of persistAccounts leaves the sheets alone.
LEMMA SheetsStay ==
  ASSUME Sheets, UNCHANGED <<file, next, work>>, import'.pc # "processed"
  PROVE  Sheets'
BY DEF Sheets, At

\* A step between imports or before the first statement of one.
LEMMA BetweenStep ==
  ASSUME ImportInv, import'.pc \in {"idle", "processed"}, UNCHANGED database, cut \subseteq cut',
         At("setting") => import.of \in cut',
         import'.pc # "idle" => \A a \in Account : work'[a].email # "formula"
  PROVE  Persisted'
<1>1. Ahead' = {}
  BY DEF Ahead, Writing
<1>2. \A g \in Group : Backed(g)'
  BY DEF ImportInv, Persisted, Backed, At, database
<1>3. Relied'
  BY DEF Relied, Writing, At
<1>4. import'.pc \notin Writing \cup {"snapshot", "saved"}
  BY DEF Writing
<1> QED BY <1>1, <1>2, <1>3, <1>4 DEF Persisted, At

\* A step within the group at hand.
LEMMA Within ==
  ASSUME ImportInv, import.pc \in Writing, import'.pc \in Writing,
         import'.of = import.of, import'.todo = import.todo, work' = work, cut' = cut,
         owner \subseteq owner', member \subseteq member', setting \subseteq setting',
         \A g \in Group \ {import.of} :
           link'[g] = link[g] /\ holder'[g] = holder[g] /\ (g \in slots => g \in slots'),
         Backed(import.of)', Relied'
  PROVE  Persisted'
<1> DEFINE of == import.of
<1>1. Ahead' = Ahead /\ Ahead = import.todo \cup {of}
  BY DEF Ahead
<1>2. /\ \A g : Rows(g)' = Rows(g) /\ ManagerOf(g)' = ManagerOf(g)
      /\ \A a : EmailOf(a)' = EmailOf(a)
      /\ Groups(work)' = Groups(work)
  BY WorkSame
<1>3. Groups(work) \subseteq Group
  BY WorkParts DEF ImportInv, Persisted
<1>4. ASSUME NEW g \in Groups(work) \ Ahead, Rows(g) # {}
      PROVE  Done(g)'
  <2>1. Done(g)
    BY <1>4 DEF ImportInv, Persisted
  <2>2. link'[g] = link[g] /\ holder'[g] = holder[g]
    BY <1>1, <1>3, <1>4
  <2> QED BY <1>2, <2>1, <2>2 DEF Done
<1>5. ASSUME NEW g \in Group PROVE Backed(g)'
  <2>1. CASE g = of
    BY <2>1
  <2>2. CASE g # of
    BY <2>2 DEF ImportInv, Persisted, Backed, At
  <2> QED BY <2>1, <2>2
<1>6. ~At("idle") /\ ~At("idle")'
  BY DEF At, Writing
<1> QED BY <1>1, <1>2, <1>4, <1>5, <1>6 DEF ImportInv, Persisted

-------------------------------------------------------------------------------
(* The invariant, action by action *)

\* The invariant, of the first sheets.
LEMMA InvInit == ImportInit => ImportInv
<1> SUFFICES ASSUME ImportInit PROVE ImportInv
  OBVIOUS
<1>1. Sheets /\ next = 1
  BY SheetsInit
<1>2. import = NoImport /\ import.pc = "idle"
  BY DEF ImportInit, NoImport
<1>3. next \in 1..(MaxGroups + 1)
  BY <1>1, ImportBounds
<1>4. file \in [Account -> CsvAccount(Group)] /\ work \in [Account -> CsvAccount(Group)]
  BY <1>1, <1>3, SheetType DEF Sheets
<1>5. /\ import \in ImportAt
      /\ owner \subseteq Email /\ member \subseteq Group \X Email \X Kind
      /\ slots \subseteq Group /\ setting \subseteq Group /\ cut \subseteq Group
      /\ groups \in [Group -> Nat]
      /\ holder \in [Group -> Account \cup {Unlinked}]
      /\ link \in [Group -> Account \cup {Unlinked}]
      /\ edits \in 0..MaxEdits /\ breaks \in 0..MaxBreaks
  BY <1>2, ImportBounds DEF ImportInit, ImportAt
<1>6. ImportTypeOK
  BY <1>3, <1>4, <1>5 DEF ImportTypeOK
<1>7. Persisted
  <2>1. Ahead = {}
    BY <1>2 DEF Ahead, Writing
  <2>2. \A g \in Group : Backed(g)
    BY DEF ImportInit, Backed
  <2>3. Relied
    BY <1>2 DEF Relied, Writing, At
  <2> QED BY <1>2, <2>1, <2>2, <2>3 DEF Persisted, Writing, At
<1> QED BY <1>1, <1>6, <1>7 DEF ImportInv

\* An edit is made between imports and touches no group.
LEMMA EditStep == ASSUME ImportInv, NEW a \in Account, Edit(a) PROVE ImportInv'
<1>1. SheetOK(file', next)
  BY EditedOK DEF ImportInv, Sheets
<1>2. /\ work' = file' /\ next' = next /\ import' = import /\ import.pc = "idle"
      /\ UNCHANGED database /\ cut' = cut /\ breaks' = breaks
      /\ edits' \in 0..MaxEdits
  BY ImportBounds DEF Edit, At, ImportInv, ImportTypeOK
<1>3. Sheets'
  BY <1>1, <1>2 DEF Sheets, At
<1>4. file' \in [Account -> CsvAccount(Group)]
  BY <1>1, SheetType DEF ImportInv, ImportTypeOK
<1>5. ImportTypeOK'
  BY <1>2, <1>4 DEF ImportInv, ImportTypeOK, database
<1>6. Persisted'
  BY <1>2, BetweenStep DEF At
<1> QED BY <1>3, <1>5, <1>6 DEF ImportInv

\* What the export hands out no longer looks like a formula.
LEMMA ProcessStep == ASSUME ImportInv, Process PROVE ImportInv'
<1>1. PICK r : r = Processed(file, next)
  OBVIOUS
<1>2. /\ r.next <= MaxGroups + 1 /\ work' = Exported(r.sheet) /\ next' = r.next
      /\ import.pc = "idle" /\ import' = [pc |-> "processed"] /\ import'.pc = "processed"
      /\ file' = file /\ UNCHANGED database
      /\ cut' = cut /\ edits' = edits /\ breaks' = breaks
  BY <1>1 DEF Process, At
<1>3. next \in Nat /\ next > 0 /\ SheetOK(file, next)
  BY ImportBounds DEF ImportInv, ImportTypeOK, Sheets
<1>4. /\ r.next \in Nat /\ r.next >= next
      /\ SheetOK(r.sheet, r.next)
      /\ PayersServed(file, r.sheet)
      /\ FoundedOfNeed(file, r.sheet)
      /\ AtRest(r.sheet)
  BY <1>1, <1>3, ProcessedOK
<1>5. SheetOK(work', next')
  BY <1>2, <1>4, ExportedOK
<1>6. PayersServed(file, work') /\ FoundedOfNeed(file, work') /\ AtRest(work')
  BY <1>2, <1>4, ExportedServes
<1>7. SheetOK(file, next')
  BY <1>2, <1>3, <1>4, SheetGrows
<1>8. Sheets'
  BY <1>2, <1>5, <1>6, <1>7 DEF Sheets
<1>9. next' \in 1..(MaxGroups + 1)
  BY <1>2, <1>3, <1>4, ImportBounds
<1>10. work' \in [Account -> CsvAccount(Group)]
  BY <1>5, <1>9, SheetType
<1>11. import' \in ImportAt
  BY <1>2 DEF ImportAt
<1>12. ImportTypeOK'
  BY <1>2, <1>9, <1>10, <1>11 DEF ImportInv, ImportTypeOK, database
<1>13. \A a \in Account : work'[a].email # "formula"
  <2> SUFFICES ASSUME NEW a \in Account PROVE Exported(r.sheet)[a].email # "formula"
    BY <1>2
  <2>1. r.sheet[a] \in CsvAccount(1..(r.next - 1))
    BY <1>4 DEF SheetOK
  <2>2. Exported(r.sheet)[a] = [r.sheet[a] EXCEPT !.email = Quoted(r.sheet[a].email)]
    BY DEF Exported
  <2>3. Exported(r.sheet)[a].email = Quoted(r.sheet[a].email)
    BY <2>1, <2>2 DEF CsvAccount
  <2> QED BY <2>3 DEF Quoted
<1>14. Persisted'
  BY <1>2, <1>13, BetweenStep DEF At
<1> QED BY <1>8, <1>12, <1>14 DEF ImportInv

\* The operator goes on from one of two sheets, each in order.
LEMMA AnswerStep == ASSUME ImportInv, Answer PROVE ImportInv'
<1>1. /\ file' = work \/ file' = file
      /\ work' = file' /\ import' = NoImport /\ import'.pc = "idle"
      /\ import.pc \in {"processed", "saved"}
      /\ next' = next /\ UNCHANGED database
      /\ cut' = cut /\ edits' = edits /\ breaks' = breaks
  BY DEF Answer, At, NoImport
<1>2. SheetOK(file', next)
  BY <1>1 DEF ImportInv, Sheets
<1>3. Sheets'
  BY <1>1, <1>2 DEF Sheets, At
<1>4. file' \in [Account -> CsvAccount(Group)]
  BY <1>1 DEF ImportInv, ImportTypeOK
<1>5. ImportTypeOK'
  BY <1>1, <1>4 DEF ImportInv, ImportTypeOK, database, ImportAt
<1>6. Persisted'
  BY <1>1, BetweenStep DEF At
<1> QED BY <1>3, <1>5, <1>6 DEF ImportInv

\* A break leaves the operator the old sheet, and cut says which group it left half made.
LEMMA BreakStep == ASSUME ImportInv, Break PROVE ImportInv'
<1>1. /\ work' = file /\ file' = file /\ import' = NoImport /\ import'.pc = "idle"
      /\ next' = next /\ UNCHANGED database /\ edits' = edits
      /\ breaks' \in 0..MaxBreaks
      /\ cut' = IF import.pc \in {"slots", "link", "setting"} THEN cut \cup {import.of} ELSE cut
  BY ImportBounds DEF Break, NoImport, ImportInv, ImportTypeOK
<1>2. Sheets'
  BY <1>1 DEF ImportInv, Sheets, At
<1>3. import.pc \in Writing => import.of \in Group
  BY ImportParts DEF ImportInv, ImportTypeOK
<1>4. cut' \subseteq Group /\ cut \subseteq cut' /\ (At("setting") => import.of \in cut')
  BY <1>1, <1>3 DEF ImportInv, ImportTypeOK, Writing, At
<1>5. ImportTypeOK'
  BY <1>1, <1>4 DEF ImportInv, ImportTypeOK, database, ImportAt
<1>6. Persisted'
  BY <1>1, <1>4, BetweenStep
<1> QED BY <1>2, <1>5, <1>6 DEF ImportInv

\* A statement about the group at hand.
LEMMA AtHand ==
  ASSUME ImportInv, import.pc \in Writing
  PROVE  /\ import.of \in Group /\ import.todo \in SUBSET Group
         /\ import.of \notin import.todo
         /\ Rows(import.of) # {} /\ \A g \in import.todo : Rows(g) # {}
         /\ ManagerOf(import.of) \in Rows(import.of)
         /\ ManagerOf(import.of) \in Account /\ ManagerOf(import.of) # Unlinked
         /\ \A a \in Account : EmailOf(a) \in Email
         /\ Backed(import.of) /\ Relied
<1>1. /\ import.of \in Group /\ import.todo \in SUBSET Group
  BY ImportParts DEF ImportInv, ImportTypeOK
<1>2. /\ import.of \notin import.todo /\ Rows(import.of) # {}
      /\ \A g \in import.todo : Rows(g) # {}
      /\ Backed(import.of) /\ Relied
  BY <1>1 DEF ImportInv, Persisted, Ahead
<1>3. ~At("idle")
  BY DEF At, Writing
<1> QED BY <1>1, <1>2, <1>3, ManagerIn, WorkParts DEF ImportInv, Persisted

\* The owner's account is there from here on.
LEMMA UpsertOwnerStep == ASSUME ImportInv, UpsertOwner PROVE ImportInv'
<1> DEFINE g == import.of
<1>0. import.pc = "owner" /\ import.pc \in Writing \ {"members"}
  BY DEF UpsertOwner, At, Writing
<1>1. /\ import'.pc = "lookup" /\ import'.of = g /\ import'.todo = import.todo
      /\ import' \in ImportAt
  BY <1>0, ReachParts DEF UpsertOwner, ImportInv, ImportTypeOK, Writing
<1>2. /\ file' = file /\ next' = next /\ work' = work /\ groups' = groups
      /\ holder' = holder /\ slots' = slots /\ link' = link /\ setting' = setting
      /\ member' = member /\ cut' = cut /\ edits' = edits /\ breaks' = breaks
      /\ owner' = owner \cup {EmailOf(ManagerOf(g))}
  BY DEF UpsertOwner
<1>3. EmailOf(ManagerOf(g)) \in Email
  BY <1>0, AtHand
<1>4. ImportTypeOK'
  BY <1>1, <1>2, <1>3 DEF ImportInv, ImportTypeOK
<1>5. Sheets'
  BY <1>1, <1>2, SheetsStay DEF ImportInv
<1>6. Backed(g)'
  BY <1>0, <1>1, <1>2, AtHand DEF Backed, At
<1>7. /\ \A h : Rows(h)' = Rows(h) /\ ManagerOf(h)' = ManagerOf(h)
      /\ \A a : EmailOf(a)' = EmailOf(a)
  BY <1>2, WorkSame
<1>8. Relied'
  BY <1>1, <1>2, <1>7 DEF Relied, At
<1>9. Persisted'
  BY <1>0, <1>1, <1>2, <1>6, <1>8, Within DEF Writing
<1> QED BY <1>4, <1>5, <1>9 DEF ImportInv

\* A group that has a link goes one way, one without the other.
LEMMA FindLinkStep == ASSUME ImportInv, FindLink PROVE ImportInv'
<1> DEFINE g == import.of
<1>0. import.pc = "lookup" /\ import.pc \in Writing \ {"members"} /\ g \in Group
  BY AtHand DEF FindLink, At, Writing
<1>1. /\ import'.pc \in {"regroup", "group"} /\ import'.of = g /\ import'.todo = import.todo
      /\ import' \in ImportAt
  BY <1>0, ReachParts DEF FindLink, ImportInv, ImportTypeOK, Writing
<1>2. /\ link[g] # Unlinked => import'.pc = "regroup"
      /\ link[g] = Unlinked => import'.pc = "group"
      /\ file' = file /\ next' = next /\ work' = work /\ owner' = owner /\ groups' = groups
      /\ holder' = holder /\ slots' = slots /\ link' = link /\ setting' = setting
      /\ member' = member /\ cut' = cut /\ edits' = edits /\ breaks' = breaks
  BY <1>0, ReachParts DEF FindLink, database, ImportInv, ImportTypeOK, Writing
<1>3. /\ ManagerOf(g) \in Account /\ ManagerOf(g) # Unlinked
      /\ Backed(g) /\ Relied
  BY <1>0, AtHand
<1>4. ImportTypeOK'
  BY <1>0, <1>1, <1>2, <1>3 DEF ImportInv, ImportTypeOK
<1>5. Sheets'
  BY <1>1, <1>2, SheetsStay DEF ImportInv
<1>6. /\ \A h : Rows(h)' = Rows(h) /\ ManagerOf(h)' = ManagerOf(h)
      /\ \A a : EmailOf(a)' = EmailOf(a)
  BY <1>2, WorkSame
<1>7. Backed(g)'
  BY <1>0, <1>1, <1>2, <1>3 DEF Backed, Relied, At, ImportInv, ImportTypeOK
<1>8. Relied'
  BY <1>0, <1>1, <1>2, <1>3, <1>6 DEF Relied, At, Writing, ImportInv, ImportTypeOK
<1>9. /\ owner \subseteq owner' /\ member \subseteq member' /\ setting \subseteq setting'
      /\ \A h \in Group \ {g} :
           link'[h] = link[h] /\ holder'[h] = holder[h] /\ (h \in slots => h \in slots')
  BY <1>2 DEF ImportInv, ImportTypeOK
<1>10. Persisted'
  BY <1>0, <1>1, <1>2, <1>7, <1>8, <1>9, Within DEF Writing
<1> QED BY <1>4, <1>5, <1>10 DEF ImportInv

\* The linked group gets the manager of this sheet.
LEMMA UpdateGroupStep == ASSUME ImportInv, UpdateGroup PROVE ImportInv'
<1> DEFINE g == import.of
<1>0. import.pc = "regroup" /\ import.pc \in Writing \ {"members"} /\ g \in Group
  BY AtHand DEF UpdateGroup, At, Writing
<1>1. /\ import'.pc = "relink" /\ import'.of = g /\ import'.todo = import.todo
      /\ import' \in ImportAt
  BY <1>0, ReachParts DEF UpdateGroup, ImportInv, ImportTypeOK, Writing
<1>2. /\ file' = file /\ next' = next /\ work' = work /\ owner' = owner /\ groups' = groups
      /\ slots' = slots /\ link' = link /\ setting' = setting /\ member' = member
      /\ cut' = cut /\ edits' = edits /\ breaks' = breaks
      /\ holder' = [holder EXCEPT ![g] = ManagerOf(g)]
  BY DEF UpdateGroup, database
<1>3. /\ ManagerOf(g) \in Account /\ ManagerOf(g) # Unlinked
      /\ Backed(g) /\ Relied
  BY <1>0, AtHand
<1>4. ImportTypeOK'
  BY <1>0, <1>1, <1>2, <1>3 DEF ImportInv, ImportTypeOK
<1>5. Sheets'
  BY <1>1, <1>2, SheetsStay DEF ImportInv
<1>6. /\ \A h : Rows(h)' = Rows(h) /\ ManagerOf(h)' = ManagerOf(h)
      /\ \A a : EmailOf(a)' = EmailOf(a)
  BY <1>2, WorkSame
<1>7. Backed(g)'
  BY <1>0, <1>1, <1>2, <1>3 DEF Backed, Relied, At, ImportInv, ImportTypeOK
<1>8. Relied'
  BY <1>0, <1>1, <1>2, <1>3, <1>6 DEF Relied, At, Writing, ImportInv, ImportTypeOK
<1>9. /\ owner \subseteq owner' /\ member \subseteq member' /\ setting \subseteq setting'
      /\ \A h \in Group \ {g} :
           link'[h] = link[h] /\ holder'[h] = holder[h] /\ (h \in slots => h \in slots')
  BY <1>2 DEF ImportInv, ImportTypeOK
<1>10. Persisted'
  BY <1>0, <1>1, <1>2, <1>7, <1>8, <1>9, Within DEF Writing
<1> QED BY <1>4, <1>5, <1>10 DEF ImportInv

\* And its link follows.
LEMMA UpdateLinkStep == ASSUME ImportInv, UpdateLink PROVE ImportInv'
<1> DEFINE g == import.of
<1>0. import.pc = "relink" /\ import.pc \in Writing \ {"members"} /\ g \in Group
  BY AtHand DEF UpdateLink, At, Writing
<1>1. /\ import'.pc = "members" /\ import'.of = g /\ import'.todo = import.todo
      /\ import'.left = Rows(g) /\ import' \in ImportAt
  BY <1>0, AtHand, MembersParts DEF UpdateLink, ImportInv, ImportTypeOK, Writing
<1>2. /\ file' = file /\ next' = next /\ work' = work /\ owner' = owner /\ groups' = groups
      /\ holder' = holder /\ slots' = slots /\ setting' = setting /\ member' = member
      /\ cut' = cut /\ edits' = edits /\ breaks' = breaks
      /\ link' = [link EXCEPT ![g] = ManagerOf(g)]
  BY DEF UpdateLink, database
<1>3. /\ ManagerOf(g) \in Account /\ ManagerOf(g) # Unlinked
      /\ Backed(g) /\ Relied
  BY <1>0, AtHand
<1>4. ImportTypeOK'
  BY <1>0, <1>1, <1>2, <1>3 DEF ImportInv, ImportTypeOK
<1>5. Sheets'
  BY <1>1, <1>2, SheetsStay DEF ImportInv
<1>6. /\ \A h : Rows(h)' = Rows(h) /\ ManagerOf(h)' = ManagerOf(h)
      /\ \A a : EmailOf(a)' = EmailOf(a)
  BY <1>2, WorkSame
<1>7. Backed(g)'
  BY <1>0, <1>1, <1>2, <1>3 DEF Backed, Relied, At, ImportInv, ImportTypeOK
<1>8. Relied'
  BY <1>0, <1>1, <1>2, <1>3, <1>6 DEF Relied, At, Writing, ImportInv, ImportTypeOK
<1>9. /\ owner \subseteq owner' /\ member \subseteq member' /\ setting \subseteq setting'
      /\ \A h \in Group \ {g} :
           link'[h] = link[h] /\ holder'[h] = holder[h] /\ (h \in slots => h \in slots')
  BY <1>2 DEF ImportInv, ImportTypeOK
<1>10. Persisted'
  BY <1>0, <1>1, <1>2, <1>7, <1>8, <1>9, Within DEF Writing
<1> QED BY <1>4, <1>5, <1>10 DEF ImportInv

\* A new SubscriptionGroup has no slots, but there is no link to it either.
LEMMA CreateGroupStep == ASSUME ImportInv, CreateGroup PROVE ImportInv'
<1> DEFINE g == import.of
<1>0. import.pc = "group" /\ import.pc \in Writing \ {"members"} /\ g \in Group
  BY AtHand DEF CreateGroup, At, Writing
<1>1. /\ import'.pc = "slots" /\ import'.of = g /\ import'.todo = import.todo
      /\ import' \in ImportAt
  BY <1>0, ReachParts DEF CreateGroup, ImportInv, ImportTypeOK, Writing
<1>2. /\ file' = file /\ next' = next /\ work' = work /\ owner' = owner /\ link' = link
      /\ setting' = setting /\ member' = member /\ cut' = cut /\ edits' = edits
      /\ breaks' = breaks
      /\ groups' = [groups EXCEPT ![g] = groups[g] + 1]
      /\ holder' = [holder EXCEPT ![g] = ManagerOf(g)]
      /\ slots' = slots \ {g}
  BY DEF CreateGroup, database
<1>3. /\ ManagerOf(g) \in Account /\ ManagerOf(g) # Unlinked
      /\ Backed(g) /\ Relied
  BY <1>0, AtHand
<1>4. ImportTypeOK'
  BY <1>0, <1>1, <1>2, <1>3 DEF ImportInv, ImportTypeOK
<1>5. Sheets'
  BY <1>1, <1>2, SheetsStay DEF ImportInv
<1>6. /\ \A h : Rows(h)' = Rows(h) /\ ManagerOf(h)' = ManagerOf(h)
      /\ \A a : EmailOf(a)' = EmailOf(a)
  BY <1>2, WorkSame
<1>7. Backed(g)'
  BY <1>0, <1>1, <1>2, <1>3 DEF Backed, Relied, At, ImportInv, ImportTypeOK
<1>8. Relied'
  BY <1>0, <1>1, <1>2, <1>3, <1>6 DEF Relied, At, Writing, ImportInv, ImportTypeOK
<1>9. /\ owner \subseteq owner' /\ member \subseteq member' /\ setting \subseteq setting'
      /\ \A h \in Group \ {g} :
           link'[h] = link[h] /\ holder'[h] = holder[h] /\ (h \in slots => h \in slots')
  BY <1>2 DEF ImportInv, ImportTypeOK
<1>10. Persisted'
  BY <1>0, <1>1, <1>2, <1>7, <1>8, <1>9, Within DEF Writing
<1> QED BY <1>4, <1>5, <1>10 DEF ImportInv

\* Slots come before the link,
LEMMA CreateSlotsStep == ASSUME ImportInv, CreateSlots PROVE ImportInv'
<1> DEFINE g == import.of
<1>0. import.pc = "slots" /\ import.pc \in Writing \ {"members"} /\ g \in Group
  BY AtHand DEF CreateSlots, At, Writing
<1>1. /\ import'.pc = "link" /\ import'.of = g /\ import'.todo = import.todo
      /\ import' \in ImportAt
  BY <1>0, ReachParts DEF CreateSlots, ImportInv, ImportTypeOK, Writing
<1>2. /\ file' = file /\ next' = next /\ work' = work /\ owner' = owner /\ groups' = groups
      /\ holder' = holder /\ link' = link /\ setting' = setting /\ member' = member
      /\ cut' = cut /\ edits' = edits /\ breaks' = breaks
      /\ slots' = slots \cup {g}
  BY DEF CreateSlots, database
<1>3. /\ ManagerOf(g) \in Account /\ ManagerOf(g) # Unlinked
      /\ Backed(g) /\ Relied
  BY <1>0, AtHand
<1>4. ImportTypeOK'
  BY <1>0, <1>1, <1>2, <1>3 DEF ImportInv, ImportTypeOK
<1>5. Sheets'
  BY <1>1, <1>2, SheetsStay DEF ImportInv
<1>6. /\ \A h : Rows(h)' = Rows(h) /\ ManagerOf(h)' = ManagerOf(h)
      /\ \A a : EmailOf(a)' = EmailOf(a)
  BY <1>2, WorkSame
<1>7. Backed(g)'
  BY <1>0, <1>1, <1>2, <1>3 DEF Backed, Relied, At, ImportInv, ImportTypeOK
<1>8. Relied'
  BY <1>0, <1>1, <1>2, <1>3, <1>6 DEF Relied, At, Writing, ImportInv, ImportTypeOK
<1>9. /\ owner \subseteq owner' /\ member \subseteq member' /\ setting \subseteq setting'
      /\ \A h \in Group \ {g} :
           link'[h] = link[h] /\ holder'[h] = holder[h] /\ (h \in slots => h \in slots')
  BY <1>2 DEF ImportInv, ImportTypeOK
<1>10. Persisted'
  BY <1>0, <1>1, <1>2, <1>7, <1>8, <1>9, Within DEF Writing
<1> QED BY <1>4, <1>5, <1>10 DEF ImportInv

\* and the link before the setting.
LEMMA CreateLinkStep == ASSUME ImportInv, CreateLink PROVE ImportInv'
<1> DEFINE g == import.of
<1>0. import.pc = "link" /\ import.pc \in Writing \ {"members"} /\ g \in Group
  BY AtHand DEF CreateLink, At, Writing
<1>1. /\ import'.pc = "setting" /\ import'.of = g /\ import'.todo = import.todo
      /\ import' \in ImportAt
  BY <1>0, ReachParts DEF CreateLink, ImportInv, ImportTypeOK, Writing
<1>2. /\ file' = file /\ next' = next /\ work' = work /\ owner' = owner /\ groups' = groups
      /\ holder' = holder /\ slots' = slots /\ setting' = setting /\ member' = member
      /\ cut' = cut /\ edits' = edits /\ breaks' = breaks
      /\ link' = [link EXCEPT ![g] = ManagerOf(g)]
  BY DEF CreateLink, database
<1>3. /\ ManagerOf(g) \in Account /\ ManagerOf(g) # Unlinked
      /\ Backed(g) /\ Relied
  BY <1>0, AtHand
<1>4. ImportTypeOK'
  BY <1>0, <1>1, <1>2, <1>3 DEF ImportInv, ImportTypeOK
<1>5. Sheets'
  BY <1>1, <1>2, SheetsStay DEF ImportInv
<1>6. /\ \A h : Rows(h)' = Rows(h) /\ ManagerOf(h)' = ManagerOf(h)
      /\ \A a : EmailOf(a)' = EmailOf(a)
  BY <1>2, WorkSame
<1>7. Backed(g)'
  BY <1>0, <1>1, <1>2, <1>3 DEF Backed, Relied, At, ImportInv, ImportTypeOK
<1>8. Relied'
  BY <1>0, <1>1, <1>2, <1>3, <1>6 DEF Relied, At, Writing, ImportInv, ImportTypeOK
<1>9. /\ owner \subseteq owner' /\ member \subseteq member' /\ setting \subseteq setting'
      /\ \A h \in Group \ {g} :
           link'[h] = link[h] /\ holder'[h] = holder[h] /\ (h \in slots => h \in slots')
  BY <1>2 DEF ImportInv, ImportTypeOK
<1>10. Persisted'
  BY <1>0, <1>1, <1>2, <1>7, <1>8, <1>9, Within DEF Writing
<1> QED BY <1>4, <1>5, <1>10 DEF ImportInv

\* With its setting a group has all it is to be backed by.
LEMMA UpsertSettingStep == ASSUME ImportInv, UpsertSetting PROVE ImportInv'
<1> DEFINE g == import.of
<1>0. import.pc = "setting" /\ import.pc \in Writing \ {"members"} /\ g \in Group
  BY AtHand DEF UpsertSetting, At, Writing
<1>1. /\ import'.pc = "members" /\ import'.of = g /\ import'.todo = import.todo
      /\ import'.left = Rows(g) /\ import' \in ImportAt
  BY <1>0, AtHand, MembersParts DEF UpsertSetting, ImportInv, ImportTypeOK, Writing
<1>2. /\ file' = file /\ next' = next /\ work' = work /\ owner' = owner /\ groups' = groups
      /\ holder' = holder /\ slots' = slots /\ link' = link /\ member' = member /\ cut' = cut
      /\ edits' = edits /\ breaks' = breaks
      /\ setting' = setting \cup {g}
  BY DEF UpsertSetting, database
<1>3. /\ ManagerOf(g) \in Account /\ ManagerOf(g) # Unlinked
      /\ Backed(g) /\ Relied
  BY <1>0, AtHand
<1>4. ImportTypeOK'
  BY <1>0, <1>1, <1>2, <1>3 DEF ImportInv, ImportTypeOK
<1>5. Sheets'
  BY <1>1, <1>2, SheetsStay DEF ImportInv
<1>6. /\ \A h : Rows(h)' = Rows(h) /\ ManagerOf(h)' = ManagerOf(h)
      /\ \A a : EmailOf(a)' = EmailOf(a)
  BY <1>2, WorkSame
<1>7. Backed(g)'
  BY <1>0, <1>1, <1>2, <1>3 DEF Backed, Relied, At, ImportInv, ImportTypeOK
<1>8. Relied'
  BY <1>0, <1>1, <1>2, <1>3, <1>6 DEF Relied, At, Writing, ImportInv, ImportTypeOK
<1>9. /\ owner \subseteq owner' /\ member \subseteq member' /\ setting \subseteq setting'
      /\ \A h \in Group \ {g} :
           link'[h] = link[h] /\ holder'[h] = holder[h] /\ (h \in slots => h \in slots')
  BY <1>2 DEF ImportInv, ImportTypeOK
<1>10. Persisted'
  BY <1>0, <1>1, <1>2, <1>7, <1>8, <1>9, Within DEF Writing
<1> QED BY <1>4, <1>5, <1>10 DEF ImportInv

\* Going on to the next group, or to the end.
LEMMA TurnStep ==
  ASSUME NEW rest \in SUBSET Group, \A g \in rest : Rows(g) # {}, import' = Turn(rest)
  PROVE  /\ Ahead' = rest
         /\ import' \in ImportAt /\ import'.pc \in {"owner", "snapshot"}
         /\ import'.pc \in Writing => import'.of \notin import'.todo
         /\ Relied'
<1>1. CASE rest = {}
  <2>1. import' = [pc |-> "snapshot"] /\ import' \in ImportAt
    BY <1>1, TurnParts
  <2> QED BY <1>1, <2>1 DEF Ahead, Writing, Relied, At
<1>2. CASE rest # {}
  <2>1. PICK g \in rest : import' = [pc |-> "owner", of |-> g, todo |-> rest \ {g}]
    BY <1>2, TurnParts
  <2>2. import' \in ImportAt
    BY TurnParts
  <2>3. import'.pc = "owner" /\ import'.of = g /\ import'.todo = rest \ {g}
    BY <2>1
  <2> QED BY <2>2, <2>3 DEF Ahead, Writing, Relied, At
<1> QED BY <1>1, <1>2

\* Every group with rows to write is ahead.
LEMMA PersistStep == ASSUME ImportInv, Persist PROVE ImportInv'
<1> DEFINE rest == {g \in Groups(work) : Rows(g) # {}}
<1>1. /\ import.pc = "processed" /\ import' = Turn(rest)
      /\ file' = file /\ next' = next /\ work' = work /\ UNCHANGED database
      /\ cut' = cut /\ edits' = edits /\ breaks' = breaks
  BY DEF Persist, At
<1>2. rest \in SUBSET Group /\ \A g \in rest : Rows(g) # {}
  BY WorkParts DEF ImportInv, Persisted
<1>3. /\ Ahead' = rest
      /\ import' \in ImportAt /\ import'.pc \in {"owner", "snapshot"}
      /\ import'.pc \in Writing => import'.of \notin import'.todo
      /\ Relied'
  BY <1>1, <1>2, TurnStep
<1>4. /\ \A h : Rows(h)' = Rows(h) /\ ManagerOf(h)' = ManagerOf(h)
      /\ Groups(work)' = Groups(work)
  BY <1>1, WorkSame
<1>5. ImportTypeOK'
  BY <1>1, <1>3 DEF ImportInv, ImportTypeOK, database
<1>6. Sheets'
  BY <1>1, <1>3, SheetsStay DEF ImportInv
<1>7. \A g \in Group : Backed(g)'
  BY <1>1, <1>3 DEF ImportInv, Persisted, Backed, At, database
<1>8. \A g \in Ahead' : Rows(g)' # {}
  BY <1>3, <1>4
<1>9. \A g \in Groups(work)' \ Ahead' : Rows(g)' = {}
  BY <1>3, <1>4
<1>10. \A a \in Account : work'[a].email # "formula"
  BY <1>1 DEF ImportInv, Persisted, At
<1>11. Persisted'
  BY <1>3, <1>7, <1>8, <1>9, <1>10 DEF Persisted
<1> QED BY <1>5, <1>6, <1>11 DEF ImportInv

\* With its last member a group is done; only then another's turn comes.
LEMMA UpsertMemberStep == ASSUME ImportInv, UpsertMember PROVE ImportInv'
<1> DEFINE g == import.of
           a == Min(import.left)
           kind == IF work[a].role = "MANAGER" THEN "ADMIN" ELSE "MEMBER"
           rest == import.left \ {a}
<1>0. import.pc = "members" /\ import.pc \in Writing
  BY DEF UpsertMember, At, Writing
<1>1. /\ g \in Group /\ import.todo \in SUBSET Group /\ g \notin import.todo
      /\ \A h \in import.todo : Rows(h) # {}
      /\ \A b \in Account : EmailOf(b) \in Email
      /\ Backed(g) /\ Relied
  BY <1>0, AtHand
<1>2. /\ import.left \in SUBSET Account /\ import.left # {}
      /\ import = [pc |-> "members", of |-> g, todo |-> import.todo, left |-> import.left]
  BY <1>0, ImportParts DEF ImportInv, ImportTypeOK, At
<1>3. a \in import.left /\ a \in Account
  BY <1>2, AccountAssumption, MinIn
<1>4. kind \in Kind
  BY DEF Kind
<1> HIDE DEF a, kind
<1>5. /\ file' = file /\ next' = next /\ work' = work /\ owner' = owner /\ groups' = groups
      /\ holder' = holder /\ slots' = slots /\ link' = link /\ setting' = setting
      /\ cut' = cut /\ edits' = edits /\ breaks' = breaks
      /\ member' = member \cup {<<g, EmailOf(a), kind>>}
      /\ import' = IF rest = {} THEN Turn(import.todo) ELSE [import EXCEPT !.left = rest]
  BY DEF UpsertMember, a, kind
<1>6. member' \subseteq Group \X Email \X Kind
  BY <1>1, <1>3, <1>4, <1>5 DEF ImportInv, ImportTypeOK
<1>7. /\ \A h : Rows(h)' = Rows(h) /\ ManagerOf(h)' = ManagerOf(h)
      /\ \A b : EmailOf(b)' = EmailOf(b)
      /\ Groups(work)' = Groups(work)
  BY <1>5, WorkSame
<1>8. \A b \in Rows(g) \ rest : \E k \in Kind : <<g, EmailOf(b), k>> \in member'
  BY <1>0, <1>1, <1>4, <1>5 DEF Relied, At
<1>9. CASE rest # {}
  <2>1. import' = [pc |-> "members", of |-> g, todo |-> import.todo, left |-> rest]
    BY <1>2, <1>5, <1>9
  <2>2. /\ import'.pc = "members" /\ import'.of = g /\ import'.todo = import.todo
        /\ import'.left = rest
    BY <2>1
  <2>3. import' \in ImportAt
    BY <1>1, <1>2, <1>9, <2>1 DEF ImportAt
  <2>4. ImportTypeOK'
    BY <1>5, <1>6, <2>3 DEF ImportInv, ImportTypeOK
  <2>5. Sheets'
    BY <1>5, <2>2, SheetsStay DEF ImportInv
  <2>6. Backed(g)'
    BY <1>0, <1>1, <1>5, <2>2 DEF Backed, At
  <2>7. Relied'
    BY <1>0, <1>1, <1>5, <1>7, <1>8, <2>2 DEF Relied, At, Writing
  <2>8. Persisted'
    BY <1>0, <1>5, <2>2, <2>6, <2>7, Within
  <2> QED BY <2>4, <2>5, <2>8 DEF ImportInv
<1>10. CASE rest = {}
  <2>1. import' = Turn(import.todo)
    BY <1>5, <1>10
  <2>2. /\ Ahead' = import.todo
        /\ import' \in ImportAt /\ import'.pc \in {"owner", "snapshot"}
        /\ import'.pc \in Writing => import'.of \notin import'.todo
        /\ Relied'
    BY <1>1, <2>1, TurnStep
  <2>3. ImportTypeOK'
    BY <1>5, <1>6, <2>2 DEF ImportInv, ImportTypeOK
  <2>4. Sheets'
    BY <1>5, <2>2, SheetsStay DEF ImportInv
  <2>5. ASSUME NEW h, h = g PROVE Done(h)'
    <3>1. \A b \in Rows(g) : \E k \in Kind : <<g, EmailOf(b), k>> \in member'
      BY <1>8, <1>10
    <3>2. /\ link[g] = ManagerOf(g) /\ holder[g] = ManagerOf(g)
          /\ EmailOf(ManagerOf(g)) \in owner
      BY <1>0, <1>1 DEF Relied, At, Writing
    <3> QED BY <1>5, <1>7, <2>5, <3>1, <3>2 DEF Done
  <2>6. ASSUME NEW h \in Groups(work)' \ Ahead', Rows(h)' # {} PROVE Done(h)'
    <3>1. CASE h = g
      BY <2>5, <3>1
    <3>2. CASE h # g
      <4>1. h \in Groups(work) \ Ahead /\ Rows(h) # {}
        BY <1>0, <1>7, <2>2, <2>6, <3>2 DEF Ahead
      <4>2. Done(h)
        BY <1>0, <4>1 DEF ImportInv, Persisted
      <4> QED BY <1>5, <1>7, <4>2 DEF Done
    <3> QED BY <3>1, <3>2
  <2>7. \A h \in Group : Backed(h)'
    BY <1>0, <1>5, <2>2 DEF ImportInv, Persisted, Backed, At
  <2>8. \A h \in Ahead' : Rows(h)' # {}
    BY <1>1, <1>7, <2>2
  <2>9. \A b \in Account : work'[b].email # "formula"
    BY <1>0, <1>5 DEF ImportInv, Persisted, At
  <2>10. Persisted'
    BY <2>2, <2>6, <2>7, <2>8, <2>9 DEF Persisted
  <2> QED BY <2>3, <2>4, <2>10 DEF ImportInv
<1> QED BY <1>9, <1>10

\* When nothing is ahead every group is done.
LEMMA SaveSnapshotStep == ASSUME ImportInv, SaveSnapshot PROVE ImportInv'
<1>1. /\ import.pc = "snapshot" /\ import' = [pc |-> "saved"] /\ import'.pc = "saved"
      /\ file' = file /\ next' = next /\ work' = work /\ UNCHANGED database
      /\ cut' = cut /\ edits' = edits /\ breaks' = breaks
  BY DEF SaveSnapshot, At
<1>2. Ahead' = {} /\ Ahead = {}
  BY <1>1 DEF Ahead, Writing
<1>3. /\ \A h : Rows(h)' = Rows(h) /\ ManagerOf(h)' = ManagerOf(h)
      /\ \A a : EmailOf(a)' = EmailOf(a)
      /\ Groups(work)' = Groups(work)
  BY <1>1, WorkSame
<1>4. ImportTypeOK'
  BY <1>1 DEF ImportInv, ImportTypeOK, database, ImportAt
<1>5. Sheets'
  BY <1>1, SheetsStay DEF ImportInv
<1>6. Relied'
  BY <1>1 DEF Relied, Writing, At
<1>7. \A g \in Group : Backed(g)'
  BY <1>1 DEF ImportInv, Persisted, Backed, At, database
<1>8. ASSUME NEW g \in Groups(work), Rows(g) # {} PROVE Done(g)'
  <2>1. Done(g)
    BY <1>1, <1>2, <1>8 DEF ImportInv, Persisted
  <2> QED BY <1>1, <1>3, <2>1 DEF Done, database
<1>9. \A a \in Account : work'[a].email # "formula"
  BY <1>1 DEF ImportInv, Persisted, At
<1>10. import'.pc \notin Writing
  BY <1>1 DEF Writing
<1>11. Persisted'
  BY <1>2, <1>3, <1>6, <1>7, <1>8, <1>9, <1>10 DEF Persisted
<1> QED BY <1>4, <1>5, <1>11 DEF ImportInv

\* Every step keeps the invariant.
LEMMA InvNext == ImportInv /\ [ImportNext]_importVars => ImportInv'
<1> SUFFICES ASSUME ImportInv, [ImportNext]_importVars PROVE ImportInv'
  OBVIOUS
<1>1. ASSUME NEW a \in Account, Edit(a) PROVE ImportInv'
  BY <1>1, EditStep
<1>2. CASE Process
  BY <1>2, ProcessStep
<1>3. CASE Answer
  BY <1>3, AnswerStep
<1>4. CASE Persist
  BY <1>4, PersistStep
<1>5. CASE UpsertOwner
  BY <1>5, UpsertOwnerStep
<1>6. CASE FindLink
  BY <1>6, FindLinkStep
<1>7. CASE UpdateGroup
  BY <1>7, UpdateGroupStep
<1>8. CASE UpdateLink
  BY <1>8, UpdateLinkStep
<1>9. CASE CreateGroup
  BY <1>9, CreateGroupStep
<1>10. CASE CreateSlots
  BY <1>10, CreateSlotsStep
<1>11. CASE CreateLink
  BY <1>11, CreateLinkStep
<1>12. CASE UpsertSetting
  BY <1>12, UpsertSettingStep
<1>13. CASE UpsertMember
  BY <1>13, UpsertMemberStep
<1>14. CASE SaveSnapshot
  BY <1>14, SaveSnapshotStep
<1>15. CASE Break
  BY <1>15, BreakStep
<1>16. CASE UNCHANGED importVars
  <2>1. /\ file' = file /\ next' = next /\ work' = work /\ import' = import
        /\ owner' = owner /\ groups' = groups /\ holder' = holder /\ slots' = slots
        /\ link' = link /\ setting' = setting /\ member' = member
        /\ cut' = cut /\ edits' = edits /\ breaks' = breaks
    BY <1>16 DEF importVars, database
  <2>2. ImportTypeOK'
    BY <2>1 DEF ImportInv, ImportTypeOK
  <2>3. Sheets'
    BY <2>1 DEF ImportInv, Sheets, At
  <2>4. /\ \A h : Rows(h)' = Rows(h) /\ ManagerOf(h)' = ManagerOf(h)
        /\ \A a : EmailOf(a)' = EmailOf(a)
        /\ Groups(work)' = Groups(work)
    BY <2>1, WorkSame
  <2>5. Ahead' = Ahead
    BY <2>1 DEF Ahead
  <2>6. \A g : (Done(g) => Done(g)') /\ (Backed(g) => Backed(g)')
    BY <2>1, <2>4 DEF Done, Backed, At
  <2>7. Relied'
    BY <2>1, <2>4 DEF ImportInv, Persisted, Relied, At
  <2>8. Persisted'
    BY <2>1, <2>4, <2>5, <2>6, <2>7 DEF ImportInv, Persisted, At
  <2> QED BY <2>2, <2>3, <2>8 DEF ImportInv
<1> QED BY <1>1, <1>2, <1>3, <1>4, <1>5, <1>6, <1>7, <1>8, <1>9, <1>10, <1>11, <1>12, <1>13,
           <1>14, <1>15, <1>16 DEF ImportNext

\* In every state both sheets are in order and the database is as far as the import is.
THEOREM ImportInvariant == ImportSpec => []ImportInv
<1>1. ImportInit => ImportInv
  BY InvInit
<1>2. ImportInv /\ [ImportNext]_importVars => ImportInv'
  BY InvNext
<1> QED BY <1>1, <1>2, PTL DEF ImportSpec

\* Every variable keeps its type: the group of a row is one that was given out, and what is
\* written to the database is of accounts whose e-mail was exported.
THEOREM ImportTypeCorrect == ImportSpec => []ImportTypeOK
<1>1. ImportInv => ImportTypeOK
  BY DEF ImportInv
<1> QED BY <1>1, ImportInvariant, PTL

\* However large the sheet, and whatever payments, refunds and imports it has been through,
\* a run of parseAndProcess over it serves every payer, moves none, takes out whoever was
\* refunded, leaves one manager and no more than MAX_MEMBERS_PER_GROUP members in a group,
\* founds groups of need only, and a second run changes nothing.
THEOREM ImportIsSound == ImportSpec => []ImportSound
<1>1. ImportInv => ImportSound
  <2> SUFFICES ASSUME ImportInv, At("processed")
               PROVE  /\ PayersServed(file, work) /\ GroupsSound(work)
                      /\ FoundedOfNeed(file, work) /\ Settled(work, next)
    BY DEF ImportSound
  <2>1. PayersServed(file, work) /\ FoundedOfNeed(file, work) /\ AtRest(work)
    BY DEF ImportInv, Sheets
  <2>2. GroupsSound(work)
    BY DEF ImportInv, Sheets, SheetOK
  <2>3. Settled(work, next)
    BY <2>1, RestSettled
  <2> QED BY <2>1, <2>2, <2>3
<1> QED BY <1>1, ImportInvariant, PTL

\* For any number of groups, edits and breaks: once persistAccounts has saved a sheet every
\* group of it is linked to its manager's account, with slots and a row for everybody in
\* it, whatever earlier imports left half written.
THEOREM SavedMirrored == ImportSpec => []SavedIsMirrored
<1>1. ImportInv => SavedIsMirrored
  <2> SUFFICES ASSUME ImportInv, At("saved"), NEW a \in Account, NEW g, g = work[a].group,
                      g # NoGroup, a \in Rows(g)
               PROVE  /\ link[g] = ManagerOf(g) /\ holder[g] = link[g]
                      /\ EmailOf(link[g]) \in owner
                      /\ g \in slots
                      /\ g \in setting \cup cut
                      /\ \E kind \in Kind : <<g, EmailOf(a), kind>> \in member
    BY DEF SavedIsMirrored
  <2>1. import.pc = "saved" /\ Ahead = {}
    BY DEF At, Ahead, Writing
  <2>2. g \in Groups(work) /\ Rows(g) # {}
    BY DEF Groups
  <2>3. g \in Group
    BY <2>1, <2>2, WorkParts DEF ImportInv, Persisted
  <2>4. Done(g)
    BY <2>1, <2>2 DEF ImportInv, Persisted
  <2>5. link[g] # Unlinked
    BY <2>2, <2>4, ManagerIn DEF Done
  <2>6. g \in slots /\ g \in setting \cup cut
    BY <2>1, <2>3, <2>5 DEF ImportInv, Persisted, Backed, At
  <2> QED BY <2>4, <2>6 DEF Done
<1> QED BY <1>1, ImportInvariant, PTL
===============================================================================
