-------------------------- MODULE FamilyMembersProofs --------------------------
(***************************************************************************)
(* That the service implements the roster, accounts for the seats of those *)
(* it removes and invites nobody behind a removal, for any number of       *)
(* customers, seats, jobs, retries and crashes.                            *)
(***************************************************************************)
EXTENDS FamilyMembers, TLAPS

-------------------------------------------------------------------------------
(* The jobs *)

LEMMA JobParts ==
  ASSUME TypeOK, NEW i \in DOMAIN job
  PROVE  /\ job[i].type \in JobType /\ job[i].of \in Customer \cup {Nobody}
         /\ job[i].owned \in BOOLEAN /\ job[i].status \in Open \cup Outcome
<1>1. job[i] \in Job
  BY DEF TypeOK
<1> QED
  BY <1>1 DEF Job

LEMMA JobRange ==
  ASSUME TypeOK
  PROVE  DOMAIN job = 1..Len(job) /\ Len(job) \in Nat
  BY DEF TypeOK

LEMMA Enqueued ==
  ASSUME TypeOK, NEW type \in JobType, NEW c \in Customer \cup {Nobody}, NEW owned \in BOOLEAN,
         Enqueue(type, c, owned)
  PROVE  /\ job' \in Seq(Job) /\ Len(job') = Len(job) + 1 /\ Len(job') <= MaxJobs
         /\ DOMAIN job' = 1..(Len(job) + 1)
         /\ job'[Len(job) + 1].type = type /\ job'[Len(job) + 1].of = c
         /\ job'[Len(job) + 1].owned = owned
         /\ \A i \in DOMAIN job : job'[i] = job[i]
<1>1. PICK status \in {"QUEUED", "FAILED"} :
        job' = Append(job, [type |-> type, of |-> c, owned |-> owned, status |-> status])
  BY DEF Enqueue
<1> DEFINE new == [type |-> type, of |-> c, owned |-> owned, status |-> status]
<1>2. new \in Job /\ new.type = type /\ new.of = c /\ new.owned = owned
  BY <1>1 DEF Job, Open, Outcome
<1>3. job \in Seq(Job) /\ Len(job) \in Nat /\ Len(job) < MaxJobs /\ MaxJobs \in Nat
  BY BoundAssumption DEF TypeOK, Enqueue
<1> HIDE DEF new
<1>4. job' = Append(job, new)
  BY <1>1 DEF new
<1> QED
  BY <1>2, <1>3, <1>4

LEMMA StatusWritten ==
  ASSUME TypeOK, NEW j \in DOMAIN job, NEW status \in Open \cup Outcome,
         job' = [job EXCEPT ![j].status = status]
  PROVE  /\ job' \in Seq(Job) /\ Len(job') = Len(job) /\ DOMAIN job' = DOMAIN job
         /\ \A i \in DOMAIN job :
              /\ job'[i].type = job[i].type /\ job'[i].of = job[i].of
              /\ job'[i].owned = job[i].owned
              /\ job'[i].status = IF i = j THEN status ELSE job[i].status
<1>1. job \in Seq(Job) /\ DOMAIN job = 1..Len(job) /\ Len(job) \in Nat /\ DOMAIN job' = DOMAIN job
  BY DEF TypeOK
<1>2. ASSUME NEW i \in DOMAIN job
      PROVE  /\ job'[i] \in Job
             /\ job'[i].type = job[i].type /\ job'[i].of = job[i].of
             /\ job'[i].owned = job[i].owned
             /\ job'[i].status = IF i = j THEN status ELSE job[i].status
  <2>1. job[i] \in Job
    BY DEF TypeOK
  <2>2. job'[i] = IF i = j THEN [job[i] EXCEPT !.status = status] ELSE job[i]
    OBVIOUS
  <2> QED
    BY <2>1, <2>2 DEF Job
<1>3. job' \in [1..Len(job) -> Job]
  BY <1>1, <1>2
<1>4. job' \in Seq(Job) /\ Len(job') = Len(job)
  BY <1>1, <1>3
<1> QED
  BY <1>1, <1>2, <1>4

-------------------------------------------------------------------------------
(* The runner and the operators' requests *)

LEMMA RunnerParts ==
  ASSUME TypeOK
  PROVE  /\ runner.pc # "idle" => runner # Idle /\ runner.of \in DOMAIN job
         /\ runner.pc = "observed" => runner.seen \in PageState
         /\ runner.pc = "applied" => runner.outcome \in Outcome
  BY DEF TypeOK, RunnerAt, Idle

LEMMA RequestParts ==
  ASSUME TypeOK, NEW p \in Operator
  PROVE  /\ op[p].pc \in {"inviting", "marking", "removing"} => op[p].of \in Customer
         /\ op[p].pc \in {"marking", "removing"} =>
              /\ op[p] \in [pc : {"marking", "removing"}, of : Customer, kind : Kind, owned : BOOLEAN]
              /\ op[p].kind \in Kind /\ op[p].owned \in BOOLEAN
         /\ op[p].pc = "retrying" => op[p].of \in 1..MaxJobs
  BY DEF TypeOK, OperatorAt, Idle

LEMMA GotoTyped ==
  ASSUME TypeOK, NEW p \in Operator, NEW where \in OperatorAt, Goto(p, where)
  PROVE  /\ op' \in [Operator -> OperatorAt]
         /\ op'[p] = where /\ \A q \in Operator : q # p => op'[q] = op[q]
  BY DEF TypeOK, Goto

LEMMA IdleTyped == Idle \in RunnerAt /\ Idle \in OperatorAt
  BY DEF RunnerAt, OperatorAt

LEMMA RunnerTyped ==
  ASSUME TypeOK, NEW i \in DOMAIN job
  PROVE  /\ i \in 1..MaxJobs
         /\ \A pc \in {"executing", "invited", "removed", "confirming"} :
              [pc |-> pc, of |-> i] \in RunnerAt
         /\ [pc |-> "observed", of |-> i, seen |-> page] \in RunnerAt
         /\ \A outcome \in Outcome : [pc |-> "applied", of |-> i, outcome |-> outcome] \in RunnerAt
<1>1. i \in 1..MaxJobs
  BY BoundAssumption DEF TypeOK
<1> QED
  BY <1>1 DEF TypeOK, RunnerAt

-------------------------------------------------------------------------------
(* Types *)

LEMMA RowParts ==
  ASSUME TypeOK, NEW r \in Customer \X Kind
  PROVE  /\ row[r] \in Row
         /\ row[r].status \in {"none", "INVITED", "JOINED", "REMOVAL_PENDING", "REMOVED"}
         /\ row[r].linked \in BOOLEAN
  BY DEF TypeOK, Row

LEMMA RowWritten ==
  ASSUME TypeOK, NEW r,
         NEW status \in {"none", "INVITED", "JOINED", "REMOVAL_PENDING", "REMOVED"},
         row' = [row EXCEPT ![r].status = status]
  PROVE  /\ row' \in [Customer \X Kind -> Row]
         /\ \A s \in Customer \X Kind : row'[s].linked = row[s].linked
<1>1. row \in [Customer \X Kind -> Row]
  BY DEF TypeOK
<1>2. ASSUME NEW s \in Customer \X Kind
      PROVE  row'[s] \in Row /\ row'[s].linked = row[s].linked
  <2>1. row'[s] = IF s = r THEN [row[s] EXCEPT !.status = status] ELSE row[s]
    BY <1>1
  <2> QED
    BY <2>1, RowParts DEF Row
<1>3. row' = [s \in Customer \X Kind |-> row'[s]]
  BY <1>1
<1> QED
  BY <1>2, <1>3

LEMMA TypeInit == Init => TypeOK
<1> SUFFICES ASSUME Init PROVE TypeOK
  OBVIOUS
<1>1. PICK imported \in SUBSET Customer :
        /\ page = [c \in Customer |-> IF c \in imported THEN "joined" ELSE "absent"]
        /\ row = [r \in Customer \X Kind |->
                    IF r[1] \in imported /\ r[2] = "MEMBER" THEN [NoRow EXCEPT !.status = "JOINED"]
                    ELSE NoRow]
  BY DEF Init
<1>2. NoRow \in Row /\ [NoRow EXCEPT !.status = "JOINED"] \in Row
  BY DEF NoRow, Row
<1>3. row \in [Customer \X Kind -> Row]
  BY <1>1, <1>2
<1>4. page \in PageState
  BY <1>1 DEF PageState
<1>5. alloc \in [Customer -> AllocationStatus] /\ link \in BOOLEAN
  BY DEF Init, AllocationStatus
<1>6. job \in Seq(Job) /\ Len(job) <= MaxJobs
  BY BoundAssumption DEF Init
<1>7. runner \in RunnerAt /\ runner = Idle /\ op \in [Operator -> OperatorAt]
  BY IdleTyped DEF Init
<1>8. retries \in 0..MaxRetries /\ crashes \in 0..MaxCrashes
  BY BoundAssumption DEF Init
<1> QED
  BY <1>3, <1>4, <1>5, <1>6, <1>7, <1>8 DEF TypeOK

LEMMA ElsewhereTypes ==
  ASSUME TypeOK, NEW c \in Customer,
         Reserve(c) \/ Progress(c) \/ ReclaimByHand(c) \/ Accept(c) \/ Leave(c)
  PROVE  TypeOK'
<1>1. alloc' \in [Customer -> AllocationStatus]
  BY DEF Reserve, Progress, ReclaimByHand, Accept, Leave, TypeOK, AllocationStatus, Live
<1>2. page' \in PageState
  BY DEF Reserve, Progress, ReclaimByHand, Accept, Leave, TypeOK, PageState
<1> QED
  BY <1>1, <1>2 DEF Reserve, Progress, ReclaimByHand, Accept, Leave, TypeOK

\* Whatever keeps the jobs that are there keeps the runner's.
LEMMA RunnerKept ==
  ASSUME TypeOK, DOMAIN job \subseteq DOMAIN job', runner' = runner
  PROVE  runner' \in RunnerAt /\ (runner' # Idle => runner'.of \in DOMAIN job')
  BY DEF TypeOK

LEMMA RetryWritten ==
  ASSUME TypeOK, NEW p \in Operator, RetryWrite(p)
  PROVE  /\ job' \in Seq(Job) /\ Len(job') = Len(job) /\ DOMAIN job' = DOMAIN job
         /\ \A i \in DOMAIN job :
              /\ job'[i].type = job[i].type /\ job'[i].of = job[i].of
              /\ job'[i].owned = job[i].owned
              /\ job'[i].status \in {job[i].status, "QUEUED"}
<1>1. CASE op[p].of \in DOMAIN job
  <2>1. "QUEUED" \in Open \cup Outcome
    BY DEF Open
  <2> DEFINE j == op[p].of
  <2>2. job' = [job EXCEPT ![j].status = "QUEUED"] /\ j \in DOMAIN job
    BY <1>1 DEF RetryWrite
  <2> HIDE DEF j
  <2>3. /\ job' \in Seq(Job) /\ Len(job') = Len(job) /\ DOMAIN job' = DOMAIN job
        /\ \A i \in DOMAIN job :
             /\ job'[i].type = job[i].type /\ job'[i].of = job[i].of
             /\ job'[i].owned = job[i].owned
             /\ job'[i].status = IF i = j THEN "QUEUED" ELSE job[i].status
    BY <2>1, <2>2, StatusWritten, Zenon
  <2> QED
    BY <2>3
<1>2. CASE op[p].of \notin DOMAIN job
  <2>1. job' = job
    BY <1>2 DEF RetryWrite, TypeOK
  <2> QED
    BY <2>1 DEF TypeOK
<1> QED
  BY <1>1, <1>2

\* The three requests that enqueue a job.
LEMMA InspectAppends ==
  ASSUME TypeOK, Inspect
  PROVE  /\ job' \in Seq(Job) /\ Len(job') <= MaxJobs /\ DOMAIN job' = DOMAIN job \cup {Len(job) + 1}
         /\ \A i \in DOMAIN job : job'[i] = job[i] /\ i < Len(job) + 1
         /\ job'[Len(job) + 1].type = "INSPECT" /\ job'[Len(job) + 1].of = Nobody
         /\ job'[Len(job) + 1].owned = FALSE
<1>1. /\ Enqueue("INSPECT", Nobody, FALSE) /\ "INSPECT" \in JobType
      /\ Nobody \in Customer \cup {Nobody} /\ FALSE \in BOOLEAN
  BY DEF Inspect, JobType
<1>2. /\ job' \in Seq(Job) /\ Len(job') <= MaxJobs /\ DOMAIN job' = 1..(Len(job) + 1)
      /\ \A i \in DOMAIN job : job'[i] = job[i]
      /\ job'[Len(job) + 1].type = "INSPECT" /\ job'[Len(job) + 1].of = Nobody
      /\ job'[Len(job) + 1].owned = FALSE
  BY <1>1, Enqueued, Zenon
<1> QED
  BY <1>2, JobRange

LEMMA InviteAppends ==
  ASSUME TypeOK, NEW p \in Operator, InviteEnqueue(p)
  PROVE  /\ job' \in Seq(Job) /\ Len(job') <= MaxJobs /\ DOMAIN job' = DOMAIN job \cup {Len(job) + 1}
         /\ \A i \in DOMAIN job : job'[i] = job[i] /\ i < Len(job) + 1
         /\ job'[Len(job) + 1].type = "INVITE" /\ job'[Len(job) + 1].of = op[p].of
         /\ job'[Len(job) + 1].owned = TRUE
<1>1. /\ Enqueue("INVITE", op[p].of, TRUE) /\ "INVITE" \in JobType
      /\ op[p].of \in Customer \cup {Nobody} /\ TRUE \in BOOLEAN
  BY RequestParts DEF InviteEnqueue, JobType
<1>2. /\ job' \in Seq(Job) /\ Len(job') <= MaxJobs /\ DOMAIN job' = 1..(Len(job) + 1)
      /\ \A i \in DOMAIN job : job'[i] = job[i]
      /\ job'[Len(job) + 1].type = "INVITE" /\ job'[Len(job) + 1].of = op[p].of
      /\ job'[Len(job) + 1].owned = TRUE
  BY <1>1, Enqueued, Zenon
<1> QED
  BY <1>2, JobRange

LEMMA RemoveAppends ==
  ASSUME TypeOK, NEW p \in Operator, RemoveEnqueue(p)
  PROVE  /\ job' \in Seq(Job) /\ Len(job') <= MaxJobs /\ DOMAIN job' = DOMAIN job \cup {Len(job) + 1}
         /\ \A i \in DOMAIN job : job'[i] = job[i] /\ i < Len(job) + 1
         /\ job'[Len(job) + 1].type = "REMOVE_MEMBER" /\ job'[Len(job) + 1].of = op[p].of
         /\ job'[Len(job) + 1].owned = op[p].owned
<1>1. /\ Enqueue("REMOVE_MEMBER", op[p].of, op[p].owned) /\ "REMOVE_MEMBER" \in JobType
      /\ op[p].of \in Customer \cup {Nobody} /\ op[p].owned \in BOOLEAN
  BY RequestParts DEF RemoveEnqueue, JobType
<1>2. /\ job' \in Seq(Job) /\ Len(job') <= MaxJobs /\ DOMAIN job' = 1..(Len(job) + 1)
      /\ \A i \in DOMAIN job : job'[i] = job[i]
      /\ job'[Len(job) + 1].type = "REMOVE_MEMBER" /\ job'[Len(job) + 1].of = op[p].of
      /\ job'[Len(job) + 1].owned = op[p].owned
  BY <1>1, Enqueued, Zenon
<1> QED
  BY <1>2, JobRange

LEMMA RequestTypes ==
  ASSUME TypeOK, NEW p \in Operator, Request(p)
  PROVE  TypeOK'
<1>1. CASE Inspect
  BY <1>1, InspectAppends, RunnerKept DEF Inspect, TypeOK
<1>2. ASSUME NEW c \in Customer, InviteCheck(p, c) PROVE TypeOK'
  <2>1. [pc |-> "inviting", of |-> c] \in OperatorAt
    BY DEF OperatorAt
  <2> QED
    BY <1>2, <2>1, GotoTyped DEF InviteCheck, TypeOK
<1>3. ASSUME NEW c \in Customer, NEW k \in Kind, NEW owned \in BOOLEAN, RemoveRead(p, c, k, owned)
      PROVE  TypeOK'
  <2>1. \A pc \in {"marking", "removing"} :
          [pc |-> pc, of |-> c, kind |-> k, owned |-> owned] \in OperatorAt
    BY DEF OperatorAt
  <2> QED
    BY <1>3, <2>1, GotoTyped DEF RemoveRead, TypeOK
<1>4. CASE InviteEnqueue(p)
  <2>1. op' \in [Operator -> OperatorAt]
    BY <1>4, GotoTyped, IdleTyped DEF InviteEnqueue
  <2> QED
    BY <1>4, <2>1, InviteAppends, RunnerKept DEF InviteEnqueue, TypeOK
<1>5. CASE RemoveMark(p)
  <2>1. [op[p] EXCEPT !.pc = "removing"] \in OperatorAt
    BY <1>5, RequestParts DEF RemoveMark, OperatorAt
  <2>2. alloc' \in [Customer -> AllocationStatus]
    BY <1>5 DEF RemoveMark, TypeOK, AllocationStatus, Live
  <2> QED
    BY <1>5, <2>1, <2>2, GotoTyped DEF RemoveMark, TypeOK
<1>6. CASE RemoveEnqueue(p)
  <2>1. op' \in [Operator -> OperatorAt]
    BY <1>6, GotoTyped, IdleTyped DEF RemoveEnqueue
  <2>2. row' = [row EXCEPT ![<<op[p].of, op[p].kind>>].status = "REMOVAL_PENDING"]
    BY <1>6 DEF RemoveEnqueue
  <2>3. row' \in [Customer \X Kind -> Row]
    BY <2>2, RowWritten
  <2> QED
    BY <1>6, <2>1, <2>3, RemoveAppends, RunnerKept DEF RemoveEnqueue, TypeOK
<1>7. ASSUME NEW i \in DOMAIN job, RetryRead(p, i) PROVE TypeOK'
  <2>1. [pc |-> "retrying", of |-> i] \in OperatorAt
    BY RunnerTyped DEF OperatorAt
  <2>2. retries' \in 0..MaxRetries
    BY <1>7, BoundAssumption DEF RetryRead, TypeOK
  <2> QED
    BY <1>7, <2>1, <2>2, GotoTyped DEF RetryRead, TypeOK
<1>8. CASE RequestFails(p)
  BY <1>8, GotoTyped, IdleTyped DEF RequestFails, TypeOK
<1>9. CASE RetryWrite(p)
  <2>1. op' \in [Operator -> OperatorAt]
    BY <1>9, GotoTyped, IdleTyped DEF RetryWrite
  <2>2. job' \in Seq(Job) /\ Len(job') = Len(job) /\ DOMAIN job' = DOMAIN job
    BY <1>9, RetryWritten
  <2> QED
    BY <1>9, <2>1, <2>2, RunnerKept DEF RetryWrite, TypeOK
<1> QED
  BY <1>1, <1>2, <1>3, <1>4, <1>5, <1>6, <1>7, <1>8, <1>9 DEF Request

LEMMA ReachTyped ==
  ASSUME TypeOK, NEW i \in DOMAIN job, job' = job,
         \/ \E pc \in {"executing", "invited", "removed", "confirming"} :
              runner' = [pc |-> pc, of |-> i]
         \/ runner' = [pc |-> "observed", of |-> i, seen |-> page]
         \/ \E outcome \in Outcome : runner' = [pc |-> "applied", of |-> i, outcome |-> outcome]
  PROVE  runner' \in RunnerAt /\ (runner' # Idle => runner'.of \in DOMAIN job')
<1>1. runner' \in RunnerAt
  BY RunnerTyped
<1>2. runner'.of = i
  OBVIOUS
<1> QED
  BY <1>1, <1>2

\* What the runner has at hand.
LEMMA MineParts ==
  ASSUME TypeOK, runner.pc # "idle"
  PROVE  /\ runner.of \in DOMAIN job
         /\ Mine.type \in JobType /\ Mine.of \in Customer \cup {Nobody} /\ Mine.owned \in BOOLEAN
  BY RunnerParts, JobParts DEF Mine

\* The drivers write the page only.
LEMMA PageTyped ==
  ASSUME TypeOK, ExecuteInvite \/ ExecuteRemove \/ ExecuteFails
  PROVE  page' \in PageState
  BY DEF ExecuteInvite, ExecuteRemove, ExecuteFails, Invited, Move, TypeOK, PageState

LEMMA InspectTyped ==
  ASSUME TypeOK, ApplyInspect
  PROVE  row' \in [Customer \X Kind -> Row]
<1>1. PICK f \in Linkings :
        row' = [r \in Customer \X Kind |->
                  [status |-> Synced(r[1], r[2]), linked |-> row[r].linked \/ f[r[1]] = r[2]]]
  BY DEF ApplyInspect
<1>2. ASSUME NEW r \in Customer \X Kind
      PROVE  [status |-> Synced(r[1], r[2]), linked |-> row[r].linked \/ f[r[1]] = r[2]] \in Row
  <2>1. row[<<r[1], r[2]>>] = row[r]
    OBVIOUS
  <2>2. Synced(r[1], r[2]) \in {"none", "INVITED", "JOINED", "REMOVAL_PENDING", "REMOVED"}
    BY <2>1, RowParts DEF Synced
  <2> QED
    BY <2>2 DEF Row
<1> QED
  BY <1>1, <1>2

LEMMA InviteTyped ==
  ASSUME TypeOK, ApplyInvite
  PROVE  row' \in [Customer \X Kind -> Row]
<1>1. [status |-> "INVITED", linked |-> TRUE] \in Row
  BY DEF Row
<1>2. row \in [Customer \X Kind -> Row]
  BY DEF TypeOK
<1> QED
  BY <1>1, <1>2 DEF ApplyInvite

\* The job the runner lays down takes the status it is reported with.
LEMMA ReportWritten ==
  ASSUME TypeOK, runner.pc # "idle", NEW status \in Open \cup Outcome,
         job' = [job EXCEPT ![runner.of].status = status], runner' = Idle
  PROVE  /\ job' \in Seq(Job) /\ Len(job') <= MaxJobs
         /\ runner' \in RunnerAt /\ (runner' # Idle => runner'.of \in DOMAIN job')
<1>1. runner.of \in DOMAIN job
  BY RunnerParts
<1>2. job' \in Seq(Job) /\ Len(job') = Len(job)
  BY <1>1, StatusWritten
<1> QED
  BY <1>2, IdleTyped DEF TypeOK

LEMMA WorkTypes ==
  ASSUME TypeOK, Work
  PROVE  TypeOK'
<1>1. ASSUME NEW i \in DOMAIN job, Claim(i) PROVE TypeOK'
  <2>1. "IN_PROGRESS" \in Open \cup Outcome
    BY DEF Open
  <2>2. job' = [job EXCEPT ![i].status = "IN_PROGRESS"]
    BY <1>1 DEF Claim
  <2>3. job' \in Seq(Job) /\ Len(job') = Len(job) /\ DOMAIN job' = DOMAIN job
    BY <2>1, <2>2, StatusWritten, Zenon
  <2>4. runner' \in RunnerAt /\ runner'.of = i
    BY <1>1, RunnerTyped DEF Claim
  <2> QED
    BY <1>1, <2>3, <2>4 DEF Claim, TypeOK
<1>2. ASSUME runner.pc # "idle", job' = job, page' \in PageState, link' \in BOOLEAN,
             row' \in [Customer \X Kind -> Row], alloc' \in [Customer -> AllocationStatus],
             UNCHANGED <<op, retries, crashes>>,
             \/ \E pc \in {"invited", "removed", "confirming"} : Reach(pc)
             \/ \E outcome \in Outcome : Applied(outcome)
             \/ runner' = [pc |-> "observed", of |-> runner.of, seen |-> page]
      PROVE  TypeOK'
  <2>1. runner' \in RunnerAt /\ (runner' # Idle => runner'.of \in DOMAIN job')
    BY <1>2, ReachTyped, RunnerParts DEF Reach, Applied
  <2> QED
    BY <1>2, <2>1 DEF TypeOK
<1>3. "SUCCEEDED" \in Outcome /\ "FAILED" \in Outcome /\ "AWAITING_HUMAN" \in Outcome
  BY DEF Outcome
<1>4. /\ page \in PageState /\ link \in BOOLEAN /\ row \in [Customer \X Kind -> Row]
      /\ alloc \in [Customer -> AllocationStatus]
  BY DEF TypeOK
<1>5. CASE ExecuteAssisted \/ ExecuteInspect
  BY <1>2, <1>3, <1>4, <1>5 DEF ExecuteAssisted, ExecuteInspect, Drives, Running
<1>6. CASE ExecuteInvite \/ ExecuteRemove \/ ExecuteFails
  BY <1>2, <1>3, <1>4, <1>6, PageTyped DEF ExecuteInvite, ExecuteRemove, ExecuteFails, Drives, Running
<1>7. CASE ApplyInvite
  BY <1>2, <1>3, <1>4, <1>7, InviteTyped DEF ApplyInvite, Running
<1>8. CASE ApplyInspect
  BY <1>2, <1>3, <1>4, <1>8, InspectTyped DEF ApplyInspect, Running
<1>9. ASSUME NEW k \in Kind, ConfirmRow(k) PROVE TypeOK'
  <2>1. row' = [row EXCEPT ![<<Mine.of, k>>].status = "REMOVED"]
    BY <1>9 DEF ConfirmRow
  <2>2. row' \in [Customer \X Kind -> Row]
    BY <2>1, RowWritten
  <2> QED
    BY <1>2, <1>3, <1>4, <1>9, <2>2 DEF ConfirmRow, Running
<1>10. CASE ConfirmSeat
  <2>1. alloc' \in [Customer -> AllocationStatus]
    BY <1>10 DEF ConfirmSeat, TypeOK, AllocationStatus
  <2> QED
    BY <1>2, <1>3, <1>4, <1>10, <2>1 DEF ConfirmSeat, Running
<1>11. CASE ConfirmFails
  BY <1>2, <1>3, <1>4, <1>11 DEF ConfirmFails, Running
<1>12. CASE Report
  <2>1. runner.pc # "idle" /\ runner.outcome \in Open \cup Outcome
    BY <1>12, RunnerParts DEF Report, Running
  <2>2. /\ job' \in Seq(Job) /\ Len(job') <= MaxJobs
        /\ runner' \in RunnerAt /\ (runner' # Idle => runner'.of \in DOMAIN job')
    BY <1>12, <2>1, ReportWritten DEF Report
  <2> QED
    BY <1>12, <2>2 DEF Report, TypeOK
<1>13. CASE Crash
  <2>1. runner.pc # "idle" /\ "QUEUED" \in Open \cup Outcome
    BY <1>13 DEF Crash, TypeOK, RunnerAt, Idle, Open
  <2>2. job' = [job EXCEPT ![runner.of].status = "QUEUED"] /\ runner' = Idle
    BY <1>13 DEF Crash
  <2>3. /\ job' \in Seq(Job) /\ Len(job') <= MaxJobs
        /\ runner' \in RunnerAt /\ (runner' # Idle => runner'.of \in DOMAIN job')
    BY <2>1, <2>2, ReportWritten, Zenon
  <2>4. crashes' \in 0..MaxCrashes
    BY <1>13, BoundAssumption DEF Crash, TypeOK
  <2> QED
    BY <1>13, <2>3, <2>4 DEF Crash, TypeOK
<1> QED
  BY <1>1, <1>5, <1>6, <1>7, <1>8, <1>9, <1>10, <1>11, <1>12, <1>13 DEF Work

LEMMA TypeStep == TypeOK /\ [Next]_vars => TypeOK'
<1> SUFFICES ASSUME TypeOK, [Next]_vars PROVE TypeOK'
  OBVIOUS
<1>1. CASE UNCHANGED vars
  BY <1>1 DEF vars, TypeOK
<1> QED
  BY <1>1, ElsewhereTypes, RequestTypes, WorkTypes DEF Next, Elsewhere

\* Allocations, the page, its rows, jobs, the runner and requests keep their types.
THEOREM TypeCorrect == Spec => []TypeOK
  BY TypeInit, TypeStep, PTL DEF Spec

-------------------------------------------------------------------------------
(* What steps leave as it is *)

\* The steps that write the jobs.
LEMMA JobWriters ==
  ASSUME [Next]_vars
  PROVE  \/ job' = job
         \/ Inspect
         \/ \E p \in Operator : InviteEnqueue(p) \/ RemoveEnqueue(p) \/ RetryWrite(p)
         \/ \E j \in DOMAIN job : Claim(j)
         \/ Report \/ Crash
  BY DEF Next, Elsewhere, Reserve, Progress, ReclaimByHand, Accept, Leave, Request, InviteCheck,
         RemoveRead, RemoveMark, RetryRead, RequestFails, Work, ExecuteAssisted,
         ExecuteInspect, ExecuteInvite, ExecuteRemove, ExecuteFails, ApplyInvite, ApplyInspect,
         ConfirmRow, ConfirmSeat, ConfirmFails, vars

\* A job that is there stays, and stays about the same customer.
LEMMA JobsStay ==
  ASSUME TypeOK, [Next]_vars, NEW i \in DOMAIN job
  PROVE  /\ i \in DOMAIN job' /\ job'[i].type = job[i].type /\ job'[i].of = job[i].of
         /\ job'[i].owned = job[i].owned
<1>0. CASE job' = job
  BY <1>0
<1>1. CASE Inspect
  BY <1>1, InspectAppends
<1>2. ASSUME NEW p \in Operator, InviteEnqueue(p)
      PROVE  i \in DOMAIN job' /\ job'[i] = job[i]
  BY <1>2, InviteAppends
<1>3. ASSUME NEW p \in Operator, RemoveEnqueue(p)
      PROVE  i \in DOMAIN job' /\ job'[i] = job[i]
  BY <1>3, RemoveAppends
<1>4. ASSUME NEW p \in Operator, RetryWrite(p)
      PROVE  /\ i \in DOMAIN job' /\ job'[i].type = job[i].type /\ job'[i].of = job[i].of
             /\ job'[i].owned = job[i].owned
  BY <1>4, RetryWritten
<1>5. ASSUME NEW j \in DOMAIN job, NEW status \in Open \cup Outcome,
             job' = [job EXCEPT ![j].status = status]
      PROVE  /\ i \in DOMAIN job' /\ job'[i].type = job[i].type /\ job'[i].of = job[i].of
             /\ job'[i].owned = job[i].owned
  BY <1>5, StatusWritten
<1>6. ASSUME NEW j \in DOMAIN job, Claim(j)
      PROVE  \E k \in DOMAIN job, status \in Open \cup Outcome : job' = [job EXCEPT ![k].status = status]
  BY <1>6 DEF Claim, Open
<1>7. ASSUME Report \/ Crash
      PROVE  \E k \in DOMAIN job, status \in Open \cup Outcome : job' = [job EXCEPT ![k].status = status]
  <2>1. runner.of \in DOMAIN job /\ (Report => runner.outcome \in Outcome)
    BY <1>7, RunnerParts DEF Report, Crash, Running, TypeOK
  <2> QED
    BY <1>7, <2>1 DEF Report, Crash, Open
<1> QED
  BY <1>0, <1>1, <1>2, <1>3, <1>4, <1>5, <1>6, <1>7, JobWriters

\* An allocation that was made stays made, and one that is being taken back is not used
\* again.
LEMMA SeatsStay ==
  ASSUME TypeOK, [Next]_vars, NEW c \in Customer
  PROVE  /\ alloc[c] # "NONE" => alloc'[c] # "NONE"
         /\ alloc[c] \in {"PENDING_RECLAIM", "RECLAIMED"} =>
              alloc'[c] \in {"PENDING_RECLAIM", "RECLAIMED"}
<1>1. CASE alloc' = alloc
  BY <1>1
<1>2. ASSUME NEW d \in Customer, Reserve(d) \/ Progress(d) \/ ReclaimByHand(d)
      PROVE  /\ alloc[c] # "NONE" => alloc'[c] # "NONE"
             /\ alloc[c] \in {"PENDING_RECLAIM", "RECLAIMED"} =>
                  alloc'[c] \in {"PENDING_RECLAIM", "RECLAIMED"}
  BY <1>2 DEF Reserve, Progress, ReclaimByHand, TypeOK
<1>3. ASSUME NEW p \in Operator, RemoveMark(p)
      PROVE  alloc'[c] \in {alloc[c], "PENDING_RECLAIM"}
  BY <1>3 DEF RemoveMark, TypeOK
<1>4. ConfirmSeat => alloc'[c] \in {alloc[c], "RECLAIMED"}
  BY DEF ConfirmSeat, TypeOK
<1>5. \/ alloc' = alloc
      \/ \E d \in Customer : Reserve(d) \/ Progress(d) \/ ReclaimByHand(d)
      \/ \E p \in Operator : RemoveMark(p)
      \/ ConfirmSeat
  BY DEF Next, Elsewhere, Accept, Leave, Request, Inspect, InviteCheck, RemoveRead,
         InviteEnqueue, RemoveEnqueue, RetryRead, RetryWrite, RequestFails, Work, Claim,
         ExecuteAssisted, ExecuteInspect, ExecuteInvite, ExecuteRemove, ExecuteFails,
         ApplyInvite, ApplyInspect, ConfirmRow, ConfirmFails, Report, Crash, vars
<1> QED
  BY <1>1, <1>2, <1>3, <1>4, <1>5

\* The request that moves moves alone.
LEMMA RequestMoves ==
  ASSUME TypeOK, [Next]_vars, NEW p \in Operator
  PROVE  \/ op'[p] = op[p]
         \/ op'[p] = Idle
         \/ \E c \in Customer : InviteCheck(p, c)
         \/ \E c \in Customer, k \in Kind, owned \in BOOLEAN : RemoveRead(p, c, k, owned)
         \/ RemoveMark(p)
         \/ \E i \in DOMAIN job : RetryRead(p, i)
<1>1. ASSUME NEW q \in Operator, NEW where, q # p, Goto(q, where) PROVE op'[p] = op[p]
  BY <1>1 DEF Goto, TypeOK
<1>2. ASSUME NEW q \in Operator, q # p, Request(q) PROVE op'[p] = op[p]
  BY <1>1, <1>2 DEF Request, Inspect, InviteCheck, RemoveRead, InviteEnqueue, RemoveMark,
                    RemoveEnqueue, RetryRead, RetryWrite, RequestFails
<1>3. ASSUME InviteEnqueue(p) \/ RemoveEnqueue(p) \/ RetryWrite(p) \/ RequestFails(p)
      PROVE  op'[p] = Idle
  BY <1>3 DEF InviteEnqueue, RemoveEnqueue, RetryWrite, RequestFails, Goto, TypeOK
<1>4. Inspect => op' = op
  BY DEF Inspect
<1>5. (Elsewhere \/ Work \/ UNCHANGED vars) => op' = op
  BY DEF Elsewhere, Reserve, Progress, ReclaimByHand, Accept, Leave, Work, Claim,
         ExecuteAssisted, ExecuteInspect, ExecuteInvite, ExecuteRemove, ExecuteFails,
         ApplyInvite, ApplyInspect, ConfirmRow, ConfirmSeat, ConfirmFails, Report, Crash, vars
<1> QED
  BY <1>2, <1>3, <1>4, <1>5 DEF Next, Request

-------------------------------------------------------------------------------
(* What jobs, requests, rows and the runner rest on *)

\* Only who has been given a seat is invited, and a removal of a seat's holder has the
\* seat marked first.
JobsGrounded ==
  \A i \in DOMAIN job :
    /\ job[i].type # "INSPECT" => job[i].of \in Customer
    /\ job[i].type = "INVITE" => alloc[job[i].of] # "NONE"
    /\ job[i].type = "INSPECT" => ~job[i].owned
    /\ job[i].type = "REMOVE_MEMBER" /\ job[i].owned =>
         alloc[job[i].of] \in {"PENDING_RECLAIM", "RECLAIMED"}

RequestsGrounded ==
  \A p \in Operator :
    /\ op[p].pc \in {"inviting", "marking"} => alloc[op[p].of] # "NONE"
    /\ op[p].pc = "marking" => op[p].owned
    /\ op[p].pc = "removing" /\ op[p].owned =>
         alloc[op[p].of] \in {"PENDING_RECLAIM", "RECLAIMED"}

RowsGrounded ==
  \A c \in Customer, k \in Kind : row[<<c, k>>].linked => alloc[c] # "NONE"

\* The runner that has removed somebody has him off the page until the seat is back.
RunnerGrounded ==
  /\ runner.pc = "invited" => Mine.type = "INVITE"
  /\ runner.pc \in {"removed", "confirming"} =>
       Mine.type = "REMOVE_MEMBER" /\ page[Mine.of] = "absent"
  /\ runner.pc = "confirming" => alloc[Mine.of] # "NONE"

Grounded == JobsGrounded /\ RequestsGrounded /\ RowsGrounded /\ RunnerGrounded

LEMMA GroundedInit == Init => Grounded
<1> SUFFICES ASSUME Init PROVE Grounded
  OBVIOUS
<1>1. JobsGrounded
  BY DEF Init, JobsGrounded
<1>2. RequestsGrounded /\ RunnerGrounded
  BY DEF Init, RequestsGrounded, RunnerGrounded, Idle
<1>3. \A c \in Customer, k \in Kind : ~row[<<c, k>>].linked
  BY DEF Init, NoRow
<1> QED
  BY <1>1, <1>2, <1>3 DEF Grounded, RowsGrounded

LEMMA JobsGroundedStep ==
  ASSUME TypeOK, Grounded, [Next]_vars
  PROVE  JobsGrounded'
<1> DEFINE Good(j) ==
      /\ job'[j].type # "INSPECT" => job'[j].of \in Customer
      /\ job'[j].type = "INVITE" => alloc'[job'[j].of] # "NONE"
      /\ job'[j].type = "INSPECT" => ~job'[j].owned
      /\ job'[j].type = "REMOVE_MEMBER" /\ job'[j].owned =>
           alloc'[job'[j].of] \in {"PENDING_RECLAIM", "RECLAIMED"}
<1>1. ASSUME NEW i \in DOMAIN job PROVE i \in DOMAIN job' /\ Good(i)
  BY JobsStay, SeatsStay DEF Grounded, JobsGrounded
<1>2. CASE Inspect
  BY <1>1, <1>2, InspectAppends DEF JobsGrounded
<1>3. ASSUME NEW p \in Operator, InviteEnqueue(p) PROVE JobsGrounded'
  <2>1. op[p].of \in Customer /\ alloc[op[p].of] # "NONE"
    BY <1>3, RequestParts DEF InviteEnqueue, Grounded, RequestsGrounded
  <2>2. Good(Len(job) + 1)
    BY <1>3, <2>1, InviteAppends DEF InviteEnqueue
  <2> QED
    BY <1>1, <1>3, <2>2, InviteAppends DEF JobsGrounded
<1>4. ASSUME NEW p \in Operator, RemoveEnqueue(p) PROVE JobsGrounded'
  <2>1. /\ op[p].of \in Customer
        /\ op[p].owned => alloc[op[p].of] \in {"PENDING_RECLAIM", "RECLAIMED"}
    BY <1>4, RequestParts DEF RemoveEnqueue, Grounded, RequestsGrounded
  <2>2. Good(Len(job) + 1)
    BY <1>4, <2>1, RemoveAppends DEF RemoveEnqueue
  <2> QED
    BY <1>1, <1>4, <2>2, RemoveAppends DEF JobsGrounded
<1>5. ASSUME DOMAIN job' = DOMAIN job PROVE JobsGrounded'
  BY <1>1, <1>5 DEF JobsGrounded
<1>6. ASSUME NEW p \in Operator, RetryWrite(p) PROVE DOMAIN job' = DOMAIN job
  BY <1>6, RetryWritten
<1>7. ASSUME (\E i \in DOMAIN job : Claim(i)) \/ Report \/ Crash PROVE DOMAIN job' = DOMAIN job
  BY <1>7 DEF Claim, Report, Crash
<1> QED
  BY <1>2, <1>3, <1>4, <1>5, <1>6, <1>7, JobWriters

LEMMA RequestsGroundedStep ==
  ASSUME TypeOK, Grounded, [Next]_vars
  PROVE  RequestsGrounded'
<1> DEFINE Good(p) ==
      /\ op'[p].pc \in {"inviting", "marking"} => alloc'[op'[p].of] # "NONE"
      /\ op'[p].pc = "marking" => op'[p].owned
      /\ op'[p].pc = "removing" /\ op'[p].owned =>
           alloc'[op'[p].of] \in {"PENDING_RECLAIM", "RECLAIMED"}
<1> SUFFICES ASSUME NEW p \in Operator PROVE Good(p)
  BY DEF RequestsGrounded
<1>1. CASE op'[p] = op[p]
  BY <1>1, RequestParts, SeatsStay DEF Grounded, RequestsGrounded
<1>2. CASE op'[p] = Idle
  BY <1>2 DEF Idle
<1>3. ASSUME NEW c \in Customer, InviteCheck(p, c) PROVE Good(p)
  <2>1. op'[p] = [pc |-> "inviting", of |-> c] /\ alloc'[c] # "NONE"
    BY <1>3 DEF InviteCheck, Goto, TypeOK
  <2> QED
    BY <2>1
<1>4. ASSUME NEW c \in Customer, NEW k \in Kind, NEW owned \in BOOLEAN, RemoveRead(p, c, k, owned)
      PROVE  Good(p)
  <2> DEFINE pc == IF owned /\ alloc[c] # "PENDING_RECLAIM" THEN "marking" ELSE "removing"
  <2>1. op'[p] = [pc |-> pc, of |-> c, kind |-> k, owned |-> owned] /\ alloc' = alloc
    BY <1>4 DEF RemoveRead, Goto, TypeOK
  <2>2. owned => alloc[c] # "NONE"
    BY <1>4 DEF RemoveRead
  <2>3. CASE owned = TRUE
    BY <2>1, <2>2, <2>3
  <2>4. CASE owned = FALSE
    <3>1. op'[p].pc = "removing" /\ op'[p].owned = FALSE
      BY <2>1, <2>4
    <3> QED
      BY <3>1
  <2> QED
    BY <2>3, <2>4
<1>5. CASE RemoveMark(p)
  <2>1. op[p].of \in Customer /\ op'[p].of = op[p].of /\ op'[p].pc = "removing"
    BY <1>5, RequestParts DEF RemoveMark, Goto, TypeOK
  <2>2. alloc'[op[p].of] = "PENDING_RECLAIM"
    BY <1>5, <2>1 DEF RemoveMark, TypeOK
  <2> QED
    BY <2>1, <2>2
<1>6. ASSUME NEW i \in DOMAIN job, RetryRead(p, i) PROVE Good(p)
  <2>1. op'[p].pc = "retrying"
    BY <1>6 DEF RetryRead, Goto, TypeOK
  <2> QED
    BY <2>1
<1> HIDE DEF Good
<1> QED
  BY <1>1, <1>2, <1>3, <1>4, <1>5, <1>6, RequestMoves

\* Rows are linked to allocations there are.
LEMMA RowsGroundedStep ==
  ASSUME TypeOK, Grounded, [Next]_vars
  PROVE  RowsGrounded'
<1> SUFFICES ASSUME NEW c \in Customer, NEW k \in Kind, row'[<<c, k>>].linked
             PROVE  alloc'[c] # "NONE"
  BY DEF RowsGrounded
<1>1. row[<<c, k>>].linked \/ alloc[c] # "NONE" => alloc'[c] # "NONE"
  BY SeatsStay DEF Grounded, RowsGrounded
<1>2. <<c, k>> \in Customer \X Kind
  OBVIOUS
<1>3. ASSUME NEW p \in Operator, RemoveEnqueue(p) PROVE row[<<c, k>>].linked
  <2>1. row' = [row EXCEPT ![<<op[p].of, op[p].kind>>].status = "REMOVAL_PENDING"]
    BY <1>3 DEF RemoveEnqueue
  <2> QED
    BY <1>2, <2>1, RowWritten
<1>4. ASSUME NEW l \in Kind, ConfirmRow(l) PROVE row[<<c, k>>].linked
  <2>1. row' = [row EXCEPT ![<<Mine.of, l>>].status = "REMOVED"]
    BY <1>4 DEF ConfirmRow
  <2> QED
    BY <1>2, <2>1, RowWritten
<1>5. CASE ApplyInvite
  <2>1. alloc[Mine.of] # "NONE"
    BY <1>5, RunnerParts DEF ApplyInvite, Running, Grounded, RunnerGrounded, JobsGrounded, Mine
  <2>2. row'[<<c, k>>] = row[<<c, k>>] \/ <<c, k>> = <<Mine.of, "PENDING_INVITE">>
    BY <1>2, <1>5 DEF ApplyInvite, TypeOK
  <2> QED
    BY <1>1, <2>1, <2>2
<1>6. CASE ApplyInspect
  <2>1. PICK f \in Linkings :
          row' = [r \in Customer \X Kind |->
                    [status |-> Synced(r[1], r[2]), linked |-> row[r].linked \/ f[r[1]] = r[2]]]
    BY <1>6 DEF ApplyInspect
  <2>2. row'[<<c, k>>].linked <=> row[<<c, k>>].linked \/ f[c] = k
    BY <1>2, <2>1
  <2>3. f[c] = k => alloc[c] \in Live
    BY DEF Linkings, Kind
  <2> QED
    BY <1>1, <2>2, <2>3 DEF Live
<1>7. \/ row' = row
      \/ \E p \in Operator : RemoveEnqueue(p)
      \/ \E l \in Kind : ConfirmRow(l)
      \/ ApplyInvite \/ ApplyInspect
  BY DEF Next, Elsewhere, Reserve, Progress, ReclaimByHand, Accept, Leave, Request, Inspect,
         InviteCheck, RemoveRead, RemoveMark, InviteEnqueue, RetryRead, RetryWrite,
         RequestFails, Work, Claim, ExecuteAssisted, ExecuteInspect, ExecuteInvite,
         ExecuteRemove, ExecuteFails, ConfirmSeat, ConfirmFails, Report, Crash, vars
<1> QED
  BY <1>1, <1>3, <1>4, <1>5, <1>6, <1>7

\* Outside the runner nobody who is off the page comes on it.
LEMMA AbsentStay ==
  ASSUME TypeOK, Elsewhere \/ (\E p \in Operator : Request(p)) \/ UNCHANGED vars
  PROVE  runner' = runner /\ \A c \in Customer : page[c] = "absent" => page'[c] = "absent"
<1>1. ASSUME NEW c \in Customer, Accept(c) \/ Leave(c)
      PROVE  runner' = runner /\ \A d \in Customer : page[d] = "absent" => page'[d] = "absent"
  BY <1>1 DEF Accept, Leave, TypeOK, PageState
<1>2. \/ runner' = runner /\ page' = page
      \/ \E c \in Customer : Accept(c) \/ Leave(c)
  BY DEF Elsewhere, Reserve, Progress, ReclaimByHand, Request, Inspect, InviteCheck,
         InviteEnqueue, RemoveRead, RemoveMark, RemoveEnqueue, RetryRead, RetryWrite,
         RequestFails, vars
<1> QED
  BY <1>1, <1>2

LEMMA RunnerGroundedStep ==
  ASSUME TypeOK, Grounded, [Next]_vars
  PROVE  RunnerGrounded'
<1>1. CASE Elsewhere \/ (\E p \in Operator : Request(p)) \/ UNCHANGED vars
  <2>1. runner' = runner /\ \A c \in Customer : page[c] = "absent" => page'[c] = "absent"
    BY <1>1, AbsentStay
  <2>2. CASE runner.pc \notin {"invited", "removed", "confirming"}
    BY <2>1, <2>2 DEF RunnerGrounded
  <2>3. CASE runner.pc \in {"invited", "removed", "confirming"}
    <3>1. runner.of \in DOMAIN job
      BY <2>3, RunnerParts
    <3>2. Mine'.type = Mine.type /\ Mine'.of = Mine.of
      BY <2>1, <3>1, JobsStay DEF Mine
    <3>3. Mine.of \in Customer
      BY <2>3, <3>1 DEF Grounded, JobsGrounded, RunnerGrounded, Mine
    <3> QED
      BY <2>1, <3>2, <3>3, SeatsStay DEF Grounded, RunnerGrounded
  <2> QED
    BY <2>2, <2>3
<1>2. ASSUME runner'.pc \notin {"invited", "removed", "confirming"} PROVE RunnerGrounded'
  BY <1>2 DEF RunnerGrounded
<1>3. CASE ExecuteInvite
  BY <1>3 DEF ExecuteInvite, Drives, Running, Reach, Mine, RunnerGrounded
<1>4. CASE ExecuteRemove
  <2>1. runner.of \in DOMAIN job /\ Mine.type = "REMOVE_MEMBER"
    BY <1>4, RunnerParts DEF ExecuteRemove, Drives, Running
  <2>2. Mine.of \in Customer
    BY <2>1 DEF Grounded, JobsGrounded, Mine
  <2>3. page'[Mine.of] = "absent"
    BY <1>4, <2>2 DEF ExecuteRemove, Move, TypeOK, PageState
  <2> QED
    BY <1>4, <2>1, <2>3 DEF ExecuteRemove, Reach, Mine, RunnerGrounded
<1>5. ASSUME NEW k \in Kind, ConfirmRow(k) PROVE RunnerGrounded'
  <2>1. runner.of \in DOMAIN job /\ Mine.type = "REMOVE_MEMBER" /\ page[Mine.of] = "absent"
    BY <1>5, RunnerParts DEF ConfirmRow, Running, Grounded, RunnerGrounded
  <2>2. Mine.of \in Customer
    BY <2>1 DEF Grounded, JobsGrounded, Mine
  <2>3. Mine.owned \/ row[<<Mine.of, k>>].linked => alloc[Mine.of] # "NONE"
    BY <2>1, <2>2 DEF Grounded, JobsGrounded, RowsGrounded, Mine
  <2>4. CASE Mine.owned \/ row[<<Mine.of, k>>].linked
    BY <1>5, <2>1, <2>3, <2>4 DEF ConfirmRow, Reach, Mine, RunnerGrounded
  <2>5. CASE ~(Mine.owned \/ row[<<Mine.of, k>>].linked)
    BY <1>5, <2>5, <1>2 DEF ConfirmRow, Applied
  <2> QED
    BY <2>4, <2>5
<1>6. ASSUME Work PROVE \/ ExecuteInvite \/ ExecuteRemove \/ \E k \in Kind : ConfirmRow(k)
                        \/ runner'.pc \notin {"invited", "removed", "confirming"}
  BY <1>6 DEF Work, Claim, ExecuteAssisted, ExecuteInspect, ExecuteFails, ApplyInvite,
              ApplyInspect, ConfirmSeat, ConfirmFails, Report, Crash, Applied, Idle
<1> QED
  BY <1>1, <1>2, <1>3, <1>4, <1>5, <1>6 DEF Next

\* Invitations are of customers who were given a seat, removals of seats' holders have the
\* seat marked, and whom the runner has removed stays off the page until it is done.
THEOREM AlwaysGrounded == Spec => []Grounded
<1>1. TypeOK /\ Grounded /\ [Next]_vars => Grounded'
  BY JobsGroundedStep, RequestsGroundedStep, RowsGroundedStep, RunnerGroundedStep DEF Grounded
<1> QED
  BY <1>1, GroundedInit, TypeCorrect, PTL DEF Spec

-------------------------------------------------------------------------------
(* The seats of those who are removed *)

\* A removal of a seat's holder is reported as a success only when the seat has been given
\* back or waits for that, whatever died or failed on the way.
THEOREM RemovalsAccounted == Spec => RemovalAccounted
<1>1. ASSUME TypeOK, Grounded, NEW i \in DOMAIN job, job[i].type = "REMOVE_MEMBER", job[i].owned
      PROVE  alloc[job[i].of] \in {"PENDING_RECLAIM", "RECLAIMED"}
  BY <1>1 DEF Grounded, JobsGrounded
<1>2. TypeOK /\ Grounded =>
        [\A i \in DOMAIN job :
          (/\ job[i].type = "REMOVE_MEMBER" /\ job[i].owned
           /\ job[i].status # "SUCCEEDED" /\ job'[i].status = "SUCCEEDED")
          => alloc[job[i].of] \in {"PENDING_RECLAIM", "RECLAIMED"}]_vars
  BY <1>1
<1> QED
  BY <1>2, TypeCorrect, AlwaysGrounded, PTL DEF RemovalAccounted

-------------------------------------------------------------------------------
(* The roster *)

LEMMA RosterInit == Init => Roster!Init
  BY DEF Init, Roster!Init, Live

LEMMA RosterHold ==
  ASSUME TypeOK, NEW c \in Customer, NEW s \in Live, alloc' = [alloc EXCEPT ![c] = s], page' = page
  PROVE  Roster!Hold(c)
<1>1. \A d \in Customer : alloc'[d] = IF d = c THEN s ELSE alloc[d]
  BY DEF TypeOK
<1> QED
  BY <1>1 DEF Roster!Hold, Live

LEMMA RosterFree ==
  ASSUME TypeOK, NEW c \in Customer, alloc[c] # "NONE", page[c] = "absent",
         alloc' = [alloc EXCEPT ![c] = "RECLAIMED"], page' = page
  PROVE  Roster!Free(c)
<1>1. \A d \in Customer : alloc'[d] = IF d = c THEN "RECLAIMED" ELSE alloc[d]
  BY DEF TypeOK
<1> QED
  BY <1>1 DEF Roster!Free, Live

LEMMA RosterAdmit ==
  ASSUME TypeOK, NEW c \in Customer, NEW w, alloc[c] # "NONE", w # "absent",
         page' = [page EXCEPT ![c] = w], alloc' = alloc
  PROVE  Roster!Admit(c)
<1>1. \A d \in Customer : page'[d] = IF d = c THEN w ELSE page[d]
  BY DEF TypeOK, PageState
<1> QED
  BY <1>1 DEF Roster!Admit

LEMMA RosterDrop ==
  ASSUME TypeOK, NEW c \in Customer, page' = [page EXCEPT ![c] = "absent"], alloc' = alloc
  PROVE  Roster!Drop(c)
<1>1. \A d \in Customer : page'[d] = IF d = c THEN "absent" ELSE page[d]
  BY DEF TypeOK, PageState
<1> QED
  BY <1>1 DEF Roster!Drop

\* What the drivers do to the page: they let in whom the job invites, or take off whom it
\* removes.
LEMMA RosterDriven ==
  ASSUME TypeOK, Grounded, runner.pc # "idle", alloc' = alloc, page' # page,
         \/ Mine.type = "INVITE" /\ Invited(Mine.of)
         \/ Mine.type = "REMOVE_MEMBER" /\ Move(Mine.of, "absent")
  PROVE  Roster!Next
<1>1. runner.of \in DOMAIN job
  BY RunnerParts
<1>2. Mine.of \in Customer /\ (Mine.type = "INVITE" => alloc[Mine.of] # "NONE")
  BY <1>1 DEF Grounded, JobsGrounded, Mine
<1> PICK c \in Customer : c = Mine.of
  BY <1>2
<1>3. CASE Mine.type = "INVITE" /\ Invited(Mine.of)
  <2>1. page[c] = "absent"
    BY <1>3 DEF Invited, Move, TypeOK, PageState
  <2>2. page' = [page EXCEPT ![c] = "invited"]
    BY <1>3, <2>1 DEF Invited, Move
  <2>3. Roster!Admit(c)
    BY <1>2, <1>3, <2>2, RosterAdmit
  <2> QED
    BY <2>3 DEF Roster!Next
<1>4. CASE Mine.type = "REMOVE_MEMBER" /\ Move(Mine.of, "absent")
  <2>1. Roster!Drop(c)
    BY <1>4, RosterDrop DEF Move
  <2> QED
    BY <2>1 DEF Roster!Next
<1> QED
  BY <1>3, <1>4

LEMMA RosterStep ==
  ASSUME TypeOK, Grounded, [Next]_vars
  PROVE  \/ Roster!Next
         \/ UNCHANGED <<{c \in Customer : alloc[c] # "NONE"},
                        {c \in Customer : alloc[c] \in Live},
                        {c \in Customer : page[c] # "absent"}>>
<1> DEFINE Stays == UNCHANGED <<{c \in Customer : alloc[c] # "NONE"},
                                {c \in Customer : alloc[c] \in Live},
                                {c \in Customer : page[c] # "absent"}>>
<1>1. CASE alloc' = alloc /\ page' = page
  BY <1>1
<1>2. ASSUME NEW c \in Customer, Reserve(c) \/ Progress(c) PROVE Roster!Next
  <2>1. PICK s \in Live : alloc' = [alloc EXCEPT ![c] = s] /\ page' = page
    BY <1>2 DEF Reserve, Progress, Live
  <2>2. Roster!Hold(c)
    BY <2>1, RosterHold
  <2> QED
    BY <2>2 DEF Roster!Next
<1>3. ASSUME NEW c \in Customer, ReclaimByHand(c) PROVE Roster!Next
  <2>1. Roster!Free(c)
    BY <1>3, RosterFree DEF ReclaimByHand, Live
  <2> QED
    BY <2>1 DEF Roster!Next
<1>4. ASSUME NEW c \in Customer, Accept(c) PROVE Stays
  <2>1. \A d \in Customer : page'[d] # "absent" <=> page[d] # "absent"
    BY <1>4 DEF Accept, TypeOK, PageState
  <2> QED
    BY <1>4, <2>1 DEF Accept
<1>5. ASSUME NEW c \in Customer, Leave(c) PROVE Roster!Next
  <2>1. Roster!Drop(c)
    BY <1>5, RosterDrop DEF Leave
  <2> QED
    BY <2>1 DEF Roster!Next
<1>6. ASSUME NEW p \in Operator, RemoveMark(p) PROVE Roster!Next
  <2>1. op[p].of \in Customer /\ "PENDING_RECLAIM" \in Live
    BY <1>6, RequestParts DEF RemoveMark, Live
  <2> PICK c \in Customer : c = op[p].of
    BY <2>1
  <2>2. alloc' = [alloc EXCEPT ![c] = "PENDING_RECLAIM"] /\ page' = page
    BY <1>6 DEF RemoveMark
  <2>3. Roster!Hold(c)
    BY <2>1, <2>2, RosterHold
  <2> QED
    BY <2>3 DEF Roster!Next
<1>7. ASSUME ExecuteInvite \/ ExecuteRemove \/ ExecuteFails, page' # page PROVE Roster!Next
  <2>1. /\ runner.pc # "idle" /\ alloc' = alloc
        /\ \/ Mine.type = "INVITE" /\ Invited(Mine.of)
           \/ Mine.type = "REMOVE_MEMBER" /\ Move(Mine.of, "absent")
    BY <1>7 DEF ExecuteInvite, ExecuteRemove, ExecuteFails, Drives, Running
  <2> QED
    BY <1>7, <2>1, RosterDriven
<1>8. CASE ConfirmSeat
  <2>1. /\ runner.of \in DOMAIN job /\ Mine.type = "REMOVE_MEMBER"
        /\ page[Mine.of] = "absent" /\ alloc[Mine.of] # "NONE"
    BY <1>8, RunnerParts DEF ConfirmSeat, Running, Grounded, RunnerGrounded
  <2>2. Mine.of \in Customer
    BY <2>1 DEF Grounded, JobsGrounded, Mine
  <2> PICK c \in Customer : c = Mine.of
    BY <2>2
  <2>3. Roster!Free(c)
    BY <1>8, <2>1, RosterFree DEF ConfirmSeat
  <2> QED
    BY <2>3 DEF Roster!Next
<1>9. \/ alloc' = alloc /\ page' = page
      \/ \E c \in Customer :
           Reserve(c) \/ Progress(c) \/ ReclaimByHand(c) \/ Accept(c) \/ Leave(c)
      \/ \E p \in Operator : RemoveMark(p)
      \/ (ExecuteInvite \/ ExecuteRemove \/ ExecuteFails) /\ alloc' = alloc
      \/ ConfirmSeat
  BY DEF Next, Elsewhere, Request, Inspect, InviteCheck, RemoveRead, InviteEnqueue,
         RemoveEnqueue, RetryRead, RetryWrite, RequestFails, Work, Claim, ExecuteAssisted,
         ExecuteInspect, ExecuteInvite, ExecuteRemove, ExecuteFails, ApplyInvite,
         ApplyInspect, ConfirmRow, ConfirmFails, Report, Crash, vars
<1> QED
  BY <1>1, <1>2, <1>3, <1>4, <1>5, <1>6, <1>7, <1>8, <1>9

\* The service implements the roster: only who was given a seat comes on the page, and a
\* seat is given back only while its holder is off it.
THEOREM RosterImplemented == Spec => ImplementsRoster
<1>1. TypeOK /\ Grounded /\ [Next]_vars =>
        [Roster!Next]_<<{c \in Customer : alloc[c] # "NONE"},
                        {c \in Customer : alloc[c] \in Live},
                        {c \in Customer : page[c] # "absent"}>>
  BY RosterStep
<1> QED
  BY <1>1, RosterInit, TypeCorrect, AlwaysGrounded, PTL DEF Spec, ImplementsRoster, Roster!Spec

-------------------------------------------------------------------------------
(* Invitations and removals of one operator *)

Removes(i, c) == job[i].of = c /\ job[i].type = "REMOVE_MEMBER" /\ job[i].owned

\* No invitation is behind a removal of its customer, nor about to be.
NoneBehind ==
  /\ \A i, j \in DOMAIN job : i < j /\ Removes(i, job[j].of) => job[j].type # "INVITE"
  /\ \A p \in Operator, i \in DOMAIN job : op[p].pc = "inviting" => ~Removes(i, op[p].of)

\* What the appending of a job does to the jobs that are there, and to the one appended.
LEMMA NoneBehindAppended ==
  ASSUME TypeOK, [Next]_vars, NoneBehind, NEW n \in Nat,
         DOMAIN job' = DOMAIN job \cup {n}, \A i \in DOMAIN job : i < n,
         job'[n].type = "INVITE" => \A i \in DOMAIN job : ~Removes(i, job'[n].of),
         NEW i \in DOMAIN job', NEW j \in DOMAIN job', i < j,
         job'[i].type = "REMOVE_MEMBER", job'[i].owned, job'[i].of = job'[j].of
  PROVE  job'[j].type # "INVITE"
<1>1. i \in DOMAIN job
  <2>1. DOMAIN job = 1..Len(job) /\ Len(job) \in Nat
    BY JobRange
  <2>2. CASE j = n
    BY <2>1, <2>2
  <2>3. CASE j # n
    BY <2>1, <2>3
  <2> QED
    BY <2>2, <2>3
<1>2. job[i].of = job'[i].of /\ job[i].type = "REMOVE_MEMBER" /\ job[i].owned
  BY <1>1, JobsStay
<1>3. CASE j = n
  BY <1>1, <1>2, <1>3 DEF Removes
<1>4. CASE j \in DOMAIN job
  <2>1. job'[j].type = job[j].type /\ job'[j].of = job[j].of
    BY <1>4, JobsStay
  <2>2. Removes(i, job[j].of)
    BY <1>2, <2>1 DEF Removes
  <2> QED
    BY <1>1, <1>4, <2>1, <2>2 DEF NoneBehind
<1> QED
  BY <1>3, <1>4

LEMMA NoneBehindJobs ==
  ASSUME TypeOK, [Next]_vars, NoneBehind,
         NEW i \in DOMAIN job', NEW j \in DOMAIN job', i < j,
         job'[i].type = "REMOVE_MEMBER", job'[i].owned, job'[i].of = job'[j].of
  PROVE  job'[j].type # "INVITE"
<1> DEFINE n == Len(job) + 1
<1>0. n \in Nat
  BY JobRange
<1>1. CASE DOMAIN job' = DOMAIN job
  <2>1. /\ job'[i].type = job[i].type /\ job'[i].of = job[i].of /\ job'[i].owned = job[i].owned
        /\ job'[j].type = job[j].type /\ job'[j].of = job[j].of
    BY <1>1, JobsStay
  <2>2. Removes(i, job[j].of)
    BY <2>1 DEF Removes
  <2> QED
    BY <1>1, <2>1, <2>2 DEF NoneBehind
<1>2. CASE Inspect
  <2>1. /\ DOMAIN job' = DOMAIN job \cup {n} /\ \A k \in DOMAIN job : k < n
        /\ job'[n].type # "INVITE"
    BY <1>2, InspectAppends
  <2> HIDE DEF n
  <2> QED
    BY <1>0, <2>1, NoneBehindAppended
<1>3. ASSUME NEW p \in Operator, RemoveEnqueue(p) PROVE job'[j].type # "INVITE"
  <2>1. /\ DOMAIN job' = DOMAIN job \cup {n} /\ \A k \in DOMAIN job : k < n
        /\ job'[n].type # "INVITE"
    BY <1>3, RemoveAppends
  <2> HIDE DEF n
  <2> QED
    BY <1>0, <2>1, NoneBehindAppended
<1>4. ASSUME NEW p \in Operator, InviteEnqueue(p) PROVE job'[j].type # "INVITE"
  <2>1. /\ DOMAIN job' = DOMAIN job \cup {n} /\ \A k \in DOMAIN job : k < n
        /\ job'[n].of = op[p].of
    BY <1>4, InviteAppends
  <2>2. \A k \in DOMAIN job : ~Removes(k, op[p].of)
    BY <1>4 DEF InviteEnqueue, NoneBehind
  <2> HIDE DEF n
  <2> QED
    BY <1>0, <2>1, <2>2, NoneBehindAppended
<1>5. ASSUME NEW p \in Operator, RetryWrite(p) PROVE DOMAIN job' = DOMAIN job
  BY <1>5, RetryWritten
<1>6. ASSUME (\E k \in DOMAIN job : Claim(k)) \/ Report \/ Crash PROVE DOMAIN job' = DOMAIN job
  BY <1>6 DEF Claim, Report, Crash
<1> QED
  BY <1>1, <1>2, <1>3, <1>4, <1>5, <1>6, JobWriters

\* One operator who looks whom to invite does not ask for a removal meanwhile.
LEMMA NoneBehindRequests ==
  ASSUME TypeOK, Grounded, [Next]_vars, NoneBehind, \A p, q \in Operator : p = q,
         NEW p \in Operator, op'[p].pc = "inviting", NEW i \in DOMAIN job',
         job'[i].type = "REMOVE_MEMBER", job'[i].owned
  PROVE  job'[i].of # op'[p].of
<1>1. ASSUME NEW c \in Customer, InviteCheck(p, c) PROVE job'[i].of # op'[p].of
  <2>1. job' = job /\ alloc[c] = "RESERVED" /\ op'[p].of = c
    BY <1>1 DEF InviteCheck, Goto, TypeOK
  <2> QED
    BY <2>1 DEF Grounded, JobsGrounded
<1>2. CASE op'[p] = op[p]
  <2>1. CASE i \in DOMAIN job
    <3>1. job'[i].of = job[i].of /\ job[i].type = "REMOVE_MEMBER" /\ job[i].owned
      BY <2>1, JobsStay
    <3> QED
      BY <1>2, <2>1, <3>1 DEF NoneBehind, Removes
  <2>2. CASE i \notin DOMAIN job
    <3>1. ~Inspect
      BY <2>2, InspectAppends
    <3>2. ASSUME NEW q \in Operator, InviteEnqueue(q) PROVE FALSE
      BY <2>2, <3>2, InviteAppends
    <3>3. ASSUME NEW q \in Operator, RemoveEnqueue(q) PROVE FALSE
      BY <1>2, <3>3 DEF RemoveEnqueue
    <3>4. ASSUME NEW q \in Operator, RetryWrite(q) PROVE FALSE
      BY <2>2, <3>4, RetryWritten
    <3>5. ~((\E k \in DOMAIN job : Claim(k)) \/ Report \/ Crash)
      BY <2>2 DEF Claim, Report, Crash
    <3> QED
      BY <2>2, <3>1, <3>2, <3>3, <3>4, <3>5, JobWriters
  <2> QED
    BY <2>1, <2>2
<1>3. ~RemoveMark(p)
  BY RequestParts DEF RemoveMark, Goto, TypeOK
<1>4. op'[p] # Idle
  BY DEF Idle
<1>5. ASSUME NEW c \in Customer, NEW k \in Kind, NEW owned \in BOOLEAN, RemoveRead(p, c, k, owned)
      PROVE  FALSE
  <2>1. op'[p].pc \in {"marking", "removing"}
    BY <1>5 DEF RemoveRead, Goto, TypeOK
  <2> QED
    BY <2>1
<1>6. ASSUME NEW k \in DOMAIN job, RetryRead(p, k) PROVE FALSE
  BY <1>6 DEF RetryRead, Goto, TypeOK
<1> QED
  BY <1>1, <1>2, <1>3, <1>4, <1>5, <1>6, RequestMoves

\* One operator's requests leave no invitation that waits behind the removal of the same
\* customer, however jobs fail, die and are retried.
THEOREM RemovedNotReinvited ==
  ASSUME \A p, q \in Operator : p = q
  PROVE  Spec => []NoReinvite
<1>1. Init => NoneBehind
  BY DEF Init, NoneBehind
<1>2. TypeOK /\ Grounded /\ NoneBehind /\ [Next]_vars => NoneBehind'
  <2> SUFFICES ASSUME TypeOK, Grounded, NoneBehind, [Next]_vars PROVE NoneBehind'
    OBVIOUS
  <2>1. \A i, j \in DOMAIN job' : i < j /\ Removes(i, job[j].of)' => job'[j].type # "INVITE"
    BY NoneBehindJobs DEF Removes
  <2>2. \A p \in Operator, i \in DOMAIN job' : op'[p].pc = "inviting" => ~Removes(i, op[p].of)'
    BY NoneBehindRequests DEF Removes
  <2> QED
    BY <2>1, <2>2 DEF NoneBehind
<1>3. NoneBehind => NoReinvite
  BY DEF NoneBehind, NoReinvite, Removes
<1> QED
  BY <1>1, <1>2, <1>3, TypeCorrect, AlwaysGrounded, PTL DEF Spec
===============================================================================
