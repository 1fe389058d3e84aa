--------------------------- MODULE FulfilmentProofs ---------------------------
(***************************************************************************)
(* Theorems of Fulfilment, for any number of requests, workers, crashes,   *)
(* waitlist entries and subscriptions.  The theorems of SlotAllocation are *)
(* carried over: SAP is the module that proves them, at the same instance. *)
(* Then the order of service of the waitlist and what being served means.  *)
(***************************************************************************)
EXTENDS Fulfilment, FiniteSetTheorems, WellFoundedInduction, TLAPS

SAP == INSTANCE SlotAllocationProofs WITH Session <- Payer \cup Worker

-------------------------------------------------------------------------------
(* SA and SAP are the same specification *)

\* The two instances start in the same states.
LEMMA SameInit == SA!Init <=> SAP!Init
BY DEF SA!Init, SAP!Init, SA!Idle, SAP!Idle

\* The two instances allow the same steps.
LEMMA SameNext == SA!Next <=> SAP!Next
BY DEF SA!Next, SAP!Next, SA!BeginScan, SAP!BeginScan, SA!LockSlot, SAP!LockSlot,
       SA!NoSlot, SAP!NoSlot, SA!Reserve, SAP!Reserve, SA!Abort, SAP!Abort,
       SA!Invite, SAP!Invite, SA!Activate, SAP!Activate,
       SA!MarkPendingReclaim, SAP!MarkPendingReclaim, SA!ReleaseSlot, SAP!ReleaseSlot,
       SA!WriteStatus, SAP!WriteStatus, SA!PatchGroup, SAP!PatchGroup,
       SA!Lockable, SAP!Lockable, SA!First, SAP!First, SA!LockedByOther, SAP!LockedByOther,
       SA!IndexesAdmit, SAP!IndexesAdmit, SA!Live, SAP!Live, SA!Held, SAP!Held,
       SA!HasAllocation, SAP!HasAllocation, SA!Idle, SAP!Idle

\* The two instances have the same variables.
LEMMA SameVars == SA!vars = SAP!vars
BY DEF SA!vars, SAP!vars

\* The two instances have the same type invariant.
LEMMA SameTypeOK == SA!TypeOK <=> SAP!TypeOK
BY DEF SA!TypeOK, SAP!TypeOK, SA!Row, SAP!Row, SA!Scan, SAP!Scan, SA!Locked, SAP!Locked,
       SA!Idle, SAP!Idle, SA!Status, SAP!Status

\* The assumptions of SlotAllocation hold of the constants it is given here.
LEMMA SAPAssumptions ==
  /\ Slot \subseteq Nat
  /\ GroupOf \in [Slot -> Group]
  /\ NoRow \notin SAP!Row
  /\ Nobody \notin Sub
BY TableAssumption DEF SA!Row, SAP!Row, SA!Status, SAP!Status

\* A step that SlotAllocation allows keeps its types.
LEMMA TableTypeStep == SA!TypeOK /\ [SA!Next]_(SA!vars) => SA!TypeOK'
<1>1. SA!TypeOK' <=> SAP!TypeOK'
  BY DEF SA!TypeOK, SAP!TypeOK, SA!Row, SAP!Row, SA!Scan, SAP!Scan, SA!Locked, SAP!Locked,
         SA!Idle, SAP!Idle, SA!Status, SAP!Status
<1>2. SA!vars' = SAP!vars'
  BY DEF SA!vars, SAP!vars
<1>3. SAP!TypeOK /\ [SAP!Next]_(SAP!vars) => SAP!TypeOK'
  BY SAPAssumptions, SAP!TypeStep
<1> QED
  BY <1>1, <1>2, <1>3, SameTypeOK, SameNext, SameVars

-------------------------------------------------------------------------------
(* Type correctness and the steps of calls *)

JobsOK ==
  /\ job \in [Payer \cup Worker -> PayerJob \cup WorkerJob]
  /\ \A p \in Payer : job[p] \in PayerJob
  /\ \A w \in Worker :
       /\ job[w] \in WorkerJob
       /\ ~At(w, "idle") => job[w].batch # {} /\ job[w].batch \subseteq 1..Len(waitlist)

RecordsOK ==
  /\ payment \in [Sub -> {"PENDING", "CONFIRMED"}]
  /\ waitlist \in Seq(Entry)
  /\ invites \in [Alloc -> Nat]
  /\ tasks \in [Alloc -> Nat]
  /\ crashes \in 0..MaxCrashes
  /\ lost \subseteq Sub

\* TypeOK, taken apart.
LEMMA TypeParts == TypeOK <=> SA!TypeOK /\ JobsOK /\ RecordsOK
BY DEF TypeOK, JobsOK, RecordsOK

\* What a request and a worker have in hand.
LEMMA JobParts ==
  ASSUME JobsOK
  PROVE  /\ \A p \in Payer :
              /\ job[p].pc \in {"confirming", "allocating", "waitlisting",
                                "inviting", "tasking", "marking"} => job[p].sub \in Sub
              /\ job[p].pc \in {"inviting", "tasking", "marking"} => job[p].row \in Alloc
              /\ job[p].pc \notin {"serving", "recording"}
         /\ \A w \in Worker : job[w].pc \in {"idle", "serving", "recording"}
<1>1. ASSUME NEW p \in Payer
      PROVE  /\ job[p].pc \in {"confirming", "allocating", "waitlisting",
                               "inviting", "tasking", "marking"} => job[p].sub \in Sub
             /\ job[p].pc \in {"inviting", "tasking", "marking"} => job[p].row \in Alloc
             /\ job[p].pc \notin {"serving", "recording"}
  <2>1. job[p] \in PayerJob
    BY DEF JobsOK
  <2> QED
    BY <2>1 DEF PayerJob, Idle
<1>2. ASSUME NEW w \in Worker
      PROVE  job[w].pc \in {"idle", "serving", "recording"}
  <2>1. job[w] \in WorkerJob
    BY DEF JobsOK
  <2> QED
    BY <2>1 DEF WorkerJob, Idle
<1> QED
  BY <1>1, <1>2

\* Marking an entry ALLOCATED changes neither whose it is nor how many there are.
LEMMA MarkedEntry ==
  ASSUME waitlist \in Seq(Entry), NEW k,
         waitlist' = [waitlist EXCEPT ![k].status = "ALLOCATED"]
  PROVE  /\ waitlist' \in Seq(Entry)
         /\ Len(waitlist') = Len(waitlist)
         /\ \A i \in 1..Len(waitlist) : waitlist'[i].sub = waitlist[i].sub
<1>1. /\ Len(waitlist) \in Nat
      /\ waitlist \in [1..Len(waitlist) -> Entry]
  OBVIOUS
<1>2. waitlist' = [waitlist EXCEPT ![k] = [waitlist[k] EXCEPT !.status = "ALLOCATED"]]
  OBVIOUS
<1>3. \A e \in Entry : /\ [e EXCEPT !.status = "ALLOCATED"] \in Entry
                       /\ [e EXCEPT !.status = "ALLOCATED"].sub = e.sub
  BY DEF Entry
<1>4. ASSUME NEW i \in 1..Len(waitlist)
      PROVE  waitlist'[i] \in Entry /\ waitlist'[i].sub = waitlist[i].sub
  <2>1. waitlist[i] \in Entry
    BY <1>1
  <2>2. waitlist'[i] = IF i = k THEN [waitlist[i] EXCEPT !.status = "ALLOCATED"]
                               ELSE waitlist[i]
    BY <1>1, <1>2
  <2> QED
    BY <1>3, <2>1, <2>2
<1>5. waitlist' = [i \in 1..Len(waitlist) |-> waitlist'[i]]
  BY <1>1, <1>2
<1>6. waitlist' \in [1..Len(waitlist) -> Entry]
  BY <1>4, <1>5
<1>7. waitlist' \in Seq(Entry) /\ Len(waitlist') = Len(waitlist)
  BY <1>1, <1>6
<1> QED
  BY <1>4, <1>7

\* Every step of requests, workers, operator and crashes is a step of SlotAllocation or
\* leaves its variables alone.
LEMMA TableStep ==
  ASSUME TypeOK, [Next]_vars
  PROVE  [SA!Next]_(SA!vars)
<1>1. ASSUME NEW p \in Payer, Request(p)
      PROVE  [SA!Next]_(SA!vars)
  <2>1. CASE MarkInvited(p)
    <3>1. job[p].row \in Alloc /\ SA!Invite(job[p].row)
      BY <2>1, JobParts, TypeParts DEF MarkInvited, At
    <3> QED
      BY <3>1 DEF SA!Next
  <2>2. CASE ~MarkInvited(p)
    BY <1>1, <2>2
       DEF Request, ConfirmRead, ConfirmCommit, ConfirmRollback, CreateInvitation, CreateTask,
           InviteFail, JoinWaitlist, table, SA!vars
  <2> QED
    BY <2>1, <2>2
<1>2. ASSUME NEW w \in Worker, Serve(w)
      PROVE  [SA!Next]_(SA!vars)
  BY <1>2 DEF Serve, FetchWaitlist, SkipMember, RecordServed, table, SA!vars
<1>3. ASSUME NEW p \in Payer \cup Worker, Allocate(p)
      PROVE  [SA!Next]_(SA!vars)
  BY <1>3 DEF Allocate, AllocateExisting, AllocateBegin, AllocateLock, AllocateReserve,
              AllocateFail, table, SA!vars, SA!Next
<1>4. ASSUME NEW p \in Payer \cup Worker, Crash(p)
      PROVE  [SA!Next]_(SA!vars)
  <2>1. tx' = [tx EXCEPT ![p] = SA!Idle] /\ UNCHANGED <<allocation, open>>
    BY <1>4 DEF Crash
  <2>2. CASE tx[p].phase = "idle"
    <3>1. tx[p] = SA!Idle
      BY <2>2, TypeParts DEF SA!TypeOK, SA!Idle, SA!Scan, SA!Locked
    <3>2. tx' = tx
      BY <2>1, <3>1, TypeParts DEF SA!TypeOK
    <3> QED
      BY <2>1, <3>2 DEF SA!vars
  <2>3. CASE tx[p].phase # "idle"
    <3>1. SA!Abort(p)
      BY <2>1, <2>3 DEF SA!Abort
    <3> QED
      BY <3>1 DEF SA!Next
  <2> QED
    BY <2>2, <2>3
<1>5. ASSUME NEW a \in Alloc, ConfirmReclaim(a)
      PROVE  [SA!Next]_(SA!vars)
  BY <1>5 DEF ConfirmReclaim, SA!Next
<1>6. CASE JoinAsMember
  BY <1>6 DEF JoinAsMember, table, SA!vars
<1>7. CASE UNCHANGED vars
  BY <1>7 DEF vars, table, SA!vars
<1> QED
  BY <1>1, <1>2, <1>3, <1>4, <1>5, <1>6, <1>7 DEF Next

\* No step of SlotAllocation removes a row or gives it to another subscription.
LEMMA RowsStay ==
  ASSUME SA!TypeOK, [SA!Next]_(SA!vars), NEW a \in Alloc, allocation[a] # NoRow
  PROVE  allocation'[a] # NoRow /\ allocation'[a].sub = allocation[a].sub
<1>1. allocation[a] \in SA!Row
  BY DEF SA!TypeOK
<1>2. ASSUME NEW b \in Alloc, NEW st \in SA!Status, SA!WriteStatus(b, st)
      PROVE  allocation'[a] # NoRow /\ allocation'[a].sub = allocation[a].sub
  <2>1. allocation' = [allocation EXCEPT ![b] = [allocation[b] EXCEPT !.status = st]]
    BY <1>2 DEF SA!WriteStatus
  <2>2. [allocation[a] EXCEPT !.status = st] \in SA!Row
    BY <1>1 DEF SA!Row
  <2>3. [allocation[a] EXCEPT !.status = st].sub = allocation[a].sub
    BY <1>1 DEF SA!Row
  <2> QED
    BY <2>1, <2>2, <2>3, TableAssumption DEF SA!TypeOK
<1>3. ASSUME NEW p \in Payer \cup Worker, NEW b \in Alloc, SA!Reserve(p, b)
      PROVE  allocation'[a] = allocation[a]
  BY <1>3 DEF SA!Reserve, SA!TypeOK
<1>4. ASSUME NEW p \in Payer \cup Worker,
             \/ \E s \in Sub : SA!BeginScan(p, s)
             \/ \E k \in Slot : SA!LockSlot(p, k)
             \/ SA!NoSlot(p)
             \/ SA!Abort(p)
      PROVE  allocation' = allocation
  BY <1>4 DEF SA!BeginScan, SA!LockSlot, SA!NoSlot, SA!Abort
<1>5. ASSUME NEW g \in Group, NEW opened \in BOOLEAN, SA!PatchGroup(g, opened)
      PROVE  allocation' = allocation
  BY <1>5 DEF SA!PatchGroup
<1>6. CASE UNCHANGED SA!vars
  BY <1>6 DEF SA!vars
<1> QED
  BY <1>2, <1>3, <1>4, <1>5, <1>6
     DEF SA!Next, SA!Invite, SA!Activate, SA!MarkPendingReclaim, SA!ReleaseSlot, SA!Status

\* The waitlist only grows, and an entry keeps its subscription.
LEMMA WaitlistStep ==
  ASSUME TypeOK, [Next]_vars
  PROVE  /\ waitlist' \in Seq(Entry)
         /\ Len(waitlist) \in Nat /\ Len(waitlist') \in Nat /\ Len(waitlist) <= Len(waitlist')
         /\ \A i \in 1..Len(waitlist) : waitlist'[i].sub = waitlist[i].sub
<1>1. waitlist \in Seq(Entry) /\ Len(waitlist) \in Nat
  BY DEF TypeOK
<1>2. ASSUME NEW s \in Sub \cup {Nobody},
             waitlist' = Append(waitlist, [sub |-> s, status |-> "WAITING"])
      PROVE  /\ waitlist' \in Seq(Entry)
             /\ Len(waitlist') = Len(waitlist) + 1
             /\ \A i \in 1..Len(waitlist) : waitlist'[i] = waitlist[i]
  <2>1. [sub |-> s, status |-> "WAITING"] \in Entry
    BY DEF Entry
  <2> QED
    BY <1>1, <1>2, <2>1
<1>3. ASSUME NEW p \in Payer, JoinWaitlist(p)
      PROVE  \E s \in Sub \cup {Nobody} :
               waitlist' = Append(waitlist, [sub |-> s, status |-> "WAITING"])
  BY <1>3, JobParts, TypeParts DEF JoinWaitlist, At
<1>4. CASE JoinAsMember
  BY <1>1, <1>2, <1>4 DEF JoinAsMember
<1>5. ASSUME NEW w \in Worker, RecordServed(w)
      PROVE  /\ waitlist' \in Seq(Entry)
             /\ Len(waitlist') = Len(waitlist)
             /\ \A i \in 1..Len(waitlist) : waitlist'[i].sub = waitlist[i].sub
  <2>1. waitlist' = [waitlist EXCEPT ![Current(w)].status = "ALLOCATED"]
    BY <1>5 DEF RecordServed
  <2> QED
    BY <1>1, <2>1, MarkedEntry
<1>6. CASE waitlist' = waitlist
  BY <1>1, <1>6
<1>join. ASSUME NEW p \in Payer, JoinWaitlist(p)
       PROVE  /\ waitlist' \in Seq(Entry)
              /\ Len(waitlist') = Len(waitlist) + 1
              /\ \A i \in 1..Len(waitlist) : waitlist'[i] = waitlist[i]
  BY <1>2, <1>3, <1>join
<1>7. ASSUME NEW p \in Payer, Request(p), ~JoinWaitlist(p)
      PROVE  waitlist' = waitlist
  BY <1>7 DEF Request, ConfirmRead, ConfirmCommit, ConfirmRollback, CreateInvitation,
              CreateTask, MarkInvited, InviteFail, records
<1>8. ASSUME NEW w \in Worker, FetchWaitlist(w) \/ SkipMember(w)
      PROVE  waitlist' = waitlist
  BY <1>8 DEF FetchWaitlist, SkipMember, records
<1>9. ASSUME NEW p \in Payer \cup Worker, Allocate(p) \/ Crash(p)
      PROVE  waitlist' = waitlist
  BY <1>9 DEF Allocate, AllocateExisting, AllocateBegin, AllocateLock, AllocateReserve,
              AllocateFail, Crash, records
<1>10. ASSUME NEW a \in Alloc, ConfirmReclaim(a)
       PROVE  waitlist' = waitlist
  BY <1>10 DEF ConfirmReclaim, records
<1>11. ASSUME UNCHANGED vars
       PROVE  waitlist' = waitlist
  BY <1>11 DEF vars, records
<1>12. CASE \E p \in Payer : JoinWaitlist(p)
  BY <1>1, <1>12, <1>join
<1>13. CASE \E w \in Worker : RecordServed(w)
  BY <1>1, <1>5, <1>13
<1>14. \/ JoinAsMember
       \/ \E p \in Payer : JoinWaitlist(p)
       \/ \E w \in Worker : RecordServed(w)
       \/ waitlist' = waitlist
  BY <1>7, <1>8, <1>9, <1>10, <1>11 DEF Next, Serve
<1> QED
  BY <1>4, <1>6, <1>12, <1>13, <1>14

\* A step keeps the types of the records.
LEMMA RecordsStep ==
  ASSUME TypeOK, [Next]_vars
  PROVE  RecordsOK'
<1>1. waitlist' \in Seq(Entry)
  BY WaitlistStep
<1>2. RecordsOK
  BY TypeParts
<1>3. ASSUME NEW p \in Payer, Request(p)
      PROVE  RecordsOK'
  <2>1. CASE ConfirmCommit(p)
    BY <1>2, <2>1 DEF ConfirmCommit, RecordsOK
  <2>2. CASE CreateInvitation(p)
    <3>1. job[p].row \in Alloc /\ invites \in [Alloc -> Nat]
      BY <1>2, <2>2, JobParts, TypeParts DEF CreateInvitation, At, RecordsOK
    <3>2. invites' = [invites EXCEPT ![job[p].row] = invites[job[p].row] + 1]
      BY <2>2 DEF CreateInvitation
    <3>3. invites[job[p].row] + 1 \in Nat
      BY <3>1
    <3>4. invites' \in [Alloc -> Nat]
      BY <3>1, <3>2, <3>3
    <3> QED
      BY <1>2, <2>2, <3>4 DEF CreateInvitation, RecordsOK
  <2>3. CASE CreateTask(p)
    <3>1. job[p].row \in Alloc /\ tasks \in [Alloc -> Nat]
      BY <1>2, <2>3, JobParts, TypeParts DEF CreateTask, At, RecordsOK
    <3>2. tasks' = [tasks EXCEPT ![job[p].row] = tasks[job[p].row] + 1]
      BY <2>3 DEF CreateTask
    <3>3. tasks[job[p].row] + 1 \in Nat
      BY <3>1
    <3>4. tasks' \in [Alloc -> Nat]
      BY <3>1, <3>2, <3>3
    <3> QED
      BY <1>2, <2>3, <3>4 DEF CreateTask, RecordsOK
  <2>4. CASE JoinWaitlist(p)
    BY <1>1, <1>2, <2>4 DEF JoinWaitlist, RecordsOK
  <2>5. CASE ~ConfirmCommit(p) /\ ~CreateInvitation(p) /\ ~CreateTask(p) /\ ~JoinWaitlist(p)
    BY <1>2, <1>3, <2>5
       DEF Request, ConfirmRead, ConfirmRollback, MarkInvited, InviteFail, records, RecordsOK
  <2> QED
    BY <2>1, <2>2, <2>3, <2>4, <2>5
<1>4. ASSUME NEW w \in Worker, Serve(w)
      PROVE  RecordsOK'
  BY <1>1, <1>2, <1>4 DEF Serve, FetchWaitlist, SkipMember, RecordServed, records, RecordsOK
<1>5. ASSUME NEW p \in Payer \cup Worker, Allocate(p)
      PROVE  RecordsOK'
  BY <1>2, <1>5 DEF Allocate, AllocateExisting, AllocateBegin, AllocateLock, AllocateReserve,
                    AllocateFail, records, RecordsOK
<1>6. ASSUME NEW p \in Payer \cup Worker, Crash(p)
      PROVE  RecordsOK'
  BY <1>2, <1>6, BoundAssumption DEF Crash, records, RecordsOK
<1>7. ASSUME NEW a \in Alloc, ConfirmReclaim(a)
      PROVE  RecordsOK'
  BY <1>2, <1>7 DEF ConfirmReclaim, records, RecordsOK
<1>8. CASE JoinAsMember
  BY <1>1, <1>2, <1>8 DEF JoinAsMember, RecordsOK
<1>9. CASE UNCHANGED vars
  BY <1>2, <1>9 DEF vars, records, RecordsOK
<1> QED
  BY <1>3, <1>4, <1>5, <1>6, <1>7, <1>8, <1>9 DEF Next

\* Writing a well-formed job keeps all jobs well formed.
LEMMA JobWrite ==
  ASSUME TypeOK, [Next]_vars, NEW p \in Payer \cup Worker, NEW j, Goto(p, j),
         p \in Payer => j \in PayerJob,
         p \in Worker => /\ j \in WorkerJob
                         /\ j.pc # "idle" => j.batch # {} /\ j.batch \subseteq 1..Len(waitlist)
  PROVE  JobsOK'
<1>1. JobsOK
  BY TypeParts
<1>2. job' \in [Payer \cup Worker -> PayerJob \cup WorkerJob]
  BY <1>1 DEF JobsOK, Goto
<1>3. \A q \in Payer : job'[q] \in PayerJob
  BY <1>1 DEF JobsOK, Goto
<1>4. ASSUME NEW w \in Worker
      PROVE  /\ job'[w] \in WorkerJob
             /\ job'[w].pc # "idle" =>
                  job'[w].batch # {} /\ job'[w].batch \subseteq 1..Len(waitlist)
  BY <1>1 DEF JobsOK, Goto, At
<1>5. 1..Len(waitlist) \subseteq 1..Len(waitlist')
  BY WaitlistStep
<1> QED
  BY <1>2, <1>3, <1>4, <1>5 DEF JobsOK, At

\* The entries a worker fetches, and what is left of its batch, are entries there are.
LEMMA BatchRange ==
  /\ NextBatch \subseteq 1..Len(waitlist)
  /\ \A w \in Worker : job[w].batch \ {Current(w)} \subseteq job[w].batch
BY DEF NextBatch

\* What a worker goes to when it is done with an entry is a worker's job.
LEMMA AdvanceJob ==
  ASSUME TypeOK, NEW w \in Worker, ~At(w, "idle")
  PROVE  LET rest == job[w].batch \ {Current(w)}
             j == IF rest = {} THEN Idle ELSE [pc |-> "serving", batch |-> rest]
         IN  /\ j \in WorkerJob
             /\ j.pc # "idle" => j.batch # {} /\ j.batch \subseteq 1..Len(waitlist)
<1> DEFINE rest == job[w].batch \ {Current(w)}
<1>1. rest \subseteq 1..Len(waitlist) /\ Len(waitlist) \in Nat
  BY TypeParts DEF JobsOK, TypeOK
<1>2. rest \in SUBSET Nat
  BY <1>1
<1> HIDE DEF rest
<1>3. [pc |-> "serving", batch |-> rest] \in WorkerJob
  BY <1>2 DEF WorkerJob
<1>4. Idle \in WorkerJob /\ Idle.pc = "idle"
  BY DEF WorkerJob, Idle
<1>5. LET j == IF rest = {} THEN Idle ELSE [pc |-> "serving", batch |-> rest]
      IN  /\ j \in WorkerJob
          /\ j.pc # "idle" => j.batch # {} /\ j.batch \subseteq 1..Len(waitlist)
  BY <1>1, <1>3, <1>4
<1> QED
  BY <1>5 DEF rest

\* A step keeps the types of the jobs; it needs CallsInStep to know that a call that
\* returns is the call of the subscription in hand.
LEMMA JobsStep ==
  ASSUME TypeOK, CallsInStep, [Next]_vars
  PROVE  JobsOK'
<1>1. Idle \in PayerJob /\ Idle \in WorkerJob /\ Idle.pc = "idle"
  BY DEF PayerJob, WorkerJob, Idle
<1>2. ASSUME job' = job PROVE JobsOK'
  <2>1. 1..Len(waitlist) \subseteq 1..Len(waitlist')
    BY WaitlistStep
  <2> QED
    BY <1>2, <2>1, TypeParts DEF JobsOK, At
<1>3. ASSUME NEW p \in Payer, NEW j \in PayerJob, Goto(p, j) PROVE JobsOK'
  BY <1>3, JobWrite, SessionAssumption
<1>4. ASSUME NEW p \in Payer, NEW s \in Sub
      PROVE  /\ \A where \in {"confirming", "allocating", "waitlisting"} :
                  [pc |-> where, sub |-> s] \in PayerJob
             /\ \A a \in Alloc, where \in {"inviting", "tasking", "marking"} :
                  [pc |-> where, sub |-> s, row |-> a] \in PayerJob
  BY DEF PayerJob
<1>5. ASSUME NEW p \in Payer, Request(p)
      PROVE  JobsOK'
  <2>1. ASSUME NEW s \in Sub, ConfirmRead(p, s) PROVE JobsOK'
    BY <1>3, <1>4, <2>1 DEF ConfirmRead
  <2>2. CASE ConfirmCommit(p)
    <3>1. job[p].sub \in Sub
      BY <2>2, JobParts, TypeParts DEF ConfirmCommit, At
    <3> QED
      BY <1>3, <1>4, <2>2, <3>1 DEF ConfirmCommit
  <2>3. CASE ConfirmRollback(p) \/ MarkInvited(p) \/ JoinWaitlist(p)
    BY <1>1, <1>3, <2>3 DEF ConfirmRollback, MarkInvited, JoinWaitlist
  <2>4. CASE CreateInvitation(p) \/ CreateTask(p)
    <3>1. PICK where \in {"tasking", "marking"} : Goto(p, [job[p] EXCEPT !.pc = where])
      BY <2>4 DEF CreateInvitation, CreateTask
    <3>2. job[p].pc \in {"inviting", "tasking"}
      BY <2>4 DEF CreateInvitation, CreateTask, At
    <3>3. job[p] \in [pc : {"inviting", "tasking", "marking"}, sub : Sub, row : Alloc]
      BY <3>2, TypeParts DEF JobsOK, PayerJob, Idle
    <3>4. [job[p] EXCEPT !.pc = where] \in PayerJob
      BY <3>3 DEF PayerJob
    <3> QED
      BY <1>3, <3>1, <3>4
  <2>5. CASE InviteFail(p)
    <3>1. job[p].sub \in Sub
      BY <2>5, JobParts, TypeParts DEF InviteFail, At
    <3> QED
      BY <1>3, <1>4, <2>5, <3>1 DEF InviteFail, NotAllocated
  <2> QED
    BY <1>5, <2>1, <2>2, <2>3, <2>4, <2>5 DEF Request
<1>6. ASSUME NEW w \in Worker, NEW j \in WorkerJob, Goto(w, j),
             j.pc # "idle" => j.batch # {} /\ j.batch \subseteq 1..Len(waitlist)
      PROVE  JobsOK'
  BY <1>6, JobWrite, SessionAssumption
<1>7. ASSUME NEW w \in Worker, Serve(w)
      PROVE  JobsOK'
  <2>1. CASE FetchWaitlist(w)
    <3>1. [pc |-> "serving", batch |-> NextBatch] \in WorkerJob
      <4>1. NextBatch \in SUBSET Nat
        BY TypeOK DEF NextBatch, TypeOK
      <4> QED
        BY <4>1 DEF WorkerJob
    <3> QED
      BY <1>6, <2>1, <3>1, BatchRange DEF FetchWaitlist
  <2>2. CASE SkipMember(w) \/ RecordServed(w)
    <3>1. ~At(w, "idle") /\ Advance(w)
      BY <2>2 DEF SkipMember, RecordServed, At
    <3> QED
      BY <1>6, <3>1, AdvanceJob DEF Advance
  <2> QED
    BY <1>7, <2>1, <2>2 DEF Serve
<1>8. ASSUME NEW p \in Payer \cup Worker, NEW a \in Alloc, Allocated(p, a),
             p \in Payer => At(p, "allocating"),
             p \in Worker => At(p, "serving")
      PROVE  JobsOK'
  <2>1. CASE p \in Payer
    <3>1. job[p].sub \in Sub
      BY <1>8, <2>1, JobParts, TypeParts DEF At
    <3> QED
      BY <1>3, <1>4, <1>8, <2>1, <3>1 DEF Allocated
  <2>2. CASE p \in Worker
    <3>1. job[p] \in WorkerJob /\ job[p].batch # {} /\ job[p].batch \subseteq 1..Len(waitlist)
      BY <1>8, <2>2, TypeParts DEF JobsOK, At
    <3>2. job[p].batch \in SUBSET Nat
      BY <3>1, TypeOK DEF TypeOK
    <3>3. [pc |-> "recording", batch |-> job[p].batch] \in WorkerJob
      BY <3>2 DEF WorkerJob
    <3>4. Goto(p, [pc |-> "recording", batch |-> job[p].batch])
      BY <1>8, <2>2, SessionAssumption DEF Allocated
    <3> QED
      BY <1>6, <2>2, <3>1, <3>3, <3>4
  <2> QED
    BY <2>1, <2>2
<1>9. ASSUME NEW p \in Payer \cup Worker, tx[p].phase # "idle"
      PROVE  (p \in Payer => At(p, "allocating")) /\ (p \in Worker => At(p, "serving"))
  BY <1>9 DEF CallsInStep
<1>10. ASSUME NEW p \in Payer \cup Worker, Allocate(p)
       PROVE  JobsOK'
  <2>1. ASSUME NEW a \in Alloc, AllocateExisting(p, a) PROVE JobsOK'
    BY <1>8, <2>1, SessionAssumption DEF AllocateExisting, Calls
  <2>2. ASSUME NEW a \in Alloc, AllocateReserve(p, a) PROVE JobsOK'
    BY <1>8, <1>9, <2>2 DEF AllocateReserve, SA!Reserve
  <2>3. CASE AllocateBegin(p) \/ AllocateLock(p)
    BY <1>2, <2>3 DEF AllocateBegin, AllocateLock
  <2>4. CASE AllocateFail(p)
    <3>1. tx[p].phase # "idle" /\ NotAllocated(p)
      BY <2>4 DEF AllocateFail, SA!NoSlot, SA!Abort
    <3>2. CASE p \in Payer
      <4>1. job[p].sub \in Sub
        BY <1>9, <3>1, <3>2, JobParts, TypeParts DEF At
      <4> QED
        BY <1>3, <1>4, <3>1, <3>2, <4>1 DEF NotAllocated
    <3>3. CASE p \in Worker
      BY <1>1, <1>6, <3>1, <3>3, SessionAssumption DEF NotAllocated
    <3> QED
      BY <3>2, <3>3
  <2> QED
    BY <1>10, <2>1, <2>2, <2>3, <2>4 DEF Allocate
<1>11. ASSUME NEW p \in Payer \cup Worker, Crash(p)
       PROVE  JobsOK'
  BY <1>1, <1>3, <1>6, <1>11 DEF Crash
<1>12. ASSUME NEW a \in Alloc, ConfirmReclaim(a)
       PROVE  JobsOK'
  BY <1>2, <1>12 DEF ConfirmReclaim
<1>13. CASE JoinAsMember
  BY <1>2, <1>13 DEF JoinAsMember
<1>14. CASE UNCHANGED vars
  BY <1>2, <1>14 DEF vars
<1> QED
  BY <1>5, <1>7, <1>10, <1>11, <1>12, <1>13, <1>14 DEF Next

\* A step keeps the types.
LEMMA TypeStep ==
  ASSUME TypeOK, CallsInStep, [Next]_vars
  PROVE  TypeOK'
<1>1. SA!TypeOK'
  BY TableStep, TableTypeStep, TypeParts
<1>2. JobsOK' /\ RecordsOK'
  BY JobsStep, RecordsStep
<1> QED
  BY <1>1, <1>2 DEF TypeOK, JobsOK, RecordsOK

Less == {ij \in Nat \X Nat : ij[1] < ij[2]}

\* The order of the natural numbers, as a relation, is well founded.
LEMMA LessWellFounded == IsWellFoundedOn(Less, Nat)
<1>1. Less = OpToRel(<, Nat)
  BY Zenon DEF OpToRel, Less
<1> QED
  BY <1>1, NatLessThanWellFounded

\* A worker's batch has an oldest entry, older than the rest.
LEMMA OldestIn ==
  ASSUME NEW S \in SUBSET Nat, S # {}
  PROVE  Oldest(S) \in S /\ \A j \in S : Oldest(S) <= j
<1>1. PICK i \in S : \A j \in S : ~ (<<j, i>> \in Less)
  BY LessWellFounded, WFMin
<1>2. ASSUME NEW j \in S PROVE i <= j
  <2>1. <<j, i>> \notin Less /\ j \in Nat /\ i \in Nat
    BY <1>1
  <2>2. ~(j < i)
    BY <2>1 DEF Less
  <2> QED
    BY <2>1, <2>2
<1> QED
  BY <1>2 DEF Oldest

\* The entry a worker is at is an entry there is, so it keeps its subscription.
LEMMA CurrentEntry ==
  ASSUME TypeOK, [Next]_vars, NEW w \in Worker, ~At(w, "idle")
  PROVE  /\ Current(w) \in 1..Len(waitlist)
         /\ waitlist'[Current(w)].sub = waitlist[Current(w)].sub
<1>1. job[w].batch # {} /\ job[w].batch \subseteq 1..Len(waitlist) /\ Len(waitlist) \in Nat
  BY DEF TypeOK
<1>2. Current(w) \in job[w].batch
  BY <1>1, OldestIn DEF Current
<1>3. Current(w) \in 1..Len(waitlist)
  BY <1>1, <1>2
<1> QED
  BY <1>3, WaitlistStep

\* CallsInStep for one request or worker, as a statement of its own.
CallOK(p) ==
  /\ p \in Payer =>
       /\ tx[p].phase # "idle" => At(p, "allocating") /\ job[p].sub = tx[p].sub
       /\ job[p].pc \in {"inviting", "tasking", "marking"} =>
            allocation[job[p].row] # NoRow /\ allocation[job[p].row].sub = job[p].sub
  /\ p \in Worker =>
       (tx[p].phase # "idle" => At(p, "serving") /\ waitlist[Current(p)].sub = tx[p].sub)

\* CallsInStep, session by session.
LEMMA CallsParts == CallsInStep <=> \A p \in Payer \cup Worker : CallOK(p)
BY SessionAssumption DEF CallsInStep, CallOK

\* Rows and entries stay, so what one session does leaves the calls of others in step.
LEMMA CallKept ==
  ASSUME TypeOK, [Next]_vars, NEW p \in Payer \cup Worker, CallOK(p),
         tx'[p] = tx[p], job'[p] = job[p]
  PROVE  CallOK(p)'
<1>1. job[p].pc \in {"inviting", "tasking", "marking"} /\ p \in Payer => job[p].row \in Alloc
  BY JobParts, TypeParts
<1>2. \A a \in Alloc : allocation[a] # NoRow =>
        allocation'[a] # NoRow /\ allocation'[a].sub = allocation[a].sub
  BY TypeParts, TableStep, RowsStay
<1>3. p \in Worker /\ At(p, "serving") =>
        Current(p)' = Current(p) /\ waitlist'[Current(p)].sub = waitlist[Current(p)].sub
  BY CurrentEntry DEF Current, At
<1> QED
  BY <1>1, <1>2, <1>3 DEF CallOK, At

\* Only p moves.
Alone(p) == \A q \in (Payer \cup Worker) \ {p} : tx'[q] = tx[q] /\ job'[q] = job[q]

\* A step that touches one transaction and one job keeps CallsInStep if it does so there.
LEMMA AloneStep ==
  ASSUME TypeOK, CallsInStep, [Next]_vars,
         NEW p \in Payer \cup Worker, Alone(p), CallOK(p)'
  PROVE  CallsInStep'
<1>1. \A q \in Payer \cup Worker : CallOK(q)
  BY CallsParts
<1>2. \A q \in Payer \cup Worker : CallOK(q)'
  BY <1>1, CallKept DEF Alone
<1> QED
  BY <1>2, SessionAssumption DEF CallsInStep, CallOK

\* A request's own statements keep its call in step.
LEMMA RequestCalls ==
  ASSUME TypeOK, CallsInStep, [Next]_vars, NEW p \in Payer, Request(p)
  PROVE  Alone(p) /\ CallOK(p)'
<1>1. CallOK(p) /\ p \notin Worker
  BY CallsParts, SessionAssumption
<1>2. tx' = tx
  BY DEF Request, ConfirmRead, ConfirmCommit, ConfirmRollback, CreateInvitation, CreateTask,
         MarkInvited, InviteFail, JoinWaitlist, table, SA!Invite, SA!WriteStatus
<1>3. ~At(p, "allocating")
  BY DEF Request, ConfirmRead, ConfirmCommit, ConfirmRollback, CreateInvitation, CreateTask,
         MarkInvited, InviteFail, JoinWaitlist, At
<1>4. tx[p].phase = "idle"
  BY <1>1, <1>3 DEF CallOK
<1>5. ASSUME NEW j, Goto(p, j) PROVE Alone(p) /\ job'[p] = j
  BY <1>2, <1>5 DEF Goto, Alone, TypeOK
<1>6. CASE CreateInvitation(p) \/ CreateTask(p)
  <2>1. PICK where \in {"tasking", "marking"} : Goto(p, [job[p] EXCEPT !.pc = where])
    BY <1>6 DEF CreateInvitation, CreateTask
  <2>2. job[p].pc \in {"inviting", "tasking"}
    BY <1>6 DEF CreateInvitation, CreateTask, At
  <2>3. job[p] \in [pc : {"inviting", "tasking", "marking"}, sub : Sub, row : Alloc]
    BY <2>2, TypeParts DEF JobsOK, PayerJob, Idle
  <2>4. job'[p] = [job[p] EXCEPT !.pc = where] /\ Alone(p)
    BY <1>5, <2>1
  <2>5. job'[p].row = job[p].row /\ job'[p].sub = job[p].sub /\ job[p].row \in Alloc
    BY <2>3, <2>4
  <2>6. allocation[job[p].row] # NoRow /\ allocation[job[p].row].sub = job[p].sub
    BY <1>1, <2>2 DEF CallOK
  <2>7. allocation' = allocation
    BY <1>6 DEF CreateInvitation, CreateTask, table
  <2> QED
    BY <1>1, <1>2, <1>4, <2>4, <2>5, <2>6, <2>7 DEF CallOK
<1>7. CASE ~CreateInvitation(p) /\ ~CreateTask(p)
  <2>1. PICK j : Goto(p, j) /\ j.pc \notin {"inviting", "tasking", "marking"}
    <3>1. ASSUME NEW s \in Sub, ConfirmRead(p, s)
          PROVE  Goto(p, [pc |-> "confirming", sub |-> s])
      BY <3>1 DEF ConfirmRead
    <3>2. ASSUME ConfirmCommit(p)
          PROVE  Goto(p, [pc |-> "allocating", sub |-> job[p].sub])
      BY <3>2 DEF ConfirmCommit
    <3>3. ASSUME InviteFail(p)
          PROVE  Goto(p, [pc |-> "waitlisting", sub |-> job[p].sub])
      BY <3>3 DEF InviteFail, NotAllocated
    <3>4. ASSUME ConfirmRollback(p) \/ MarkInvited(p) \/ JoinWaitlist(p)
          PROVE  Goto(p, Idle) /\ Idle.pc = "idle"
      BY <3>4 DEF ConfirmRollback, MarkInvited, JoinWaitlist, Idle
    <3>5. ASSUME NEW where \in {"confirming", "allocating", "waitlisting"}, NEW s,
                 Goto(p, [pc |-> where, sub |-> s])
          PROVE  \E j : Goto(p, j) /\ j.pc \notin {"inviting", "tasking", "marking"}
      <4> DEFINE j == [pc |-> where, sub |-> s]
      <4>1. j.pc \notin {"inviting", "tasking", "marking"} /\ Goto(p, j)
        BY <3>5
      <4> QED
        BY <4>1
    <3> QED
      BY <1>7, <3>1, <3>2, <3>3, <3>4, <3>5 DEF Request
  <2>2. job'[p] = j /\ Alone(p)
    BY <1>5, <2>1
  <2> QED
    BY <1>1, <1>2, <1>4, <2>1, <2>2 DEF CallOK
<1> QED
  BY <1>6, <1>7

\* A worker's own statements keep its call in step.
LEMMA ServeCalls ==
  ASSUME TypeOK, CallsInStep, [Next]_vars, NEW w \in Worker, Serve(w)
  PROVE  Alone(w) /\ CallOK(w)'
<1>1. CallOK(w) /\ w \notin Payer
  BY CallsParts, SessionAssumption
<1>2. tx' = tx
  BY DEF Serve, FetchWaitlist, SkipMember, RecordServed, table
<1>3. PICK j : Goto(w, j)
  BY DEF Serve, FetchWaitlist, SkipMember, RecordServed, Advance
<1>4. Alone(w)
  BY <1>2, <1>3 DEF Goto, Alone, TypeOK
<1>5. tx[w].phase = "idle"
  <2>1. CASE FetchWaitlist(w) \/ RecordServed(w)
    BY <1>1, <2>1 DEF FetchWaitlist, RecordServed, At, CallOK
  <2>2. CASE SkipMember(w)
    <3>1. tx[w] \in {SA!Idle} \cup SA!Scan \cup SA!Locked
      BY DEF TypeOK, SA!TypeOK
    <3>2. tx[w].phase # "idle" => tx[w].sub \in Sub
      BY <3>1 DEF SA!Idle, SA!Scan, SA!Locked
    <3>3. waitlist[Current(w)].sub = Nobody
      BY <2>2 DEF SkipMember
    <3> QED
      BY <1>1, <3>2, <3>3, TableAssumption DEF CallOK
  <2> QED
    BY <2>1, <2>2 DEF Serve
<1> QED
  BY <1>1, <1>2, <1>4, <1>5 DEF CallOK

\* What a step of a call of allocateSlot does to the transaction of its caller p.
LEMMA CallTransaction ==
  ASSUME TypeOK, NEW p \in Payer \cup Worker, Allocate(p)
  PROVE  /\ \A q \in (Payer \cup Worker) \ {p} : tx'[q] = tx[q]
         /\ \/ \E a \in Alloc : AllocateExisting(p, a) /\ tx' = tx
            \/ \E s \in Sub : Calls(p, s) /\ job' = job /\ tx'[p].sub = s
            \/ /\ tx[p].phase # "idle" /\ tx'[p].sub = tx[p].sub
               /\ job' = job
            \/ /\ tx[p].phase # "idle" /\ tx'[p].phase = "idle"
               /\ \/ \E a \in Alloc : AllocateReserve(p, a)
                  \/ NotAllocated(p)
<1>1. tx = [q \in Payer \cup Worker |-> tx[q]]
  BY DEF TypeOK, SA!TypeOK
<1>2. ASSUME NEW a \in Alloc, AllocateExisting(p, a) PROVE tx' = tx
  BY <1>2 DEF AllocateExisting, table
<1>3. ASSUME NEW s \in Sub, Calls(p, s), SA!BeginScan(p, s), job' = job
      PROVE  /\ \A q \in (Payer \cup Worker) \ {p} : tx'[q] = tx[q]
             /\ tx'[p].sub = s
  BY <1>1, <1>3 DEF SA!BeginScan
<1>4. ASSUME NEW k \in Slot, SA!LockSlot(p, k)
      PROVE  /\ \A q \in (Payer \cup Worker) \ {p} : tx'[q] = tx[q]
             /\ tx[p].phase # "idle" /\ tx'[p].sub = tx[p].sub
  BY <1>1, <1>4 DEF SA!LockSlot
<1>5. ASSUME NEW a \in Alloc, SA!Reserve(p, a)
      PROVE  /\ \A q \in (Payer \cup Worker) \ {p} : tx'[q] = tx[q]
             /\ tx[p].phase # "idle" /\ tx'[p].phase = "idle"
  BY <1>1, <1>5 DEF SA!Reserve, SA!Idle
<1>6. ASSUME SA!NoSlot(p) \/ SA!Abort(p)
      PROVE  /\ \A q \in (Payer \cup Worker) \ {p} : tx'[q] = tx[q]
             /\ tx[p].phase # "idle" /\ tx'[p].phase = "idle"
  BY <1>1, <1>6 DEF SA!NoSlot, SA!Abort, SA!Idle
<1>7. CASE \E a \in Alloc : AllocateExisting(p, a)
  BY <1>2, <1>7
<1>8. CASE AllocateBegin(p)
  BY <1>3, <1>8 DEF AllocateBegin
<1>9. CASE AllocateLock(p)
  BY <1>4, <1>9 DEF AllocateLock
<1>10. CASE \E a \in Alloc : AllocateReserve(p, a)
  BY <1>5, <1>10 DEF AllocateReserve
<1>11. CASE AllocateFail(p)
  BY <1>6, <1>11 DEF AllocateFail
<1> QED
  BY <1>7, <1>8, <1>9, <1>10, <1>11 DEF Allocate

\* The row that a request goes on to invite to has been found, or made, for it.
LEMMA AllocateGives ==
  ASSUME TypeOK, CallsInStep, [Next]_vars, NEW p \in Payer, NEW a \in Alloc,
         AllocateExisting(p, a) \/ AllocateReserve(p, a)
  PROVE  /\ Goto(p, [pc |-> "inviting", sub |-> job[p].sub, row |-> a])
         /\ At(p, "allocating") /\ job[p].sub \in Sub
         /\ allocation'[a] # NoRow /\ allocation'[a].sub = job[p].sub
<1>1. At(p, "allocating")
  <2>1. CASE AllocateExisting(p, a)
    BY <2>1, SessionAssumption DEF AllocateExisting, Calls
  <2>2. CASE AllocateReserve(p, a)
    <3>1. tx[p].phase = "locked"
      BY <2>2 DEF AllocateReserve, SA!Reserve
    <3> QED
      BY <3>1 DEF CallsInStep
  <2> QED
    BY <2>1, <2>2
<1>2. job[p].sub \in Sub
  BY <1>1, JobParts, TypeParts DEF At
<1>3. Goto(p, [pc |-> "inviting", sub |-> job[p].sub, row |-> a])
  BY DEF AllocateExisting, AllocateReserve, Allocated
<1>4. CASE AllocateExisting(p, a)
  <2>1. allocation[a] # NoRow /\ allocation[a].sub = job[p].sub
    BY <1>4, SessionAssumption DEF AllocateExisting, Calls, SA!Live
  <2> QED
    BY <1>1, <1>2, <1>3, <1>4, <2>1 DEF AllocateExisting, table
<1>5. CASE AllocateReserve(p, a)
  <2> DEFINE r == [slot |-> tx[p].slot, sub |-> tx[p].sub, status |-> "RESERVED"]
  <2>1. allocation' = [allocation EXCEPT ![a] = r] /\ tx[p].phase = "locked"
    BY <1>5 DEF AllocateReserve, SA!Reserve
  <2>2. tx[p] \in SA!Locked
    BY <2>1 DEF TypeOK, SA!TypeOK, SA!Idle, SA!Scan, SA!Locked
  <2>3. r \in SA!Row /\ r.sub = tx[p].sub
    BY <2>2 DEF SA!Locked, SA!Row, SA!Status
  <2>4. job[p].sub = tx[p].sub
    BY <2>1 DEF CallsInStep
  <2>5. allocation'[a] = r
    BY <2>1 DEF TypeOK, SA!TypeOK
  <2> QED
    BY <1>1, <1>2, <1>3, <2>3, <2>4, <2>5, TableAssumption
<1> QED
  BY <1>4, <1>5

\* Every step of a call of allocateSlot keeps that call in step.
LEMMA AllocateCalls ==
  ASSUME TypeOK, CallsInStep, [Next]_vars, NEW p \in Payer \cup Worker, Allocate(p)
  PROVE  Alone(p) /\ CallOK(p)'
<1>1. CallOK(p)
  BY CallsParts
<1>2. \A q \in (Payer \cup Worker) \ {p} : tx'[q] = tx[q]
  BY CallTransaction
<1>3. ASSUME NEW j, Goto(p, j) PROVE Alone(p) /\ job'[p] = j
  BY <1>2, <1>3 DEF Goto, Alone, TypeOK
<1>4. ASSUME job' = job PROVE Alone(p) /\ job'[p] = job[p]
  BY <1>2, <1>4 DEF Alone
<1>5. p \in Worker /\ ~At(p, "idle") /\ job' = job =>
        Current(p)' = Current(p) /\ waitlist'[Current(p)].sub = waitlist[Current(p)].sub
  BY CurrentEntry DEF Current
<1>6. tx[p].phase # "idle" => (p \in Payer => At(p, "allocating"))
                              /\ (p \in Worker => At(p, "serving"))
  BY <1>1 DEF CallOK
<1>7. ASSUME NEW a \in Alloc, AllocateExisting(p, a) \/ AllocateReserve(p, a),
             tx'[p].phase = "idle"
      PROVE  Alone(p) /\ CallOK(p)'
  <2>1. CASE p \in Payer
    <3>1. /\ Goto(p, [pc |-> "inviting", sub |-> job[p].sub, row |-> a])
          /\ allocation'[a] # NoRow /\ allocation'[a].sub = job[p].sub
      BY <1>7, <2>1, AllocateGives
    <3> QED
      BY <1>3, <1>7, <2>1, <3>1, SessionAssumption DEF CallOK
  <2>2. CASE p \in Worker
    <3>1. Goto(p, [pc |-> "recording", batch |-> job[p].batch])
      BY <1>7, <2>2, SessionAssumption DEF AllocateExisting, AllocateReserve, Allocated
    <3> QED
      BY <1>3, <1>7, <2>2, <3>1, SessionAssumption DEF CallOK
  <2> QED
    BY <2>1, <2>2
<1>8. ASSUME NEW s \in Sub, Calls(p, s), job' = job, tx'[p].sub = s
      PROVE  Alone(p) /\ CallOK(p)'
  <2>1. CASE p \in Payer
    BY <1>4, <1>8, <2>1, SessionAssumption DEF CallOK, Calls, At
  <2>2. CASE p \in Worker
    BY <1>4, <1>5, <1>8, <2>2, SessionAssumption DEF CallOK, Calls, At
  <2> QED
    BY <2>1, <2>2
<1>9. ASSUME tx[p].phase # "idle", tx'[p].sub = tx[p].sub, job' = job
      PROVE  Alone(p) /\ CallOK(p)'
  <2>1. CASE p \in Payer
    BY <1>1, <1>4, <1>9, <2>1, SessionAssumption DEF CallOK, At
  <2>2. CASE p \in Worker
    BY <1>1, <1>4, <1>5, <1>9, <2>2, SessionAssumption DEF CallOK, At
  <2> QED
    BY <2>1, <2>2
<1>10. ASSUME tx[p].phase # "idle", tx'[p].phase = "idle", NotAllocated(p)
       PROVE  Alone(p) /\ CallOK(p)'
  <2>1. CASE p \in Payer
    <3>1. Goto(p, [pc |-> "waitlisting", sub |-> job[p].sub])
      BY <1>10, <2>1 DEF NotAllocated
    <3> QED
      BY <1>3, <1>10, <2>1, <3>1, SessionAssumption DEF CallOK
  <2>2. CASE p \in Worker
    BY <1>3, <1>10, <2>2, SessionAssumption DEF CallOK, NotAllocated
  <2> QED
    BY <2>1, <2>2
<1>11. ASSUME NEW a \in Alloc, AllocateExisting(p, a), tx' = tx PROVE tx'[p].phase = "idle"
  BY <1>11 DEF AllocateExisting
<1> QED
  BY <1>7, <1>8, <1>9, <1>10, <1>11, CallTransaction

\* A step keeps CallsInStep.
LEMMA CallsStep ==
  ASSUME TypeOK, CallsInStep, [Next]_vars
  PROVE  CallsInStep'
<1>1. ASSUME job' = job, tx' = tx PROVE CallsInStep'
  <2>1. \A p \in Payer \cup Worker : CallOK(p)
    BY CallsParts
  <2>2. \A p \in Payer \cup Worker : CallOK(p)'
    BY <1>1, <2>1, CallKept
  <2> QED
    BY <2>2, SessionAssumption DEF CallsInStep, CallOK
<1>2. ASSUME NEW p \in Payer, Request(p) PROVE CallsInStep'
  BY <1>2, RequestCalls, AloneStep
<1>3. ASSUME NEW w \in Worker, Serve(w) PROVE CallsInStep'
  BY <1>3, ServeCalls, AloneStep
<1>4. ASSUME NEW p \in Payer \cup Worker, Allocate(p) PROVE CallsInStep'
  BY <1>4, AllocateCalls, AloneStep
<1>5. ASSUME NEW p \in Payer \cup Worker, Crash(p) PROVE CallsInStep'
  <2>1. tx' = [tx EXCEPT ![p] = SA!Idle] /\ job' = [job EXCEPT ![p] = Idle]
    BY <1>5 DEF Crash, Goto
  <2>2. Alone(p) /\ tx'[p] = SA!Idle /\ job'[p] = Idle
    BY <2>1 DEF Alone, TypeOK, SA!TypeOK
  <2>3. CallOK(p)'
    BY <2>2 DEF CallOK, Idle, SA!Idle
  <2> QED
    BY <2>2, <2>3, AloneStep
<1>6. ASSUME NEW a \in Alloc, ConfirmReclaim(a) PROVE CallsInStep'
  BY <1>1, <1>6 DEF ConfirmReclaim, SA!ReleaseSlot, SA!WriteStatus
<1>7. CASE JoinAsMember
  BY <1>1, <1>7 DEF JoinAsMember, table
<1>8. CASE UNCHANGED vars
  BY <1>1, <1>8 DEF vars, table
<1> QED
  BY <1>2, <1>3, <1>4, <1>5, <1>6, <1>7, <1>8 DEF Next

\* Payments, waitlist, jobs, counters and the allocations table always have their types,
\* and every call of allocateSlot is in step with its caller.
THEOREM TypeCorrect == Spec => [](TypeOK /\ CallsInStep)
<1>1. Init => TypeOK /\ CallsInStep
  <2> SUFFICES ASSUME Init PROVE TypeOK /\ CallsInStep
    OBVIOUS
  <2>1. SA!TypeOK
    BY DEF Init, SA!TypeOK
  <2>2. Idle \in PayerJob /\ Idle \in WorkerJob /\ Idle.pc = "idle"
    BY DEF PayerJob, WorkerJob, Idle
  <2>3. JobsOK
    BY <2>2 DEF Init, JobsOK, At
  <2>4. RecordsOK
    BY BoundAssumption DEF Init, RecordsOK
  <2>5. CallsInStep
    BY <2>2 DEF Init, CallsInStep, SA!Idle
  <2> QED
    BY <2>1, <2>3, <2>4, <2>5, TypeParts
<1>2. (TypeOK /\ CallsInStep) /\ [Next]_vars => (TypeOK /\ CallsInStep)'
  BY TypeStep, CallsStep
<1> QED
  BY <1>1, <1>2, PTL DEF Spec

\* The composed state always has its type.
THEOREM StateTyped == Spec => []TypeOK
BY TypeCorrect, PTL

\* Every call of allocateSlot in progress is in step with the request or worker that made
\* it, through failures and crashes.
THEOREM CallsStayInStep == Spec => []CallsInStep
BY TypeCorrect, PTL

-------------------------------------------------------------------------------
(* The composed system uses the allocations table only as SlotAllocation allows *)

\* Requests, workers, the operator and crashes implement SlotAllocation.
THEOREM FulfilmentUsesAllocation == Spec => UsesAllocation
<1>1. Init => SA!Init
  BY DEF Init, SA!Init
<1>2. TypeOK /\ [Next]_vars => [SA!Next]_(SA!vars)
  BY TableStep
<1>3. Spec => SA!Spec
  BY <1>1, <1>2, TypeCorrect, PTL DEF Spec, SA!Spec
<1> QED
  BY <1>3 DEF UsesAllocation

\* Hence, whatever requests, workers and reclaims overlap and crash, no slot is seated
\* twice and no subscription sits twice: the theorem of SlotAllocation, carried over.
THEOREM FulfilmentExclusive == Spec => []SA!Exclusive
<1>1. SAP!Spec => []SAP!Exclusive
  BY SAPAssumptions, SAP!AllocationExclusive
<1>2. SAP!Exclusive => SA!Exclusive
  BY DEF SA!Exclusive, SAP!Exclusive, SA!SlotExclusive, SAP!SlotExclusive,
         SA!SubscriptionExclusive, SAP!SubscriptionExclusive, SA!Live, SAP!Live
<1>3. [SA!Next]_(SA!vars) => [SAP!Next]_(SAP!vars)
  BY SameNext, SameVars DEF SA!vars, SAP!vars
<1>4. SA!Spec => SAP!Spec
  BY <1>3, SameInit, PTL DEF SA!Spec, SAP!Spec
<1>5. Spec => SA!Spec
  BY FulfilmentUsesAllocation DEF UsesAllocation
<1> QED
  BY <1>1, <1>2, <1>4, <1>5, PTL

-------------------------------------------------------------------------------
(* No paid subscription is forgotten *)

\* A step keeps PaidNotForgotten.
LEMMA ForgottenStep ==
  ASSUME TypeOK, CallsInStep, PaidNotForgotten, [Next]_vars
  PROVE  PaidNotForgotten'
<1> SUFFICES ASSUME NEW s \in Sub, payment'[s] = "CONFIRMED"
             PROVE  \/ HasRow(s)' \/ HasEntry(s)'
                    \/ (\E p \in Payer : InHand(p, s))' \/ s \in lost'
  BY DEF PaidNotForgotten
<1>1. HasRow(s) => HasRow(s)'
  BY TypeParts, TableStep, RowsStay DEF HasRow
<1>2. HasEntry(s) => HasEntry(s)'
  BY WaitlistStep DEF HasEntry
<1>3. lost \subseteq lost'
  <2>1. ASSUME NEW p \in Payer, Request(p) PROVE lost' = lost
    BY <2>1 DEF Request, ConfirmRead, ConfirmCommit, ConfirmRollback, CreateInvitation,
                CreateTask, MarkInvited, InviteFail, JoinWaitlist
  <2>2. ASSUME NEW w \in Worker, Serve(w) PROVE lost' = lost
    BY <2>2 DEF Serve, FetchWaitlist, SkipMember, RecordServed
  <2>3. ASSUME NEW p \in Payer \cup Worker, Allocate(p) PROVE lost' = lost
    BY <2>3 DEF Allocate, AllocateExisting, AllocateBegin, AllocateLock, AllocateReserve,
                AllocateFail
  <2>4. ASSUME NEW p \in Payer \cup Worker, Crash(p) PROVE lost \subseteq lost'
    BY <2>4 DEF Crash
  <2>5. ASSUME NEW a \in Alloc, ConfirmReclaim(a) PROVE lost' = lost
    BY <2>5 DEF ConfirmReclaim
  <2>6. CASE JoinAsMember
    BY <2>6 DEF JoinAsMember
  <2>7. CASE UNCHANGED vars
    BY <2>7 DEF vars
  <2> QED
    BY <2>1, <2>2, <2>3, <2>4, <2>5, <2>6, <2>7 DEF Next
<1>4. ASSUME payment[s] # "CONFIRMED"
      PROVE  \E p \in Payer : ConfirmCommit(p) /\ job[p].sub = s
  <2>1. ASSUME NEW p \in Payer, Request(p), ~ConfirmCommit(p) PROVE payment' = payment
    BY <2>1 DEF Request, ConfirmRead, ConfirmRollback, CreateInvitation, CreateTask,
                MarkInvited, InviteFail, JoinWaitlist, records
  <2>2. ASSUME NEW w \in Worker, Serve(w) PROVE payment' = payment
    BY <2>2 DEF Serve, FetchWaitlist, SkipMember, RecordServed, records
  <2>3. ASSUME NEW p \in Payer \cup Worker, Allocate(p) \/ Crash(p) PROVE payment' = payment
    BY <2>3 DEF Allocate, AllocateExisting, AllocateBegin, AllocateLock, AllocateReserve,
                AllocateFail, Crash, records
  <2>4. ASSUME NEW a \in Alloc, ConfirmReclaim(a) PROVE payment' = payment
    BY <2>4 DEF ConfirmReclaim, records
  <2>5. ASSUME JoinAsMember PROVE payment' = payment
    BY <2>5 DEF JoinAsMember
  <2>6. ASSUME UNCHANGED vars PROVE payment' = payment
    BY <2>6 DEF vars, records
  <2>7. PICK p \in Payer : ConfirmCommit(p)
    BY <1>4, <2>1, <2>2, <2>3, <2>4, <2>5, <2>6 DEF Next
  <2>8. job[p].sub = s
    BY <1>4, <2>7 DEF ConfirmCommit, TypeOK
  <2> QED
    BY <2>7, <2>8
<1>5. ASSUME NEW p \in Payer, ConfirmCommit(p), job[p].sub = s
      PROVE  InHand(p, s)'
  <2>1. job'[p] = [pc |-> "allocating", sub |-> s]
    BY <1>5 DEF ConfirmCommit, Goto, TypeOK
  <2> QED
    BY <2>1 DEF InHand, At
<1>6. ASSUME NEW p \in Payer, InHand(p, s)
      PROVE  InHand(p, s)' \/ HasRow(s)' \/ HasEntry(s)' \/ s \in lost'
  <2>1. job[p].sub = s /\ job[p].pc \in {"allocating", "waitlisting"}
    BY <1>6 DEF InHand, At
  <2>2. CASE job'[p] = job[p]
    BY <2>1, <2>2 DEF InHand, At
  <2>3. ASSUME Request(p) PROVE HasEntry(s)'
    <3>1. JoinWaitlist(p)
      BY <2>1, <2>3 DEF Request, ConfirmRead, ConfirmCommit, ConfirmRollback,
                        CreateInvitation, CreateTask, MarkInvited, InviteFail, At
    <3>2. waitlist' = Append(waitlist, [sub |-> s, status |-> "WAITING"])
      BY <2>1, <3>1 DEF JoinWaitlist
    <3>3. waitlist \in Seq(Entry) /\ [sub |-> s, status |-> "WAITING"] \in Entry
      BY DEF TypeOK, Entry
    <3>4. Len(waitlist') = Len(waitlist) + 1 /\ Len(waitlist) \in Nat
          /\ waitlist'[Len(waitlist) + 1] = [sub |-> s, status |-> "WAITING"]
      BY <3>2, <3>3
    <3>5. waitlist'[Len(waitlist) + 1].sub = s /\ Len(waitlist) + 1 \in 1..Len(waitlist')
      BY <3>4
    <3> QED
      BY <3>5 DEF HasEntry
  <2>4. ASSUME Allocate(p), job'[p] # job[p]
        PROVE  InHand(p, s)' \/ HasRow(s)'
    <3>1. ASSUME NEW a \in Alloc, AllocateExisting(p, a) \/ AllocateReserve(p, a)
          PROVE  HasRow(s)'
      BY <2>1, <3>1, AllocateGives DEF HasRow
    <3>2. ASSUME NotAllocated(p) PROVE InHand(p, s)'
      <4>1. Goto(p, [pc |-> "waitlisting", sub |-> s])
        BY <2>1, <3>2 DEF NotAllocated
      <4>2. job'[p] = [pc |-> "waitlisting", sub |-> s]
        BY <4>1 DEF Goto, TypeOK
      <4> QED
        BY <4>2 DEF InHand, At
    <3> QED
      BY <2>4, <3>1, <3>2, CallTransaction
  <2>5. ASSUME Crash(p) PROVE HasRow(s)' \/ s \in lost'
    BY <1>1, <1>6, <2>5 DEF Crash
  <2>6. ASSUME NEW q \in Payer \cup Worker, q # p, Request(q) \/ Serve(q) \/ Allocate(q) \/ Crash(q)
        PROVE  job'[p] = job[p]
    <3>1. job' = job \/ \E j : Goto(q, j)
      <4>1. CASE Request(q)
        <5>1. CASE InviteFail(q)
          BY <5>1 DEF InviteFail, NotAllocated
        <5>2. CASE ~InviteFail(q)
          BY <4>1, <5>2 DEF Request, ConfirmRead, ConfirmCommit, ConfirmRollback,
                            CreateInvitation, CreateTask, MarkInvited, JoinWaitlist
        <5> QED
          BY <5>1, <5>2
      <4>2. CASE Serve(q)
        BY <4>2 DEF Serve, FetchWaitlist, SkipMember, RecordServed, Advance
      <4>3. CASE Allocate(q)
        <5>1. CASE AllocateFail(q)
          BY <5>1 DEF AllocateFail, NotAllocated
        <5>2. CASE ~AllocateFail(q)
          BY <4>3, <5>2 DEF Allocate, AllocateExisting, AllocateBegin, AllocateLock,
                            AllocateReserve, Allocated
        <5> QED
          BY <5>1, <5>2
      <4>4. CASE Crash(q)
        BY <4>4 DEF Crash
      <4> QED
        BY <2>6, <4>1, <4>2, <4>3, <4>4
    <3> QED
      BY <2>6, <3>1 DEF Goto, TypeOK
  <2>7. ASSUME NEW a \in Alloc, ConfirmReclaim(a) PROVE job' = job
    BY <2>7 DEF ConfirmReclaim
  <2>8. ASSUME JoinAsMember PROVE job' = job
    BY <2>8 DEF JoinAsMember
  <2>9. ASSUME UNCHANGED vars PROVE job' = job
    BY <2>9 DEF vars
  <2> QED
    BY <2>2, <2>3, <2>4, <2>5, <2>6, <2>7, <2>8, <2>9, SessionAssumption DEF Next
<1> QED
  BY <1>1, <1>2, <1>3, <1>4, <1>5, <1>6 DEF PaidNotForgotten

\* A paid subscription is never forgotten short of a crash, however many requests and
\* workers overlap and however they fail.
THEOREM NeverForgotten == Spec => []PaidNotForgotten
<1>1. Init => PaidNotForgotten
  BY DEF Init, PaidNotForgotten
<1>2. TypeOK /\ CallsInStep /\ PaidNotForgotten /\ [Next]_vars => PaidNotForgotten'
  BY ForgottenStep
<1> QED
  BY <1>1, <1>2, TypeCorrect, PTL DEF Spec

-------------------------------------------------------------------------------
(* What a step does to the waitlist and to a worker *)

\* Entries are only ever appended, or marked by the worker that is at them.
LEMMA WaitlistWrites ==
  ASSUME TypeOK, [Next]_vars
  PROVE  \/ waitlist' = waitlist
         \/ \E e \in Entry : waitlist' = Append(waitlist, e) /\ e.status = "WAITING"
         \/ \E w \in Worker : RecordServed(w)
<1>1. ASSUME NEW p \in Payer, JoinWaitlist(p)
      PROVE  \E e \in Entry : waitlist' = Append(waitlist, e) /\ e.status = "WAITING"
  <2>1. job[p].sub \in Sub
    BY <1>1, JobParts, TypeParts DEF JoinWaitlist, At
  <2> QED
    BY <1>1, <2>1 DEF JoinWaitlist, Entry
<1>2. ASSUME NEW p \in Payer, Request(p), ~JoinWaitlist(p) PROVE waitlist' = waitlist
  BY <1>2 DEF Request, ConfirmRead, ConfirmCommit, ConfirmRollback, CreateInvitation,
              CreateTask, MarkInvited, InviteFail, records
<1>3. ASSUME JoinAsMember
      PROVE  \E e \in Entry : waitlist' = Append(waitlist, e) /\ e.status = "WAITING"
  BY <1>3 DEF JoinAsMember, Entry
<1>4. ASSUME NEW w \in Worker, FetchWaitlist(w) \/ SkipMember(w) PROVE waitlist' = waitlist
  BY <1>4 DEF FetchWaitlist, SkipMember, records
<1>5. ASSUME NEW p \in Payer \cup Worker, Allocate(p) \/ Crash(p) PROVE waitlist' = waitlist
  BY <1>5 DEF Allocate, AllocateExisting, AllocateBegin, AllocateLock, AllocateReserve,
              AllocateFail, Crash, records
<1>6. ASSUME NEW a \in Alloc, ConfirmReclaim(a) PROVE waitlist' = waitlist
  BY <1>6 DEF ConfirmReclaim, records
<1>7. ASSUME UNCHANGED vars PROVE waitlist' = waitlist
  BY <1>7 DEF vars, records
<1> QED
  BY <1>1, <1>2, <1>3, <1>4, <1>5, <1>6, <1>7 DEF Next, Serve

\* An entry that has been served stays served, and whose it is does not change.
LEMMA ServedStays ==
  ASSUME TypeOK, [Next]_vars, NEW i \in 1..Len(waitlist)
  PROVE  /\ i \in 1..Len(waitlist') /\ waitlist'[i].sub = waitlist[i].sub
         /\ waitlist[i].status = "ALLOCATED" => waitlist'[i].status = "ALLOCATED"
         /\ waitlist'[i].status # waitlist[i].status =>
              \E w \in Worker : RecordServed(w) /\ i = Current(w)
<1>1. waitlist \in Seq(Entry) /\ Len(waitlist) \in Nat
  BY DEF TypeOK
<1>2. i \in 1..Len(waitlist') /\ waitlist'[i].sub = waitlist[i].sub
  BY <1>1, WaitlistStep
<1>3. CASE waitlist' = waitlist
  BY <1>2, <1>3
<1>4. ASSUME NEW e \in Entry, waitlist' = Append(waitlist, e) PROVE waitlist'[i] = waitlist[i]
  BY <1>1, <1>4
<1>5. ASSUME NEW w \in Worker, RecordServed(w)
      PROVE  waitlist'[i].status = IF i = Current(w) THEN "ALLOCATED" ELSE waitlist[i].status
  <2>1. waitlist' = [waitlist EXCEPT ![Current(w)].status = "ALLOCATED"]
    BY <1>5 DEF RecordServed
  <2>2. waitlist[i] \in Entry
    BY <1>1
  <2>3. waitlist'[i] = IF i = Current(w) THEN [waitlist[i] EXCEPT !.status = "ALLOCATED"]
                                         ELSE waitlist[i]
    BY <1>1, <2>1
  <2> QED
    BY <2>2, <2>3 DEF Entry
<1>6. \/ waitlist' = waitlist
      \/ \E e \in Entry : waitlist' = Append(waitlist, e)
      \/ \E w \in Worker : RecordServed(w)
  BY WaitlistWrites
<1> QED
  BY <1>2, <1>3, <1>4, <1>5, <1>6

\* An entry is not appended as served.
LEMMA ServedIsOld ==
  ASSUME TypeOK, [Next]_vars, NEW j \in 1..Len(waitlist'), waitlist'[j].status = "ALLOCATED"
  PROVE  j \in 1..Len(waitlist)
<1>1. Len(waitlist) \in Nat /\ waitlist \in Seq(Entry)
  BY DEF TypeOK
<1>2. ASSUME NEW e \in Entry, waitlist' = Append(waitlist, e), e.status = "WAITING"
      PROVE  j \in 1..Len(waitlist)
  <2>1. Len(waitlist') = Len(waitlist) + 1 /\ waitlist'[Len(waitlist) + 1] = e
    BY <1>1, <1>2
  <2> QED
    BY <1>1, <1>2, <2>1
<1>3. ASSUME NEW w \in Worker, RecordServed(w) PROVE Len(waitlist') = Len(waitlist)
  <2>1. waitlist' = [waitlist EXCEPT ![Current(w)].status = "ALLOCATED"]
    BY <1>3 DEF RecordServed
  <2> QED
    BY <1>1, <2>1, MarkedEntry
<1> QED
  BY <1>2, <1>3, WaitlistWrites

\* A worker stays where it is, ends its round, or takes one of its steps.
LEMMA WorkerMoves ==
  ASSUME TypeOK, [Next]_vars, NEW w \in Worker
  PROVE  \/ job'[w] = job[w]
         \/ job'[w].pc = "idle"
         \/ FetchWaitlist(w) \/ SkipMember(w) \/ RecordServed(w)
         \/ \E a \in Alloc : AllocateExisting(w, a) \/ AllocateReserve(w, a)
<1>1. job \in [Payer \cup Worker -> PayerJob \cup WorkerJob]
  BY DEF TypeOK
<1>2. ASSUME NEW p \in Payer \cup Worker, p # w, NEW j, Goto(p, j) PROVE job'[w] = job[w]
  BY <1>1, <1>2 DEF Goto
<1>3. ASSUME NEW p \in Payer, Request(p) PROVE job'[w] = job[w]
  <2>1. p # w
    BY SessionAssumption
  <2>2. \E j : Goto(p, j)
    BY <1>3 DEF Request, ConfirmRead, ConfirmCommit, ConfirmRollback, CreateInvitation,
                CreateTask, MarkInvited, InviteFail, JoinWaitlist, NotAllocated, Advance
  <2> QED
    BY <1>2, <2>1, <2>2
<1>4. ASSUME NEW v \in Worker, Serve(v), v # w PROVE job'[w] = job[w]
  BY <1>2, <1>4 DEF Serve, FetchWaitlist, SkipMember, RecordServed, Advance
<1>5. ASSUME NEW p \in Payer \cup Worker, Allocate(p), p # w PROVE job'[w] = job[w]
  BY <1>2, <1>5 DEF Allocate, AllocateExisting, AllocateBegin, AllocateLock, AllocateReserve,
                    AllocateFail, NotAllocated, Allocated
<1>6. CASE Allocate(w)
  <2>1. w \notin Payer
    BY SessionAssumption
  <2>2. CASE AllocateFail(w)
    <3>1. Goto(w, Idle)
      BY <2>1, <2>2 DEF AllocateFail, NotAllocated
    <3> QED
      BY <1>1, <3>1 DEF Goto, Idle
  <2>3. CASE AllocateBegin(w) \/ AllocateLock(w)
    BY <2>3 DEF AllocateBegin, AllocateLock
  <2> QED
    BY <1>6, <2>2, <2>3 DEF Allocate
<1>7. ASSUME NEW p \in Payer \cup Worker, Crash(p)
      PROVE  job'[w] = job[w] \/ job'[w].pc = "idle"
  <2>1. Goto(p, Idle)
    BY <1>7 DEF Crash
  <2> QED
    BY <1>1, <1>2, <2>1 DEF Goto, Idle
<1>8. ASSUME NEW a \in Alloc, ConfirmReclaim(a) PROVE job' = job
  BY <1>8 DEF ConfirmReclaim
<1>9. ASSUME JoinAsMember \/ UNCHANGED vars PROVE job' = job
  BY <1>9 DEF JoinAsMember, vars
<1> QED
  BY <1>3, <1>4, <1>5, <1>6, <1>7, <1>8, <1>9 DEF Next, Serve

\* A call that gives a worker a row was made for its entry at hand, and the row is now
\* one of that entry's subscription.
LEMMA WorkerCall ==
  ASSUME TypeOK, CallsInStep, NEW w \in Worker, NEW a \in Alloc,
         AllocateExisting(w, a) \/ AllocateReserve(w, a)
  PROVE  /\ At(w, "serving")
         /\ job'[w] = [pc |-> "recording", batch |-> job[w].batch]
         /\ waitlist' = waitlist /\ waitlist[Current(w)].sub \in Sub
         /\ allocation'[a] # NoRow /\ allocation'[a].sub = waitlist[Current(w)].sub
<1>1. w \notin Payer
  BY SessionAssumption
<1>2. Goto(w, [pc |-> "recording", batch |-> job[w].batch]) /\ waitlist' = waitlist
  BY <1>1 DEF AllocateExisting, AllocateReserve, Allocated, records
<1>3. job'[w] = [pc |-> "recording", batch |-> job[w].batch]
  BY <1>2 DEF Goto, TypeOK
<1>4. CASE AllocateExisting(w, a)
  <2>1. /\ At(w, "serving") /\ waitlist[Current(w)].sub \in Sub
        /\ allocation[a] # NoRow /\ allocation[a].sub = waitlist[Current(w)].sub
        /\ allocation' = allocation
    BY <1>1, <1>4 DEF AllocateExisting, Calls, SA!Live, table
  <2> QED
    BY <1>2, <1>3, <2>1
<1>5. CASE AllocateReserve(w, a)
  <2> DEFINE r == [slot |-> tx[w].slot, sub |-> tx[w].sub, status |-> "RESERVED"]
  <2>1. allocation' = [allocation EXCEPT ![a] = r] /\ tx[w].phase = "locked"
    BY <1>5 DEF AllocateReserve, SA!Reserve
  <2>2. tx[w] \in SA!Locked
    BY <2>1 DEF TypeOK, SA!TypeOK, SA!Idle, SA!Scan, SA!Locked
  <2>3. r \in SA!Row /\ r.sub = tx[w].sub /\ tx[w].sub \in Sub
    BY <2>2 DEF SA!Locked, SA!Row, SA!Status
  <2>4. At(w, "serving") /\ waitlist[Current(w)].sub = tx[w].sub
    BY <2>1 DEF CallsInStep
  <2>5. allocation'[a] = r
    BY <2>1 DEF TypeOK, SA!TypeOK
  <2> QED
    BY <1>2, <1>3, <2>3, <2>4, <2>5, TableAssumption
<1> QED
  BY <1>4, <1>5

-------------------------------------------------------------------------------
(* First come, first served *)

\* Whatever a busy worker has passed over in its batch, or left out of it, ahead of an
\* entry still to come has been served or is a member's own registration.
EarlierServed(w) ==
  ~At(w, "idle") =>
    \A j \in job[w].batch, i \in 1..Len(waitlist) :
      i < j /\ i \notin job[w].batch /\ waitlist[i].sub # Nobody
        => waitlist[i].status = "ALLOCATED"

InOrder == WaitlistFIFO /\ \A w \in Worker : EarlierServed(w)

\* A batch takes the oldest waiting entries: what it leaves out is not waiting or younger.
LEMMA BatchClosed ==
  ASSUME TypeOK, NEW j \in NextBatch, NEW i \in 1..Len(waitlist), i < j, WaitingAt(i)
  PROVE  i \in NextBatch
<1> DEFINE Ahead(k) == {m \in 1..(k - 1) : WaitingAt(m)}
<1>1. Len(waitlist) \in Nat /\ j \in 1..Len(waitlist) /\ Cardinality(Ahead(j)) < Batch
  BY DEF TypeOK, NextBatch
<1>2. Ahead(i) \subseteq Ahead(j) /\ Ahead(j) \subseteq 1..(j - 1)
  BY <1>1
<1>3. IsFiniteSet(1..(j - 1)) /\ j - 1 \in Int
  BY <1>1, FS_Interval
<1>4. IsFiniteSet(Ahead(j))
  BY <1>2, <1>3, FS_Subset
<1>5. /\ Cardinality(Ahead(i)) <= Cardinality(Ahead(j)) /\ IsFiniteSet(Ahead(i))
  BY <1>2, <1>4, FS_Subset
<1>6. Cardinality(Ahead(i)) \in Nat /\ Cardinality(Ahead(j)) \in Nat
  BY <1>4, <1>5, FS_CardinalityType
<1>7. Cardinality(Ahead(i)) < Batch
  BY <1>1, <1>5, <1>6, BatchAssumption
<1> QED
  BY <1>7 DEF NextBatch

\* A worker's entry at hand is one of its batch, and the oldest of it.
LEMMA CurrentIsOldest ==
  ASSUME TypeOK, NEW w \in Worker, ~At(w, "idle")
  PROVE  /\ job[w].batch \subseteq 1..Len(waitlist) /\ Len(waitlist) \in Nat
         /\ Current(w) \in job[w].batch /\ \A j \in job[w].batch : Current(w) <= j
<1>1. job[w].batch # {} /\ job[w].batch \subseteq 1..Len(waitlist) /\ Len(waitlist) \in Nat
  BY DEF TypeOK
<1> QED
  BY <1>1, OldestIn DEF Current

\* What is left of a batch when a worker is done with the entry at hand.
LEMMA AdvanceLeaves ==
  ASSUME TypeOK, NEW w \in Worker, Advance(w), job'[w].pc # "idle"
  PROVE  job'[w].batch = job[w].batch \ {Current(w)}
BY DEF Advance, Goto, TypeOK, Idle

\* A step keeps EarlierServed of each worker.
LEMMA EarlierStep ==
  ASSUME TypeOK, CallsInStep, [Next]_vars, NEW w \in Worker, EarlierServed(w)
  PROVE  EarlierServed(w)'
<1>1. Len(waitlist) \in Nat /\ waitlist \in Seq(Entry)
  BY DEF TypeOK
<1> SUFFICES ASSUME job'[w].pc # "idle",
                    NEW j \in job'[w].batch, NEW i \in 1..Len(waitlist'),
                    i < j, i \notin job'[w].batch, waitlist'[i].sub # Nobody
             PROVE  waitlist'[i].status = "ALLOCATED"
  BY DEF EarlierServed, At
<1>2. ASSUME NEW B, B = job'[w].batch, B \subseteq 1..Len(waitlist)
      PROVE  i \in 1..Len(waitlist) /\ waitlist[i].sub # Nobody
  <2>1. j \in 1..Len(waitlist)
    BY <1>2
  <2>2. i \in 1..Len(waitlist)
    BY <1>1, <2>1
  <2> QED
    BY <2>2, ServedStays
<1>3. CASE job'[w] = job[w]
  <2>1. i \in 1..Len(waitlist) /\ waitlist[i].sub # Nobody
    BY <1>2, <1>3, CurrentIsOldest DEF At
  <2>2. waitlist[i].status = "ALLOCATED"
    BY <1>3, <2>1 DEF EarlierServed, At
  <2> QED
    BY <2>1, <2>2, ServedStays
<1>4. CASE FetchWaitlist(w)
  <2>1. job'[w].batch = NextBatch /\ NextBatch \subseteq 1..Len(waitlist)
    BY <1>4, BatchRange DEF FetchWaitlist, Goto, TypeOK
  <2>2. i \in 1..Len(waitlist) /\ waitlist[i].sub # Nobody
    BY <1>2, <2>1
  <2>3. ~WaitingAt(i)
    BY <2>1, <2>2, BatchClosed
  <2>4. waitlist[i] \in Entry
    BY <1>1, <2>2
  <2>5. waitlist[i].status = "ALLOCATED"
    BY <2>3, <2>4 DEF WaitingAt, Entry
  <2> QED
    BY <2>2, <2>5, ServedStays
<1>5. CASE SkipMember(w) \/ RecordServed(w)
  <2>1. ~At(w, "idle") /\ Advance(w)
    BY <1>5 DEF SkipMember, RecordServed, At
  <2>2. job'[w].batch = job[w].batch \ {Current(w)}
    BY <2>1, AdvanceLeaves
  <2>3. i \in 1..Len(waitlist) /\ waitlist[i].sub # Nobody
    BY <1>2, <2>1, <2>2, CurrentIsOldest
  <2>4. CASE i \notin job[w].batch
    <3>1. waitlist[i].status = "ALLOCATED"
      BY <2>1, <2>2, <2>3, <2>4 DEF EarlierServed
    <3> QED
      BY <2>3, <3>1, ServedStays
  <2>5. CASE i \in job[w].batch
    <3>1. i = Current(w)
      BY <2>2, <2>5
    <3>2. RecordServed(w)
      BY <1>5, <2>3, <3>1 DEF SkipMember
    <3>3. waitlist' = [waitlist EXCEPT ![i].status = "ALLOCATED"]
      BY <3>1, <3>2 DEF RecordServed
    <3> QED
      BY <1>1, <2>3, <3>3
  <2> QED
    BY <2>4, <2>5
<1>6. CASE \E a \in Alloc : AllocateExisting(w, a) \/ AllocateReserve(w, a)
  <2>1. At(w, "serving") /\ job'[w].batch = job[w].batch
    <3>1. PICK a \in Alloc : AllocateExisting(w, a) \/ AllocateReserve(w, a)
      BY <1>6
    <3>2. At(w, "serving") /\ job'[w] = [pc |-> "recording", batch |-> job[w].batch]
      BY <3>1, WorkerCall
    <3> QED
      BY <3>2
  <2>2. i \in 1..Len(waitlist) /\ waitlist[i].sub # Nobody
    BY <1>2, <2>1, CurrentIsOldest DEF At
  <2>3. waitlist[i].status = "ALLOCATED"
    BY <2>1, <2>2 DEF EarlierServed, At
  <2> QED
    BY <2>2, <2>3, ServedStays
<1> QED
  BY <1>3, <1>4, <1>5, <1>6, WorkerMoves

\* A step keeps the order of service.
LEMMA FIFOStep ==
  ASSUME TypeOK, InOrder, [Next]_vars
  PROVE  WaitlistFIFO'
<1>1. Len(waitlist) \in Nat /\ waitlist \in Seq(Entry) /\ Len(waitlist') \in Nat
  BY WaitlistStep DEF TypeOK
<1> SUFFICES ASSUME NEW i \in 1..Len(waitlist'), NEW j \in 1..Len(waitlist'), i < j,
                    waitlist'[j].status = "ALLOCATED", waitlist'[i].sub # Nobody
             PROVE  waitlist'[i].status = "ALLOCATED"
  BY DEF WaitlistFIFO
<1>2. j \in 1..Len(waitlist)
  BY ServedIsOld
<1>3. i \in 1..Len(waitlist) /\ waitlist[i].sub # Nobody
  <2>1. i \in 1..Len(waitlist)
    BY <1>1, <1>2
  <2> QED
    BY <2>1, ServedStays
<1>4. CASE waitlist[j].status = "ALLOCATED"
  <2>1. waitlist[i].status = "ALLOCATED"
    BY <1>2, <1>3, <1>4 DEF InOrder, WaitlistFIFO
  <2> QED
    BY <1>3, <2>1, ServedStays
<1>5. CASE waitlist[j].status # "ALLOCATED"
  <2>1. PICK w \in Worker : RecordServed(w) /\ j = Current(w)
    BY <1>2, <1>5, ServedStays
  <2>2. ~At(w, "idle")
    BY <2>1 DEF RecordServed, At
  <2>3. j \in job[w].batch /\ i \notin job[w].batch
    BY <1>1, <1>2, <1>3, <2>1, <2>2, CurrentIsOldest
  <2>4. waitlist[i].status = "ALLOCATED"
    BY <1>3, <2>2, <2>3 DEF InOrder, EarlierServed
  <2> QED
    BY <1>3, <2>4, ServedStays
<1> QED
  BY <1>4, <1>5

\* Payers are served in the order in which they joined the waitlist, whatever batches any
\* number of workers fetched and wherever they broke off.
THEOREM ServedInOrder == Spec => []WaitlistFIFO
<1>1. Init => InOrder
  BY DEF Init, InOrder, WaitlistFIFO, EarlierServed, At, Idle
<1>2. TypeOK /\ CallsInStep /\ InOrder /\ [Next]_vars => InOrder'
  BY FIFOStep, EarlierStep DEF InOrder
<1>3. InOrder => WaitlistFIFO
  BY DEF InOrder
<1> QED
  BY <1>1, <1>2, <1>3, TypeCorrect, PTL DEF Spec

-------------------------------------------------------------------------------
(* Served means seated *)

\* A worker about to record an entry as served has a row for its subscription.
RecordsRow ==
  \A w \in Worker :
    At(w, "recording") => waitlist[Current(w)].sub \in Sub /\ HasRow(waitlist[Current(w)].sub)

\* Rows stay, so a subscription that has one keeps one.
LEMMA RowKept ==
  ASSUME TypeOK, [Next]_vars, NEW s, HasRow(s)
  PROVE  HasRow(s)'
BY TypeParts, TableStep, RowsStay DEF HasRow

\* A step keeps RecordsRow.
LEMMA RecordsRowStep ==
  ASSUME TypeOK, CallsInStep, RecordsRow, [Next]_vars
  PROVE  RecordsRow'
<1> SUFFICES ASSUME NEW w \in Worker, job'[w].pc = "recording"
             PROVE  (waitlist[Current(w)].sub \in Sub /\ HasRow(waitlist[Current(w)].sub))'
  BY DEF RecordsRow, At
<1>1. ASSUME ~At(w, "idle"), job'[w].batch = job[w].batch
      PROVE  (waitlist[Current(w)].sub)' = waitlist[Current(w)].sub
  BY <1>1, CurrentEntry DEF Current
<1>2. CASE job'[w] = job[w]
  <2>1. At(w, "recording") /\ ~At(w, "idle")
    BY <1>2 DEF At
  <2>2. (waitlist[Current(w)].sub)' = waitlist[Current(w)].sub
    BY <1>1, <1>2, <2>1
  <2>3. waitlist[Current(w)].sub \in Sub /\ HasRow(waitlist[Current(w)].sub)
    BY <2>1 DEF RecordsRow
  <2>4. HasRow(waitlist[Current(w)].sub)'
    BY <2>2, <2>3, RowKept DEF HasRow
  <2> QED
    BY <2>2, <2>3, <2>4
<1>3. CASE \E a \in Alloc : AllocateExisting(w, a) \/ AllocateReserve(w, a)
  <2>1. PICK a \in Alloc : AllocateExisting(w, a) \/ AllocateReserve(w, a)
    BY <1>3
  <2>2. /\ At(w, "serving")
        /\ job'[w] = [pc |-> "recording", batch |-> job[w].batch]
        /\ waitlist[Current(w)].sub \in Sub
        /\ allocation'[a] # NoRow /\ allocation'[a].sub = waitlist[Current(w)].sub
    BY <2>1, WorkerCall
  <2>3. job'[w].batch = job[w].batch
    BY <2>2
  <2>4. (waitlist[Current(w)].sub)' = waitlist[Current(w)].sub
    BY <1>1, <2>2, <2>3 DEF At
  <2> QED
    BY <2>2, <2>4 DEF HasRow
<1>4. CASE FetchWaitlist(w) \/ SkipMember(w) \/ RecordServed(w)
  <2>1. \E j : Goto(w, j) /\ j.pc # "recording"
    BY <1>4 DEF FetchWaitlist, SkipMember, RecordServed, Advance, Idle
  <2> QED
    BY <2>1 DEF Goto, TypeOK
<1> QED
  BY <1>2, <1>3, <1>4, WorkerMoves

\* A step keeps ServedHasRow.
LEMMA ServedHasRowStep ==
  ASSUME TypeOK, RecordsRow, ServedHasRow, [Next]_vars
  PROVE  ServedHasRow'
<1>1. Len(waitlist) \in Nat /\ waitlist \in Seq(Entry) /\ Len(waitlist') \in Nat
  BY WaitlistStep DEF TypeOK
<1> SUFFICES ASSUME NEW i \in 1..Len(waitlist'), waitlist'[i].status = "ALLOCATED"
             PROVE  /\ waitlist'[i].sub \in Sub
                    /\ \E a \in Alloc : allocation'[a] # NoRow
                                        /\ allocation'[a].sub = waitlist'[i].sub
  BY DEF ServedHasRow, HasRow
<1>2. i \in 1..Len(waitlist)
  BY ServedIsOld
<1>3. waitlist'[i].sub = waitlist[i].sub
  BY <1>2, ServedStays
<1>4. waitlist[i].sub \in Sub /\ HasRow(waitlist[i].sub)
  <2>1. CASE waitlist[i].status = "ALLOCATED"
    BY <1>2, <2>1 DEF ServedHasRow
  <2>2. CASE waitlist[i].status # "ALLOCATED"
    <3>1. PICK w \in Worker : RecordServed(w) /\ i = Current(w)
      BY <1>2, <2>2, ServedStays
    <3> QED
      BY <3>1 DEF RecordServed, RecordsRow
  <2> QED
    BY <2>1, <2>2
<1>5. PICK a \in Alloc : allocation[a] # NoRow /\ allocation[a].sub = waitlist[i].sub
  BY <1>4 DEF HasRow
<1>6. allocation'[a] # NoRow /\ allocation'[a].sub = waitlist[i].sub
  BY <1>5, TypeParts, TableStep, RowsStay
<1> QED
  BY <1>3, <1>4, <1>6

\* An entry is marked ALLOCATED only for a subscription that has been given a row, whatever
\* failed between the allocation and the mark.
THEOREM ServedAreSeated == Spec => []ServedHasRow
<1>1. Init => RecordsRow /\ ServedHasRow
  BY DEF Init, RecordsRow, ServedHasRow, At, Idle
<1>2. TypeOK /\ CallsInStep /\ RecordsRow /\ ServedHasRow /\ [Next]_vars
        => RecordsRow' /\ ServedHasRow'
  BY RecordsRowStep, ServedHasRowStep
<1> QED
  BY <1>1, <1>2, TypeCorrect, PTL DEF Spec
===============================================================================
