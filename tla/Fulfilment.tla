------------------------------ MODULE Fulfilment ------------------------------
(***************************************************************************)
(* From a confirmed payment to a seat: the part of confirmPayment that     *)
(* runs after its transaction, createInvitationTask, and processWaitlist,  *)
(* all calling allocateSlot of SlotAllocation while requests, workers and  *)
(* the operator's reclaims overlap and processes crash.                    *)
(*                                                                         *)
(* A payment stands for the order it pays and for the subscription that    *)
(* its confirmation creates in the same transaction; OrderPayment has the  *)
(* orders with several payments.  The groups stay open.                    *)
(***************************************************************************)
EXTENDS Naturals, Sequences, FiniteSets

CONSTANTS
  Slot, Group, GroupOf, Sub, Alloc, NoRow, Nobody,  \* SlotAllocation's
  Payer,        \* requests that may be inside confirmPayment at one time
  Worker,       \* schedulers: apps/worker and the web server's cron tick
  Batch,        \* take: 10 of processWaitlist
  MaxMembers,   \* bound: entries members make themselves through /api/waitlist
  MaxCrashes    \* bound: how many times a process dies in the middle

ASSUME SessionAssumption == Payer \cap Worker = {}
ASSUME BatchAssumption == Batch \in Nat \ {0}
ASSUME BoundAssumption == MaxMembers \in Nat /\ MaxCrashes \in Nat

VARIABLES
  allocation, open, tx,  \* SlotAllocation's
  payment,     \* status of each payment
  waitlist,    \* the waitlist entries in createdAt order
  job,         \* where each request and each worker is
  invites,     \* how many invitations each allocation row has
  tasks,       \* how many INVITE_SEND tasks those invitations have
  crashes,     \* how many crashes there have been
  lost         \* history: subscriptions whose confirmPayment died while seatless

table == <<allocation, open, tx>>
records == <<payment, waitlist, invites, tasks>>
vars == <<table, records, job, crashes, lost>>

SA == INSTANCE SlotAllocation WITH Session <- Payer \cup Worker

\* What SlotAllocation assumes of its constants.
ASSUME TableAssumption ==
  /\ Slot \subseteq Nat
  /\ GroupOf \in [Slot -> Group]
  /\ NoRow \notin SA!Row
  /\ Nobody \notin Sub

-------------------------------------------------------------------------------
(* Where a request or a worker is.  A request: confirming (inside the             *)
(* transaction), allocating, inviting / tasking / marking (the three statements   *)
(* of createInvitationTask), waitlisting.  A worker: serving the head of its      *)
(* batch, recording that it was served.                                           *)

Idle == [pc |-> "idle"]

PayerJob ==
  {Idle} \cup [pc : {"confirming", "allocating", "waitlisting"}, sub : Sub]
         \cup [pc : {"inviting", "tasking", "marking"}, sub : Sub, row : Alloc]

\* A worker walks its batch, a set of positions of the waitlist, from the oldest on.
WorkerJob == {Idle} \cup [pc : {"serving", "recording"}, batch : SUBSET Nat]

Entry == [sub : Sub \cup {Nobody}, status : {"WAITING", "ALLOCATED"}]

At(p, where) == job[p].pc = where

Goto(p, j) == job' = [job EXCEPT ![p] = j]

Oldest(S) == CHOOSE i \in S : \A j \in S : i <= j

Current(w) == Oldest(job[w].batch)

WaitingAt(i) == waitlist[i].status = "WAITING"

\* findMany WAITING, oldest first, take Batch.
NextBatch ==
  {i \in 1..Len(waitlist) :
     WaitingAt(i) /\ Cardinality({j \in 1..(i - 1) : WaitingAt(j)}) < Batch}

\* The worker is done with the entry at hand: the next one, or the end of the batch.
Advance(w) ==
  LET rest == job[w].batch \ {Current(w)} IN
  Goto(w, IF rest = {} THEN Idle ELSE [pc |-> "serving", batch |-> rest])

\* Session p is inside, or about to make, the call allocateSlot(s).
Calls(p, s) ==
  \/ p \in Payer /\ At(p, "allocating") /\ s = job[p].sub
  \/ p \in Worker /\ At(p, "serving") /\ s = waitlist[Current(p)].sub /\ s # Nobody

HasRow(s) == \E a \in Alloc : allocation[a] # NoRow /\ allocation[a].sub = s

HasEntry(s) == \E i \in 1..Len(waitlist) : waitlist[i].sub = s

\* A request still has the subscription in hand and will seat or waitlist it.
InHand(p, s) == (At(p, "allocating") \/ At(p, "waitlisting")) /\ job[p].sub = s

TypeOK ==
  /\ SA!TypeOK
  /\ payment \in [Sub -> {"PENDING", "CONFIRMED"}]
  /\ waitlist \in Seq(Entry)
  /\ job \in [Payer \cup Worker -> PayerJob \cup WorkerJob]
  /\ \A p \in Payer : job[p] \in PayerJob
  /\ \A w \in Worker :
       /\ job[w] \in WorkerJob
       /\ ~At(w, "idle") => job[w].batch # {} /\ job[w].batch \subseteq 1..Len(waitlist)
  /\ invites \in [Alloc -> Nat]
  /\ tasks \in [Alloc -> Nat]
  /\ crashes \in 0..MaxCrashes
  /\ lost \subseteq Sub

Init ==
  /\ allocation = [a \in Alloc |-> NoRow]
  /\ open = Group
  /\ tx = [p \in Payer \cup Worker |-> SA!Idle]
  /\ payment = [s \in Sub |-> "PENDING"]
  /\ waitlist = <<>>
  /\ job = [p \in Payer \cup Worker |-> Idle]
  /\ invites = [a \in Alloc |-> 0]
  /\ tasks = [a \in Alloc |-> 0]
  /\ crashes = 0
  /\ lost = {}

-------------------------------------------------------------------------------
(* confirmPayment: its transaction *)

\* The last read of the payment's status before it is written finds PENDING.  A
\* CONFIRMED payment is returned as it is, with none of what follows.
ConfirmRead(p, s) ==
  /\ At(p, "idle")
  /\ payment[s] = "PENDING"
  /\ Goto(p, [pc |-> "confirming", sub |-> s])
  /\ UNCHANGED <<table, records, crashes, lost>>

\* The transaction writes CONFIRMED by id, finds or creates the subscription, commits.
ConfirmCommit(p) ==
  /\ At(p, "confirming")
  /\ payment' = [payment EXCEPT ![job[p].sub] = "CONFIRMED"]
  /\ Goto(p, [pc |-> "allocating", sub |-> job[p].sub])
  /\ UNCHANGED <<table, waitlist, invites, tasks, crashes, lost>>

\* The transaction fails and the request with it.
ConfirmRollback(p) ==
  /\ At(p, "confirming")
  /\ Goto(p, Idle)
  /\ UNCHANGED <<table, records, crashes, lost>>

-------------------------------------------------------------------------------
(* The call of allocateSlot, and what its caller does with row a or an error *)

Allocated(p, a) ==
  Goto(p, IF p \in Payer
          THEN [pc |-> "inviting", sub |-> job[p].sub, row |-> a]
          ELSE [pc |-> "recording", batch |-> job[p].batch])

\* Seeded faults: the request has no catch block; the worker's catch goes on to the next
\* entry; the worker's catch falls through to the update of the entry.
NotAllocatedUncaught(p) == Goto(p, Idle)

NotAllocatedGoesOn(p) ==
  IF p \in Payer THEN Goto(p, [pc |-> "waitlisting", sub |-> job[p].sub]) ELSE Advance(p)

NotAllocatedRecorded(p) ==
  Goto(p, IF p \in Payer
          THEN [pc |-> "waitlisting", sub |-> job[p].sub]
          ELSE [pc |-> "recording", batch |-> job[p].batch])

\* A request catches every error and puts the subscription on the waitlist; a worker
\* catches every error and gives up the rest of its batch.
NotAllocated(p) ==
  Goto(p, IF p \in Payer THEN [pc |-> "waitlisting", sub |-> job[p].sub] ELSE Idle)

AllocateExisting(p, a) ==
  /\ \E s \in Sub : Calls(p, s) /\ SA!Live(a) /\ allocation[a].sub = s
  /\ tx[p].phase = "idle"
  /\ Allocated(p, a)
  /\ UNCHANGED <<table, records, crashes, lost>>

AllocateBegin(p) ==
  /\ \E s \in Sub : Calls(p, s) /\ SA!BeginScan(p, s)
  /\ UNCHANGED <<records, job, crashes, lost>>

AllocateLock(p) ==
  /\ \E k \in Slot : SA!LockSlot(p, k)
  /\ UNCHANGED <<records, job, crashes, lost>>

AllocateReserve(p, a) ==
  /\ SA!Reserve(p, a)
  /\ Allocated(p, a)
  /\ UNCHANGED <<records, crashes, lost>>

AllocateFail(p) ==
  /\ SA!NoSlot(p) \/ SA!Abort(p)
  /\ NotAllocated(p)
  /\ UNCHANGED <<records, crashes, lost>>

-------------------------------------------------------------------------------
(* createInvitationTask, three statements without a transaction *)

CreateInvitation(p) ==
  /\ At(p, "inviting")
  /\ invites' = [invites EXCEPT ![job[p].row] = @ + 1]
  /\ Goto(p, [job[p] EXCEPT !.pc = "tasking"])
  /\ UNCHANGED <<table, payment, waitlist, tasks, crashes, lost>>

CreateTask(p) ==
  /\ At(p, "tasking")
  /\ tasks' = [tasks EXCEPT ![job[p].row] = @ + 1]
  /\ Goto(p, [job[p] EXCEPT !.pc = "marking"])
  /\ UNCHANGED <<table, payment, waitlist, invites, crashes, lost>>

MarkInvited(p) ==
  /\ At(p, "marking")
  /\ SA!Invite(job[p].row)
  /\ Goto(p, Idle)
  /\ UNCHANGED <<records, crashes, lost>>

\* Any of the three statements fails, the last one also when the row was reclaimed
\* meanwhile and its slot or its subscription is taken again.
InviteFail(p) ==
  /\ At(p, "inviting") \/ At(p, "tasking") \/ At(p, "marking")
  /\ NotAllocated(p)
  /\ UNCHANGED <<table, records, crashes, lost>>

\* waitlistEntry.create in the catch block.
JoinWaitlist(p) ==
  /\ At(p, "waitlisting")
  /\ waitlist' = Append(waitlist, [sub |-> job[p].sub, status |-> "WAITING"])
  /\ Goto(p, Idle)
  /\ UNCHANGED <<table, payment, invites, tasks, crashes, lost>>

\* A member registers through /api/waitlist; the entry names no subscription.
JoinAsMember ==
  /\ Cardinality({i \in 1..Len(waitlist) : waitlist[i].sub = Nobody}) < MaxMembers
  /\ waitlist' = Append(waitlist, [sub |-> Nobody, status |-> "WAITING"])
  /\ UNCHANGED <<table, payment, invites, tasks, job, crashes, lost>>

-------------------------------------------------------------------------------
(* processWaitlist *)

FetchWaitlist(w) ==
  /\ At(w, "idle")
  /\ NextBatch # {}
  /\ Goto(w, [pc |-> "serving", batch |-> NextBatch])
  /\ UNCHANGED <<table, records, crashes, lost>>

\* Seeded fault: an entry without a subscription ends the round (break for continue).
SkipMemberStops(w) ==
  /\ At(w, "serving")
  /\ waitlist[Current(w)].sub = Nobody
  /\ Goto(w, Idle)
  /\ UNCHANGED <<table, records, crashes, lost>>

SkipMember(w) ==
  /\ At(w, "serving")
  /\ waitlist[Current(w)].sub = Nobody
  /\ Advance(w)
  /\ UNCHANGED <<table, records, crashes, lost>>

RecordServed(w) ==
  /\ At(w, "recording")
  /\ waitlist' = [waitlist EXCEPT ![Current(w)].status = "ALLOCATED"]
  /\ Advance(w)
  /\ UNCHANGED <<table, payment, invites, tasks, crashes, lost>>

-------------------------------------------------------------------------------
(* The operator, and crashes *)

\* Seeded fault: the reclaim deletes the allocation row.
ConfirmReclaimDeletes(a) ==
  /\ invites[a] > 0
  /\ allocation' = [allocation EXCEPT ![a] = NoRow]
  /\ UNCHANGED <<open, tx, records, job, crashes, lost>>

\* confirmReclaim reaches a row through one of its invitations and checks no status.
ConfirmReclaim(a) ==
  /\ invites[a] > 0
  /\ SA!ReleaseSlot(a)
  /\ UNCHANGED <<records, job, crashes, lost>>

\* The process dies, or the write of a waitlist entry fails: an open transaction rolls
\* back, everything committed stays.
Crash(p) ==
  /\ ~At(p, "idle")
  /\ crashes < MaxCrashes
  /\ crashes' = crashes + 1
  /\ lost' = lost \cup {s \in Sub : p \in Payer /\ InHand(p, s) /\ ~HasRow(s)}
  /\ tx' = [tx EXCEPT ![p] = SA!Idle]
  /\ Goto(p, Idle)
  /\ UNCHANGED <<allocation, open, records>>

Request(p) ==
  \/ \E s \in Sub : ConfirmRead(p, s)
  \/ ConfirmCommit(p)
  \/ ConfirmRollback(p)
  \/ CreateInvitation(p)
  \/ CreateTask(p)
  \/ MarkInvited(p)
  \/ InviteFail(p)
  \/ JoinWaitlist(p)

Serve(w) == FetchWaitlist(w) \/ SkipMember(w) \/ RecordServed(w)

Allocate(p) ==
  \/ \E a \in Alloc : AllocateExisting(p, a) \/ AllocateReserve(p, a)
  \/ AllocateBegin(p)
  \/ AllocateLock(p)
  \/ AllocateFail(p)

Next ==
  \/ \E p \in Payer : Request(p)
  \/ \E w \in Worker : Serve(w)
  \/ \E p \in Payer \cup Worker : Allocate(p) \/ Crash(p)
  \/ \E a \in Alloc : ConfirmReclaim(a)
  \/ JoinAsMember

Spec == Init /\ [][Next]_vars

\* A request once begun runs on, a scheduled worker comes round again and again, and
\* an overlapping transaction that makes allocateSlot fail is not there for ever.
Fairness ==
  /\ \A p \in Payer :
       /\ WF_vars(ConfirmCommit(p) \/ CreateInvitation(p) \/ CreateTask(p))
       /\ WF_vars(MarkInvited(p) \/ InviteFail(p))
       /\ WF_vars(JoinWaitlist(p))
       /\ WF_vars(Allocate(p))
  /\ \A w \in Worker :
       /\ WF_vars(Serve(w))
       /\ WF_vars(Allocate(w))
       /\ SF_vars(AllocateLock(w))
       /\ SF_vars(\E a \in Alloc : AllocateReserve(w, a))

FairSpec == Spec /\ Fairness

-------------------------------------------------------------------------------
(* Properties *)

\* A transaction of allocateSlot is open only inside a call of it, made by a request for
\* the subscription it has in hand or by a worker for the oldest entry of its batch, and
\* the row a request then writes invitations for is a row of its subscription, reclaimed
\* or not.
CallsInStep ==
  /\ \A p \in Payer :
       /\ tx[p].phase # "idle" => At(p, "allocating") /\ job[p].sub = tx[p].sub
       /\ job[p].pc \in {"inviting", "tasking", "marking"} =>
            allocation[job[p].row] # NoRow /\ allocation[job[p].row].sub = job[p].sub
  /\ \A w \in Worker :
       tx[w].phase # "idle" => At(w, "serving") /\ waitlist[Current(w)].sub = tx[w].sub

\* No paid subscription is forgotten: it has been seated, or stands on the waitlist, or
\* a request is still busy with it, whatever failed in allocateSlot or in the three
\* statements of createInvitationTask.  A crash is the one exception.
PaidNotForgotten ==
  \A s \in Sub :
    payment[s] = "CONFIRMED" =>
      HasRow(s) \/ HasEntry(s) \/ (\E p \in Payer : InHand(p, s)) \/ s \in lost

\* The waitlist is served in the order in which payers joined it: when an entry has
\* been served so has every older entry of a subscription, although several workers
\* walk batches fetched at different times and any of them may fail half way.
WaitlistFIFO ==
  \A i, j \in 1..Len(waitlist) :
    i < j /\ waitlist[j].status = "ALLOCATED" /\ waitlist[i].sub # Nobody
      => waitlist[i].status = "ALLOCATED"

\* An entry is only marked ALLOCATED once its subscription has been given a row.
ServedHasRow ==
  \A i \in 1..Len(waitlist) :
    waitlist[i].status = "ALLOCATED" => waitlist[i].sub \in Sub /\ HasRow(waitlist[i].sub)

\* Requests, workers and the operator together do nothing to the allocations table
\* that SlotAllocation does not allow, so its theorems hold of this system too.
UsesAllocation == SA!Spec

MaxEntries == Cardinality(Sub) * Cardinality(Payer) + MaxMembers

PayerWaits(i) ==
  i <= Len(waitlist) /\ waitlist[i].sub # Nobody /\ waitlist[i].status = "WAITING"

RowsUsedUp == \A a \in Alloc : allocation[a] # NoRow

\* With seats for everybody and fewer member entries than a batch takes, every payer
\* on the waitlist is served: neither a failed call, nor a crashed worker, nor member
\* entries ahead of it keep it waiting for ever.
WaitersServed ==
  \A i \in 1..MaxEntries : PayerWaits(i) ~> (~PayerWaits(i) \/ RowsUsedUp)
===============================================================================
