----------------------------- MODULE FamilyMembers -----------------------------
(***************************************************************************)
(* The members of one family group: what the external family page shows,   *)
(* what the service has observed of it, and the jobs by which operators    *)
(* invite customers and remove them.  FamilyInviteService,                 *)
(* FamilyRemovalService, FamilyCapacityService, FamilySyncService, and     *)
(* what the family runner does for a job.  One runner works off the jobs   *)
(* in the order of requestedAt (FamilyQueue shows how it comes by them).   *)
(* What the gate and the mode of the group decide is left open.            *)
(***************************************************************************)
EXTENDS Integers, Sequences, FiniteSets

CONSTANTS
  Customer,    \* customers; each has at most one allocation of a slot of the group
  Nobody,      \* an inspection is of nobody
  Operator,    \* operators' requests under way
  Capacity,    \* capacityTotal, what the page says the family holds
  Seats,       \* how many slots of the group customers can hold at once
  MaxJobs,     \* bound: how many jobs there ever are
  MaxRetries,  \* bound: how many retries operators ask for
  MaxCrashes   \* bound: how many times the runner dies

AdminSeats == 1

ASSUME NobodyAssumption == Nobody \notin Customer
ASSUME SizeAssumption == Capacity \in Nat /\ Seats \in Nat
ASSUME BoundAssumption == MaxJobs \in Nat /\ MaxRetries \in Nat /\ MaxCrashes \in Nat

VARIABLES
  alloc,     \* status of each customer's allocation
  page,      \* where each customer is on the family page
  link,      \* there is a FamilyGroupLink of the group
  row,       \* the FamilyExternalMember of a customer and a kind
  job,       \* the jobs of the group in the order of requestedAt
  runner,    \* where the runner is
  op,        \* where each operator's request is
  retries,   \* how many retries there have been
  crashes    \* how many crashes there have been

vars == <<alloc, page, link, row, job, runner, op, retries, crashes>>

-------------------------------------------------------------------------------
(* Vocabulary *)

\* RESERVED stands for INVITED too: nothing here tells them apart.
Live == {"RESERVED", "ACTIVE", "PENDING_RECLAIM"}
AllocationStatus == {"NONE", "RECLAIMED"} \cup Live
Kind == {"MEMBER", "PENDING_INVITE"}

\* linked: the row carries the allocation of its customer.
Row == [status : {"none", "INVITED", "JOINED", "REMOVAL_PENDING", "REMOVED"},
        linked : BOOLEAN]
NoRow == [status |-> "none", linked |-> FALSE]

\* AWAITING_HUMAN is the assisted driver's only outcome; FAILED stands for
\* EXTERNAL_RESULT_UNKNOWN too, which is treated alike from then on.
Open == {"QUEUED", "IN_PROGRESS", "AWAITING_HUMAN"}
Outcome == {"SUCCEEDED", "FAILED", "AWAITING_HUMAN"}
Retryable == {"FAILED", "AWAITING_HUMAN"}

\* owned: the job carries the allocation of its customer.
JobType == {"INSPECT", "INVITE", "REMOVE_MEMBER"}
Job == [type : JobType, of : Customer \cup {Nobody}, owned : BOOLEAN,
        status : Open \cup Outcome]

PageState == [Customer -> {"absent", "invited", "joined"}]

\* observed: the driver has come back from an inspection, seen is what it read;
\* invited, removed: it has come back from that; confirming: a removed customer's row is
\* REMOVED; applied: everything but the job itself is written.
Idle == [pc |-> "idle"]
RunnerAt ==
  {Idle} \cup [pc : {"executing", "invited", "removed", "confirming"}, of : 1..MaxJobs]
         \cup [pc : {"observed"}, of : 1..MaxJobs, seen : PageState]
         \cup [pc : {"applied"}, of : 1..MaxJobs, outcome : Outcome]
OperatorAt ==
  {Idle} \cup [pc : {"inviting"}, of : Customer]
         \cup [pc : {"marking", "removing"}, of : Customer, kind : Kind, owned : BOOLEAN]
         \cup [pc : {"retrying"}, of : 1..MaxJobs]

TypeOK ==
  /\ alloc \in [Customer -> AllocationStatus]
  /\ page \in PageState
  /\ link \in BOOLEAN
  /\ row \in [Customer \X Kind -> Row]
  /\ job \in Seq(Job) /\ Len(job) <= MaxJobs
  /\ runner \in RunnerAt /\ (runner # Idle => runner.of \in DOMAIN job)
  /\ op \in [Operator -> OperatorAt]
  /\ retries \in 0..MaxRetries
  /\ crashes \in 0..MaxCrashes

\* A group that operators have made is empty and not linked to a page yet; one that a
\* spreadsheet was imported into is linked, and has rows of members who are there already.
Init ==
  /\ alloc = [c \in Customer |-> "NONE"]
  /\ link \in BOOLEAN
  /\ \E imported \in SUBSET Customer :
       /\ imported # {} => link
       /\ page = [c \in Customer |-> IF c \in imported THEN "joined" ELSE "absent"]
       /\ row = [r \in Customer \X Kind |->
                   IF r[1] \in imported /\ r[2] = "MEMBER" THEN [NoRow EXCEPT !.status = "JOINED"]
                   ELSE NoRow]
  /\ job = <<>>
  /\ runner = Idle
  /\ op = [p \in Operator |-> Idle]
  /\ retries = 0
  /\ crashes = 0

-------------------------------------------------------------------------------
(* Capacity *)

\* c's row of kind k is there and not REMOVED.
Observed(c, k) == row[<<c, k>>].status \notin {"none", "REMOVED"}

Rows(Test(_, _)) == Cardinality({r \in Customer \X Kind : Test(r[1], r[2])})

Joined(c, k) == k = "MEMBER" /\ row[<<c, k>>].status = "JOINED"
Pending(c, k) ==
  row[<<c, k>>].status = "INVITED" \/ (k = "PENDING_INVITE" /\ row[<<c, k>>].status # "none")
Leaving(c, k) == row[<<c, k>>].status = "REMOVAL_PENDING"

Reserved ==
  Cardinality({c \in Customer : alloc[c] = "RESERVED" /\ ~\E k \in Kind : row[<<c, k>>].linked})

\* calculateAssignableCapacity over getGroupCapacity's counts.
Occupied == AdminSeats + Rows(Joined) + Rows(Pending) + Rows(Leaving) + Reserved

Contradictory == Occupied > Capacity

Assignable == IF Contradictory THEN 0 ELSE Capacity - Occupied

-------------------------------------------------------------------------------
(* The world outside the family jobs *)

\* The slots that are taken when c holds one; the unique index on live allocations of a
\* slot refuses more than there are.
Taken(c) == Cardinality({d \in Customer : d = c \/ alloc[d] \in Live})

\* allocateSlot hands c a slot of the group.
Reserve(c) ==
  /\ alloc[c] = "NONE"
  /\ Taken(c) <= Seats
  /\ alloc' = [alloc EXCEPT ![c] = "RESERVED"]
  /\ UNCHANGED <<page, link, row, job, runner, op, retries, crashes>>

\* confirmActivation and createReclaimTasks.
Progress(c) ==
  /\ \E s \in {<<"RESERVED", "ACTIVE">>, <<"RESERVED", "PENDING_RECLAIM">>,
                <<"ACTIVE", "PENDING_RECLAIM">>} :
       alloc[c] = s[1] /\ alloc' = [alloc EXCEPT ![c] = s[2]]
  /\ UNCHANGED <<page, link, row, job, runner, op, retries, crashes>>

\* confirmReclaim: the operator says that c is off the page, and is right.
ReclaimByHand(c) ==
  /\ alloc[c] \in Live
  /\ page[c] = "absent"
  /\ alloc' = [alloc EXCEPT ![c] = "RECLAIMED"]
  /\ UNCHANGED <<page, link, row, job, runner, op, retries, crashes>>

Accept(c) ==
  /\ page[c] = "invited"
  /\ page' = [page EXCEPT ![c] = "joined"]
  /\ UNCHANGED <<alloc, link, row, job, runner, op, retries, crashes>>

\* c leaves, or the page has forgotten it.
Leave(c) ==
  /\ page[c] # "absent"
  /\ page' = [page EXCEPT ![c] = "absent"]
  /\ UNCHANGED <<alloc, link, row, job, runner, op, retries, crashes>>

-------------------------------------------------------------------------------
(* Operators *)

Goto(p, where) == op' = [op EXCEPT ![p] = where]

\* enqueue: the gate lets the job into the queue, or has it recorded as FAILED.
Enqueue(type, c, owned) ==
  /\ Len(job) < MaxJobs
  /\ \E status \in {"QUEUED", "FAILED"} :
       job' = Append(job, [type |-> type, of |-> c, owned |-> owned, status |-> status])

Inspect ==
  /\ Enqueue("INSPECT", Nobody, FALSE)
  /\ UNCHANGED <<alloc, page, link, row, runner, op, retries, crashes>>

\* What enqueueInvite makes sure of; a duplicate or a key used before returns the job
\* that is there.
InviteCheck(p, c) ==
  /\ op[p] = Idle
  /\ alloc[c] = "RESERVED"
  /\ \A i \in DOMAIN job : job[i].type = "INVITE" /\ job[i].of = c => job[i].status \notin Open
  /\ link => \A k \in Kind : ~Observed(c, k)
  /\ Assignable >= 1
  /\ Goto(p, [pc |-> "inviting", of |-> c])
  /\ UNCHANGED <<alloc, page, link, row, job, runner, retries, crashes>>

InviteEnqueue(p) ==
  /\ op[p].pc = "inviting"
  /\ Enqueue("INVITE", op[p].of, TRUE)
  /\ Goto(p, Idle)
  /\ UNCHANGED <<alloc, page, link, row, runner, retries, crashes>>

\* enqueueRemove picks a row and reads the allocation: the one the operator names, or
\* the row's.
RemoveRead(p, c, k, owned) ==
  /\ op[p] = Idle
  /\ link
  /\ Observed(c, k)
  /\ IF owned THEN alloc[c] \notin {"NONE", "RECLAIMED"} ELSE ~row[<<c, k>>].linked
  /\ Goto(p, [pc    |-> IF owned /\ alloc[c] # "PENDING_RECLAIM" THEN "marking" ELSE "removing",
              of    |-> c, kind |-> k, owned |-> owned])
  /\ UNCHANGED <<alloc, page, link, row, job, runner, retries, crashes>>

\* Seeded fault: the seat is given back when the removal is asked for.
RemoveMarkReclaimed(p) ==
  /\ op[p].pc = "marking"
  /\ alloc' = [alloc EXCEPT ![op[p].of] = "RECLAIMED"]
  /\ Goto(p, [op[p] EXCEPT !.pc = "removing"])
  /\ UNCHANGED <<page, link, row, job, runner, retries, crashes>>

\* Seeded fault: the seat is left as it is until the removal is confirmed.
RemoveMarkNothing(p) ==
  /\ op[p].pc = "marking"
  /\ Goto(p, [op[p] EXCEPT !.pc = "removing"])
  /\ UNCHANGED <<alloc, page, link, row, job, runner, retries, crashes>>

RemoveMark(p) ==
  /\ op[p].pc = "marking"
  /\ Taken(op[p].of) <= Seats
  /\ alloc' = [alloc EXCEPT ![op[p].of] = "PENDING_RECLAIM"]
  /\ Goto(p, [op[p] EXCEPT !.pc = "removing"])
  /\ UNCHANGED <<page, link, row, job, runner, retries, crashes>>

RemoveEnqueue(p) ==
  /\ op[p].pc = "removing"
  /\ row' = [row EXCEPT ![<<op[p].of, op[p].kind>>].status = "REMOVAL_PENDING"]
  /\ Enqueue("REMOVE_MEMBER", op[p].of, op[p].owned)
  /\ Goto(p, Idle)
  /\ UNCHANGED <<alloc, page, link, runner, retries, crashes>>

RetryRead(p, i) ==
  /\ op[p] = Idle
  /\ retries < MaxRetries
  /\ job[i].status \in Retryable
  /\ retries' = retries + 1
  /\ Goto(p, [pc |-> "retrying", of |-> i])
  /\ UNCHANGED <<alloc, page, link, row, job, runner, crashes>>

RetryWrite(p) ==
  /\ op[p].pc = "retrying"
  /\ job' = [job EXCEPT ![op[p].of].status = "QUEUED"]
  /\ Goto(p, Idle)
  /\ UNCHANGED <<alloc, page, link, row, runner, retries, crashes>>

\* A statement of the request fails, or its process dies.
RequestFails(p) ==
  /\ op[p] # Idle
  /\ Goto(p, Idle)
  /\ UNCHANGED <<alloc, page, link, row, job, runner, retries, crashes>>

-------------------------------------------------------------------------------
(* The runner *)

Running(pc) == runner.pc = pc

\* The job the runner is working on.
Mine == job[runner.of]

Claim(i) ==
  /\ runner = Idle
  /\ job[i].status = "QUEUED"
  /\ \A j \in 1..(i - 1) : job[j].status # "QUEUED"
  /\ job' = [job EXCEPT ![i].status = "IN_PROGRESS"]
  /\ runner' = [pc |-> "executing", of |-> i]
  /\ UNCHANGED <<alloc, page, link, row, op, retries, crashes>>

Reach(pc) == runner' = [pc |-> pc, of |-> runner.of]
Applied(outcome) == runner' = [pc |-> "applied", of |-> runner.of, outcome |-> outcome]

Drives(type) == Running("executing") /\ Mine.type = type

Move(c, where) == page' = [page EXCEPT ![c] = where]

\* The group is in assisted mode, whose driver does nothing.
ExecuteAssisted ==
  /\ Running("executing")
  /\ Applied("AWAITING_HUMAN")
  /\ UNCHANGED <<alloc, page, link, row, job, op, retries, crashes>>

ExecuteInspect ==
  /\ Drives("INSPECT")
  /\ runner' = [pc |-> "observed", of |-> runner.of, seen |-> page]
  /\ UNCHANGED <<alloc, page, link, row, job, op, retries, crashes>>

Invited(c) == Move(c, IF page[c] = "absent" THEN "invited" ELSE page[c])

\* The invitation is sent without a look at who is there; the page takes nobody twice.
ExecuteInvite ==
  /\ Drives("INVITE")
  /\ Invited(Mine.of)
  /\ Reach("invited")
  /\ UNCHANGED <<alloc, link, row, job, op, retries, crashes>>

ExecuteRemove ==
  /\ Drives("REMOVE_MEMBER")
  /\ page[Mine.of] # "absent"
  /\ Move(Mine.of, "absent")
  /\ Reach("removed")
  /\ UNCHANGED <<alloc, link, row, job, op, retries, crashes>>

\* The driver fails, or cannot tell what came of it, before its click or after it.
ExecuteFails ==
  /\ Running("executing")
  /\ \/ UNCHANGED page
     \/ Mine.type = "INVITE" /\ Invited(Mine.of)
     \/ Mine.type = "REMOVE_MEMBER" /\ Move(Mine.of, "absent")
  /\ Applied("FAILED")
  /\ UNCHANGED <<alloc, link, row, job, op, retries, crashes>>

\* upsertPendingInvite, if the group is linked.
ApplyInvite ==
  /\ Running("invited")
  /\ row' = IF link
            THEN [row EXCEPT ![<<Mine.of, "PENDING_INVITE">>] =
                    [status |-> "INVITED", linked |-> TRUE]]
            ELSE row
  /\ Applied("SUCCEEDED")
  /\ UNCHANGED <<alloc, page, link, job, op, retries, crashes>>

\* The row a customer of the snapshot has, by kind.
Seen(c, k) == runner.seen[c] = IF k = "MEMBER" THEN "joined" ELSE "invited"

\* applyExternalSnapshot: rows of what was seen; a member not seen is REMOVED, an
\* invitation not seen stays.
Synced(c, k) ==
  CASE Seen(c, k) -> IF k = "MEMBER" THEN "JOINED" ELSE "INVITED"
    [] ~Seen(c, k) /\ k = "MEMBER" /\ Observed(c, k) -> "REMOVED"
    [] OTHER -> row[<<c, k>>].status

\* Then each live allocation looks at one row of its customer, and takes it if it is free.
Matches(c) == {k \in Kind : Synced(c, k) \notin {"none", "REMOVED"}}
Linkings == {f \in [Customer -> Kind \cup {"NONE"}] :
               \A c \in Customer : IF alloc[c] \in Live /\ Matches(c) # {}
                                   THEN f[c] \in Matches(c) ELSE f[c] = "NONE"}

ApplyInspect ==
  /\ Running("observed")
  /\ link' = TRUE
  /\ \E f \in Linkings :
       row' = [r \in Customer \X Kind |->
                 [status |-> Synced(r[1], r[2]), linked |-> row[r].linked \/ f[r[1]] = r[2]]]
  /\ Applied("SUCCEEDED")
  /\ UNCHANGED <<alloc, page, job, op, retries, crashes>>

\* confirmRemovalVerified writes one of the customer's rows REMOVED, and then the
\* allocation of the job, or of that row, RECLAIMED.
ConfirmRow(k) ==
  /\ Running("removed")
  /\ row[<<Mine.of, k>>].status # "none"
  /\ row' = [row EXCEPT ![<<Mine.of, k>>].status = "REMOVED"]
  /\ IF Mine.owned \/ row[<<Mine.of, k>>].linked THEN Reach("confirming") ELSE Applied("SUCCEEDED")
  /\ UNCHANGED <<alloc, page, link, job, op, retries, crashes>>

ConfirmSeat ==
  /\ Running("confirming")
  /\ alloc' = [alloc EXCEPT ![Mine.of] = "RECLAIMED"]
  /\ Applied("SUCCEEDED")
  /\ UNCHANGED <<page, link, row, job, op, retries, crashes>>

\* A statement of confirmRemovalVerified fails: that is caught and logged, and the job
\* goes on to its success.
ConfirmFails ==
  /\ Running("removed") \/ Running("confirming")
  /\ Applied("SUCCEEDED")
  /\ UNCHANGED <<alloc, page, link, row, job, op, retries, crashes>>

\* complete, fail or awaitHuman.
Report ==
  /\ Running("applied")
  /\ job' = [job EXCEPT ![runner.of].status = runner.outcome]
  /\ runner' = Idle
  /\ UNCHANGED <<alloc, page, link, row, op, retries, crashes>>

\* The runner dies, and its job goes back to the queue when the lock is stale.
Crash ==
  /\ runner # Idle
  /\ crashes < MaxCrashes
  /\ crashes' = crashes + 1
  /\ job' = [job EXCEPT ![runner.of].status = "QUEUED"]
  /\ runner' = Idle
  /\ UNCHANGED <<alloc, page, link, row, op, retries>>

-------------------------------------------------------------------------------

Elsewhere ==
  \E c \in Customer : Reserve(c) \/ Progress(c) \/ ReclaimByHand(c) \/ Accept(c) \/ Leave(c)

Request(p) ==
  \/ Inspect
  \/ \E c \in Customer :
       \/ InviteCheck(p, c)
       \/ \E k \in Kind, owned \in BOOLEAN : RemoveRead(p, c, k, owned)
  \/ InviteEnqueue(p) \/ RemoveMark(p) \/ RemoveEnqueue(p)
  \/ (\E i \in DOMAIN job : RetryRead(p, i)) \/ RetryWrite(p)
  \/ RequestFails(p)

Work ==
  \/ \E i \in DOMAIN job : Claim(i)
  \/ ExecuteAssisted \/ ExecuteInspect \/ ExecuteInvite \/ ExecuteRemove \/ ExecuteFails
  \/ ApplyInvite \/ ApplyInspect
  \/ (\E k \in Kind : ConfirmRow(k)) \/ ConfirmSeat \/ ConfirmFails
  \/ Report
  \/ Crash

Next == Elsewhere \/ Work \/ \E p \in Operator : Request(p)

Spec == Init /\ [][Next]_vars

-------------------------------------------------------------------------------
(* Properties *)

\* Once the removal of a seat's holder has been asked for, no invitation of the same
\* customer waits behind it: the family is not asked to take back whom it is to let go.
NoReinvite ==
  \A i, j \in DOMAIN job :
    (/\ i < j
     /\ job[i].of = job[j].of
     /\ job[i].type = "REMOVE_MEMBER" /\ job[i].owned /\ job[i].status \in Open
     /\ job[j].type = "INVITE")
    => job[j].status \notin Open

\* A removal is only reported as a success when its customer's seat has been given back
\* or waits for that: the runner may have died, or only logged that it could not confirm
\* the removal, but the seat is not left as if nobody had gone.
RemovalAccounted ==
  [][\A i \in DOMAIN job :
       (/\ job[i].type = "REMOVE_MEMBER" /\ job[i].owned
        /\ job[i].status # "SUCCEEDED" /\ job'[i].status = "SUCCEEDED")
       => alloc[job[i].of] \in {"PENDING_RECLAIM", "RECLAIMED"}]_vars

Roster == INSTANCE FamilyRoster WITH
  known <- {c \in Customer : alloc[c] # "NONE"},
  held <- {c \in Customer : alloc[c] \in Live},
  here <- {c \in Customer : page[c] # "absent"}

\* The service implements the roster.
ImplementsRoster == Roster!Spec
===============================================================================
