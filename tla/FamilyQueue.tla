------------------------------ MODULE FamilyQueue -----------------------------
(***************************************************************************)
(* The queue of family automation: FamilyJobService and the polling loop   *)
(* of the family runner that claims a job, drives the owner account's      *)
(* family page with it and reports the outcome.  claimNext is a            *)
(* transaction of four statements at READ COMMITTED; everything else is a  *)
(* read and a later write by id.                                           *)
(***************************************************************************)
EXTENDS Naturals

CONSTANTS
  Job,         \* jobs, numbered in the order of requestedAt
  Owner,       \* owner accounts
  OwnerOf,     \* the account a job works on
  Runner,      \* runner processes
  Id,          \* worker ids
  IdOf,        \* FAMILY_RUNNER_ID of each runner
  Operator,    \* operators' requests under way
  Nobody,      \* lockedBy is null
  Slow,        \* a job may take longer than FAMILY_JOB_STALE_LOCK_MS
  MaxRetries,  \* bound: how many retries operators ask for
  MaxCrashes   \* bound: how many times a runner dies or its poll throws

Queue == {"QUEUED"}
Busy == {"CLAIMED", "IN_PROGRESS"}
Outcome == {"SUCCEEDED", "AWAITING_HUMAN", "FAILED", "EXTERNAL_RESULT_UNKNOWN"}
Status == {"NONE"} \cup Queue \cup Busy \cup Outcome
Row == [status : Status, lockedBy : Id \cup {Nobody}, stale : BOOLEAN]

ASSUME JobAssumption == Job \subseteq Nat /\ OwnerOf \in [Job -> Owner]
ASSUME RunnerAssumption == IdOf \in [Runner -> Id] /\ Nobody \notin Id
ASSUME SessionAssumption == Runner \cap Operator = {}
ASSUME BoundAssumption == Slow \in BOOLEAN /\ MaxRetries \in Nat /\ MaxCrashes \in Nat

VARIABLES
  job,        \* the family_jobs table; NONE is a job not yet enqueued
  at,         \* where each runner and each operator's request is
  stopped,    \* the global emergency stop
  performed,  \* history: jobs whose driver has come back with success
  retries,    \* how many retries there have been
  crashes     \* how many crashes there have been

vars == <<job, at, stopped, performed, retries, crashes>>

-------------------------------------------------------------------------------
(* Where a runner is                                                              *)
(*   polling    it has found no emergency stop                                    *)
(*   reclaimed  claimNext's transaction has put the jobs in rows back in the      *)
(*              queue, and holds their row locks; nobody else sees it yet         *)
(*   surveyed   and has read which accounts are busy                              *)
(*   picked     and has read the oldest job it may take                           *)
(*   claimed    the transaction has committed; marking: markInProgress has found  *)
(*              the job locked by this worker; executing: the driver is at work;  *)
(*              reporting: the driver has come back with outcome                  *)
(* An operator's request is at retrying when it has found its job retryable.      *)

Idle == [pc |-> "idle"]

RunnerAt ==
  {Idle, [pc |-> "polling"]}
    \cup [pc : {"reclaimed"}, rows : SUBSET Job]
    \cup [pc : {"surveyed"}, rows : SUBSET Job, busy : SUBSET Owner]
    \cup [pc : {"picked"}, rows : SUBSET Job, of : Job]
    \cup [pc : {"claimed", "marking", "executing"}, of : Job]
    \cup [pc : {"reporting"}, of : Job, outcome : Outcome]

OperatorAt == {Idle} \cup [pc : {"retrying"}, of : Job]

InClaim(r) == at[r].pc \in {"reclaimed", "surveyed", "picked"}

Working(r) == at[r].pc \in {"claimed", "marking", "executing", "reporting"}

Has(j, S) == job[j].status \in S

\* No other transaction holds the row lock of j.
Unlocked(j, r) == \A q \in Runner \ {r} : InClaim(q) => j \notin at[q].rows

Goto(p, where) == at' = [at EXCEPT ![p] = where]

Earliest(S) == CHOOSE j \in S : \A i \in S : j <= i

Free(status) == [status |-> status, lockedBy |-> Nobody, stale |-> FALSE]

TypeOK ==
  /\ job \in [Job -> Row]
  /\ at \in [Runner \cup Operator -> RunnerAt \cup OperatorAt]
  /\ \A r \in Runner : at[r] \in RunnerAt
  /\ \A p \in Operator : at[p] \in OperatorAt
  /\ stopped \in BOOLEAN
  /\ performed \subseteq Job
  /\ retries \in 0..MaxRetries
  /\ crashes \in 0..MaxCrashes

Init ==
  /\ job = [j \in Job |-> Free("NONE")]
  /\ at = [p \in Runner \cup Operator |-> Idle]
  /\ stopped = FALSE
  /\ performed = {}
  /\ retries = 0
  /\ crashes = 0

-------------------------------------------------------------------------------
(* Operators *)

\* enqueue: the gate lets the job into the queue or has it recorded FAILED.  A key used
\* before returns the job it made.
Enqueue(j) ==
  /\ Has(j, {"NONE"})
  /\ \A i \in Job : i < j => ~Has(i, {"NONE"})
  /\ \E status \in {"QUEUED", "FAILED"} : job' = [job EXCEPT ![j] = Free(status)]
  /\ UNCHANGED <<at, stopped, performed, retries, crashes>>

\* Seeded fault: any job can be retried.
RetryReadAny(p, j) ==
  /\ at[p] = Idle
  /\ retries < MaxRetries
  /\ ~Has(j, {"NONE"})
  /\ retries' = retries + 1
  /\ Goto(p, [pc |-> "retrying", of |-> j])
  /\ UNCHANGED <<job, stopped, performed, crashes>>

RetryRead(p, j) ==
  /\ at[p] = Idle
  /\ retries < MaxRetries
  /\ Has(j, {"FAILED", "AWAITING_HUMAN", "EXTERNAL_RESULT_UNKNOWN"})
  /\ retries' = retries + 1
  /\ Goto(p, [pc |-> "retrying", of |-> j])
  /\ UNCHANGED <<job, stopped, performed, crashes>>

RetryWrite(p) ==
  /\ at[p].pc = "retrying"
  /\ \A r \in Runner : InClaim(r) => at[p].of \notin at[r].rows
  /\ job' = [job EXCEPT ![at[p].of] = Free("QUEUED")]
  /\ Goto(p, Idle)
  /\ UNCHANGED <<stopped, performed, retries, crashes>>

RetryFail(p) ==
  /\ at[p].pc = "retrying"
  /\ Goto(p, Idle)
  /\ UNCHANGED <<job, stopped, performed, retries, crashes>>

EmergencyStop ==
  /\ stopped' = ~stopped
  /\ UNCHANGED <<job, at, performed, retries, crashes>>

-------------------------------------------------------------------------------
(* A runner claims a job *)

Poll(r) ==
  /\ at[r] = Idle
  /\ ~stopped
  /\ Goto(r, [pc |-> "polling"])
  /\ UNCHANGED <<job, stopped, performed, retries, crashes>>

\* Five minutes pass since a job was locked.
LockAges(j) ==
  /\ job[j].lockedBy # Nobody
  /\ ~job[j].stale
  /\ Slow \/ \A r \in Runner : Working(r) => at[r].of # j
  /\ job' = [job EXCEPT ![j].stale = TRUE]
  /\ UNCHANGED <<at, stopped, performed, retries, crashes>>

\* Seeded fault: only a lock of a job IN_PROGRESS is ever given back.
ReclaimInProgress(r) ==
  /\ at[r].pc = "polling"
  /\ Goto(r, [pc   |-> "reclaimed",
              rows |-> {j \in Job : Has(j, {"IN_PROGRESS"}) /\ job[j].stale}])
  /\ UNCHANGED <<job, stopped, performed, retries, crashes>>

\* updateMany of the busy jobs with a stale lock, which waits for their row locks.
Reclaim(r) ==
  LET rows == {j \in Job : Has(j, Busy) /\ job[j].stale} IN
  /\ at[r].pc = "polling"
  /\ \A j \in rows : Unlocked(j, r)
  /\ Goto(r, [pc |-> "reclaimed", rows |-> rows])
  /\ UNCHANGED <<job, stopped, performed, retries, crashes>>

\* Seeded fault: an account is busy only while a job of it is IN_PROGRESS.
SurveyInProgress(r) ==
  /\ at[r].pc = "reclaimed"
  /\ Goto(r, [pc   |-> "surveyed",
              rows |-> at[r].rows,
              busy |-> {OwnerOf[j] : j \in {i \in Job \ at[r].rows : Has(i, {"IN_PROGRESS"})}}])
  /\ UNCHANGED <<job, stopped, performed, retries, crashes>>

\* findMany of the busy accounts: what is committed, and the transaction's own rows.
Survey(r) ==
  /\ at[r].pc = "reclaimed"
  /\ Goto(r, [pc   |-> "surveyed",
              rows |-> at[r].rows,
              busy |-> {OwnerOf[j] : j \in {i \in Job \ at[r].rows : Has(i, Busy)}}])
  /\ UNCHANGED <<job, stopped, performed, retries, crashes>>

Candidates(r) ==
  {j \in Job : (Has(j, Queue) \/ j \in at[r].rows) /\ OwnerOf[j] \notin at[r].busy}

\* findMany of the oldest queued job of the other accounts.
Pick(r) ==
  /\ at[r].pc = "surveyed"
  /\ Candidates(r) # {}
  /\ Goto(r, [pc |-> "picked", rows |-> at[r].rows, of |-> Earliest(Candidates(r))])
  /\ UNCHANGED <<job, stopped, performed, retries, crashes>>

\* There is none: null is returned and the reclaimed jobs are committed.
PickNone(r) ==
  /\ at[r].pc = "surveyed"
  /\ Candidates(r) = {}
  /\ job' = [j \in Job |-> IF j \in at[r].rows THEN Free("QUEUED") ELSE job[j]]
  /\ Goto(r, Idle)
  /\ UNCHANGED <<stopped, performed, retries, crashes>>

\* The update by id, whatever the job has become meanwhile, and the commit.
Claim(r) ==
  LET c == at[r].of IN
  /\ at[r].pc = "picked"
  /\ Unlocked(c, r)
  /\ job' = [j \in Job |->
               IF j = c THEN [status |-> "CLAIMED", lockedBy |-> IdOf[r], stale |-> FALSE]
               ELSE IF j \in at[r].rows THEN Free("QUEUED")
               ELSE job[j]]
  /\ Goto(r, [pc |-> "claimed", of |-> c])
  /\ UNCHANGED <<stopped, performed, retries, crashes>>

-------------------------------------------------------------------------------
(* A runner works on the job it claimed *)

\* markInProgress reads who has locked the job; another worker's id makes the poll throw.
MarkRead(r) ==
  /\ at[r].pc = "claimed"
  /\ Goto(r, IF job[at[r].of].lockedBy = IdOf[r]
             THEN [pc |-> "marking", of |-> at[r].of] ELSE Idle)
  /\ UNCHANGED <<job, stopped, performed, retries, crashes>>

MarkWrite(r) ==
  /\ at[r].pc = "marking"
  /\ Unlocked(at[r].of, r)
  /\ job' = [job EXCEPT ![at[r].of].status = "IN_PROGRESS"]
  /\ Goto(r, [pc |-> "executing", of |-> at[r].of])
  /\ UNCHANGED <<stopped, performed, retries, crashes>>

\* The driver comes back.
Execute(r, outcome) ==
  /\ at[r].pc = "executing"
  /\ Goto(r, [pc |-> "reporting", of |-> at[r].of, outcome |-> outcome])
  /\ performed' = IF outcome = "SUCCEEDED" THEN performed \cup {at[r].of} ELSE performed
  /\ UNCHANGED <<job, stopped, retries, crashes>>

\* Seeded fault: an unknown result is completed with complete's default status.
ReportDefault(r) ==
  /\ at[r].pc = "reporting"
  /\ Unlocked(at[r].of, r)
  /\ job' = [job EXCEPT ![at[r].of] =
               Free(IF at[r].outcome = "EXTERNAL_RESULT_UNKNOWN"
                    THEN "SUCCEEDED" ELSE at[r].outcome)]
  /\ Goto(r, Idle)
  /\ UNCHANGED <<stopped, performed, retries, crashes>>

\* complete, awaitHuman or fail: by id, and the lock is gone.
Report(r) ==
  /\ at[r].pc = "reporting"
  /\ Unlocked(at[r].of, r)
  /\ job' = [job EXCEPT ![at[r].of] = Free(at[r].outcome)]
  /\ Goto(r, Idle)
  /\ UNCHANGED <<stopped, performed, retries, crashes>>

\* The runner dies and is restarted, or its poll throws: an open transaction rolls back,
\* a job it was working on stays as it is.
Crash(r) ==
  /\ at[r] # Idle
  /\ crashes < MaxCrashes
  /\ crashes' = crashes + 1
  /\ Goto(r, Idle)
  /\ UNCHANGED <<job, stopped, performed, retries>>

Step(r) ==
  \/ Poll(r)
  \/ Reclaim(r)
  \/ Survey(r)
  \/ Pick(r)
  \/ PickNone(r)
  \/ Claim(r)
  \/ MarkRead(r)
  \/ MarkWrite(r)
  \/ \E outcome \in Outcome : Execute(r, outcome)
  \/ Report(r)

Next ==
  \/ \E j \in Job : Enqueue(j) \/ LockAges(j)
  \/ \E p \in Operator : (\E j \in Job : RetryRead(p, j)) \/ RetryWrite(p) \/ RetryFail(p)
  \/ EmergencyStop
  \/ \E r \in Runner : Step(r) \/ Crash(r)

Spec == Init /\ [][Next]_vars

\* The runner's loop runs on, and time passes.
Fairness ==
  /\ \A r \in Runner : WF_vars(Step(r))
  /\ \A j \in Job : WF_vars(LockAges(j))

FairSpec == Spec /\ Fairness

-------------------------------------------------------------------------------
(* Properties *)

\* The account lock: no two jobs of an owner account are CLAIMED or IN_PROGRESS at the
\* same time, through crashes, stale locks given back and retries.
AccountLock ==
  \A i, j \in Job : Has(i, Busy) /\ Has(j, Busy) /\ i # j => OwnerOf[i] # OwnerOf[j]

\* While a runner works on a job, the job's row says so: nothing an operator or a stale
\* lock does takes the job, and with it the account, away from under the driver.
WorkLocked ==
  \A r \in Runner :
    Working(r) =>
      /\ job[at[r].of].lockedBy = IdOf[r]
      /\ Has(at[r].of, IF at[r].pc \in {"executing", "reporting"}
                       THEN {"IN_PROGRESS"} ELSE {"CLAIMED"})

\* A busy job always has a lock that can age: otherwise no claimNext would ever give it
\* back and its account would be blocked for good.
NoZombie == \A j \in Job : Has(j, Busy) <=> job[j].lockedBy # Nobody

\* No job is marked SUCCEEDED that no driver has carried out.
SucceededPerformed == \A j \in Job : Has(j, {"SUCCEEDED"}) => j \in performed

\* A queued job is eventually brought to an outcome, though its runner may die on it and
\* other jobs of its account come first, as long as there is no emergency stop.
JobsSettle ==
  \A j \in Job : Has(j, Queue \cup Busy) ~> (Has(j, Outcome) \/ stopped)
===============================================================================
