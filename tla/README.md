# A TLA+ model of PremiumShare

PremiumShare sells seats in shared family subscriptions. A member orders a
product, pays by bank transfer, an operator confirms the payment, and the
system then seats the new subscription in a free slot of a group or puts it on
a waitlist, invites the member, reclaims the seat when the subscription ends
and refunds what is to be refunded. A queue of family jobs, worked off by a
runner process, keeps the external family pages in step, and a spreadsheet
importer sorts existing accounts into family groups.

The code is a TypeScript monorepo: a Next.js server (`apps/web`), a scheduler
(`apps/worker`), a runner (`apps/family-runner`) and the services they share
(`packages/domain/src/services`) over one PostgreSQL database, and a static
demo of the site that runs in a browser alone. But for the demo no state that
matters lives outside the database, so everything that can go wrong between two
requests goes wrong there: a status is read in one statement and written by id
in a later one, a transaction sees a snapshot or the rows committed so far, a
process dies between two commits. Those statements and what PostgreSQL makes of
them are what the modules model.

## Inventory

Paths are relative to `packages/domain/src/services` unless they start with
`apps`, `demos` or `packages`.

| Part | State | Operations | Works with | Hard behaviour | What makes it correct | Module |
|---|---|---|---|---|---|---|
| Slot allocation, `allocation.service.ts` | `Slot`, `Allocation`, `SubscriptionGroup` | `allocateSlot`, `releaseSlot`, group PATCH, writers of the table elsewhere | called by payments and schedulers; its rows are written by invitations, reclaim, family removal | SERIALIZABLE snapshots, `FOR UPDATE SKIP LOCKED`, partial unique indexes, stale writers | a slot and a subscription are never used twice; seats only in open groups | `SlotAllocation`, `SlotLedger` |
| Orders, `order.service.ts` | `Order` | create (idempotent), cancel, expire | payments set it CONFIRMED | read then write by id against a confirmation | a paid order is neither expired nor cancelled | `OrderPayment` |
| Payments, `payment.service.ts`, `payment-provider.ts` | `Payment`, `Subscription`, `SubscriptionPeriod` | transfer report, DEMO payment, confirm | order, allocation, invitations, waitlist | duplicate reports and confirmations, crash between the transaction and its tail | one subscription per order, exactly when it is paid; a payer is seated or waits | `OrderPayment`, `Fulfilment` |
| Waitlist | `WaitlistEntry` | join after a failed allocation, join as member, `processWaitlist` | allocation; two schedulers | several workers, errors that end a round | first come first served; everybody is served while there are seats | `Fulfilment` |
| Invitations, `invitation.service.ts` | `Invitation`, `OperationTask` | send, accept, activate, reclaim | allocation rows, subscriptions | several statements without a transaction | what waits for an operator is on the task list | `Subscriptions` |
| Subscription lifecycle, `subscription.service.ts` | `Subscription` | invitation task, renewal, expiry, reclaim tasks, reminders | allocation, outbox | crash between the task and the row, schedulers that overlap | an expired seat is asked back | `Subscriptions` |
| Refunds, `refund.service.ts`, reject route | `Refund` | request, approve, reject, pay out | payments | row lock on one refund, unlocked sum over the others | never more than was paid; settled is settled | `Refunds` |
| Family job queue, `family/job.service.ts`, and runner, `apps/family-runner` | `FamilyJob` | enqueue, claim, mark, complete/fail/await, retry, poll | gate, drivers, members | stale locks, crashes, two runners, retries | one job per owner account; a lock belongs to who works; nothing stays stuck | `FamilyQueue` |
| Family gate, `family/gate.service.ts`, emergency-stop and settings routes | settings, emergency stop, consent | check, stop, pause, switch mode, consent | queue, runner | checked once, valid later; a stop is two writes | a stop, a pause, a switch of mode take hold | `FamilyGate` |
| Family members, `family/{capacity,invite,removal,sync}.service.ts`, drivers | `FamilyExternalMember`, `FamilyGroupLink` | inspect, invite, remove, capacity | queue, allocation, the external page | external observations that are already old, crashes between the act and its record | only who has a seat comes on the page; a seat is free only after its holder has left | `FamilyMembers`, `FamilyRoster` |
| CSV allocator, `csv-allocator.service.ts`, `csv-family-persist.service.ts` | spreadsheets; groups, slots, links, settings, members | vacancies, refunds, assignment, save | groups | a fold over rows that change under way; saving without a transaction | payers placed and not moved, groups sound, a saved sheet is mirrored | `CsvAllocator`, `CsvImport` |
| Seed, `packages/domain/prisma/seed.ts` | first rows of every table | run, break off, run again | everything, under way | started with the stack, crosses itself and the application | scenarios are whole; it writes back what its upserts say and nothing else | `Seed` |
| Outbox, `notification.service.ts` | `OutboxMessage` | queue, fetch, send, mark | schedulers | sent but not marked | every message is tried soon; a second copy has a reason | `Outbox` |
| Schedulers, `apps/worker`, `apps/web/src/server/worker-jobs.ts` | `JobExecution` | cron rounds | all services | two schedulers at once | a round may overlap another | in the modules of the parts they drive |
| Accounts, `apps/web/src/app/api/auth`, `apps/web/src/lib/auth` | `User`, sessions, `AuthToken` | register, log in, lock, log out, change and reset a password | administration of members | read then write of the attempt counter, of the password, of the link | nobody locked out unearned; a new password ends the old sessions; a link works once | `Accounts` |
| Member permissions, `apps/web/src/app/api/admin/members/[id]/route.ts` | role and `isActive` of `User`, `AuditLog` | change a role, shut out, audit | accounts | counting and writing in two statements, the audit row in a third | somebody can still give out roles; the audit tells what users are | `MemberPermissions` |
| Static demo, `demos/static-github-pages/js` | one database in `localStorage`, a copy per tab, sessions | order, confirm, invite, activate, roles, texts, register, log in, reset | nothing else | tabs with old copies, forms sent twice | each database is consistent in itself; only an old copy loses work | `DemoStore`, `StaticDemo` |
| Web UI, other CRUD routes | tickets, FAQ, products | request handlers | services | little | | |

The hazards of this code, each at its line and with the properties that would
catch it, are listed in `PROJECT.json`.

## Modules

Two abstract specifications: `SlotLedger`, implemented by `SlotAllocation`,
which `Fulfilment` instantiates and in its turn implements; and `FamilyRoster`,
implemented by `FamilyMembers`. `CsvImport` extends the operators of
`CsvAllocator`, and `StaticDemo` those of `DemoStore`, to a state machine.
Where two modules have the same rows from two sides, the head of each says
which side it has.

Components that touch no common state are checked side by side by a module that
composes them: `Orders` (`OrderPayment`, `Refunds`), `Worker` (`Subscriptions`,
`Outbox`), `Site` (`MemberPermissions`, `Accounts`), `Deployment`
(`FamilyGate`, `Seed`). Since neither component can disturb the other, the
composition lets one of them work while the other is as it began; every
behaviour of each component is a behaviour of the composition, and no
interleaving that means anything is lost. `Site` and `Deployment` note in
`about` which component a behaviour is of, where the initial states are several.

An `MC...` module gives a module small constants for TLC, a `...Proofs` module
holds its theorems; `FamilyProofs` has those of `FamilyQueue` and of `CsvImport`,
`DeploymentProofs` those of `Deployment` and of `StaticDemo`, each of its own
specification.

**SlotLedger.** What allocation promises with no database in sight: who holds
each slot; a free slot can be assigned to a subscription that holds none, and a
held slot released. Nothing else.

**SlotAllocation.** `allocation` is the allocations table, `open` the groups
that are ACTIVE and `policyVerified`, `tx` the transaction of each session in
`allocateSlot`. `BeginScan` is its first query, which takes the snapshot and
settles what the SELECT may range over; `LockSlot` is the SELECT, which skips
slots of groups locked by others and fails on a group changed since the
snapshot; `NoSlot`, `Reserve` and `Abort` are its ends. The other writers of the
table (`createInvitationTask`, `confirmActivation`, `createReclaimTasks`,
`enqueueRemove`, `releaseSlot`, `confirmRemovalVerified`) are updates by id
whose caller looked at the row earlier if at all, so each is one action that
fires in any status, as far as the unique indexes admit. `PatchGroup` is the
administrator's PATCH, which waits for the group's row lock. One product is
modelled: the query never looks outside the product it is given.

**OrderPayment.** Orders, payments, and the requests between their statements.
The transaction of `confirmPayment` runs at READ COMMITTED, and each of its
statements is an action: `ConfirmRead`, `ConfirmPay` (takes the payment's row
lock), `ConfirmOrder` (takes the order's), `ConfirmFind` (looks for the
subscription), `ConfirmCommit`. `Fail` ends a request anywhere.

**Fulfilment.** What `confirmPayment` does after that transaction, with
`createInvitationTask` as its three separate statements, members joining the
waitlist, `processWaitlist` walking its batch, `confirmReclaim`, and crashes. It
instantiates SlotAllocation and takes its steps for the calls of `allocateSlot`
(`AllocateBegin` and so on), adding what the caller does with the result. A
payment stands for its order and subscription. Groups stay open here.

**Subscriptions.** The life of a subscription after its payment, with one
allocation row and at most one invitation. `request` is where each request of
an operator, a customer or the payment stands between its statements (`SendRead`,
`Send`, `CloseEverySend` or `CloseSend` are `recordInviteSent`; `Accept...`
`reportCustomerAccepted`; `Activate...` `confirmActivation`; `RenewRead`,
`Renew` a renewal), `round` where each scheduler stands in
`processExpirations` (three sweeps), `createReclaimTasks` (find, look for a task,
create it, take the row back) and `sendRenewalReminders`. `Break` and
`BreakRound` end either anywhere. Dates are abstracted to whether the end is
unset, far, within three days or past, which is all the code compares.

**Refunds.** The refunds of one order. `approveRefund` is `ApproveLock` (SELECT
... FOR UPDATE of its own refund), `ApproveSum` (the unlocked aggregate over the
others) and `ApproveCommit`; rejecting and paying out are a read and a write by
id each.

**FamilyQueue.** The jobs table and the runners. `claimNext` is four statements
at READ COMMITTED: `Reclaim` (stale locks back to the queue, seen by nobody
until the commit), `Survey` (busy accounts), `Pick` or `PickNone`, `Claim` (by
id, commits). Then `MarkRead`/`MarkWrite`, `Execute` (the driver comes back with
an outcome) and `Report`. `LockAges` is the passing of
FAMILY_JOB_STALE_LOCK_MS. The gate's verdict is a free choice at `Enqueue`;
FamilyGate has how it comes about. The status CANCELLED is left out: no code
writes it. Nor is `scripts/requeue-stuck-family-jobs.ts` part of the model; it
is run by hand while the runner is down.

**FamilyGate.** What keeps the automation of one group from acting. `key` holds
which of the two emergency-stop settings are true, `setting` the group's
automation setting, `consent` whether the owner has consented. `assertCanRun`
is a statement per action (`CheckStop`, `CheckSetting`, `CheckConsent`), and
everything may change in between: an order to stop or to go on (`StopBegin` and
`StopWrite`, a write per setting as the emergency-stop route makes them), the
settings list (`StopSetting`), the routes that pause, switch to assisted and
update (`SettingRoute`). `Create` writes the job with what the gate said; a refusal
leaves a FAILED job. The runner looks at the stop before it claims and never
afterwards; here the claim is one step. `RetryRead`/`RetryWrite` are the retry,
which asks no gate.

**FamilyMembers.** One family group: `page` is the external page, `row` what
the service has recorded of it (one row per customer and kind), `alloc` the
allocations, `job` the jobs in order. The operator's requests are a check and an
enqueue (`InviteCheck`, `InviteEnqueue`) or a read, a mark and an enqueue
(`RemoveRead`, `RemoveMark...`, `RemoveEnqueue`), which may fail in between;
`Occupied` and `Assignable` are `calculateAssignableCapacity` count by count.
`Execute...` is what the demo and the assisted driver do to the page, `Apply...`
and `Confirm...` what the runner writes afterwards, each write an action, so
that a crash leaves any prefix of them. Customers accept and leave by
themselves. **FamilyRoster** is what it promises.

**CsvAllocator, CsvImport.** `CsvAllocator` is the algorithm: vacancies of a
group, the refunds as a fold over the rows (a member's refund empties a place, a
manager's hands the group over or dissolves it), the placement of payers into
the fullest open group or a new one, each as an operator on sheets. `CsvImport`
is the operator who edits the sheet, `Process` (the algorithm) and
`persistAccounts`, which writes group after group with a statement per action:
owner, link, group, slots, setting, members. `Break` ends it anywhere; the file
then stays as it was and is imported again.

**Seed.** Runs of the seed script, which stand at a section of it each, break
off anywhere, start again and cross each other, while customers take the slots
the scenarios want and operators decide otherwise than the seed. A section
stands for the rows of one kind; `WritesBack` is which decisions of an operator
its upserts overwrite when the rows exist.

**Outbox.** Messages, and the ticks of several schedulers: `Fetch` reads the
oldest few PENDING ones, then message by message `Deliver` or `Refuse` and
`MarkSent` or `MarkFailed`. `Break` ends a tick anywhere.

**Accounts.** Users, sessions, reset links, and the requests between the
statements of the login, registration, password and reset routes. Passwords are
numbers, since only whether two are the same matters; `LockRunsOut` and
`LinkExpires` are the passing of time, `Manage` what operators do to an account.
`streak`, `mixed` and `cut` are history: what failed logins there really were,
who had one under way when the counter was set back, whose change of password
broke off.

**MemberPermissions.** The members route by the statement: the actor's check
(`Ask`), the target's row (`Read`), the count of the other super administrators
(`Count`), the update by id (`Write`), the audit row (`Tell`). SUPPORT is a
MEMBER here, as the route treats it.

**DemoStore, StaticDemo.** `DemoStore` has each operation of the demo's store
as a function from a database to the next, and what its pages offer. In
`StaticDemo` each tab has a copy it read when its page was loaded, and every
handler works on the copy and writes the whole of it to the storage; a handler
that waits for a hash (`RegisterStart`/`End`, `LoginStart`/`End`,
`ResetStart`/`End`) lets others go first. Its seeded groups that are full, or
count seats nobody holds, are left out.

Operators called "Seeded fault" are plausible mistakes in the definition that
follows them. None is part of a specification; each is used to see that a
property really depends on the code it is about.

## Runs

| Run | Bounds | Shows |
|---|---|---|
| `slot_allocation` | 2 groups of 2 and 1 slots, 2 subscriptions, 2 sessions, 2 rows | exclusivity, open groups only, refinement of the ledger |
| `fulfilment` | 2 slots, 2 payments, 1 request, 1 worker, batch 2, 1 member entry, 2 rows, 1 crash, fair | nobody forgotten, order of service, served means seated, every waiting payer served, SlotAllocation implemented |
| `orders` | 2 orders, 3 payments, 3 requests, DEMO; 4 refunds, 2 members, 1 operator, 3 paid | one subscription, paid exactly when it exists, no paid order expired; never more refunded than paid, settled stays settled |
| `family_queue` | 3 jobs on 2 accounts, 1 runner, 2 retries, 2 crashes, fair | account lock, lock with the worker, no success without one, jobs come to an outcome |
| `family_gate` | 1 request, 1 order, 1 runner, 2 jobs, 1 retry; 2 runs of the seed, 3 decisions, 3 starts | a stop is obeyed; a stop, a pause and a switch of mode take hold after one job each; scenarios are whole, written back is what the upserts say |
| `family_members` | 2 customers, 1 seat, capacity 3, 1 operator, 2 jobs, 1 retry, 1 crash | no invitation behind a removal, a removal accounted for, refinement of the roster |
| `worker` | 1 subscription, 2 requests, 2 schedulers, 1 crash, fair; ticks of 2, 3 messages, 1 break | what waits for an operator has its task; an overdue seat is asked back; a second copy has a reason, every message is tried soon |
| `csv_import` | 4 accounts, 2 members per group, 3 groups, 2 edits, 1 break | the algorithm's promises, a saved sheet is mirrored |
| `site` | 2 users, 2 requests, 1 break; 1 address, 2 requests, 2 tokens, 2 attempts, 2 passwords, 1 link, 1 break | an administrator stays, the audit is true; locks are earned, old sessions end, links work once |
| `static_demo` | 2 tabs, 4 identifiers, 1 text, groups of 2, 3 saves | every database is consistent in itself; only an old copy loses work |

Why these bounds are enough. Every conflict the code knows is between two
actors over one row or one group: two sessions, requests, schedulers, runners
or tabs reach it. A third session in OrderPayment adds a canceller or a reporter
to two overlapping confirmations. Two groups let one be skipped or patched while
the other is used. A second slot lets a transaction choose past a locked one, two
rows let a RECLAIMED row come back while its slot is used again. A batch of two
with one member entry has the entry both skipped and in front. The request and
the worker of `fulfilment` overlap in every statement; that two workers keep
the order of the waitlist and that two requests stay in step is proved for any
number of each. Three payments on two orders give one order two payments. Four
refunds with an amount of three let approved, paid and rejected ones coexist
with a request under way. Two retries and two crashes let a job be retried and
crash again. In `family_gate` one order is enough because `StopSetting` writes
either setting at any time, which is any other order's single write, and the
theorems cover any number of orders, requests and runners. In `family_members`
one seat for two customers makes one wait for the other's removal. Four
accounts with two members to a group fill a group, found a second and hand one
over. Three messages with ticks of two leave one behind a full batch. One
address is enough for visitors, since no statement of theirs reads the row of
another; two users are what the last administrator and somebody else need. Of
the three decisions the seed meets two are written back and one is not, in the
same section as one that is. Three saves let a tab write, a
second one overwrite it and the first one write again. Every invariant and
action property of the passing runs is proved for all bounds (below).

The bounds on rows, jobs, messages, retries, crashes, edits and so on
are the constants `Alloc`, `Max...`; `Payment`, `Refund`, `Token` and `Row`
bound how many rows are made. The systems stop when these run out, hence
`CHECK_DEADLOCK FALSE` except for SlotAllocation and Worker, whose writers and
schedulers never stop.
Symmetry is used in runs without liveness only.

Runs that end in a violation, each a disagreement between the code and what its
comments or documents say:

| Run | Property | What happens |
|---|---|---|
| `order_cancel_race` | PaidNeverCancelled | `cancelOrder` overwrites an order confirmed since it was read |
| `gate_retry` | ActingIsAdmitted | a retry queues a job that the gate refused, the runner asks no gate, and the driver clicks |

### Assumptions of the passing runs

*One operator at a time* in `orders`: with two, NotOverRefunded fails (two
approvals of two refunds of one order do not see each other) and so does
SettledStays (a rejection overwrites an approval). *One operator at a time* in
`family_members`: with two, a removal slips between the check and the enqueue
of an invitation and NoReinvite fails. *One runner* in `family_queue`:
`docker-compose.yml` runs one family runner, and the web server runs none unless
it is started in unified mode; with two, both survey the accounts before either
commits and AccountLock fails. *One retry request at a time* there as well: two
overlapping retries of one job can put it back into the queue after it was
claimed again, and `markInProgress` then leaves it IN_PROGRESS with no lock that
could age (the hazard at `family/job.service.ts:267`). *Fewer member entries
than a batch* in `fulfilment`: ten of them at the head of the waitlist fill
every batch for ever (the hazard at `allocation.service.ts:123`).

Several properties name their exceptions instead: AdminUnlessCrossed two
requests that cross, AuditTells, SessionsEnded and LinkSpent what crosses or
breaks off, PaidNotForgotten a crash after the confirmation's commit,
AccountsOnce a form sent twice, OnlyStaleLoses a tab with an old copy. What a
property of this form says is that there is no other way.

### Fairness

*Fulfilment.* Weak fairness of a request's own statements: Node runs them to
their end unless the process dies, and dying is a separate action (`Crash`)
that no fairness excludes but a bound ends. Weak fairness of `Serve` and
`Allocate` of a worker: cron starts it every hour for ever. Strong
fairness of a worker's `AllocateLock` and `AllocateReserve`: each fails only
because of an overlapping transaction, a timeout or a lost connection, and a
worker that tries for ever is not met by one each time. No fairness of the
operator's reclaims, of members or of new payments. *Worker.*
Weak fairness of each scheduler's rounds over the subscriptions, for the same
reason; none of operators, customers, time or breaks. That the outbox gets to
every message is SoonTried, a safety property that needs no fairness.
*FamilyQueue.* Weak fairness of the runner's steps (its
loop never ends, and catches what a poll throws) and of time passing. None of
operators, and the emergency stop may stay on for ever, which `JobsSettle`
allows for.

### What the code does that no run is about

Met while modelling, each certain or contradicting nothing the repository says;
none needs a search of interleavings to be seen.

- A crash after the commit of `confirmPayment` and before its tail leaves a paid
  subscription that nobody seats: a second confirmation returns early
  (`payment.service.ts:36`). PaidNotForgotten names this as its only exception.
- One order can be paid twice: two payments of it can both be confirmed; it
  still gets one subscription.
- `allocateSlot` does not know `adminSlotsReserved`
  (`allocation.service.ts:31`), which the capacity figure of the same file
  subtracts: the administrator's seat is sold too.
- A bought subscription has no `expiresAt`; only `applyRenewalPeriod`, which
  nothing calls, would write one, so it never expires.
- A crash inside `createReclaimTasks` leaves the task open and the allocation
  row ACTIVE; later rounds skip it because of the task.
- `recordInviteSent` creates a notification with a subscription's id as user id
  (`invitation.service.ts:48`); the foreign key refuses it after SENT has been
  committed.
- FAILED outbox messages are never read again, although
  `docs/FAMILY_ERROR_RECOVERY.md:49` speaks of a retry by the worker.
- A retried INVITE does not look at the allocation again. Jobs already queued
  are not checked again after a pause or a stop has been lifted. A job refused
  by the stop records the mode DEMO when none was given, also in an ASSISTED
  group, so that its retry really clicks.
- The emergency stop is shown from one of its two settings, and the settings
  list writes one of them; the `pause` action without `paused` changes nothing.
- After an invitation was accepted its PENDING_INVITE row stays, and the
  capacity figure (`family/capacity.service.ts:61`) counts the customer twice.
- Saving an import that breaks between group and link leaves an orphan group,
  one that breaks after the link a group without its automation setting; members
  who are gone from the sheet are never marked REMOVED.
- `docker-compose.yml:62` seeds at every start of the stack, which writes back
  the emergency stop, roles and settings operators have decided since, although
  `DEPLOY.md:140` says that a database in use is not to be seeded again
  (`DecisionsStand` in Seed says so too and does not hold).
- Two requests that take a super administrator each count the other one first
  (`admin/members/[id]/route.ts:88`), and none is left, although the refusal at
  line 92 says the only one cannot be taken away.

## Proofs

The theorems hold for all constants that satisfy the assumptions of the
modules: slots are natural numbers, every slot has a group, null values are not
rows or subscriptions, the sets of actors do not overlap, schedulers and refunds
are finitely many. TLC evaluates the assumptions in each run. The type
invariants are proved, and so are not properties of the runs, but for
those inside CopiesExplained and DemoTasksListed. What was to be proved
was checked by TLC first, the inductive strengthenings included.

*SlotAllocationProofs.* `TypeCorrect` is inductive. `AllocationExclusive`: with
the type invariant, the two exclusivity properties are inductive since `Reserve`
and every status write go through `IndexesAdmit`. `LocksDisciplined`: exclusive
group locks, fresh snapshots and locked groups open are only inductive
together. A group that is patched lands in the `patched` set of every
transaction that scanned it, so none can lock it later (ScanFresh gives
LockedOpen at `LockSlot`), and one that has locked it blocks the PATCH.
`AllocatedInOpenGroup` reads OnlyOpenGroups off LockedOpen at `Reserve`.
`AllocationImplementsLedger` needs one invariant more (the holder map is a
function of the live rows) and shows each step to be an assignment, a release
or a stutter; a stale write that revives a RECLAIMED row is an assignment.

*FulfilmentProofs.* `TypeCorrect` proves TypeOK and CallsInStep together (the row
a request writes invitations for exists because its call was in step).
`FulfilmentUsesAllocation` shows each step to be a SlotAllocation step or a
stutter, so that `FulfilmentExclusive` is SlotAllocation's theorem, carried over.
`NeverForgotten` goes over each way a request can lose hold of a subscription:
to a row, to a waitlist entry, or to `lost` in a crash. WaitlistFIFO is about
the table, but a worker's batch may be older than the table. EarlierServed
strengthens it: every payer's entry ahead of one a worker has still to come to
has been served or is in its batch too. RecordsRow carries the row from the
reservation to the statement that marks the entry; with it ServedHasRow is
inductive.

*OrdersProofs.* `LookupsFresh` is the argument the code relies on without
saying so: whoever looks for the subscription holds the order's row lock, only
such a holder adds a subscription, and there is one holder per order.
`AccountsRight` then proves OneSubscription and PaidFor together: each is used
for the other at `ConfirmCommit`. `ConfirmedNeverExpire` reads PaidNeverExpires
off the sweep's condition, which PostgreSQL evaluates again on the row it waited
for. The refunds come next. An approval is compared with what was paid when it
is summed and written later, so the type invariant is inductive with
Affordable: no approval past its check is of more than was paid; this holds for
any number of operators. `RefundsWithinPaid` and `RefundsStaySettled` assume
OneAtATime, one operator who is not a member: then ReadsFresh (a refund about to
be written still has the status it was read with) and WithinPaid (all approvals,
with the one that has been compared, fit the payment) are inductive. Without
OneAtATime both are false, and TLC finds why (above). The total is a fold of the
community modules. What the proof needs of it - that the fold's recursion has a
solution, that two solutions agree, that one element adds its value, that equal
functions have equal sums - are the lemmas SumsExist, SumsAgree, SumStep and
SumSame. Each goes by a least counterexample (`Least`, `Smallest`) in place of
an induction theorem.

*WorkerProofs.* `WorkIsListed`: WorkVisible lets an invitation wait without its
task while the request that is to make the task is on its way. What it needs is
Relied, what each request and round relies on between its statements: an
invitation is issued once, whoever closes a task of sending finds the invitation
sent, a round that takes a seat back has asked for it. `CopiesHaveReasons`: that
copies are at most one more than broken and overlapping ticks is not inductive,
for a tick may be about to send. CopiesCounted counts those ticks too, and one
more for a message that is PENDING and in nobody's batch: copies, ticks that may
still send it and that one are at most one more than the reasons. Fetching a
message moves a unit from one term to another or adds as many ticks as overlaps,
a delivery turns a tick into a copy, a break takes a tick away for a reason.
`MessagesSoonTried`: that a scheduler has seldom passed a message over says
nothing of what it will do with those it has in hand, so WaitCounted says for
each scheduler which messages lie behind its passes: Behind are the older ones
that it need not take up again, a full batch of them for each pass but for
those that broken ticks gave back. Another pass over m needs a batch of older
messages that are still PENDING, which are none of those (PassedBehind), and it
has no more than Limit (BatchSmall). There are fewer than m older ones in all.
`WorkerLists`, `WorkerCopies` and `WorkerTriesSoon` carry the three over to the
composition.

*FamilyProofs*, of FamilyQueue. `SuccessEarned` holds for any number of runners and
requests: a result on its way to being reported as a success has been performed.
The others assume OneEach, one runner and one request for a retry at a time,
which is what the deployment gives (above). QueueInv: between its statements
`claimNext` has read what still holds - the stale jobs it gives back are busy
until it commits (RowsBusy), every other busy account is in its survey
(SurveyFresh) or is not that of the job it picked (PickFresh) - and the job a
retry is about to queue is in nobody's hands (RetryFresh). From it
`AccountsLocked`, `WorkStaysLocked` and `LocksCanAge` follow.

*FamilyProofs*, of CsvImport. `_processRefunds` and `_allocatePaidAccounts` go
over rows that change while they do, so their operators are folds of the
community modules over sets of accounts, the last row after all others. Folds
says of a function that it is what comes of each part of the rows, FoldsExist
that there is one (by a least counterexample), and RowByRow that what holds of
no rows, and of rows when it does without the last of them, holds of all. With
it what one refund does (`RefundOneOK`: a sheet in order stays so, no payer
leaves a group) and what one placement does (`PlaceOneOK`) carry over to whole
sheets. SheetOK is a sheet in order: groups among the identifiers given out, a
role exactly for whoever is in a group, sound groups. FoundedOfNeed is not
inductive over placements, since a group founded is filled by the next ones: what
is kept row by row is that once one has been founded, only the last founded has
room. That a second run changes nothing follows from there being nobody left to
refund or to place (AtRest). `ImportIsSound` then needs that no statement of
`persistAccounts` and no edit between imports puts a sheet in disorder.
SavedIsMirrored is about the moment an import is saved, so Persisted says how
far the database is before: every group not Ahead is Done, what the next
statement relies on has been written (Relied), and a group has a link only when
it has slots, and its setting unless that is to come or was cut off (Backed).
Backed is what an import leaves to a later one, and why `CreateSlots` comes
before `CreateLink`: the link is what a later import goes by.

*DeploymentProofs.* StopObeyed needs Lifting: an order to go on that nobody has
crossed since it began has written `false` to what lies behind it. For
StopBounds, BoundInv says where an actor may stand when its count is already
one: past the check of the stop only if it has not counted yet. SettingBounds
has the same argument in SettingInv, for the mode a request has read. The seed's
theorems are about the sections a run has passed: they are there (Passed), which
with the order of the script gives `SeedWhole`, since a section stays once it is
there; `SeedWritesBack` is inductive with the types of what it mentions (Stands). `ScenariosAreWhole` and `DecisionsWrittenBack` state both of the
deployment, `GateHolds` the theorems of the gate.

The static demo's theorems are in the same module. A database is Whole when its
rows have their forms and refer to rows that are there, and BookedIn,
SlotsCountedIn and TasksListedIn hold of it. RefersIn is what makes that
inductive: a subscription whose invitation has not been sent is in no group, so
that the slot `sendInvite` counts is a new one, and an order's subscriptions
refer to orders that are there, so that a new order has none. One lemma per
operation of the store (CreateKeeps to ActivateKeeps) shows that it leaves a
whole database whole, loses nothing of it and adds no account; that the seeded
databases are whole follows from the same lemmas. `DemoInvariant` then only
needs that a tab saves its copy, the seeded database or what an operation has
made of its copy, whoever has overwritten what. `DemoAccountsOnce` adds what a
registration under way has found; `DemoLoses` is one step's argument: a tab
whose copy was what is stored saves what an operation makes of that.

*FamilyMembersProofs.* Grounded says what jobs, requests, recorded rows and the
runner rest on: who is invited has been given a seat, a removal of a seat's
holder has had the seat marked first, whom the runner has removed stays off the
page until it is done. With it `RemovalsAccounted` is one step's argument, and
`RosterImplemented` maps each step to a step of FamilyRoster or a stutter; both
are for any number of operators. `RemovedNotReinvited` assumes one operator at a
time, and NoneBehind adds to NoReinvite the invitation an operator has checked
and not enqueued yet.

*SiteProofs.* `AdminKept`: a request that is about to write and that nobody has
crossed will leave an administrator (Careful), because it counted the others
and they are still what they were. `AuditTrue` needs TellsTruly: a request about
to write the audit row of a user whose rows can be trusted has in hand what the
user is, and is the only one. `LocksEarned`: what is counted on the row, and
what a failed login has read and is about to write back plus one, does not
exceed the failures since the counter was last set back (Counted), but for
those who had one under way then. `SessionsOver` needs Existing (a session, a
password and a link are of accounts that exist) and that a login about to open
its session with an old password is noted as late. `LinksOnce`: a link whose
requests did not cross is with one request at a time, and once used is no longer
open or with the request that is to use it up (UsedOnce).

Only model-checked:

- Liveness under fairness, which is out of the prover's reach: WaitersServed,
  JobsSettle, OverdueAsked.

## Not modelled, and why

Most lines of the repository that no definition stands for hold no state of
their own. The web pages are React components that show rows and post forms; the
CRUD routes (products, FAQ, announcements, tickets, settings lists) read or
write one row by a unique key. Of sessions and login, hashing, cookies, the
origin check and the rate limit, which a process keeps in memory, are left out.
Of the static demo, changing the profile, its own password reset, favorites and
the count of failed logins. Sheets events are written and never read, and so are
audit rows but those of the members route, which MemberPermissions has. In-app
notifications are rows their owner marks read. The maintenance scripts are run
by hand and presume that nothing else runs.

The browser drivers are I/O; a driver is what it does to the page and its
outcome. The CSV import of bank statements has no caller. The stub payment
provider and the DEMO scenarios that end in FAILED are left out of OrderPayment.
`runJob`'s bookkeeping rows keep no scheduler from anything. Prices, dates beyond
what is compared, texts and audit fields are left out of the modelled parts.

## What is left

Every invariant and action property that a passing run checks has its theorem.
What could be added is breadth: the parts of the static demo named above, and the
requeue script beside a runner that has not been stopped.
