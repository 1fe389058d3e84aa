------------------------------ MODULE FamilyGate ------------------------------
(***************************************************************************)
(* What keeps the family automation of one group from acting: the          *)
(* emergency stop with its two settings, the pause and the mode of the     *)
(* group, the owner's consent.  FamilyGateService asks for them one        *)
(* statement at a time when a job is enqueued, and the runner looks at the *)
(* stop before it claims a job; everything may change in between.          *)
(* FamilyQueue has the claim by the statement, FamilyMembers what a job    *)
(* does to the family page.                                                *)
(***************************************************************************)
EXTENDS Naturals, Sequences

CONSTANTS
  Request,     \* operators' requests for jobs under way
  StopOrder,   \* operators' orders to stop or to go on under way
  Runner,
  Authorized,  \* AUTHORIZED_BROWSER_ENABLED of the web server
  MaxJobs,     \* bound: how many jobs there ever are
  MaxRetries   \* bound: how many retries operators ask for

ASSUME ActorAssumption == Request \cap StopOrder = {} /\ Request \cap Runner = {}
ASSUME AuthorizedAssumption == Authorized \in BOOLEAN
ASSUME BoundAssumption == MaxJobs \in Nat /\ MaxRetries \in Nat

VARIABLES
  key,       \* the settings that are an emergency stop when one of them is true
  setting,   \* the FamilyAutomationSetting of the group
  consent,   \* there is an active FamilyOwnerConsent
  job,       \* the jobs of the group in the order of requestedAt
  op,        \* where each operator's request or order is
  at,        \* where each runner is
  retries,   \* how many retries there have been
  ordered,   \* history: what operators have last said about the stop
  steady,    \* history: the orders to go on with no order to stop since they began
  since,     \* history: jobs begun or queued by each since the stop was ordered
  late,      \* history: jobs queued by each request against the setting as it is
  admitted   \* history: the jobs the gate has let through

world == <<key, setting, consent>>
history == <<ordered, steady, since, late, admitted>>
vars == <<world, job, op, at, retries, history>>

Global == "family.global_emergency_stop"
Alias == "FAMILY_EMERGENCY_STOP"
Key == {Global, Alias}

Mode == {"DEMO", "ASSISTED", "AUTHORIZED_BROWSER"}
Given == Mode \cup {"none"}
NoSetting == [mode |-> "DEMO", paused |-> FALSE, exists |-> FALSE]
Setting == {NoSetting} \cup [mode : Mode, paused : BOOLEAN, exists : {TRUE}]

\* BUSY stands for CLAIMED and IN_PROGRESS, FAILED for EXTERNAL_RESULT_UNKNOWN as well.
Job == [mode : Mode, status : {"QUEUED", "BUSY", "SUCCEEDED", "FAILED", "AWAITING_HUMAN"}]

Idle == [pc |-> "idle"]

\* asked: the job's key is new; unstopped, configured: how far the gate has come, with
\* the mode the request came with and the one the gate has read; verdict: what the gate
\* says, and the job's mode; writing: the stop's settings left to write.
RequestAt ==
  {Idle} \cup [pc : {"asked", "unstopped"}, given : Given]
         \cup [pc : {"configured"}, given : Given, mode : Mode]
         \cup [pc : {"verdict"}, mode : Mode, ok : BOOLEAN]
         \cup [pc : {"retrying"}, of : 1..MaxJobs]
OrderAt == {Idle} \cup [pc : {"writing"}, stop : BOOLEAN, left : 1..3]
RunnerAt == {Idle} \cup [pc : {"polling"}] \cup [pc : {"executing"}, of : 1..MaxJobs]

\* Two is as good as many.
Count == 0..2
More(f, p) == [f EXCEPT ![p] = IF @ = 2 THEN 2 ELSE @ + 1]

TypeOK ==
  /\ key \in [Key -> BOOLEAN]
  /\ setting \in Setting
  /\ consent \in BOOLEAN
  /\ job \in Seq(Job) /\ Len(job) <= MaxJobs
  /\ op \in [Request \cup StopOrder -> RequestAt \cup OrderAt]
  /\ \A p \in Request : op[p] \in RequestAt
  /\ \A p \in StopOrder : op[p] \in OrderAt
  /\ at \in [Runner -> RunnerAt]
  /\ retries \in 0..MaxRetries
  /\ ordered \in {"stop", "run", "unclear"}
  /\ steady \subseteq StopOrder
  /\ since \in [Request \cup Runner -> Count]
  /\ late \in [Request -> Count]
  /\ admitted \subseteq DOMAIN job

\* As seeded, or a group that has no setting or no consent yet.
Init ==
  /\ key = [k \in Key |-> FALSE]
  /\ setting \in {NoSetting, [mode |-> "DEMO", paused |-> FALSE, exists |-> TRUE]}
  /\ consent \in BOOLEAN
  /\ job = <<>>
  /\ op = [p \in Request \cup StopOrder |-> Idle]
  /\ at = [r \in Runner |-> Idle]
  /\ admitted = {}
  /\ retries = 0
  /\ ordered = "run"
  /\ steady = {}
  /\ since = [p \in Request \cup Runner |-> 0]
  /\ late = [p \in Request |-> 0]

-------------------------------------------------------------------------------
(* The emergency stop *)

\* Seeded fault: both settings must be on.
StoppedByBoth == \A k \in Key : key[k]

\* isAnyEmergencyStop
Stopped == \E k \in Key : key[k]

Goto(p, where) == op' = [op EXCEPT ![p] = where]

\* What a write of a stop setting says, and whom it disturbs.
Say(stop, whole) ==
  /\ ordered' = IF stop THEN "stop" ELSE IF whole THEN "run" ELSE "unclear"
  /\ since' = IF stop /\ ordered = "stop" THEN since ELSE [p \in DOMAIN since |-> 0]
  /\ UNCHANGED <<late, admitted>>

StopBegin(p, stop) ==
  /\ op[p] = Idle
  /\ Goto(p, [pc |-> "writing", stop |-> stop, left |-> 3])
  /\ steady' = IF stop THEN steady ELSE steady \cup {p}
  /\ UNCHANGED <<world, job, at, retries, ordered, since, late, admitted>>

\* setEmergencyStop writes both settings, and the route the second one once more.
Written(left) == IF left = 3 THEN Global ELSE Alias

StopWrite(p) ==
  LET stop == op[p].stop
      last == op[p].left = 1
  IN
  /\ op[p].pc = "writing"
  /\ key' = [key EXCEPT ![Written(op[p].left)] = stop]
  /\ Goto(p, IF last THEN Idle ELSE [op[p] EXCEPT !.left = @ - 1])
  /\ Say(stop, last /\ p \in steady)
  /\ steady' = IF stop THEN {} ELSE IF last THEN steady \ {p} ELSE steady
  /\ UNCHANGED <<setting, consent, job, at, retries>>

\* The list's route writes one of the settings, the settings page any.
StopSetting(k, stop) ==
  /\ key' = [key EXCEPT ![k] = stop]
  /\ Say(stop, FALSE)
  /\ steady' = IF stop THEN {} ELSE steady
  /\ UNCHANGED <<setting, consent, job, op, at, retries>>

-------------------------------------------------------------------------------
(* The group's setting and the owner's consent *)

\* One upsert; what a route does not name keeps its value.
WriteSetting(mode, paused) ==
  /\ setting' = [mode |-> mode, paused |-> paused, exists |-> TRUE]
  /\ late' = IF setting' = setting THEN late ELSE [p \in Request |-> 0]
  /\ UNCHANGED <<key, consent, job, op, at, retries, ordered, steady, since, admitted>>

\* The settings page refuses AUTHORIZED_BROWSER.
PutSettings(mode, paused) ==
  /\ mode = "AUTHORIZED_BROWSER" => setting.mode = mode
  /\ WriteSetting(mode, paused)

Pause(paused) == WriteSetting(setting.mode, paused)

SwitchAssisted == WriteSetting("ASSISTED", setting.paused)

\* The group's page takes AUTHORIZED_BROWSER if the web server is configured for it.
UpdateSettings(mode, paused) ==
  /\ mode = "AUTHORIZED_BROWSER" => Authorized \/ setting.mode = mode
  /\ WriteSetting(mode, paused)

SettingRoute ==
  \/ \E mode \in Mode, paused \in BOOLEAN : PutSettings(mode, paused) \/ UpdateSettings(mode, paused)
  \/ \E paused \in BOOLEAN : Pause(paused)
  \/ SwitchAssisted

RecordConsent ==
  /\ consent' = TRUE
  /\ UNCHANGED <<key, setting, job, op, at, retries, history>>

-------------------------------------------------------------------------------
(* A job is asked for: enqueue, and the gate's reads one by one *)

\* Requests for invitations, removals and inspections read the group's mode first; those
\* of the group's page leave it to the gate.
Ask(p, given) ==
  /\ op[p] = Idle
  /\ Len(job) < MaxJobs
  /\ given \in {setting.mode, "none"}
  /\ Goto(p, [pc |-> "asked", given |-> given])
  /\ UNCHANGED <<world, job, at, retries, history>>

Refuse(p, mode) == Goto(p, [pc |-> "verdict", mode |-> mode, ok |-> FALSE])

GivenOrDemo(p) == IF op[p].given = "none" THEN "DEMO" ELSE op[p].given

CheckStop(p) ==
  /\ op[p].pc = "asked"
  /\ IF Stopped THEN Refuse(p, GivenOrDemo(p))
     ELSE Goto(p, [op[p] EXCEPT !.pc = "unstopped"])
  /\ UNCHANGED <<world, job, at, retries, history>>

\* Seeded fault: the pause is not looked at.
CheckSettingMode(p) ==
  /\ op[p].pc = "unstopped"
  /\ IF ~setting.exists THEN Refuse(p, GivenOrDemo(p))
     ELSE Goto(p, [pc |-> "configured", given |-> op[p].given, mode |-> setting.mode])
  /\ UNCHANGED <<world, job, at, retries, history>>

CheckSetting(p) ==
  /\ op[p].pc = "unstopped"
  /\ IF ~setting.exists THEN Refuse(p, GivenOrDemo(p))
     ELSE IF setting.paused THEN Refuse(p, setting.mode)
     ELSE Goto(p, [pc |-> "configured", given |-> op[p].given, mode |-> setting.mode])
  /\ UNCHANGED <<world, job, at, retries, history>>

\* AUTHORIZED_BROWSER is refused with and without its flags.  No caller requires an
\* approval, and assisted mode passes without one.
CheckConsent(p) ==
  LET mode == op[p].mode IN
  /\ op[p].pc = "configured"
  /\ IF consent /\ mode # "AUTHORIZED_BROWSER"
     THEN Goto(p, [pc   |-> "verdict", ok |-> TRUE,
                   mode |-> IF op[p].given = "none" THEN mode ELSE op[p].given])
     ELSE Refuse(p, mode)
  /\ UNCHANGED <<world, job, at, retries, history>>

\* Seeded fault: a job the gate refuses goes to the queue as well.
CreateQueued(p) ==
  /\ op[p].pc = "verdict"
  /\ Len(job) < MaxJobs
  /\ job' = Append(job, [mode |-> op[p].mode, status |-> "QUEUED"])
  /\ since' = IF ordered = "stop" THEN More(since, p) ELSE since
  /\ late' = IF setting.paused THEN More(late, p) ELSE late
  /\ Goto(p, Idle)
  /\ UNCHANGED <<world, at, retries, ordered, steady, admitted>>

\* What the group's setting allows a job to be.
Allowed(mode) == ~setting.paused /\ mode = setting.mode

\* The job is created QUEUED, or FAILED when the gate has refused it.
Create(p) ==
  LET ok == op[p].ok IN
  /\ op[p].pc = "verdict"
  /\ Len(job) < MaxJobs
  /\ job' = Append(job, [mode   |-> op[p].mode, status |-> IF ok THEN "QUEUED" ELSE "FAILED"])
  /\ admitted' = IF ok THEN admitted \cup {Len(job')} ELSE admitted
  /\ since' = IF ok /\ ordered = "stop" THEN More(since, p) ELSE since
  /\ late' = IF ok /\ ~Allowed(op[p].mode) THEN More(late, p) ELSE late
  /\ Goto(p, Idle)
  /\ UNCHANGED <<world, at, retries, ordered, steady>>

\* A statement of a request or an order fails, or the web server dies.
Fail(p) ==
  /\ op[p] # Idle
  /\ Goto(p, Idle)
  /\ steady' = steady \ {p}
  /\ UNCHANGED <<world, job, at, retries, ordered, since, late, admitted>>

RetryRead(p, j) ==
  /\ op[p] = Idle
  /\ retries < MaxRetries
  /\ job[j].status \in {"FAILED", "AWAITING_HUMAN"}
  /\ retries' = retries + 1
  /\ Goto(p, [pc |-> "retrying", of |-> j])
  /\ UNCHANGED <<world, job, at, history>>

\* retry asks no gate, and leaves the job the mode it has.
RetryWrite(p) ==
  /\ op[p].pc = "retrying"
  /\ job' = [job EXCEPT ![op[p].of].status = "QUEUED"]
  /\ Goto(p, Idle)
  /\ UNCHANGED <<world, at, retries, history>>

OrderStep(p) ==
  \/ \E stop \in BOOLEAN : StopBegin(p, stop)
  \/ StopWrite(p)
  \/ Fail(p)

RequestStep(p) ==
  \/ \E given \in Given : Ask(p, given)
  \/ CheckStop(p)
  \/ CheckSetting(p)
  \/ CheckConsent(p)
  \/ Create(p)
  \/ Fail(p)
  \/ \E j \in DOMAIN job : RetryRead(p, j)
  \/ RetryWrite(p)

-------------------------------------------------------------------------------
(* The runner *)

Reach(r, where) == at' = [at EXCEPT ![r] = where]

Poll(r) ==
  /\ at[r] = Idle
  /\ ~Stopped
  /\ Reach(r, [pc |-> "polling"])
  /\ UNCHANGED <<world, job, op, retries, history>>

Waiting == {j \in DOMAIN job : job[j].status = "QUEUED"}
Busy == {j \in DOMAIN job : job[j].status = "BUSY"}

\* claimNext takes the job requested first, if the owner account has none BUSY.
Claim(r, j) ==
  /\ at[r].pc = "polling"
  /\ Busy = {}
  /\ j \in Waiting /\ \A i \in Waiting : j <= i
  /\ job' = [job EXCEPT ![j].status = "BUSY"]
  /\ Reach(r, [pc |-> "executing", of |-> j])
  /\ since' = IF ordered = "stop" THEN More(since, r) ELSE since
  /\ UNCHANGED <<world, op, retries, ordered, steady, late, admitted>>

ClaimNone(r) ==
  /\ at[r].pc = "polling"
  /\ Busy # {} \/ Waiting = {}
  /\ Reach(r, Idle)
  /\ UNCHANGED <<world, job, op, retries, history>>

\* What the driver of each mode comes back with.
Outcome(mode) ==
  CASE mode = "DEMO" -> {"SUCCEEDED", "FAILED", "AWAITING_HUMAN"}
    [] mode = "ASSISTED" -> {"AWAITING_HUMAN"}
    [] OTHER -> {"FAILED"}

\* The driver of the job's own mode; only the demo driver has clicked on the page.
Execute(r) ==
  LET j == at[r].of IN
  /\ at[r].pc = "executing"
  /\ \E outcome \in Outcome(job[j].mode) : job' = [job EXCEPT ![j].status = outcome]
  /\ Reach(r, Idle)
  /\ UNCHANGED <<world, op, retries, history>>

\* The runner dies, or its poll throws; a job it had is BUSY until its lock is stale.
Crash(r) ==
  /\ at[r] # Idle
  /\ Reach(r, Idle)
  /\ UNCHANGED <<world, job, op, retries, history>>

Requeue(j) ==
  /\ j \in Busy
  /\ \A r \in Runner : at[r].pc = "executing" => at[r].of # j
  /\ job' = [job EXCEPT ![j].status = "QUEUED"]
  /\ UNCHANGED <<world, op, at, retries, history>>

RunnerStep(r) ==
  \/ Poll(r)
  \/ \E j \in DOMAIN job : Claim(r, j)
  \/ ClaimNone(r)
  \/ Execute(r)
  \/ Crash(r)

Next ==
  \/ \E p \in Request : RequestStep(p)
  \/ \E p \in StopOrder : OrderStep(p)
  \/ \E r \in Runner : RunnerStep(r)
  \/ \E j \in DOMAIN job : Requeue(j)
  \/ \E k \in Key, stop \in BOOLEAN : StopSetting(k, stop)
  \/ SettingRoute
  \/ RecordConsent

Spec == Init /\ [][Next]_vars

-------------------------------------------------------------------------------
(* Properties *)

\* The automation is stopped while the last word about the stop was to stop, through
\* whichever page and though the word is two or three writes, and runs again after a lift
\* that no order to stop has crossed.
StopObeyed ==
  /\ ordered = "stop" => Stopped
  /\ ordered = "run" => ~Stopped

\* A stop takes hold: until it is lifted each runner begins one more job at most, and each
\* operator's request brings one more through the gate at most.
StopBounds == \A p \in Request \cup Runner : since[p] <= 1

\* A pause and a switch of mode take hold: once the setting is what it is, each operator's
\* request queues one more job at most that it does not allow.
SettingBounds == \A p \in Request : late[p] <= 1

\* A job that is let click on the family page has passed the gate at some time.
ActingIsAdmitted ==
  \A r \in Runner :
    at[r].pc = "executing" /\ job[at[r].of].mode = "DEMO" => at[r].of \in admitted
===============================================================================
