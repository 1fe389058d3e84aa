--------------------------- MODULE DeploymentProofs ---------------------------
(***************************************************************************)
(* Theorems about what is run around the services.  That a stop is obeyed  *)
(* and takes hold, and that a pause or a switch of mode takes hold, for    *)
(* any number of requests, orders, runners and jobs; that the seed leaves  *)
(* no half of a scenario and writes back what it says, for any number of   *)
(* runs that cross and break off; and, in the last part, that the static   *)
(* demo keeps its books whole, for any number of tabs, rows and saves.     *)
(***************************************************************************)
EXTENDS Deployment, StaticDemo, FiniteSetTheorems, NaturalsInduction, WellFoundedInduction,
        TLAPS

-------------------------------------------------------------------------------
(* Where requests, orders and runners are *)

LEMMA RequestParts ==
  ASSUME TypeOK, NEW p \in Request
  PROVE  /\ op[p] \in RequestAt
         /\ op[p].pc \in {"asked", "unstopped"} => op[p] \in [pc : {"asked", "unstopped"}, given : Given]
         /\ op[p].pc = "configured" => op[p] \in [pc : {"configured"}, given : Given, mode : Mode]
         /\ op[p].pc = "verdict" => op[p] \in [pc : {"verdict"}, mode : Mode, ok : BOOLEAN]
         /\ op[p].pc = "retrying" => op[p] \in [pc : {"retrying"}, of : 1..MaxJobs]
         /\ op[p].pc # "writing"
  BY DEF TypeOK, RequestAt, Idle

LEMMA OrderParts ==
  ASSUME TypeOK, NEW p \in StopOrder
  PROVE  op[p] # Idle => op[p] \in [pc : {"writing"}, stop : BOOLEAN, left : 1..3]
  BY DEF TypeOK, OrderAt

LEMMA SettingParts ==
  ASSUME TypeOK
  PROVE  setting.mode \in Mode /\ setting.paused \in BOOLEAN /\ setting.exists \in BOOLEAN
<1>1. CASE setting = NoSetting
  BY <1>1 DEF NoSetting, Mode
<1>2. CASE setting \in [mode : Mode, paused : BOOLEAN, exists : {TRUE}]
  BY <1>2
<1> QED
  BY <1>1, <1>2 DEF TypeOK, Setting

\* A request that moves stays a request, and moves nobody else.
LEMMA GotoRequest ==
  ASSUME TypeOK, NEW p \in Request, NEW where \in RequestAt, Goto(p, where)
  PROVE  /\ op' \in [Request \cup StopOrder -> RequestAt \cup OrderAt]
         /\ \A q \in Request : op'[q] \in RequestAt
         /\ \A q \in StopOrder : op'[q] \in OrderAt
         /\ op'[p] = where
         /\ \A q \in Request \cup StopOrder : q # p => op'[q] = op[q]
  BY ActorAssumption DEF TypeOK, Goto

LEMMA GotoOrder ==
  ASSUME TypeOK, NEW p \in StopOrder, NEW where \in OrderAt, Goto(p, where)
  PROVE  /\ op' \in [Request \cup StopOrder -> RequestAt \cup OrderAt]
         /\ \A q \in Request : op'[q] \in RequestAt
         /\ \A q \in StopOrder : op'[q] \in OrderAt
         /\ op'[p] = where
         /\ \A q \in Request \cup StopOrder : q # p => op'[q] = op[q]
  BY ActorAssumption DEF TypeOK, Goto

LEMMA ReachRunner ==
  ASSUME TypeOK, NEW r \in Runner, NEW where \in RunnerAt, Reach(r, where)
  PROVE  /\ at' \in [Runner -> RunnerAt]
         /\ at'[r] = where
         /\ \A q \in Runner : q # r => at'[q] = at[q]
  BY DEF TypeOK, Reach

LEMMA StatusWritten ==
  ASSUME job \in Seq(Job), NEW j, NEW status,
         status \in {"QUEUED", "BUSY", "SUCCEEDED", "FAILED", "AWAITING_HUMAN"},
         job' = [job EXCEPT ![j].status = status]
  PROVE  job' \in Seq(Job) /\ Len(job') = Len(job) /\ DOMAIN job' = DOMAIN job
<1>1. DOMAIN job = 1..Len(job) /\ Len(job) \in Nat
  OBVIOUS
<1>2. ASSUME NEW i \in DOMAIN job PROVE job'[i] \in Job
  <2>1. job[i] \in Job
    OBVIOUS
  <2>2. job'[i] = IF i = j THEN [job[i] EXCEPT !.status = status] ELSE job[i]
    OBVIOUS
  <2> QED
    BY <2>1, <2>2 DEF Job
<1>3. DOMAIN job' = DOMAIN job
  OBVIOUS
<1>4. job' \in [1..Len(job) -> Job]
  BY <1>1, <1>2, <1>3
<1> QED
  BY <1>1, <1>4

LEMMA SettingWritten ==
  ASSUME TypeOK, SettingRoute
  PROVE  \E mode \in Mode, paused \in BOOLEAN : WriteSetting(mode, paused)
<1>1. "ASSISTED" \in Mode
  BY DEF Mode
<1> QED
  BY <1>1, SettingParts DEF SettingRoute, PutSettings, UpdateSettings, Pause, SwitchAssisted

LEMMA MoreCounts ==
  ASSUME NEW S, NEW f \in [S -> Count], NEW p \in S
  PROVE  /\ More(f, p) \in [S -> Count]
         /\ f[p] = 0 => More(f, p)[p] = 1
         /\ \A q \in S : q # p => More(f, p)[q] = f[q]
  BY DEF More, Count

-------------------------------------------------------------------------------
(* Types *)

LEMMA TypeInit == Init => TypeOK
<1> SUFFICES ASSUME Init PROVE TypeOK
  OBVIOUS
<1>1. Idle \in RequestAt /\ Idle \in OrderAt /\ Idle \in RunnerAt
  BY DEF RequestAt, OrderAt, RunnerAt
<1>2. setting \in Setting
  <2>1. NoSetting \in Setting
    BY DEF Setting
  <2>2. [mode |-> "DEMO", paused |-> FALSE, exists |-> TRUE] \in Setting
    BY DEF Setting, Mode
  <2> QED
    BY <2>1, <2>2 DEF Init
<1>3. job \in Seq(Job) /\ Len(job) = 0
  BY DEF Init
<1> QED
  BY <1>1, <1>2, <1>3, BoundAssumption DEF Init, TypeOK, Count

LEMMA OrderTypes ==
  ASSUME TypeOK, NEW p \in StopOrder, OrderStep(p)
  PROVE  TypeOK'
<1>1. ASSUME NEW stop \in BOOLEAN, StopBegin(p, stop) PROVE TypeOK'
  <2>1. [pc |-> "writing", stop |-> stop, left |-> 3] \in OrderAt
    BY DEF OrderAt
  <2> QED
    BY <1>1, <2>1, GotoOrder DEF StopBegin, TypeOK, world
<1>2. CASE StopWrite(p)
  <2>1. op[p] \in [pc : {"writing"}, stop : BOOLEAN, left : 1..3]
    BY <1>2, OrderParts DEF StopWrite, Idle
  <2>2. (IF op[p].left = 1 THEN Idle ELSE [op[p] EXCEPT !.left = @ - 1]) \in OrderAt
    BY <2>1 DEF OrderAt
  <2>3. op' \in [Request \cup StopOrder -> RequestAt \cup OrderAt]
        /\ (\A q \in Request : op'[q] \in RequestAt)
        /\ (\A q \in StopOrder : op'[q] \in OrderAt)
    BY <1>2, <2>2, GotoOrder DEF StopWrite
  <2>4. key' \in [Key -> BOOLEAN]
    BY <1>2, <2>1 DEF StopWrite, TypeOK
  <2>5. since' \in [Request \cup Runner -> Count] /\ ordered' \in {"stop", "run", "unclear"}
    BY <1>2 DEF StopWrite, Say, TypeOK, Count
  <2> QED
    BY <1>2, <2>3, <2>4, <2>5 DEF StopWrite, Say, TypeOK
<1>3. CASE Fail(p)
  <2>1. Idle \in OrderAt
    BY DEF OrderAt
  <2> QED
    BY <1>3, <2>1, GotoOrder DEF Fail, TypeOK, world
<1> QED
  BY <1>1, <1>2, <1>3 DEF OrderStep

LEMMA GateTypes ==
  ASSUME TypeOK, NEW p \in Request,
         (\E given \in Given : Ask(p, given)) \/ CheckStop(p) \/ CheckSetting(p) \/ CheckConsent(p)
  PROVE  TypeOK'
<1> DEFINE Moved == \E where \in RequestAt : Goto(p, where)
<1>0. setting.mode \in Mode
  BY SettingParts
<1>1. ASSUME NEW mode \in Mode, Refuse(p, mode) PROVE Moved
  BY <1>1 DEF Refuse, RequestAt
<1>2. ASSUME NEW given \in Given, Ask(p, given) PROVE Moved
  BY <1>2 DEF Ask, RequestAt
<1>3. ASSUME op[p] \in [pc : {"asked", "unstopped"}, given : Given] PROVE GivenOrDemo(p) \in Mode
  BY <1>3 DEF GivenOrDemo, Given, Mode
<1>4. ASSUME CheckStop(p) PROVE Moved
  <2>1. op[p] \in [pc : {"asked", "unstopped"}, given : Given]
    BY <1>4, RequestParts DEF CheckStop
  <2>2. [op[p] EXCEPT !.pc = "unstopped"] \in RequestAt
    BY <2>1 DEF RequestAt
  <2> QED
    BY <1>1, <1>3, <1>4, <2>1, <2>2 DEF CheckStop
<1>5. ASSUME CheckSetting(p) PROVE Moved
  <2>1. op[p] \in [pc : {"asked", "unstopped"}, given : Given]
    BY <1>5, RequestParts DEF CheckSetting
  <2>2. [pc |-> "configured", given |-> op[p].given, mode |-> setting.mode] \in RequestAt
    BY <1>0, <2>1 DEF RequestAt
  <2> QED
    BY <1>0, <1>1, <1>3, <1>5, <2>1, <2>2 DEF CheckSetting
<1>6. ASSUME CheckConsent(p) PROVE Moved
  <2>1. op[p] \in [pc : {"configured"}, given : Given, mode : Mode]
    BY <1>6, RequestParts DEF CheckConsent
  <2>2. (IF op[p].given = "none" THEN op[p].mode ELSE op[p].given) \in Mode
    BY <2>1 DEF Given
  <2>3. [pc   |-> "verdict", ok |-> TRUE,
         mode |-> IF op[p].given = "none" THEN op[p].mode ELSE op[p].given] \in RequestAt
    BY <2>2 DEF RequestAt
  <2> QED
    BY <1>1, <1>6, <2>1, <2>3 DEF CheckConsent
<1>7. Moved
  BY <1>2, <1>4, <1>5, <1>6
<1>8. UNCHANGED <<world, job, at, retries, history>>
  BY DEF Ask, CheckStop, CheckSetting, CheckConsent
<1> QED
  BY <1>7, <1>8, GotoRequest DEF TypeOK, world, history

LEMMA RequestTypes ==
  ASSUME TypeOK, NEW p \in Request, RequestStep(p)
  PROVE  TypeOK'
<1>0. Idle \in RequestAt
  BY DEF RequestAt
<1>1. CASE Create(p)
  <2>1. op[p] \in [pc : {"verdict"}, mode : Mode, ok : BOOLEAN]
    BY <1>1, RequestParts DEF Create
  <2>2. [mode |-> op[p].mode, status |-> IF op[p].ok THEN "QUEUED" ELSE "FAILED"] \in Job
    BY <2>1 DEF Job
  <2>3. job \in Seq(Job) /\ Len(job) \in Nat /\ Len(job) < MaxJobs
    BY <1>1 DEF Create, TypeOK
  <2>4. job' \in Seq(Job) /\ Len(job') = Len(job) + 1 /\ DOMAIN job \subseteq DOMAIN job'
    BY <1>1, <2>2, <2>3 DEF Create
  <2>5. admitted' \subseteq DOMAIN job'
    BY <1>1, <2>3, <2>4 DEF Create, TypeOK
  <2>6. since' \in [Request \cup Runner -> Count] /\ late' \in [Request -> Count]
    BY <1>1, MoreCounts DEF Create, TypeOK
  <2>7. op' \in [Request \cup StopOrder -> RequestAt \cup OrderAt]
        /\ (\A q \in Request : op'[q] \in RequestAt)
        /\ (\A q \in StopOrder : op'[q] \in OrderAt)
    BY <1>0, <1>1, GotoRequest DEF Create
  <2>8. Len(job') <= MaxJobs
    BY <2>3, <2>4, BoundAssumption
  <2> QED
    BY <1>1, <2>4, <2>5, <2>6, <2>7, <2>8 DEF Create, TypeOK, world
<1>2. CASE Fail(p)
  BY <1>0, <1>2, GotoRequest DEF Fail, TypeOK, world
<1>3. ASSUME NEW j \in DOMAIN job, RetryRead(p, j) PROVE TypeOK'
  <2>1. [pc |-> "retrying", of |-> j] \in RequestAt
    BY <1>3, BoundAssumption DEF RequestAt, TypeOK
  <2>2. retries' \in 0..MaxRetries
    BY <1>3, BoundAssumption DEF RetryRead, TypeOK
  <2> QED
    BY <1>3, <2>1, <2>2, GotoRequest DEF RetryRead, TypeOK, world, history
<1>4. CASE RetryWrite(p)
  <2>1. job' \in Seq(Job) /\ Len(job') = Len(job) /\ DOMAIN job' = DOMAIN job
    BY <1>4, StatusWritten DEF RetryWrite, TypeOK
  <2> QED
    BY <1>0, <1>4, <2>1, GotoRequest DEF RetryWrite, TypeOK, world, history
<1> QED
  BY <1>1, <1>2, <1>3, <1>4, GateTypes DEF RequestStep

LEMMA RunnerTypes ==
  ASSUME TypeOK, NEW r \in Runner, RunnerStep(r)
  PROVE  TypeOK'
<1>0. Idle \in RunnerAt /\ [pc |-> "polling"] \in RunnerAt
  BY DEF RunnerAt
<1>1. CASE Poll(r)
  BY <1>0, <1>1, ReachRunner DEF Poll, TypeOK, world, history
<1>2. ASSUME NEW j \in DOMAIN job, Claim(r, j) PROVE TypeOK'
  <2>1. job' \in Seq(Job) /\ Len(job') = Len(job) /\ DOMAIN job' = DOMAIN job
    BY <1>2, StatusWritten DEF Claim, TypeOK
  <2>2. [pc |-> "executing", of |-> j] \in RunnerAt
    BY <1>2, BoundAssumption DEF RunnerAt, TypeOK
  <2>3. since' \in [Request \cup Runner -> Count]
    BY <1>2, MoreCounts DEF Claim, TypeOK
  <2> QED
    BY <1>2, <2>1, <2>2, <2>3, ReachRunner DEF Claim, TypeOK, world
<1>3. CASE ClaimNone(r)
  BY <1>0, <1>3, ReachRunner DEF ClaimNone, TypeOK, world, history
<1>4. CASE Execute(r)
  <2>1. job' \in Seq(Job) /\ Len(job') = Len(job) /\ DOMAIN job' = DOMAIN job
    BY <1>4, StatusWritten DEF Execute, Outcome, TypeOK
  <2> QED
    BY <1>0, <1>4, <2>1, ReachRunner DEF Execute, TypeOK, world, history
<1>5. CASE Crash(r)
  BY <1>0, <1>5, ReachRunner DEF Crash, TypeOK, world, history
<1> QED
  BY <1>1, <1>2, <1>3, <1>4, <1>5 DEF RunnerStep

LEMMA TypeStep == TypeOK /\ [Next]_vars => TypeOK'
<1> SUFFICES ASSUME TypeOK, [Next]_vars PROVE TypeOK'
  OBVIOUS
<1>1. ASSUME NEW j \in DOMAIN job, Requeue(j) PROVE TypeOK'
  <2>1. job' \in Seq(Job) /\ Len(job') = Len(job) /\ DOMAIN job' = DOMAIN job
    BY <1>1, StatusWritten DEF Requeue, TypeOK
  <2> QED
    BY <1>1, <2>1 DEF Requeue, TypeOK, world, history
<1>2. ASSUME NEW k \in Key, NEW stop \in BOOLEAN, StopSetting(k, stop) PROVE TypeOK'
  <2>1. key' \in [Key -> BOOLEAN] /\ since' \in [Request \cup Runner -> Count]
    BY <1>2 DEF StopSetting, Say, TypeOK, Count
  <2> QED
    BY <1>2, <2>1 DEF StopSetting, Say, TypeOK
<1>3. ASSUME NEW mode \in Mode, NEW paused \in BOOLEAN, WriteSetting(mode, paused) PROVE TypeOK'
  <2>1. setting' \in Setting /\ late' \in [Request -> Count]
    BY <1>3 DEF WriteSetting, Setting, TypeOK, Count
  <2> QED
    BY <1>3, <2>1 DEF WriteSetting, TypeOK
<1>4. CASE RecordConsent
  BY <1>4 DEF RecordConsent, TypeOK, history
<1>5. CASE UNCHANGED vars
  BY <1>5 DEF vars, world, history, TypeOK
<1> QED
  BY <1>1, <1>2, <1>3, <1>4, <1>5, OrderTypes, RequestTypes, RunnerTypes, SettingWritten DEF Next

\* Settings, jobs, requests, runners and the history keep their types.
THEOREM TypeCorrect == Spec => []TypeOK
  BY TypeInit, TypeStep, PTL DEF Spec

-------------------------------------------------------------------------------
(* The stop is obeyed *)

\* What an order to go on that nobody has crossed has already written.
Lifting ==
  \A p \in steady :
    /\ op[p].pc = "writing" /\ ~op[p].stop
    /\ op[p].left <= 2 => ~key[Global]
    /\ op[p].left = 1 => ~key[Alias]

StopInv == StopObeyed /\ Lifting

LEMMA OrderObeyed ==
  ASSUME TypeOK, StopInv, NEW p \in StopOrder, OrderStep(p)
  PROVE  StopInv'
<1>0. \A q \in steady : q \in StopOrder
  BY DEF TypeOK
<1>1. ASSUME NEW stop \in BOOLEAN, StopBegin(p, stop) PROVE StopInv'
  <2>1. [pc |-> "writing", stop |-> stop, left |-> 3] \in OrderAt
    BY DEF OrderAt
  <2>2. op'[p] = [pc |-> "writing", stop |-> stop, left |-> 3]
        /\ (\A q \in StopOrder : q # p => op'[q] = op[q])
    BY <1>1, <2>1, GotoOrder DEF StopBegin
  <2>3. p \notin steady
    BY <1>1 DEF StopBegin, StopInv, Lifting, Idle
  <2> QED
    BY <1>0, <1>1, <2>2, <2>3 DEF StopBegin, StopInv, StopObeyed, Stopped, Lifting, world
<1>2. CASE StopWrite(p)
  <2>1. op[p] \in [pc : {"writing"}, stop : BOOLEAN, left : 1..3]
    BY <1>2, OrderParts DEF StopWrite, Idle
  <2>2. key \in [Key -> BOOLEAN] /\ Global \in Key /\ Alias \in Key /\ Global # Alias
    BY DEF TypeOK, Key, Global, Alias
  <2>3. key' = [key EXCEPT ![Written(op[p].left)] = op[p].stop] /\ Written(op[p].left) \in Key
    BY <1>2, <2>2 DEF StopWrite, Written
  <2>4. /\ op[p].left # 1 => op'[p] = [op[p] EXCEPT !.left = @ - 1]
        /\ \A q \in StopOrder : q # p => op'[q] = op[q]
    <3>1. (IF op[p].left = 1 THEN Idle ELSE [op[p] EXCEPT !.left = @ - 1]) \in OrderAt
      BY <2>1 DEF OrderAt
    <3> QED
      BY <1>2, <3>1, GotoOrder DEF StopWrite
  <2>5. CASE op[p].stop
    BY <1>2, <2>2, <2>3, <2>5 DEF StopWrite, Say, StopInv, StopObeyed, Stopped, Lifting
  <2>6. CASE ~op[p].stop
    <3>1. \A k \in Key : key'[k] => key[k]
      BY <2>2, <2>3, <2>6
    <3>2. ordered' = "run" => ~key[Global] /\ op[p].left = 1
      BY <1>2, <2>6 DEF StopWrite, Say, StopInv, Lifting
    <3>3. ordered' # "stop"
      BY <1>2, <2>6 DEF StopWrite, Say
    <3>4. op[p].left = 1 => ~key'[Alias]
      BY <2>2, <2>3, <2>6 DEF Written
    <3>5. StopObeyed'
      BY <2>2, <3>1, <3>2, <3>3, <3>4 DEF StopObeyed, Stopped, Key
    <3>6. ASSUME NEW q \in steady', q # p
          PROVE  /\ op'[q].pc = "writing" /\ ~op'[q].stop
                 /\ op'[q].left <= 2 => ~key'[Global]
                 /\ op'[q].left = 1 => ~key'[Alias]
      BY <1>0, <1>2, <2>2, <2>4, <2>6, <3>1, <3>6 DEF StopWrite, StopInv, Lifting
    <3>7. ASSUME p \in steady'
          PROVE  /\ op'[p].pc = "writing" /\ ~op'[p].stop
                 /\ op'[p].left <= 2 => ~key'[Global]
                 /\ op'[p].left = 1 => ~key'[Alias]
      <4>1. p \in steady /\ op[p].left # 1
        BY <1>2, <2>6, <3>7 DEF StopWrite
      <4>2. op'[p].pc = "writing" /\ ~op'[p].stop /\ op'[p].left = op[p].left - 1
        BY <2>1, <2>4, <2>6, <4>1
      <4>3. op[p].left = 3 \/ op[p].left = 2
        BY <2>1, <4>1
      <4>4. CASE op[p].left = 3
        BY <2>2, <2>3, <2>6, <4>2, <4>4 DEF Written
      <4>5. CASE op[p].left = 2
        BY <2>2, <2>3, <2>6, <3>1, <4>1, <4>2, <4>5 DEF Written, StopInv, Lifting
      <4> QED
        BY <4>3, <4>4, <4>5
    <3> QED
      BY <3>5, <3>6, <3>7 DEF StopInv, Lifting
  <2> QED
    BY <2>1, <2>5, <2>6
<1>3. CASE Fail(p)
  <2>1. \A q \in StopOrder : q # p => op'[q] = op[q]
    BY <1>3, GotoOrder DEF Fail, OrderAt
  <2> QED
    BY <1>0, <1>3, <2>1 DEF Fail, StopInv, StopObeyed, Stopped, Lifting, world
<1> QED
  BY <1>1, <1>2, <1>3 DEF OrderStep

\* Requests and runners leave the stop and the orders alone.
LEMMA StopUntouched ==
  ASSUME TypeOK, (\E p \in Request : RequestStep(p)) \/ (\E r \in Runner : RunnerStep(r))
  PROVE  UNCHANGED <<key, ordered, steady>> /\ \A q \in StopOrder : op'[q] = op[q]
<1>1. ASSUME NEW p \in Request, RequestStep(p)
      PROVE  UNCHANGED <<key, ordered, steady>> /\ \E where : Goto(p, where)
  <2>1. p \notin steady
    BY ActorAssumption DEF TypeOK
  <2>2. CASE Fail(p)
    BY <2>1, <2>2 DEF Fail, world
  <2>3. CASE \E given \in Given : Ask(p, given)
    BY <2>3 DEF Ask, world, history
  <2>4. CASE CheckStop(p)
    BY <2>4 DEF CheckStop, Refuse, world, history
  <2>5. CASE CheckSetting(p)
    BY <2>5 DEF CheckSetting, Refuse, world, history
  <2>6. CASE CheckConsent(p)
    BY <2>6 DEF CheckConsent, Refuse, world, history
  <2>7. CASE Create(p)
    BY <2>7 DEF Create, world
  <2>8. CASE (\E j \in DOMAIN job : RetryRead(p, j)) \/ RetryWrite(p)
    BY <2>8 DEF RetryRead, RetryWrite, world, history
  <2> QED
    BY <1>1, <2>2, <2>3, <2>4, <2>5, <2>6, <2>7, <2>8 DEF RequestStep
<1>2. ASSUME NEW p \in Request, NEW where, Goto(p, where), NEW q \in StopOrder
      PROVE  op'[q] = op[q]
  BY <1>2, ActorAssumption DEF Goto, TypeOK
<1>3. ASSUME NEW r \in Runner, RunnerStep(r) PROVE UNCHANGED <<key, ordered, steady, op>>
  BY <1>3 DEF RunnerStep, Poll, Claim, ClaimNone, Execute, Crash, world, history
<1> QED
  BY <1>1, <1>2, <1>3

LEMMA StopStep == TypeOK /\ StopInv /\ [Next]_vars => StopInv'
<1> SUFFICES ASSUME TypeOK, StopInv, [Next]_vars PROVE StopInv'
  OBVIOUS
<1>0. \A q \in steady : q \in StopOrder
  BY DEF TypeOK
<1>1. ASSUME UNCHANGED <<key, ordered, steady>>, \A q \in StopOrder : op'[q] = op[q]
      PROVE  StopInv'
  BY <1>0, <1>1 DEF StopInv, StopObeyed, Stopped, Lifting
<1>2. CASE (\E p \in Request : RequestStep(p)) \/ (\E r \in Runner : RunnerStep(r))
  BY <1>1, <1>2, StopUntouched
<1>3. CASE \E p \in StopOrder : OrderStep(p)
  BY <1>3, OrderObeyed
<1>4. ASSUME NEW k \in Key, NEW stop \in BOOLEAN, StopSetting(k, stop) PROVE StopInv'
  <2>1. key' = [key EXCEPT ![k] = stop] /\ key \in [Key -> BOOLEAN] /\ op' = op
    BY <1>4 DEF StopSetting, TypeOK
  <2>2. CASE stop
    BY <1>4, <2>1, <2>2 DEF StopSetting, Say, StopInv, StopObeyed, Stopped, Lifting
  <2>3. CASE ~stop
    <3>1. ordered' = "unclear" /\ steady' = steady /\ \A i \in Key : key'[i] => key[i]
      BY <1>4, <2>1, <2>3 DEF StopSetting, Say
    <3> QED
      BY <2>1, <3>1 DEF StopInv, StopObeyed, Lifting, Key
  <2> QED
    BY <2>2, <2>3
<1>5. CASE (\E j \in DOMAIN job : Requeue(j))
             \/ (\E mode \in Mode, paused \in BOOLEAN : WriteSetting(mode, paused))
             \/ RecordConsent \/ UNCHANGED vars
  BY <1>1, <1>5 DEF Requeue, WriteSetting, RecordConsent, vars, world, history
<1> QED
  BY <1>2, <1>3, <1>4, <1>5, SettingWritten DEF Next

\* Whichever page it came from, an order to stop is obeyed until somebody lifts it, and a
\* lift that no order to stop crosses lifts both settings.
THEOREM StopIsObeyed == Spec => []StopObeyed
<1>1. Init => StopInv
  BY DEF Init, StopInv, StopObeyed, Stopped, Lifting
<1> QED
  BY <1>1, TypeCorrect, StopStep, PTL DEF Spec, StopInv

-------------------------------------------------------------------------------
(* The stop takes hold *)

\* The gate has found no stop and has not refused since.
Past(p) == op[p].pc \in {"unstopped", "configured"} \/ (op[p].pc = "verdict" /\ op[p].ok)

\* Who has had his one job since the stop has nothing under way that can begin another.
BoundInv ==
  /\ ordered # "stop" => \A p \in Request \cup Runner : since[p] = 0
  /\ \A p \in Request : since[p] # 0 => since[p] = 1 /\ ~Past(p)
  /\ \A r \in Runner : since[r] # 0 => since[r] = 1 /\ at[r].pc # "polling"

\* A write of a setting of the stop either changes no counter, or clears them all.
LEMMA SayBounds ==
  ASSUME TypeOK, BoundInv, NEW stop \in BOOLEAN, NEW whole \in BOOLEAN, Say(stop, whole),
         at' = at, \A p \in Request : op'[p] = op[p]
  PROVE  BoundInv'
<1>1. CASE stop /\ ordered = "stop"
  BY <1>1 DEF Say, BoundInv, Past
<1>2. CASE ~(stop /\ ordered = "stop")
  <2>1. \A p \in Request \cup Runner : since'[p] = 0
    BY <1>2 DEF Say, TypeOK
  <2> QED
    BY <2>1 DEF BoundInv
<1> QED
  BY <1>1, <1>2

\* A step of one request that counts nothing, but may take it past the gate.
LEMMA RequestBounds ==
  ASSUME TypeOK, BoundInv, NEW p \in Request, NEW where \in RequestAt, Goto(p, where),
         UNCHANGED <<at, since, ordered>>,
         Past(p)' => Past(p) \/ since[p] = 0
  PROVE  BoundInv'
<1>1. \A q \in Request : q # p => op'[q] = op[q]
  BY GotoRequest
<1> QED
  BY <1>1 DEF BoundInv, Past

LEMMA RequestsBounded ==
  ASSUME TypeOK, StopObeyed, BoundInv, NEW p \in Request, RequestStep(p)
  PROVE  BoundInv'
<1>0. Idle \in RequestAt /\ \A where \in RequestAt : Goto(p, where) => op'[p] = where
  BY GotoRequest DEF RequestAt
<1>1. Stopped \/ since[p] = 0
  BY DEF BoundInv, StopObeyed
<1>2. ASSUME NEW mode, Refuse(p, mode), TypeOK',
             UNCHANGED <<at, since, ordered>>
      PROVE  BoundInv'
  <2>1. Goto(p, [pc |-> "verdict", mode |-> mode, ok |-> FALSE])
    BY <1>2 DEF Refuse
  <2>2. op'[p] = [pc |-> "verdict", mode |-> mode, ok |-> FALSE]
        /\ \A q \in Request : q # p => op'[q] = op[q]
    BY <2>1 DEF Goto, TypeOK
  <2> QED
    BY <1>2, <2>2 DEF BoundInv, Past
<1>3. TypeOK'
  BY RequestTypes
<1>4. ASSUME NEW given \in Given, Ask(p, given) PROVE BoundInv'
  <2>1. [pc |-> "asked", given |-> given] \in RequestAt
    BY DEF RequestAt
  <2> QED
    BY <1>0, <1>4, <2>1, RequestBounds DEF Ask, Past, history
<1>5. CASE CheckStop(p)
  <2>1. CASE Stopped
    BY <1>2, <1>3, <1>5, <2>1 DEF CheckStop, history
  <2>2. CASE ~Stopped
    <3>1. op[p] \in [pc : {"asked", "unstopped"}, given : Given]
      BY <1>5, RequestParts DEF CheckStop
    <3>2. [op[p] EXCEPT !.pc = "unstopped"] \in RequestAt
      BY <3>1 DEF RequestAt
    <3> QED
      BY <1>1, <1>5, <2>2, <3>2, RequestBounds DEF CheckStop, history
  <2> QED
    BY <2>1, <2>2
<1>6. CASE CheckSetting(p)
  <2>1. CASE ~setting.exists \/ setting.paused
    BY <1>2, <1>3, <1>6, <2>1 DEF CheckSetting, history
  <2>2. CASE setting.exists /\ ~setting.paused
    <3>1. op[p] \in [pc : {"asked", "unstopped"}, given : Given]
      BY <1>6, RequestParts DEF CheckSetting
    <3>2. [pc |-> "configured", given |-> op[p].given, mode |-> setting.mode] \in RequestAt
      BY <3>1, SettingParts DEF RequestAt
    <3> QED
      BY <1>6, <2>2, <3>2, RequestBounds DEF CheckSetting, Past, history
  <2> QED
    BY <2>1, <2>2
<1>7. CASE CheckConsent(p)
  <2> DEFINE ok == consent /\ op[p].mode # "AUTHORIZED_BROWSER"
             mode == IF op[p].given = "none" THEN op[p].mode ELSE op[p].given
  <2>1. CASE ~ok
    BY <1>2, <1>3, <1>7, <2>1 DEF CheckConsent, history
  <2>2. CASE ok
    <3>1. op[p] \in [pc : {"configured"}, given : Given, mode : Mode]
      BY <1>7, RequestParts DEF CheckConsent
    <3>2. [pc |-> "verdict", ok |-> TRUE, mode |-> mode] \in RequestAt
      BY <3>1 DEF RequestAt, Given
    <3> QED
      BY <1>7, <2>2, <3>2, RequestBounds DEF CheckConsent, Past, history
  <2> QED
    BY <2>1, <2>2
<1>8. CASE Create(p)
  <2>1. op'[p] = Idle /\ \A q \in Request : q # p => op'[q] = op[q]
    BY <1>0, <1>8, GotoRequest DEF Create
  <2>2. CASE op[p].ok /\ ordered = "stop"
    <3>1. since[p] = 0
      BY <1>8, <2>2 DEF Create, BoundInv, Past
    <3>2. since'[p] = 1 /\ \A q \in Request \cup Runner : q # p => since'[q] = since[q]
      <4>1. since \in [Request \cup Runner -> Count] /\ p \in Request \cup Runner
        BY DEF TypeOK
      <4>2. since' = More(since, p)
        BY <1>8, <2>2 DEF Create
      <4> QED
        BY <3>1, <4>1, <4>2, MoreCounts
    <3> QED
      BY <1>8, <2>1, <2>2, <3>2, ActorAssumption DEF Create, BoundInv, Past, Idle
  <2>3. CASE ~(op[p].ok /\ ordered = "stop")
    BY <1>8, <2>1, <2>3 DEF Create, BoundInv, Past, Idle
  <2> QED
    BY <2>2, <2>3
<1>9. CASE Fail(p) \/ RetryWrite(p)
  BY <1>0, <1>9, RequestBounds DEF Fail, RetryWrite, Past, Idle, history
<1>10. ASSUME NEW j \in DOMAIN job, RetryRead(p, j) PROVE BoundInv'
  <2>1. [pc |-> "retrying", of |-> j] \in RequestAt
    BY <1>10, BoundAssumption DEF RequestAt, TypeOK
  <2> QED
    BY <1>0, <1>10, <2>1, RequestBounds DEF RetryRead, Past, history
<1> QED
  BY <1>4, <1>5, <1>6, <1>7, <1>8, <1>9, <1>10 DEF RequestStep

LEMMA RunnersBounded ==
  ASSUME TypeOK, StopObeyed, BoundInv, NEW r \in Runner, RunnerStep(r)
  PROVE  BoundInv'
<1>0. Idle \in RunnerAt /\ [pc |-> "polling"] \in RunnerAt
  BY DEF RunnerAt
<1>1. ASSUME NEW where \in RunnerAt, Reach(r, where), where.pc # "polling" \/ since[r] = 0,
             UNCHANGED <<op, since, ordered>>
      PROVE  BoundInv'
  BY <1>1, ReachRunner DEF BoundInv, Past
<1>2. CASE Poll(r)
  <2>1. since[r] = 0
    BY <1>2 DEF Poll, BoundInv, StopObeyed
  <2> QED
    BY <1>0, <1>1, <1>2, <2>1 DEF Poll, history
<1>3. ASSUME NEW j \in DOMAIN job, Claim(r, j) PROVE BoundInv'
  <2>1. [pc |-> "executing", of |-> j] \in RunnerAt
    BY BoundAssumption DEF RunnerAt, TypeOK
  <2>2. at'[r].pc = "executing" /\ \A q \in Runner : q # r => at'[q] = at[q]
    BY <1>3, <2>1, ReachRunner DEF Claim
  <2>3. CASE ordered = "stop"
    <3>1. since[r] = 0
      BY <1>3 DEF Claim, BoundInv
    <3>2. since \in [Request \cup Runner -> Count] /\ r \in Request \cup Runner
      BY DEF TypeOK
    <3>3. since'[r] = 1 /\ \A q \in Request \cup Runner : q # r => since'[q] = since[q]
      BY <1>3, <2>3, <3>1, <3>2, MoreCounts DEF Claim
    <3> QED
      BY <1>3, <2>2, <2>3, <3>3, ActorAssumption DEF Claim, BoundInv, Past
  <2>4. CASE ordered # "stop"
    BY <1>3, <2>2, <2>4 DEF Claim, BoundInv, Past
  <2> QED
    BY <2>3, <2>4
<1>4. CASE ClaimNone(r) \/ Execute(r) \/ Crash(r)
  BY <1>0, <1>1, <1>4 DEF ClaimNone, Execute, Crash, Idle, history
<1> QED
  BY <1>2, <1>3, <1>4 DEF RunnerStep

LEMMA BoundStep == TypeOK /\ StopObeyed /\ BoundInv /\ [Next]_vars => BoundInv'
<1> SUFFICES ASSUME TypeOK, StopObeyed, BoundInv, [Next]_vars PROVE BoundInv'
  OBVIOUS
<1>1. ASSUME UNCHANGED <<op, at, since, ordered>> PROVE BoundInv'
  BY <1>1 DEF BoundInv, Past
<1>2. ASSUME NEW p \in StopOrder, OrderStep(p) PROVE BoundInv'
  <2>1. \A q \in Request : op'[q] = op[q]
    BY <1>2, ActorAssumption DEF OrderStep, StopBegin, StopWrite, Fail, Goto, TypeOK
  <2>2. CASE StopWrite(p)
    <3>1. op[p].stop \in BOOLEAN /\ (op[p].left = 1 /\ p \in steady) \in BOOLEAN
      BY <2>2, OrderParts DEF StopWrite, Idle
    <3> QED
      BY <2>1, <2>2, <3>1, SayBounds DEF StopWrite
  <2>3. CASE Fail(p) \/ \E stop \in BOOLEAN : StopBegin(p, stop)
    BY <2>1, <2>3 DEF Fail, StopBegin, BoundInv, Past
  <2> QED
    BY <1>2, <2>2, <2>3 DEF OrderStep
<1>3. ASSUME NEW k \in Key, NEW stop \in BOOLEAN, StopSetting(k, stop) PROVE BoundInv'
  BY <1>3, SayBounds DEF StopSetting
<1>4. CASE (\E j \in DOMAIN job : Requeue(j))
             \/ (\E mode \in Mode, paused \in BOOLEAN : WriteSetting(mode, paused))
             \/ RecordConsent \/ UNCHANGED vars
  BY <1>1, <1>4 DEF Requeue, WriteSetting, RecordConsent, vars, world, history
<1> QED
  BY <1>2, <1>3, <1>4, RequestsBounded, RunnersBounded, SettingWritten DEF Next

\* Until a stop is lifted, each runner begins one job more at most, and each request
\* brings one more past the gate at most.
THEOREM StopTakesHold == Spec => []StopBounds
<1>1. Init => BoundInv
  BY DEF Init, BoundInv
<1>2. BoundInv => StopBounds
  <2> SUFFICES ASSUME BoundInv, NEW p \in Request \cup Runner PROVE since[p] <= 1
    BY DEF StopBounds
  <2>1. since[p] = 0 \/ since[p] = 1
    BY DEF BoundInv
  <2> QED
    BY <2>1
<1> QED
  BY <1>1, <1>2, TypeCorrect, StopIsObeyed, BoundStep, PTL DEF Spec

-------------------------------------------------------------------------------
(* A pause and a switch of mode take hold *)

\* All a request has read agrees with the group's setting as it is.
Agrees(p) ==
  /\ op[p].pc \in {"asked", "unstopped", "configured"} => op[p].given \in {setting.mode, "none"}
  /\ op[p].pc = "configured" => Allowed(op[p].mode)
  /\ op[p].pc = "verdict" /\ op[p].ok => Allowed(op[p].mode)

SettingInv == \A p \in Request : late[p] # 0 => late[p] = 1 /\ Agrees(p)

\* A step of one request that keeps it in agreement.
LEMMA RequestAgrees ==
  ASSUME TypeOK, SettingInv, NEW p \in Request, NEW where, Goto(p, where),
         UNCHANGED <<setting, late>>,
         Agrees(p) => Agrees(p)'
  PROVE  SettingInv'
<1>1. \A q \in Request : q # p => op'[q] = op[q]
  BY DEF Goto, TypeOK
<1> QED
  BY <1>1 DEF SettingInv, Agrees, Allowed

LEMMA RequestsAgree ==
  ASSUME TypeOK, SettingInv, NEW p \in Request, RequestStep(p)
  PROVE  SettingInv'
<1>0. p \in DOMAIN op /\ \A where : Goto(p, where) => op'[p] = where
  BY DEF Goto, TypeOK
<1>1. ASSUME NEW given \in Given, Ask(p, given) PROVE SettingInv'
  BY <1>0, <1>1, RequestAgrees DEF Ask, Agrees, world, history
<1>2. ASSUME NEW mode, Refuse(p, mode), UNCHANGED <<setting, late>> PROVE SettingInv'
  <2>1. Agrees(p)'
    BY <1>0, <1>2 DEF Refuse, Agrees
  <2> QED
    BY <1>2, <2>1, RequestAgrees DEF Refuse
<1>3. CASE CheckStop(p)
  <2>1. CASE Stopped
    BY <1>2, <1>3, <2>1 DEF CheckStop, world, history
  <2>2. CASE ~Stopped
    <3>1. op[p] \in [pc : {"asked", "unstopped"}, given : Given] /\ op[p].pc = "asked"
      BY <1>3, RequestParts DEF CheckStop
    <3>2. op'[p] = [op[p] EXCEPT !.pc = "unstopped"] /\ UNCHANGED <<setting, late>>
      BY <1>0, <1>3, <2>2 DEF CheckStop, world, history
    <3>3. op'[p].pc = "unstopped" /\ op'[p].given = op[p].given
      BY <3>1, <3>2
    <3> QED
      BY <1>3, <2>2, <3>1, <3>2, <3>3, RequestAgrees DEF CheckStop, Agrees
  <2> QED
    BY <2>1, <2>2
<1>4. CASE CheckSetting(p)
  <2>1. CASE ~setting.exists \/ setting.paused
    BY <1>2, <1>4, <2>1 DEF CheckSetting, world, history
  <2>2. CASE setting.exists /\ ~setting.paused
    BY <1>0, <1>4, <2>2, RequestAgrees DEF CheckSetting, Agrees, Allowed, world, history
  <2> QED
    BY <2>1, <2>2
<1>5. CASE CheckConsent(p)
  <2> DEFINE ok == consent /\ op[p].mode # "AUTHORIZED_BROWSER"
  <2>1. CASE ~ok
    BY <1>2, <1>5, <2>1 DEF CheckConsent, world, history
  <2>2. CASE ok
    BY <1>0, <1>5, <2>2, RequestAgrees DEF CheckConsent, Agrees, Allowed, world, history
  <2> QED
    BY <2>1, <2>2
<1>6. CASE Create(p)
  <2>1. op'[p] = Idle /\ setting' = setting /\ \A q \in Request : q # p => op'[q] = op[q]
    BY <1>0, <1>6 DEF Create, Goto, TypeOK, world
  <2>2. CASE op[p].ok /\ ~Allowed(op[p].mode)
    <3>1. late[p] = 0
      BY <1>6, <2>2 DEF Create, SettingInv, Agrees
    <3>2. late \in [Request -> Count] /\ late' = More(late, p)
      BY <1>6, <2>2 DEF Create, TypeOK
    <3>3. late'[p] = 1 /\ \A q \in Request : q # p => late'[q] = late[q]
      BY <3>1, <3>2, MoreCounts
    <3> QED
      BY <2>1, <3>3 DEF SettingInv, Agrees, Allowed, Idle
  <2>3. CASE ~(op[p].ok /\ ~Allowed(op[p].mode))
    BY <1>6, <2>1, <2>3 DEF Create, SettingInv, Agrees, Allowed, Idle
  <2> QED
    BY <2>2, <2>3
<1>7. CASE Fail(p) \/ RetryWrite(p)
  BY <1>0, <1>7, RequestAgrees DEF Fail, RetryWrite, Agrees, Idle, world, history
<1>8. ASSUME NEW j \in DOMAIN job, RetryRead(p, j) PROVE SettingInv'
  BY <1>0, <1>8, RequestAgrees DEF RetryRead, Agrees, world, history
<1> QED
  BY <1>1, <1>3, <1>4, <1>5, <1>6, <1>7, <1>8 DEF RequestStep

LEMMA SettingStep == TypeOK /\ SettingInv /\ [Next]_vars => SettingInv'
<1> SUFFICES ASSUME TypeOK, SettingInv, [Next]_vars PROVE SettingInv'
  OBVIOUS
<1>1. ASSUME UNCHANGED <<setting, late>>, \A p \in Request : op'[p] = op[p] PROVE SettingInv'
  BY <1>1 DEF SettingInv, Agrees, Allowed
<1>2. ASSUME NEW p \in StopOrder, OrderStep(p) PROVE SettingInv'
  <2>1. \A q \in Request : op'[q] = op[q]
    BY <1>2, ActorAssumption DEF OrderStep, StopBegin, StopWrite, Fail, Goto, TypeOK
  <2>2. UNCHANGED <<setting, late>>
    BY <1>2 DEF OrderStep, StopBegin, StopWrite, Fail, Say, world
  <2> QED
    BY <1>1, <2>1, <2>2
<1>3. ASSUME NEW r \in Runner, RunnerStep(r) PROVE SettingInv'
  BY <1>1, <1>3 DEF RunnerStep, Poll, Claim, ClaimNone, Execute, Crash, world, history
<1>4. ASSUME NEW k \in Key, NEW stop \in BOOLEAN, StopSetting(k, stop) PROVE SettingInv'
  BY <1>1, <1>4 DEF StopSetting, Say
<1>5. ASSUME NEW mode \in Mode, NEW paused \in BOOLEAN, WriteSetting(mode, paused)
      PROVE  SettingInv'
  <2>1. CASE setting' = setting
    BY <1>1, <1>5, <2>1 DEF WriteSetting
  <2>2. CASE setting' # setting
    BY <1>5, <2>2 DEF WriteSetting, SettingInv
  <2> QED
    BY <2>1, <2>2
<1>6. CASE (\E j \in DOMAIN job : Requeue(j)) \/ RecordConsent \/ UNCHANGED vars
  BY <1>1, <1>6 DEF Requeue, RecordConsent, vars, world, history
<1> QED
  BY <1>2, <1>3, <1>4, <1>5, <1>6, RequestsAgree, SettingWritten DEF Next

\* As long as the group's setting stays as it is, each request queues one job at most that
\* the setting does not allow.
THEOREM SettingTakesHold == Spec => []SettingBounds
<1>1. Init => SettingInv
  BY DEF Init, SettingInv
<1>2. SettingInv => SettingBounds
  <2> SUFFICES ASSUME SettingInv, NEW p \in Request PROVE late[p] <= 1
    BY DEF SettingBounds
  <2>1. late[p] = 0 \/ late[p] = 1
    BY DEF SettingInv
  <2> QED
    BY <2>1
<1> QED
  BY <1>1, <1>2, TypeCorrect, SettingStep, PTL DEF Spec
-------------------------------------------------------------------------------
(* The seed *)

Last == Len(Script!Steps)

\* The script has sections, and those the rows of one refer to come before it.
LEMMA StepsKnown ==
  /\ Last = 19
  /\ \A i \in 1..Last :
       \A k \in Script!Refers(Script!Steps[i]) : \E j \in 1..(i - 1) : Script!Steps[j] = k
<1>1. Last = 19
  BY DEF Last, Script!Steps
<1>2. ASSUME NEW i \in 1..19, NEW k \in Script!Refers(Script!Steps[i])
      PROVE  \E j \in 1..(i - 1) : Script!Steps[j] = k
  <2> USE DEF Script!Steps, Script!Refers
  <2>1. CASE i = 1 BY <1>2, <2>1
  <2>2. CASE i = 2 BY <1>2, <2>2
  <2>3. CASE i = 3 BY <1>2, <2>3
  <2>4. CASE i = 4 BY <1>2, <2>4
  <2>5. CASE i = 5 BY <1>2, <2>5
  <2>6. CASE i = 6 BY <1>2, <2>6
  <2>7. CASE i = 7 BY <1>2, <2>7
  <2>8. CASE i = 8 BY <1>2, <2>8
  <2>9. CASE i = 9 BY <1>2, <2>9
  <2>10. CASE i = 10 BY <1>2, <2>10
  <2>11. CASE i = 11 BY <1>2, <2>11
  <2>12. CASE i = 12 BY <1>2, <2>12
  <2>13. CASE i = 13 BY <1>2, <2>13
  <2>14. CASE i = 14 BY <1>2, <2>14
  <2>15. CASE i = 15 BY <1>2, <2>15
  <2>16. CASE i = 16 BY <1>2, <2>16
  <2>17. CASE i = 17 BY <1>2, <2>17
  <2>18. CASE i = 18 BY <1>2, <2>18
  <2>19. CASE i = 19 BY <1>2, <2>19
  <2> HIDE DEF Script!Steps, Script!Refers
  <2> QED
    BY <2>1, <2>2, <2>3, <2>4, <2>5, <2>6, <2>7, <2>8, <2>9, <2>10, <2>11, <2>12, <2>13,
       <2>14, <2>15, <2>16, <2>17, <2>18, <2>19
<1> QED BY <1>1, <1>2

\* What a run has passed is there, and so is all of it once a run has got to its end.
Passed ==
  /\ place \in [Run -> 0..Last]
  /\ \A r \in Run : \A i \in 1..(place[r] - 1) : Script!Steps[i] \in there
  /\ Script!References
  /\ finished => \A i \in 1..Last : Script!Steps[i] \in there
  /\ there \subseteq Script!Section

\* A run that writes its section goes on to the next, or has got to its end.
LEMMA WrittenPasses ==
  ASSUME Passed, NEW r \in Run, place[r] # 0, Script!Written(r, Script!Steps[place[r]])
  PROVE  Passed'
<1> DEFINE k == Script!Steps[place[r]]
           next == IF place[r] = Last THEN 0 ELSE place[r] + 1
<1>1. place[r] \in 1..Last /\ Last = 19
  BY StepsKnown DEF Passed
<1>2. /\ there' = there \cup {k} /\ place' = [place EXCEPT ![r] = next]
      /\ finished' = (finished \/ place[r] = Last)
  BY DEF Script!Written, Last
<1>3. next \in 0..Last
  BY <1>1
<1>4. place' \in [Run -> 0..Last]
  BY <1>2, <1>3 DEF Passed
<1>5. ASSUME NEW q \in Run, NEW i \in 1..(place'[q] - 1) PROVE Script!Steps[i] \in there'
  <2>1. CASE q # r
    BY <1>2, <1>5, <2>1 DEF Passed
  <2>2. CASE q = r
    <3>1. place'[q] = next
      BY <1>2, <2>2 DEF Passed
    <3>2. i = place[r] \/ i \in 1..(place[r] - 1)
      BY <1>1, <3>1
    <3> QED BY <1>2, <3>2 DEF Passed
  <2> QED BY <2>1, <2>2
<1>6. Script!References'
  <2>1. Script!Refers(k) \subseteq there
    BY <1>1, StepsKnown DEF Passed
  <2> HIDE DEF k
  <2> QED BY <1>2, <2>1 DEF Passed, Script!References
<1>7. ASSUME finished', NEW i \in 1..Last PROVE Script!Steps[i] \in there'
  <2>1. CASE finished
    BY <1>2, <2>1 DEF Passed
  <2>2. CASE place[r] = Last
    <3>1. i = place[r] \/ i \in 1..(place[r] - 1)
      BY <1>1, <2>2
    <3> QED BY <1>2, <3>1 DEF Passed
  <2> QED BY <1>2, <1>7, <2>1, <2>2
<1>8. k \in Script!Section
  BY <1>1 DEF Script!Section, Last
<1> QED BY <1>2, <1>4, <1>5, <1>6, <1>7, <1>8 DEF Passed

LEMMA PassedStep == Passed /\ [Script!Next]_(Script!vars) => Passed'
<1> SUFFICES ASSUME Passed, [Script!Next]_(Script!vars) PROVE Passed'
  OBVIOUS
<1>1. ASSUME NEW r \in Run, Script!Write(r) PROVE Passed'
  BY <1>1, WrittenPasses DEF Script!Write
<1>2. ASSUME NEW r \in Run, Script!WriteSeat(r) PROVE Passed'
  BY <1>2, WrittenPasses DEF Script!WriteSeat
<1>3. ASSUME NEW r \in Run, NEW n \in {0, 1}, place' = [place EXCEPT ![r] = n],
             UNCHANGED <<there, finished>>
      PROVE  Passed'
  <2>1. place' \in [Run -> 0..Last] /\ \A q \in Run : place'[q] = n \/ place'[q] = place[q]
    BY <1>3, StepsKnown DEF Passed
  <2>2. \A q \in Run : \A i \in 1..(place'[q] - 1) : i \in 1..(place[q] - 1)
    BY <2>1 DEF Passed
  <2> QED BY <1>3, <2>1, <2>2 DEF Passed, Script!References
<1>4. ASSUME NEW r \in Run, Script!Start(r) \/ Script!BreakOff(r) PROVE Passed'
  BY <1>3, <1>4 DEF Script!Start, Script!BreakOff
<1>5. CASE UNCHANGED <<there, place, finished>>
  BY <1>5 DEF Passed, Script!References
<1> QED
  BY <1>1, <1>2, <1>4, <1>5
  DEF Script!Next, Script!Decide, Script!Seat, Script!vars

\* However often runs of the seed cross and break off, every row has what it refers to, and
\* every scenario is whole once a run has got to its end.
THEOREM SeedWhole == Script!Spec => [](Script!References /\ Script!ScenariosWhole)
<1>1. Script!Init => Passed
  BY StepsKnown DEF Script!Init, Passed, Script!References
<1>2. Passed => Script!References /\ Script!ScenariosWhole
  BY DEF Passed, Script!ScenariosWhole, Script!Section, Last
<1> QED BY <1>1, <1>2, PassedStep, PTL DEF Script!Spec

\* The decisions that are still there were made after each run that would have taken them
\* back has passed their section, and are counted as such.
Stands ==
  /\ place \in [Run -> 0..Last]
  /\ later \in [Run -> SUBSET Decision]
  /\ decided \subseteq Decision
  /\ Script!WrittenBack

LEMMA StandsStep == Passed' /\ Stands /\ [Script!Next]_(Script!vars) => Stands'
<1> SUFFICES ASSUME Passed', Stands, [Script!Next]_(Script!vars) PROVE Stands'
  OBVIOUS
<1>0. place' \in [Run -> 0..Last]
  BY DEF Passed
<1>1. ASSUME NEW r \in Run, place[r] # 0, Script!Written(r, Script!Steps[place[r]])
      PROVE  Stands'
  <2> DEFINE k == Script!Steps[place[r]]
  <2>1. /\ decided' = decided \ Script!WritesBack(k) /\ later' = later
        /\ place' = [place EXCEPT ![r] = IF @ = Last THEN 0 ELSE @ + 1]
    BY <1>1 DEF Script!Written, Last
  <2>2. place[r] \in 1..Last /\ Last \in Nat
    BY <1>1, StepsKnown DEF Stands
  <2>3. ASSUME NEW q \in Run, NEW i \in 1..Last, i < place'[q]
        PROVE  Script!WritesBack(Script!Steps[i]) \cap decided' \subseteq later'[q]
    <3>1. CASE i < place[q]
      BY <2>1, <3>1 DEF Stands, Script!WrittenBack, Last
    <3>2. CASE ~(i < place[q])
      <4>1. q = r /\ i = place[r]
        BY <2>1, <2>2, <2>3, <3>2 DEF Stands
      <4> QED BY <2>1, <4>1
    <3> QED BY <3>1, <3>2
  <2> QED BY <1>0, <2>1, <2>3 DEF Stands, Script!WrittenBack, Last
<1>2. ASSUME NEW r \in Run, Script!Write(r) \/ Script!WriteSeat(r) PROVE Stands'
  BY <1>1, <1>2 DEF Script!Write, Script!WriteSeat
<1>3. ASSUME NEW r \in Run, Script!Start(r) PROVE Stands'
  <2>1. /\ place' = [place EXCEPT ![r] = 1] /\ later' = [later EXCEPT ![r] = {}]
        /\ decided' = decided
    BY <1>3 DEF Script!Start
  <2>2. ASSUME NEW q \in Run, NEW i \in 1..Last, i < place'[q]
        PROVE  Script!WritesBack(Script!Steps[i]) \cap decided' \subseteq later'[q]
    <3>1. q # r
      BY <2>1, <2>2 DEF Stands
    <3> QED BY <2>1, <2>2, <3>1 DEF Stands, Script!WrittenBack, Last
  <2> QED BY <1>0, <2>1, <2>2 DEF Stands, Script!WrittenBack, Last
<1>4. ASSUME NEW r \in Run, Script!BreakOff(r) PROVE Stands'
  <2>1. place' = [place EXCEPT ![r] = 0] /\ UNCHANGED <<later, decided>>
    BY <1>4 DEF Script!BreakOff
  <2>2. \A q \in Run : place'[q] = place[q] \/ place'[q] = 0
    BY <2>1 DEF Stands
  <2> QED BY <1>0, <2>1, <2>2 DEF Stands, Script!WrittenBack
<1>5. ASSUME NEW d \in Decision, Script!Decide(d) PROVE Stands'
  <2>1. /\ decided' = decided \cup {d} /\ place' = place
        /\ later' = [r \in Run |->
                       IF \E i \in 1..Last : Script!Steps[i] = Script!RowOf(d) /\ i < place[r]
                       THEN later[r] \cup {d} ELSE later[r]]
    BY <1>5 DEF Script!Decide, Last
  <2>2. later' \in [Run -> SUBSET Decision]
    BY <2>1 DEF Stands
  <2>3. ASSUME NEW q \in Run, NEW i \in 1..Last, i < place[q],
               NEW e \in Script!WritesBack(Script!Steps[i]) \cap decided'
        PROVE  e \in later'[q]
    <3>1. CASE e = d
      <4>1. Script!Steps[i] = Script!RowOf(d)
        BY <3>1 DEF Script!WritesBack
      <4> QED BY <2>1, <2>3, <3>1, <4>1
    <3>2. CASE e # d
      <4>1. e \in later[q]
        BY <2>1, <2>3, <3>2 DEF Stands, Script!WrittenBack, Last
      <4> QED BY <2>1, <4>1
    <3> QED BY <3>1, <3>2
  <2> QED BY <1>0, <2>1, <2>2, <2>3 DEF Stands, Script!WrittenBack, Last
<1>6. CASE UNCHANGED <<place, later, decided>>
  BY <1>6 DEF Stands, Script!WrittenBack
<1> QED
  BY <1>2, <1>3, <1>4, <1>5, <1>6
  DEF Script!Next, Script!Seat, Script!vars

\* What an operator decides stands until a run comes to its section, and only where the
\* upserts name the field does that run take it back.
THEOREM SeedWritesBack == Script!Spec => []Script!WrittenBack
<1>1. Script!Init => Passed /\ Stands
  <2>1. Script!Init => Passed
    BY StepsKnown DEF Script!Init, Passed, Script!References
  <2> QED BY <2>1 DEF Script!Init, Passed, Stands, Script!WrittenBack
<1>2. Stands => Script!WrittenBack
  BY DEF Stands
<1> QED BY <1>1, <1>2, PassedStep, StandsStep, PTL DEF Script!Spec

-------------------------------------------------------------------------------
(* The gate and the seed side by side *)

\* Each side steps as it does alone.
LEMMA DeploymentParts == DeploymentSpec => Spec /\ Script!Spec
<1>1. DeploymentInit => Init /\ Script!Init
  BY DEF DeploymentInit
<1>2. [DeploymentNext]_<<vars, seeded, about>> => [Next]_vars /\ [Script!Next]_(Script!vars)
  BY DEF DeploymentNext, seeded, Script!vars
<1> QED BY <1>1, <1>2, PTL DEF DeploymentSpec, Spec, Script!Spec

\* In the deployment as it is checked the gate keeps what it promises.
THEOREM GateHolds == DeploymentSpec => [](StopObeyed /\ StopBounds /\ SettingBounds)
BY DeploymentParts, StopIsObeyed, StopTakesHold, SettingTakesHold, PTL

\* In the deployment as it is checked a finished seed is whole.
THEOREM ScenariosAreWhole == DeploymentSpec => []ScenariosWhole
<1>1. Script!References /\ Script!ScenariosWhole => ScenariosWhole
  BY DEF ScenariosWhole
<1> QED BY <1>1, DeploymentParts, SeedWhole, PTL

\* In the deployment as it is checked the seed writes back what the upserts name.
THEOREM DecisionsWrittenBack == DeploymentSpec => []WrittenBack
<1>1. Script!WrittenBack => WrittenBack
  BY DEF WrittenBack
<1> QED BY <1>1, DeploymentParts, SeedWritesBack, PTL

-------------------------------------------------------------------------------
(* The demo's database: its tables *)

\* A table: rows of one form under identifiers.
Table(S) == UNION {[D -> S] : D \in SUBSET Row}

Group == [used : Nat, room : {Room}]
Order == [of : Row, status : {"AWAITING_PAYMENT", "CONFIRMED", "CANCELLED"}]
Invite == [sub : Row, status : {"SENT", "ACTIVATED"}]

Shape ==
  [users : Table(User), product : {"active", "inactive", "gone"}, groups : Seq(Group),
   orders : Table(Order), subs : Table(Subscription), invites : Table(Invite),
   tasks : SUBSET Task, texts : SUBSET Text]

\* Rows point at rows that are there; a subscription whose invitation has not been sent
\* is in no group, and one with an invitation has been sent it.
RefersIn(db) ==
  /\ \A s \in DOMAIN db.subs :
       /\ db.subs[s].order \in DOMAIN db.orders
       /\ db.subs[s].group \in {None} \cup DOMAIN db.groups
       /\ db.subs[s].invite = "PENDING" => db.subs[s].group = None
  /\ \A i \in DOMAIN db.invites :
       /\ db.invites[i].sub \in DOMAIN db.subs
       /\ db.subs[db.invites[i].sub].invite # "PENDING"

Subs(db, o) == {s \in DOMAIN db.subs : db.subs[s].order = o}
InGroup(db, g) == {s \in DOMAIN db.subs : db.subs[s].group = g}

\* BookedIn, without counting.
OnceIn(db) ==
  \A o \in DOMAIN db.orders :
    IF db.orders[o].status = "CONFIRMED" THEN \E s : Subs(db, o) = {s} ELSE Subs(db, o) = {}

Whole(db) ==
  db \in Shape /\ RefersIn(db) /\ OnceIn(db) /\ SlotsCountedIn(db) /\ TasksListedIn(db)

\* What an operation may do: the database stays whole and nothing is lost.
Keeps(before, after) == Whole(after) /\ ~Lost(before, after)

\* The order of the naturals, as a relation, is well founded.
Less == {ij \in Nat \X Nat : ij[1] < ij[2]}

\* A nonempty set of naturals has a least element.
LEMMA Least ==
  ASSUME NEW T \in SUBSET Nat, T # {}
  PROVE  Min(T) \in T /\ \A m \in T : Min(T) <= m
<1>1. Less = OpToRel(<, Nat)
  BY Zenon DEF OpToRel, Less
<1>2. IsWellFoundedOn(Less, Nat)
  BY <1>1, NatLessThanWellFounded
<1>3. PICK n \in T : \A m \in T : ~ (<<m, n>> \in Less)
  BY <1>2, WFMin
<1>4. ASSUME NEW m \in T PROVE n <= m
  <2>1. <<m, n>> \notin Less /\ m \in Nat /\ n \in Nat
    BY <1>3
  <2>2. ~(m < n)
    BY <2>1 DEF Less
  <2> QED BY <2>1, <2>2
<1> QED BY <1>4 DEF Min

\* A table with a row more is a table.
LEMMA TablePut ==
  ASSUME NEW S, NEW f \in Table(S), NEW r \in Row, NEW e \in S
  PROVE  Put(f, r, e) \in Table(S)
<1>1. PICK D \in SUBSET Row : f \in [D -> S]
  BY DEF Table
<1>2. D \cup {r} \in SUBSET Row /\ Put(f, r, e) \in [D \cup {r} -> S]
  BY <1>1 DEF Put
<1> QED BY <1>2 DEF Table

\* A table with a row changed is a table.
LEMMA TableSet ==
  ASSUME NEW S, NEW f \in Table(S), NEW r \in DOMAIN f, NEW e \in S
  PROVE  [f EXCEPT ![r] = e] \in Table(S) /\ DOMAIN [f EXCEPT ![r] = e] = DOMAIN f
<1>1. PICK D \in SUBSET Row : f \in [D -> S]
  BY DEF Table
<1>2. [f EXCEPT ![r] = e] \in [D -> S]
  BY <1>1
<1> QED BY <1>1, <1>2 DEF Table

\* What is in a table.
LEMMA TableRows ==
  ASSUME NEW S, NEW f \in Table(S)
  PROVE  DOMAIN f \subseteq Row /\ \A r \in DOMAIN f : f[r] \in S
BY DEF Table

\* The rows of a subset of the identifiers are finitely many.
LEMMA FewRows ==
  ASSUME NEW T \in SUBSET Row
  PROVE  IsFiniteSet(T)
BY RowAssumption, FS_Subset

\* One subscription for each confirmed order is what BookedIn counts.
LEMMA OnceIsBooked ==
  ASSUME NEW db \in Shape, OnceIn(db)
  PROVE  BookedIn(db)
<1> SUFFICES ASSUME NEW o \in DOMAIN db.orders
    PROVE Cardinality(Subs(db, o)) = IF db.orders[o].status = "CONFIRMED" THEN 1 ELSE 0
  BY DEF BookedIn, Subs
<1>1. CASE db.orders[o].status = "CONFIRMED"
  <2>1. PICK s : Subs(db, o) = {s}
    BY <1>1 DEF OnceIn
  <2> QED BY <1>1, <2>1, FS_Singleton
<1>2. CASE db.orders[o].status # "CONFIRMED"
  BY <1>2, FS_EmptySet DEF OnceIn
<1> QED BY <1>1, <1>2

\* Nothing is lost by leaving things as they are.
LEMMA NothingLost ==
  ASSUME NEW db \in Shape
  PROVE  ~Lost(db, db)
<1>1. db.subs \in Table(Subscription) /\ Len(db.groups) \in Nat
  BY DEF Shape
<1>2. \A s \in DOMAIN db.subs : db.subs[s].invite \in {"PENDING", "SENT", "ACTIVATED"}
  <2>1. \A s \in DOMAIN db.subs : db.subs[s] \in Subscription
    BY <1>1, TableRows
  <2> QED BY <2>1 DEF Subscription
<1> QED BY <1>1, <1>2 DEF Lost
-----------------------------------------------------------------------------
(* The operations keep the database whole and lose nothing *)

\* An operation that only touches the users, the product or the texts.
LEMMA AsideKeeps ==
  ASSUME NEW db, Whole(db), NEW d \in Shape,
         d.orders = db.orders, d.subs = db.subs, d.invites = db.invites,
         d.groups = db.groups, d.tasks = db.tasks, DOMAIN db.users \subseteq DOMAIN d.users
  PROVE  Keeps(db, d)
<1>1. RefersIn(d)
  BY DEF Whole, RefersIn
<1>2. OnceIn(d)
  <2>1. \A o : Subs(d, o) = Subs(db, o)
    BY DEF Subs
  <2> QED BY <2>1 DEF Whole, OnceIn
<1>3. SlotsCountedIn(d)
  BY DEF Whole, SlotsCountedIn
<1>4. TasksListedIn(d)
  BY DEF Whole, TasksListedIn, Sendable, Activatable
<1>5. ~Lost(db, d)
  <2>1. ~Lost(db, db)
    BY NothingLost DEF Whole
  <2> QED BY <2>1 DEF Lost
<1> QED BY <1>1, <1>2, <1>3, <1>4, <1>5 DEF Whole, Keeps

\* setUserRole.
LEMMA RoleKeeps ==
  ASSUME NEW db, Whole(db), NEW u \in DOMAIN db.users, NEW admin \in BOOLEAN
  PROVE  /\ Keeps(db, SetUserRole(db, u, admin))
         /\ WithEmail(SetUserRole(db, u, admin), "new") = WithEmail(db, "new")
<1> DEFINE d == SetUserRole(db, u, admin)
           e == [db.users[u] EXCEPT !.admin = admin]
<1>1. db \in Shape /\ db.users \in Table(User)
  BY DEF Whole, Shape
<1>2. db.users[u] \in User
  BY <1>1, TableRows
<1>3. e \in User /\ e.email = db.users[u].email
  BY <1>2 DEF User
<1>4. d = [db EXCEPT !.users = [db.users EXCEPT ![u] = e]]
  BY DEF SetUserRole
<1> HIDE DEF e
<1>5. [db.users EXCEPT ![u] = e] \in Table(User)
      /\ DOMAIN [db.users EXCEPT ![u] = e] = DOMAIN db.users
  BY <1>1, <1>3, TableSet
<1>6. d \in Shape /\ d.users = [db.users EXCEPT ![u] = e]
      /\ d.orders = db.orders /\ d.subs = db.subs /\ d.invites = db.invites
      /\ d.groups = db.groups /\ d.tasks = db.tasks
  BY <1>1, <1>4, <1>5 DEF Shape
<1> HIDE DEF d
<1>7. Keeps(db, d)
  BY <1>5, <1>6, AsideKeeps
<1>8. \A v \in DOMAIN db.users : d.users[v].email = db.users[v].email
  BY <1>3, <1>5, <1>6
<1>9. WithEmail(d, "new") = WithEmail(db, "new")
  BY <1>5, <1>6, <1>8 DEF WithEmail
<1> QED BY <1>7, <1>9 DEF d

\* setUserActive.
LEMMA ActiveKeeps ==
  ASSUME NEW db, Whole(db), NEW u \in DOMAIN db.users
  PROVE  /\ Keeps(db, SetUserActive(db, u))
         /\ WithEmail(SetUserActive(db, u), "new") = WithEmail(db, "new")
<1> DEFINE d == SetUserActive(db, u)
           e == [db.users[u] EXCEPT !.active = ~@]
<1>1. db \in Shape /\ db.users \in Table(User)
  BY DEF Whole, Shape
<1>2. db.users[u] \in User
  BY <1>1, TableRows
<1>3. e \in User /\ e.email = db.users[u].email
  BY <1>2 DEF User
<1>4. d = [db EXCEPT !.users = [db.users EXCEPT ![u] = e]]
  BY DEF SetUserActive
<1> HIDE DEF e
<1>5. [db.users EXCEPT ![u] = e] \in Table(User)
      /\ DOMAIN [db.users EXCEPT ![u] = e] = DOMAIN db.users
  BY <1>1, <1>3, TableSet
<1>6. d \in Shape /\ d.users = [db.users EXCEPT ![u] = e]
      /\ d.orders = db.orders /\ d.subs = db.subs /\ d.invites = db.invites
      /\ d.groups = db.groups /\ d.tasks = db.tasks
  BY <1>1, <1>4, <1>5 DEF Shape
<1> HIDE DEF d
<1>7. Keeps(db, d)
  BY <1>5, <1>6, AsideKeeps
<1>8. \A v \in DOMAIN db.users : d.users[v].email = db.users[v].email
  BY <1>3, <1>5, <1>6
<1>9. WithEmail(d, "new") = WithEmail(db, "new")
  BY <1>5, <1>6, <1>8 DEF WithEmail
<1> QED BY <1>7, <1>9 DEF d

\* saveProduct, deleteProduct: groups and subscriptions stay when the product goes.
LEMMA ProductKeeps ==
  ASSUME NEW db, Whole(db), NEW state \in {"active", "inactive", "gone"}
  PROVE  /\ Keeps(db, SaveProduct(db, state))
         /\ WithEmail(SaveProduct(db, state), "new") = WithEmail(db, "new")
<1> DEFINE d == SaveProduct(db, state)
<1>1. db \in Shape
  BY DEF Whole
<1>2. d \in Shape /\ d.users = db.users
      /\ d.orders = db.orders /\ d.subs = db.subs /\ d.invites = db.invites
      /\ d.groups = db.groups /\ d.tasks = db.tasks
  BY <1>1 DEF Shape, SaveProduct
<1> HIDE DEF d
<1>3. Keeps(db, d) /\ WithEmail(d, "new") = WithEmail(db, "new")
  BY <1>2, AsideKeeps DEF WithEmail
<1> QED BY <1>3 DEF d

\* The texts.
LEMMA TextKeeps ==
  ASSUME NEW db, Whole(db), NEW k \in Text
  PROVE  /\ Keeps(db, WriteText(db, k))
         /\ WithEmail(WriteText(db, k), "new") = WithEmail(db, "new")
<1> DEFINE d == WriteText(db, k)
<1>1. db \in Shape
  BY DEF Whole
<1>2. d \in Shape /\ d.users = db.users
      /\ d.orders = db.orders /\ d.subs = db.subs /\ d.invites = db.invites
      /\ d.groups = db.groups /\ d.tasks = db.tasks
  BY <1>1 DEF Shape, WriteText
<1> HIDE DEF d
<1>3. Keeps(db, d) /\ WithEmail(d, "new") = WithEmail(db, "new")
  BY <1>2, AsideKeeps DEF WithEmail
<1> QED BY <1>3 DEF d

\* The account is there afterwards, and is the only new one with its address.
LEMMA RegisterKeeps ==
  ASSUME NEW db, Whole(db), NEW u \in Row
  PROVE  /\ Keeps(db, Register(db, u))
         /\ u \in WithEmail(Register(db, u), "new")
         /\ WithEmail(Register(db, u), "new") \subseteq WithEmail(db, "new") \cup {u}
<1> DEFINE d == Register(db, u)
           e == [email |-> "new", admin |-> FALSE, active |-> TRUE]
<1>1. db \in Shape /\ db.users \in Table(User) /\ e \in User /\ e.email = "new"
  BY DEF Whole, Shape, User
<1>2. d = [db EXCEPT !.users = Put(db.users, u, e)]
  BY DEF Register
<1> HIDE DEF e
<1>3. /\ Put(db.users, u, e) \in Table(User)
      /\ DOMAIN Put(db.users, u, e) = DOMAIN db.users \cup {u}
      /\ Put(db.users, u, e)[u] = e
      /\ \A x \in DOMAIN db.users \ {u} : Put(db.users, u, e)[x] = db.users[x]
  <2>1. Put(db.users, u, e) \in Table(User)
    BY <1>1, TablePut
  <2> QED BY <2>1 DEF Put
<1>4. d \in Shape /\ d.users = Put(db.users, u, e)
      /\ d.orders = db.orders /\ d.subs = db.subs /\ d.invites = db.invites
      /\ d.groups = db.groups /\ d.tasks = db.tasks
  BY <1>1, <1>2, <1>3 DEF Shape
<1> HIDE DEF d
<1>5. Keeps(db, d)
  BY <1>3, <1>4, AsideKeeps
<1>6. u \in WithEmail(d, "new") /\ WithEmail(d, "new") \subseteq WithEmail(db, "new") \cup {u}
  BY <1>1, <1>3, <1>4 DEF WithEmail
<1> QED BY <1>5, <1>6 DEF d


\* createOrder: the order is new and waits.
LEMMA CreateKeeps ==
  ASSUME NEW db, Whole(db), NEW u \in Row, NEW o \in Row \ DOMAIN db.orders
  PROVE  /\ Keeps(db, CreateOrder(db, u, o))
         /\ WithEmail(CreateOrder(db, u, o), "new") = WithEmail(db, "new")
<1> DEFINE d == CreateOrder(db, u, o)
           e == [of |-> u, status |-> "AWAITING_PAYMENT"]
           k == Pending("MANUAL_PAYMENT_CONFIRM", o)
<1>1. db \in Shape /\ db.orders \in Table(Order)
  BY DEF Whole, Shape
<1>2. e \in Order /\ e.status = "AWAITING_PAYMENT"
  BY DEF Order
<1>3. k \in Task /\ k.type = "MANUAL_PAYMENT_CONFIRM" /\ k.of = o /\ k.done = FALSE
  BY DEF Task, Pending
<1>4. d = [db EXCEPT !.orders = Put(db.orders, o, e), !.tasks = db.tasks \cup {k}]
  BY DEF CreateOrder
<1> HIDE DEF e, k
<1>5. Put(db.orders, o, e) \in Table(Order)
  BY <1>1, <1>2, TablePut
<1>6. /\ DOMAIN Put(db.orders, o, e) = DOMAIN db.orders \cup {o}
      /\ Put(db.orders, o, e)[o] = e
      /\ \A x \in DOMAIN db.orders : Put(db.orders, o, e)[x] = db.orders[x]
  BY DEF Put
<1>7. /\ d \in Shape /\ d.users = db.users
      /\ d.orders = Put(db.orders, o, e) /\ d.subs = db.subs /\ d.invites = db.invites
      /\ d.groups = db.groups /\ d.tasks = db.tasks \cup {k}
  <2>1. db.tasks \cup {k} \in SUBSET Task
    BY <1>1, <1>3 DEF Shape
  <2> HIDE DEF d
  <2>2. PICK f \in Table(Order) : f = Put(db.orders, o, e)
    BY <1>5
  <2>3. PICK x \in SUBSET Task : x = db.tasks \cup {k}
    BY <2>1
  <2>4. d = [db EXCEPT !.orders = f, !.tasks = x]
    BY <1>4, <2>2, <2>3
  <2>5. d = [users |-> db.users, product |-> db.product, groups |-> db.groups, orders |-> f,
             subs |-> db.subs, invites |-> db.invites, tasks |-> x, texts |-> db.texts]
    BY <1>1, <2>4 DEF Shape
  <2> QED BY <1>1, <2>2, <2>3, <2>5 DEF Shape
<1> HIDE DEF d
<1>8. /\ DOMAIN d.orders = DOMAIN db.orders \cup {o}
      /\ d.orders[o].status = "AWAITING_PAYMENT"
      /\ \A x \in DOMAIN db.orders : d.orders[x] = db.orders[x]
  BY <1>2, <1>6, <1>7
<1>9. RefersIn(d)
  BY <1>7, <1>8 DEF Whole, RefersIn
<1>10. OnceIn(d)
  <2>1. \A x : Subs(d, x) = Subs(db, x)
    BY <1>7 DEF Subs
  <2>2. Subs(db, o) = {}
    BY DEF Whole, RefersIn, Subs
  <2> QED BY <1>8, <2>1, <2>2 DEF Whole, OnceIn
<1>11. SlotsCountedIn(d)
  BY <1>7 DEF Whole, SlotsCountedIn
<1>12. TasksListedIn(d)
  BY <1>3, <1>7, <1>8 DEF Whole, TasksListedIn, Sendable, Activatable
<1>13. ~Lost(db, d)
  <2>1. ~Lost(db, db)
    BY NothingLost DEF Whole
  <2> QED BY <1>7, <1>8, <2>1 DEF Lost
<1>14. WithEmail(d, "new") = WithEmail(db, "new")
  BY <1>7 DEF WithEmail
<1> QED BY <1>7, <1>9, <1>10, <1>11, <1>12, <1>13, <1>14 DEF Whole, Keeps, d

\* cancelOrder: an order that waits has no subscription to leave behind.
LEMMA CancelKeeps ==
  ASSUME NEW db, Whole(db), NEW u, NEW o \in Cancellable(db, u)
  PROVE  /\ Keeps(db, CancelOrder(db, u, o))
         /\ WithEmail(CancelOrder(db, u, o), "new") = WithEmail(db, "new")
<1> DEFINE d == CancelOrder(db, u, o)
           e == [db.orders[o] EXCEPT !.status = "CANCELLED"]
<1>1. db \in Shape /\ db.orders \in Table(Order)
  BY DEF Whole, Shape
<1>2. o \in DOMAIN db.orders /\ db.orders[o] \in Order
      /\ db.orders[o].of = u /\ db.orders[o].status = "AWAITING_PAYMENT"
  BY <1>1, TableRows DEF Cancellable
<1>3. e \in Order /\ e.status = "CANCELLED"
  BY <1>2 DEF Order
<1>4. d = [db EXCEPT !.orders = [db.orders EXCEPT ![o] = e]]
  BY <1>2 DEF CancelOrder
<1> HIDE DEF e
<1>5. [db.orders EXCEPT ![o] = e] \in Table(Order)
      /\ DOMAIN [db.orders EXCEPT ![o] = e] = DOMAIN db.orders
  BY <1>1, <1>2, <1>3, TableSet
<1>7. /\ d \in Shape /\ d.users = db.users
      /\ d.orders = [db.orders EXCEPT ![o] = e] /\ d.subs = db.subs
      /\ d.invites = db.invites /\ d.groups = db.groups /\ d.tasks = db.tasks
  BY <1>1, <1>4, <1>5 DEF Shape
<1> HIDE DEF d
<1>8. /\ DOMAIN d.orders = DOMAIN db.orders
      /\ d.orders[o].status = "CANCELLED"
      /\ \A x \in DOMAIN db.orders \ {o} : d.orders[x] = db.orders[x]
  BY <1>2, <1>3, <1>5, <1>7
<1>9. RefersIn(d)
  BY <1>7, <1>8 DEF Whole, RefersIn
<1>10. OnceIn(d)
  <2>1. \A x : Subs(d, x) = Subs(db, x)
    BY <1>7 DEF Subs
  <2>2. Subs(db, o) = {}
    BY <1>2 DEF Whole, OnceIn
  <2> QED BY <1>8, <2>1, <2>2 DEF Whole, OnceIn
<1>11. SlotsCountedIn(d)
  BY <1>7 DEF Whole, SlotsCountedIn
<1>12. TasksListedIn(d)
  BY <1>7, <1>8 DEF Whole, TasksListedIn, Sendable, Activatable
<1>13. ~Lost(db, d)
  <2>1. ~Lost(db, db)
    BY NothingLost DEF Whole
  <2> QED BY <1>2, <1>7, <1>8, <2>1 DEF Lost
<1>14. WithEmail(d, "new") = WithEmail(db, "new")
  BY <1>7 DEF WithEmail
<1> QED BY <1>7, <1>9, <1>10, <1>11, <1>12, <1>13, <1>14 DEF Whole, Keeps, d

\* completeTask: a task that is ticked off is still in the table.
LEMMA CompleteKeeps ==
  ASSUME NEW db, Whole(db), NEW k \in Completable(db)
  PROVE  /\ Keeps(db, CompleteTask(db, k))
         /\ WithEmail(CompleteTask(db, k), "new") = WithEmail(db, "new")
<1> DEFINE d == CompleteTask(db, k)
           e == [k EXCEPT !.done = TRUE]
<1>1. db \in Shape /\ db.tasks \in SUBSET Task
  BY DEF Whole, Shape
<1>2. k \in db.tasks /\ k \in Task
  BY <1>1 DEF Completable
<1>3. e \in Task /\ e.type = k.type /\ e.of = k.of /\ e.done = TRUE
  BY <1>2 DEF Task
<1>4. d = [db EXCEPT !.tasks = (db.tasks \ {k}) \cup {e}]
  BY DEF CompleteTask
<1> HIDE DEF e
<1>7. /\ d \in Shape /\ d.users = db.users
      /\ d.orders = db.orders /\ d.subs = db.subs
      /\ d.invites = db.invites /\ d.groups = db.groups
      /\ d.tasks = (db.tasks \ {k}) \cup {e}
  BY <1>1, <1>3, <1>4 DEF Shape
<1> HIDE DEF d
<1>9. RefersIn(d)
  BY <1>7 DEF Whole, RefersIn
<1>10. OnceIn(d)
  <2>1. \A x : Subs(d, x) = Subs(db, x)
    BY <1>7 DEF Subs
  <2> QED BY <1>7, <2>1 DEF Whole, OnceIn
<1>11. SlotsCountedIn(d)
  BY <1>7 DEF Whole, SlotsCountedIn
<1>12. TasksListedIn(d)
  <2>1. \A j \in db.tasks : \E h \in d.tasks : h.type = j.type /\ h.of = j.of
    BY <1>3, <1>7
  <2>2. \A h \in d.tasks : ~h.done => h \in db.tasks
    BY <1>3, <1>7
  <2> QED BY <1>7, <2>1, <2>2 DEF Whole, TasksListedIn, Sendable, Activatable
<1>13. ~Lost(db, d)
  <2>1. ~Lost(db, db)
    BY NothingLost DEF Whole
  <2> QED BY <1>7, <2>1 DEF Lost
<1>14. WithEmail(d, "new") = WithEmail(db, "new")
  BY <1>7 DEF WithEmail
<1> QED BY <1>7, <1>9, <1>10, <1>11, <1>12, <1>13, <1>14 DEF Whole, Keeps, d

\* confirmOrderDemo: the order gets its subscription as it is confirmed, and its task makes
\* way for the next.
LEMMA ConfirmKeeps ==
  ASSUME NEW db, Whole(db), NEW o \in Confirmable(db), NEW s \in Row \ DOMAIN db.subs
  PROVE  /\ Keeps(db, ConfirmOrderDemo(db, o, s))
         /\ WithEmail(ConfirmOrderDemo(db, o, s), "new") = WithEmail(db, "new")
<1> DEFINE d == ConfirmOrderDemo(db, o, s)
           e == [db.orders[o] EXCEPT !.status = "CONFIRMED"]
           b == [order |-> o, invite |-> "PENDING", group |-> None]
           k == Pending("INVITE_SEND", s)
           old == {j \in db.tasks : j.type # "MANUAL_PAYMENT_CONFIRM" \/ j.of # o}
<1>1. db \in Shape /\ db.orders \in Table(Order) /\ db.subs \in Table(Subscription)
      /\ db.tasks \in SUBSET Task
  BY DEF Whole, Shape
<1>2. o \in DOMAIN db.orders /\ o \in Row /\ db.orders[o] \in Order
      /\ db.orders[o].status = "AWAITING_PAYMENT"
  BY <1>1, TableRows DEF Confirmable
<1>3. e \in Order /\ e.status = "CONFIRMED"
  BY <1>2 DEF Order
<1>4. b \in Subscription /\ b.order = o /\ b.invite = "PENDING" /\ b.group = None
  BY <1>2 DEF Subscription, None
<1>5. k \in Task /\ k.type = "INVITE_SEND" /\ k.of = s /\ k.done = FALSE
  BY DEF Task, Pending
<1>6. d = [db EXCEPT !.orders = [db.orders EXCEPT ![o] = e], !.subs = Put(db.subs, s, b),
                     !.tasks = old \cup {k}]
  BY <1>2 DEF ConfirmOrderDemo
<1> HIDE DEF e, b, k
<1>7. PICK f \in Table(Order) : f = [db.orders EXCEPT ![o] = e]
  BY <1>1, <1>2, <1>3, TableSet
<1>8. PICK g \in Table(Subscription) : g = Put(db.subs, s, b)
  BY <1>1, <1>4, TablePut
<1>9. PICK x \in SUBSET Task : x = old \cup {k}
  BY <1>1, <1>5
<1>10. /\ d \in Shape /\ d.users = db.users /\ d.orders = f /\ d.subs = g
       /\ d.invites = db.invites /\ d.groups = db.groups /\ d.tasks = x
  <2> HIDE DEF d, old
  <2>1. d = [db EXCEPT !.orders = f, !.subs = g, !.tasks = x]
    BY <1>6, <1>7, <1>8, <1>9
  <2>2. d = [users |-> db.users, product |-> db.product, groups |-> db.groups, orders |-> f,
             subs |-> g, invites |-> db.invites, tasks |-> x, texts |-> db.texts]
    BY <1>1, <2>1 DEF Shape
  <2> QED BY <1>1, <1>7, <1>8, <1>9, <2>2 DEF Shape
<1> HIDE DEF d
<1>11. /\ DOMAIN d.orders = DOMAIN db.orders
       /\ d.orders[o].status = "CONFIRMED"
       /\ \A y \in DOMAIN db.orders \ {o} : d.orders[y] = db.orders[y]
  BY <1>2, <1>3, <1>7, <1>10
<1>12. /\ DOMAIN d.subs = DOMAIN db.subs \cup {s}
       /\ d.subs[s] = b
       /\ \A y \in DOMAIN db.subs : y # s /\ d.subs[y] = db.subs[y]
  BY <1>8, <1>10 DEF Put
<1>13. RefersIn(d)
  BY <1>2, <1>4, <1>10, <1>11, <1>12 DEF Whole, RefersIn
<1>14. OnceIn(d)
  <2>1. \A y \in DOMAIN db.orders \ {o} : Subs(d, y) = Subs(db, y)
    BY <1>4, <1>12 DEF Subs
  <2>2. Subs(db, o) = {}
    BY <1>2 DEF Whole, OnceIn
  <2>3. Subs(d, o) = {s}
    BY <1>4, <1>12, <2>2 DEF Subs
  <2> QED BY <1>11, <2>1, <2>3 DEF Whole, OnceIn
<1>15. SlotsCountedIn(d)
  <2>1. \A h \in DOMAIN db.groups : InGroup(d, h) = InGroup(db, h)
    <3>1. \A h \in DOMAIN db.groups : h # None
      BY <1>1 DEF Shape, None
    <3> QED BY <1>4, <1>12, <3>1 DEF InGroup
  <2> QED BY <1>10, <2>1 DEF Whole, SlotsCountedIn, InGroup
<1>16. TasksListedIn(d)
  <2>1. x = old \cup {k}
    BY <1>9
  <2>2. \A y \in DOMAIN d.orders :
          d.orders[y].status = "AWAITING_PAYMENT" =>
            \E j \in d.tasks : j.type = "MANUAL_PAYMENT_CONFIRM" /\ j.of = y
    BY <1>10, <1>11, <2>1 DEF Whole, TasksListedIn
  <2>3. \A y \in DOMAIN d.subs :
          d.subs[y].invite = "PENDING" => \E j \in d.tasks : j.type = "INVITE_SEND" /\ j.of = y
    BY <1>5, <1>10, <1>12, <2>1 DEF Whole, TasksListedIn
  <2>4. \A i \in DOMAIN d.invites :
          d.invites[i].status = "SENT" =>
            \E j \in d.tasks : j.type = "INVITE_ACTIVATE" /\ j.of = i
    BY <1>10, <2>1 DEF Whole, TasksListedIn
  <2>5. \A j \in d.tasks : j.type = "INVITE_SEND" /\ ~j.done => j.of \in Sendable(d)
    <3>1. s \in Sendable(d)
      BY <1>4, <1>12 DEF Sendable
    <3>2. Sendable(db) \subseteq Sendable(d)
      BY <1>12 DEF Sendable
    <3> QED BY <1>5, <1>10, <2>1, <3>1, <3>2 DEF Whole, TasksListedIn
  <2>6. \A j \in d.tasks : j.type = "INVITE_ACTIVATE" /\ ~j.done => j.of \in Activatable(d)
    BY <1>5, <1>10, <2>1 DEF Whole, TasksListedIn, Activatable
  <2> HIDE DEF old
  <2> QED BY <2>2, <2>3, <2>4, <2>5, <2>6 DEF TasksListedIn
<1>17. ~Lost(db, d)
  <2>1. ~Lost(db, db)
    BY NothingLost DEF Whole
  <2> QED BY <1>2, <1>10, <1>11, <1>12, <2>1 DEF Lost
<1>18. WithEmail(d, "new") = WithEmail(db, "new")
  BY <1>10 DEF WithEmail
<1> QED BY <1>10, <1>13, <1>14, <1>15, <1>16, <1>17, <1>18 DEF Whole, Keeps, d

\* SaveGroup: nobody is in the new group.
LEMMA GroupKeeps ==
  ASSUME NEW db, Whole(db)
  PROVE  /\ Keeps(db, SaveGroup(db))
         /\ WithEmail(SaveGroup(db), "new") = WithEmail(db, "new")
<1> DEFINE d == SaveGroup(db)
           e == [used |-> 0, room |-> Room]
<1>1. db \in Shape /\ db.groups \in Seq(Group)
  BY DEF Whole, Shape
<1>2. e \in Group /\ e.used = 0 /\ e.room = Room
  BY DEF Group
<1>3. PICK q \in Seq(Group) : q = Append(db.groups, e)
  <2> HIDE DEF e
  <2>1. Append(db.groups, e) \in Seq(Group)
    BY <1>1, <1>2
  <2> QED BY <2>1
<1>4. /\ Len(q) = Len(db.groups) + 1
      /\ DOMAIN q = 1..Len(q) /\ DOMAIN db.groups = 1..Len(db.groups)
      /\ Len(db.groups) \in Nat
      /\ q[Len(q)] = e
      /\ \A h \in DOMAIN db.groups : q[h] = db.groups[h]
  <2> HIDE DEF e
  <2> QED BY <1>1, <1>2, <1>3
<1>5. /\ d \in Shape /\ d.users = db.users
      /\ d.orders = db.orders /\ d.subs = db.subs /\ d.invites = db.invites
      /\ d.groups = q /\ d.tasks = db.tasks
  <2>1. d = [db EXCEPT !.groups = q]
    BY <1>3 DEF SaveGroup
  <2> HIDE DEF d
  <2> QED BY <1>1, <2>1 DEF Shape
<1> HIDE DEF d, e
<1>6. RefersIn(d)
  BY <1>4, <1>5 DEF Whole, RefersIn
<1>7. OnceIn(d)
  <2>1. \A x : Subs(d, x) = Subs(db, x)
    BY <1>5 DEF Subs
  <2> QED BY <1>5, <2>1 DEF Whole, OnceIn
<1>8. SlotsCountedIn(d)
  <2>1. \A h : InGroup(d, h) = InGroup(db, h)
    BY <1>5 DEF InGroup
  <2>2. InGroup(db, Len(q)) = {}
    BY <1>4 DEF Whole, RefersIn, InGroup, None
  <2>3. Cardinality({}) = 0
    BY FS_EmptySet
  <2>4. \A h \in DOMAIN db.groups : db.groups[h].used = Cardinality(InGroup(db, h))
                                   /\ db.groups[h].used <= db.groups[h].room
    BY DEF Whole, SlotsCountedIn, InGroup
  <2>5. ASSUME NEW h \in DOMAIN q
        PROVE  q[h].used = Cardinality(InGroup(d, h)) /\ q[h].used <= q[h].room
    <3>1. CASE h = Len(q)
      <4>1. InGroup(d, h) = {} /\ q[h] = e
        BY <1>4, <2>1, <2>2, <3>1
      <4> QED BY <1>2, <2>3, <4>1, SavesAssumption
    <3>2. CASE h \in DOMAIN db.groups
      BY <1>4, <2>1, <2>4, <3>2
    <3> QED BY <1>4, <3>1, <3>2
  <2> QED BY <1>5, <2>5 DEF SlotsCountedIn, InGroup
<1>9. TasksListedIn(d)
  BY <1>5 DEF Whole, TasksListedIn, Sendable, Activatable
<1>10. ~Lost(db, d)
  <2>1. ~Lost(db, db)
    BY NothingLost DEF Whole
  <2>2. ~(Len(d.groups) < Len(db.groups))
    BY <1>4, <1>5
  <2> QED BY <1>5, <2>1, <2>2 DEF Lost
<1>11. WithEmail(d, "new") = WithEmail(db, "new")
  BY <1>5 DEF WithEmail
<1> QED BY <1>5, <1>6, <1>7, <1>8, <1>9, <1>10, <1>11 DEF Whole, Keeps, d

\* The group that is found has room.
LEMMA FreeGroupHasRoom ==
  ASSUME NEW db, Whole(db)
  PROVE  \/ FreeGroup(db) = None
         \/ FreeGroup(db) \in DOMAIN db.groups
            /\ db.groups[FreeGroup(db)].used < db.groups[FreeGroup(db)].room
<1> DEFINE free == {g \in DOMAIN db.groups : db.groups[g].used < db.groups[g].room}
<1>1. db.groups \in Seq(Group)
  BY DEF Whole, Shape
<1>2. free \in SUBSET Nat
  BY <1>1
<1>3. CASE free = {}
  BY <1>3 DEF FreeGroup
<1>4. CASE free # {}
  <2>1. Min(free) \in free
    BY <1>2, <1>4, Least
  <2>2. FreeGroup(db) = Min(free)
    BY <1>4 DEF FreeGroup
  <2> QED BY <2>1, <2>2
<1> QED BY <1>3, <1>4

\* The stage of a subscription, as Lost compares it.
Stage(invite) ==
  CASE invite = "PENDING" -> 0 [] invite = "SENT" -> 1 [] invite = "ACTIVATED" -> 2

\* The way an invitation goes.
Later(before, after) ==
  \/ after = before /\ before \in {"PENDING", "SENT", "ACTIVATED"}
  \/ before = "PENDING" /\ after = "SENT"
  \/ before \in {"PENDING", "SENT"} /\ after = "ACTIVATED"

\* On its way an invitation comes to no earlier stage.
LEMMA StageLater ==
  ASSUME NEW before, NEW after, Later(before, after)
  PROVE  ~(Stage(after) < Stage(before))
BY DEF Stage, Later

\* Nothing is lost where the orders stay and invitations only go their way.
LEMMA SubsLost ==
  ASSUME NEW db \in Shape, NEW d,
         DOMAIN db.users \subseteq DOMAIN d.users, DOMAIN db.invites \subseteq DOMAIN d.invites,
         d.orders = db.orders, ~(Len(d.groups) < Len(db.groups)),
         \A s \in DOMAIN db.subs :
           s \in DOMAIN d.subs /\ Later(db.subs[s].invite, d.subs[s].invite)
  PROVE  ~Lost(db, d)
<1>1. \A s \in DOMAIN db.subs : ~(Stage(d.subs[s].invite) < Stage(db.subs[s].invite))
  BY StageLater
<1> QED BY <1>1 DEF Lost, Stage

\* The subscription an invitation has been sent for.
LEMMA SentSub ==
  ASSUME NEW r \in Subscription, NEW g \in Nat
  PROVE  /\ Sent(r, g) \in Subscription /\ Sent(r, g).order = r.order
         /\ Sent(r, g).invite = "SENT"
         /\ Sent(r, g).group = IF g = None THEN r.group ELSE g
BY DEF Subscription, Sent

\* sendInvite: the subscription takes the slot that is counted.
LEMMA SendKeeps ==
  ASSUME NEW db, Whole(db), NEW s \in Sendable(db), NEW i \in Row \ DOMAIN db.invites
  PROVE  /\ Keeps(db, SendInvite(db, s, i))
         /\ WithEmail(SendInvite(db, s, i), "new") = WithEmail(db, "new")
<1> DEFINE d == SendInvite(db, s, i)
           g == FreeGroup(db)
           e == [sub |-> s, status |-> "SENT"]
           b == Sent(db.subs[s], g)
           k == Pending("INVITE_ACTIVATE", i)
           gone == Pending("INVITE_SEND", s)
<1>1. /\ db \in Shape /\ db.invites \in Table(Invite) /\ db.subs \in Table(Subscription)
      /\ db.tasks \in SUBSET Task /\ db.groups \in Seq(Group)
  BY DEF Whole, Shape
<1>2. /\ s \in DOMAIN db.subs /\ s \in Row /\ db.subs[s] \in Subscription
      /\ db.subs[s].invite \notin {"SENT", "ACTIVATED"}
  BY <1>1, TableRows DEF Sendable
<1>3. db.subs[s].invite = "PENDING" /\ db.subs[s].group = None
  <2>1. db.subs[s].invite = "PENDING"
    BY <1>2 DEF Subscription
  <2> QED BY <1>2, <2>1 DEF Whole, RefersIn
<1>4. /\ g \in Nat
      /\ \/ g = None
         \/ g \in DOMAIN db.groups /\ g # 0 /\ db.groups[g].used < db.groups[g].room
  BY <1>1, FreeGroupHasRoom DEF None
<1>5. e \in Invite /\ e.sub = s /\ e.status = "SENT"
  BY <1>2 DEF Invite
<1>6. b \in Subscription /\ b.order = db.subs[s].order /\ b.invite = "SENT" /\ b.group = g
  <2> HIDE DEF g
  <2> QED BY <1>2, <1>3, <1>4, SentSub
<1>7. k \in Task /\ k.type = "INVITE_ACTIVATE" /\ k.of = i /\ k.done = FALSE
  BY DEF Task, Pending
<1>8. \A j \in Task : j.type = "INVITE_SEND" /\ ~j.done /\ j.of = s => j = gone
  BY DEF Task, Pending
<1>9. gone.type = "INVITE_SEND" /\ gone.of = s
  BY DEF Pending
<1>10. d = [db EXCEPT !.invites = Put(db.invites, i, e),
                      !.subs = [db.subs EXCEPT ![s] = b],
                      !.groups = Taken(db.groups, g),
                      !.tasks = (db.tasks \ {gone}) \cup {k}]
  BY DEF SendInvite
<1> HIDE DEF e, b, k, gone
<1>11. PICK f \in Table(Invite) : f = Put(db.invites, i, e)
  BY <1>1, <1>5, TablePut
<1>12. PICK h \in Table(Subscription) : h = [db.subs EXCEPT ![s] = b]
  BY <1>1, <1>2, <1>6, TableSet
<1>13. PICK q \in Seq(Group) :
         /\ q = Taken(db.groups, g) /\ Len(q) = Len(db.groups) /\ DOMAIN q = DOMAIN db.groups
         /\ \A y \in DOMAIN q \ {g} : q[y] = db.groups[y]
         /\ g # None => q[g].used = db.groups[g].used + 1 /\ q[g].room = db.groups[g].room
  <2>1. CASE g = None
    BY <1>1, <2>1 DEF Taken
  <2>2. CASE g # None
    <3>1. PICK r \in Group : r = db.groups[g]
      BY <1>1, <1>4, <2>2
    <3>2. PICK u \in Group : u = [r EXCEPT !.used = @ + 1]
                             /\ u.used = r.used + 1 /\ u.room = r.room
      <4>1. r.used \in Nat /\ r.room = Room
        BY <3>1 DEF Group
      <4>2. [r EXCEPT !.used = @ + 1] = [used |-> r.used + 1, room |-> r.room]
        BY <3>1 DEF Group
      <4> QED BY <4>1, <4>2 DEF Group
    <3>3. Taken(db.groups, g) = [db.groups EXCEPT ![g] = u]
      <4> HIDE DEF g
      <4> QED BY <2>2, <3>1, <3>2 DEF Taken
    <3>4. [db.groups EXCEPT ![g] = u] \in Seq(Group)
          /\ Len([db.groups EXCEPT ![g] = u]) = Len(db.groups)
      <4> HIDE DEF g
      <4> QED BY <1>1, <1>4, <2>2
    <3> HIDE DEF g
    <3> QED BY <1>1, <1>4, <2>2, <3>1, <3>2, <3>3, <3>4
  <2> QED BY <2>1, <2>2
<1>14. PICK x \in SUBSET Task : x = (db.tasks \ {gone}) \cup {k}
  BY <1>1, <1>7
<1>15. /\ d \in Shape /\ d.users = db.users /\ d.orders = db.orders /\ d.subs = h
       /\ d.invites = f /\ d.groups = q /\ d.tasks = x
  <2> HIDE DEF d, g
  <2>1. d = [db EXCEPT !.invites = f, !.subs = h, !.groups = q, !.tasks = x]
    BY <1>10, <1>11, <1>12, <1>13, <1>14
  <2>2. d = [users |-> db.users, product |-> db.product, groups |-> q, orders |-> db.orders,
             subs |-> h, invites |-> f, tasks |-> x, texts |-> db.texts]
    BY <1>1, <2>1 DEF Shape
  <2> QED BY <1>1, <1>11, <1>12, <1>13, <1>14, <2>2 DEF Shape
<1> HIDE DEF d, g
<1>16. /\ DOMAIN d.subs = DOMAIN db.subs /\ d.subs[s] = b
       /\ \A y \in DOMAIN db.subs \ {s} : d.subs[y] = db.subs[y]
  <2>1. PICK D \in SUBSET Row : db.subs \in [D -> Subscription]
    BY <1>1 DEF Table
  <2> QED BY <1>2, <1>12, <1>15, <2>1
<1>17. /\ DOMAIN d.invites = DOMAIN db.invites \cup {i} /\ d.invites[i] = e
       /\ \A y \in DOMAIN db.invites : y # i /\ d.invites[y] = db.invites[y]
  BY <1>11, <1>15 DEF Put
<1>18. RefersIn(d)
  <2>1. ASSUME NEW y \in DOMAIN d.subs
        PROVE  /\ d.subs[y].order \in DOMAIN d.orders
               /\ d.subs[y].group \in {None} \cup DOMAIN d.groups
               /\ d.subs[y].invite = "PENDING" => d.subs[y].group = None
    <3>1. CASE y = s
      BY <1>2, <1>4, <1>6, <1>13, <1>15, <1>16, <3>1 DEF Whole, RefersIn
    <3>2. CASE y # s
      BY <1>13, <1>15, <1>16, <2>1, <3>2 DEF Whole, RefersIn
    <3> QED BY <3>1, <3>2
  <2>2. ASSUME NEW y \in DOMAIN d.invites
        PROVE  d.invites[y].sub \in DOMAIN d.subs /\ d.subs[d.invites[y].sub].invite # "PENDING"
    <3>1. CASE y = i
      BY <1>2, <1>5, <1>6, <1>16, <1>17, <3>1
    <3>2. CASE y \in DOMAIN db.invites
      BY <1>6, <1>16, <1>17, <3>2 DEF Whole, RefersIn
    <3> QED BY <1>17, <2>2, <3>1, <3>2
  <2> QED BY <2>1, <2>2 DEF RefersIn
<1>19. OnceIn(d)
  <2>1. \A y : Subs(d, y) = Subs(db, y)
    BY <1>2, <1>6, <1>16 DEF Subs
  <2> QED BY <1>15, <2>1 DEF Whole, OnceIn
<1>20. SlotsCountedIn(d)
  <2>1. \A y \in DOMAIN db.groups : y # None
    BY <1>1 DEF None
  <2>2. \A y \in DOMAIN db.groups \ {g} : InGroup(d, y) = InGroup(db, y)
    BY <1>2, <1>3, <1>6, <1>16, <2>1 DEF InGroup
  <2>3. \A y \in DOMAIN db.groups : db.groups[y].used = Cardinality(InGroup(db, y))
                                   /\ db.groups[y].used <= db.groups[y].room
    BY DEF Whole, SlotsCountedIn, InGroup
  <2>4. CASE g = None
    <3>1. ASSUME NEW y \in DOMAIN q
          PROVE  q[y].used = Cardinality(InGroup(d, y)) /\ q[y].used <= q[y].room
      BY <1>13, <2>1, <2>2, <2>3, <2>4
    <3> QED BY <1>15, <3>1 DEF SlotsCountedIn, InGroup
  <2>5. CASE g # None
    <3>1. InGroup(d, g) = InGroup(db, g) \cup {s}
      BY <1>2, <1>6, <1>16 DEF InGroup
    <3>2. s \notin InGroup(db, g)
      BY <1>3, <2>5 DEF InGroup
    <3>3. DOMAIN db.subs \subseteq Row
      BY <1>1, TableRows
    <3>4. IsFiniteSet(InGroup(db, g))
      BY <3>3, FewRows DEF InGroup
    <3>5. Cardinality(InGroup(d, g)) = Cardinality(InGroup(db, g)) + 1
      BY <3>1, <3>2, <3>4, FS_AddElement
    <3>6. db.groups[g] \in Group
      BY <1>1, <1>4, <2>5
    <3>7. q[g].used = Cardinality(InGroup(d, g)) /\ q[g].used <= q[g].room
      BY <1>4, <1>13, <2>3, <2>5, <3>5, <3>6, SavesAssumption DEF Group
    <3>8. ASSUME NEW y \in DOMAIN q
          PROVE  q[y].used = Cardinality(InGroup(d, y)) /\ q[y].used <= q[y].room
      BY <1>13, <2>2, <2>3, <3>7
    <3> QED BY <1>15, <3>8 DEF SlotsCountedIn, InGroup
  <2> QED BY <2>4, <2>5
<1>21. TasksListedIn(d)
  <2>1. \A y \in DOMAIN d.orders :
          d.orders[y].status = "AWAITING_PAYMENT" =>
            \E j \in d.tasks : j.type = "MANUAL_PAYMENT_CONFIRM" /\ j.of = y
    BY <1>9, <1>14, <1>15 DEF Whole, TasksListedIn
  <2>2. \A y \in DOMAIN d.subs :
          d.subs[y].invite = "PENDING" => \E j \in d.tasks : j.type = "INVITE_SEND" /\ j.of = y
    BY <1>6, <1>9, <1>14, <1>15, <1>16 DEF Whole, TasksListedIn
  <2>3. \A y \in DOMAIN d.invites :
          d.invites[y].status = "SENT" =>
            \E j \in d.tasks : j.type = "INVITE_ACTIVATE" /\ j.of = y
    BY <1>7, <1>9, <1>14, <1>15, <1>17 DEF Whole, TasksListedIn
  <2>4. \A j \in d.tasks : j.type = "INVITE_SEND" /\ ~j.done => j.of \in Sendable(d)
    <3>1. \A j \in d.tasks : j.type = "INVITE_SEND" /\ ~j.done => j.of \in Sendable(db) \ {s}
      BY <1>1, <1>7, <1>8, <1>14, <1>15 DEF Whole, TasksListedIn
    <3>2. Sendable(db) \ {s} \subseteq Sendable(d)
      BY <1>16 DEF Sendable
    <3> QED BY <3>1, <3>2
  <2>5. \A j \in d.tasks : j.type = "INVITE_ACTIVATE" /\ ~j.done => j.of \in Activatable(d)
    <3>1. Activatable(db) \cup {i} \subseteq Activatable(d)
      BY <1>5, <1>17 DEF Activatable
    <3> QED BY <1>7, <1>14, <1>15, <3>1 DEF Whole, TasksListedIn
  <2> QED BY <2>1, <2>2, <2>3, <2>4, <2>5 DEF TasksListedIn
<1>22. ~Lost(db, d)
  <2>2. ~(Len(d.groups) < Len(db.groups))
    BY <1>1, <1>13, <1>15
  <2>3. \A y \in DOMAIN db.subs :
          y \in DOMAIN d.subs /\ Later(db.subs[y].invite, d.subs[y].invite)
    <3>1. \A y \in DOMAIN db.subs : db.subs[y] \in Subscription
      BY <1>1, TableRows
    <3>2. \A y \in DOMAIN db.subs : db.subs[y].invite \in {"PENDING", "SENT", "ACTIVATED"}
      BY <3>1 DEF Subscription
    <3> QED BY <1>3, <1>6, <1>16, <3>2 DEF Later
  <2> QED BY <1>1, <1>15, <1>17, <2>2, <2>3, SubsLost
<1>23. WithEmail(d, "new") = WithEmail(db, "new")
  BY <1>15 DEF WithEmail
<1> QED BY <1>15, <1>18, <1>19, <1>20, <1>21, <1>22, <1>23 DEF Whole, Keeps, d

\* activateInvite: the invitation, its subscription and its task are done together.
LEMMA ActivateKeeps ==
  ASSUME NEW db, Whole(db), NEW i \in Activatable(db)
  PROVE  /\ Keeps(db, ActivateInvite(db, i))
         /\ WithEmail(ActivateInvite(db, i), "new") = WithEmail(db, "new")
<1> DEFINE d == ActivateInvite(db, i)
           s == db.invites[i].sub
           e == [db.invites[i] EXCEPT !.status = "ACTIVATED"]
           b == [db.subs[s] EXCEPT !.invite = "ACTIVATED"]
           gone == Pending("INVITE_ACTIVATE", i)
<1>1. /\ db \in Shape /\ db.invites \in Table(Invite) /\ db.subs \in Table(Subscription)
      /\ db.tasks \in SUBSET Task /\ db.groups \in Seq(Group)
  BY DEF Whole, Shape
<1>2. /\ i \in DOMAIN db.invites /\ db.invites[i] \in Invite /\ db.invites[i].status = "SENT"
  BY <1>1, TableRows DEF Activatable
<1>3. /\ s \in DOMAIN db.subs /\ db.subs[s] \in Subscription
      /\ db.subs[s].invite \in {"SENT", "ACTIVATED"}
  <2>1. s \in DOMAIN db.subs /\ db.subs[s].invite # "PENDING"
    BY <1>2 DEF Whole, RefersIn
  <2>2. db.subs[s] \in Subscription
    BY <1>1, <2>1, TableRows
  <2> QED BY <2>1, <2>2 DEF Subscription
<1>4. e \in Invite /\ e.sub = s /\ e.status = "ACTIVATED"
  BY <1>2 DEF Invite
<1>5. /\ b \in Subscription /\ b.order = db.subs[s].order /\ b.invite = "ACTIVATED"
      /\ b.group = db.subs[s].group
  BY <1>3 DEF Subscription
<1>6. \A j \in Task : j.type = "INVITE_ACTIVATE" /\ ~j.done /\ j.of = i => j = gone
  BY DEF Task, Pending
<1>7. gone.type = "INVITE_ACTIVATE" /\ gone.of = i
  BY DEF Pending
<1>8. d = [db EXCEPT !.invites = [db.invites EXCEPT ![i] = e],
                     !.subs = [db.subs EXCEPT ![s] = b],
                     !.tasks = db.tasks \ {gone}]
  BY DEF ActivateInvite
<1> HIDE DEF e, b, gone
<1>9. PICK f \in Table(Invite) : f = [db.invites EXCEPT ![i] = e]
  BY <1>1, <1>2, <1>4, TableSet
<1>10. PICK h \in Table(Subscription) : h = [db.subs EXCEPT ![s] = b]
  BY <1>1, <1>3, <1>5, TableSet
<1>11. PICK x \in SUBSET Task : x = db.tasks \ {gone}
  BY <1>1
<1>12. /\ d \in Shape /\ d.users = db.users /\ d.orders = db.orders /\ d.subs = h
       /\ d.invites = f /\ d.groups = db.groups /\ d.tasks = x
  <2> HIDE DEF d, s
  <2>1. d = [db EXCEPT !.invites = f, !.subs = h, !.tasks = x]
    BY <1>8, <1>9, <1>10, <1>11
  <2>2. d = [users |-> db.users, product |-> db.product, groups |-> db.groups,
             orders |-> db.orders, subs |-> h, invites |-> f, tasks |-> x, texts |-> db.texts]
    BY <1>1, <2>1 DEF Shape
  <2> QED BY <1>1, <1>9, <1>10, <1>11, <2>2 DEF Shape
<1> HIDE DEF d
<1>13. /\ DOMAIN d.subs = DOMAIN db.subs /\ d.subs[s] = b
       /\ \A y \in DOMAIN db.subs \ {s} : d.subs[y] = db.subs[y]
  <2> HIDE DEF s
  <2>1. PICK D \in SUBSET Row : db.subs \in [D -> Subscription]
    BY <1>1 DEF Table
  <2> QED BY <1>3, <1>10, <1>12, <2>1
<1>14. /\ DOMAIN d.invites = DOMAIN db.invites /\ d.invites[i] = e
       /\ \A y \in DOMAIN db.invites \ {i} : d.invites[y] = db.invites[y]
  <2>1. PICK D \in SUBSET Row : db.invites \in [D -> Invite]
    BY <1>1 DEF Table
  <2> QED BY <1>2, <1>9, <1>12, <2>1
<1> HIDE DEF s
<1>15. RefersIn(d)
  <2>1. ASSUME NEW y \in DOMAIN d.subs
        PROVE  /\ d.subs[y].order \in DOMAIN d.orders
               /\ d.subs[y].group \in {None} \cup DOMAIN d.groups
               /\ d.subs[y].invite = "PENDING" => d.subs[y].group = None
    <3>1. CASE y = s
      BY <1>3, <1>5, <1>12, <1>13, <3>1 DEF Whole, RefersIn
    <3>2. CASE y # s
      BY <1>12, <1>13, <2>1, <3>2 DEF Whole, RefersIn
    <3> QED BY <3>1, <3>2
  <2>2. ASSUME NEW y \in DOMAIN d.invites
        PROVE  d.invites[y].sub \in DOMAIN d.subs /\ d.subs[d.invites[y].sub].invite # "PENDING"
    <3>1. CASE y = i
      BY <1>3, <1>4, <1>5, <1>13, <1>14, <3>1
    <3>2. CASE y # i
      BY <1>5, <1>13, <1>14, <2>2, <3>2 DEF Whole, RefersIn
    <3> QED BY <3>1, <3>2
  <2> QED BY <2>1, <2>2 DEF RefersIn
<1>16. OnceIn(d)
  <2>1. \A y : Subs(d, y) = Subs(db, y)
    BY <1>3, <1>5, <1>13 DEF Subs
  <2> QED BY <1>12, <2>1 DEF Whole, OnceIn
<1>17. SlotsCountedIn(d)
  <2>1. \A y : InGroup(d, y) = InGroup(db, y)
    BY <1>3, <1>5, <1>13 DEF InGroup
  <2> QED BY <1>12, <2>1 DEF Whole, SlotsCountedIn, InGroup
<1>18. TasksListedIn(d)
  <2>1. \A y \in DOMAIN d.orders :
          d.orders[y].status = "AWAITING_PAYMENT" =>
            \E j \in d.tasks : j.type = "MANUAL_PAYMENT_CONFIRM" /\ j.of = y
    BY <1>7, <1>11, <1>12 DEF Whole, TasksListedIn
  <2>2. \A y \in DOMAIN d.subs :
          d.subs[y].invite = "PENDING" => \E j \in d.tasks : j.type = "INVITE_SEND" /\ j.of = y
    BY <1>5, <1>7, <1>11, <1>12, <1>13 DEF Whole, TasksListedIn
  <2>3. \A y \in DOMAIN d.invites :
          d.invites[y].status = "SENT" =>
            \E j \in d.tasks : j.type = "INVITE_ACTIVATE" /\ j.of = y
    BY <1>4, <1>7, <1>11, <1>12, <1>14 DEF Whole, TasksListedIn
  <2>4. \A j \in d.tasks : j.type = "INVITE_SEND" /\ ~j.done => j.of \in Sendable(d)
    <3>1. Sendable(db) \subseteq Sendable(d)
      BY <1>3, <1>13 DEF Sendable
    <3> QED BY <1>11, <1>12, <3>1 DEF Whole, TasksListedIn
  <2>5. \A j \in d.tasks : j.type = "INVITE_ACTIVATE" /\ ~j.done => j.of \in Activatable(d)
    <3>1. Activatable(db) \ {i} \subseteq Activatable(d)
      BY <1>14 DEF Activatable
    <3>2. \A j \in d.tasks : j.type = "INVITE_ACTIVATE" /\ ~j.done => j.of \in Activatable(db) \ {i}
      BY <1>1, <1>6, <1>11, <1>12 DEF Whole, TasksListedIn
    <3> QED BY <3>1, <3>2
  <2> QED BY <2>1, <2>2, <2>3, <2>4, <2>5 DEF TasksListedIn
<1>19. ~Lost(db, d)
  <2>1. ~(Len(d.groups) < Len(db.groups))
    BY <1>1, <1>12
  <2>2. \A y \in DOMAIN db.subs : db.subs[y].invite \in {"PENDING", "SENT", "ACTIVATED"}
    <3>1. \A y \in DOMAIN db.subs : db.subs[y] \in Subscription
      BY <1>1, TableRows
    <3> QED BY <3>1 DEF Subscription
  <2>3. \A y \in DOMAIN db.subs :
          y \in DOMAIN d.subs /\ Later(db.subs[y].invite, d.subs[y].invite)
    BY <1>5, <1>13, <2>2 DEF Later
  <2> QED BY <1>1, <1>12, <1>14, <2>1, <2>3, SubsLost
<1>20. WithEmail(d, "new") = WithEmail(db, "new")
  BY <1>12 DEF WithEmail
<1> QED BY <1>12, <1>15, <1>16, <1>17, <1>18, <1>19, <1>20 DEF Whole, Keeps, d

-------------------------------------------------------------------------------
(* The databases a tab begins with *)

\* The seeded database is whole.
LEMMA SeedDbWhole == Whole(SeedDb) /\ WithEmail(SeedDb, "new") = {}
<1>1. 1 \in Row /\ 2 \in Row /\ 1..1 \in SUBSET Row /\ 1..2 \in SUBSET Row
  BY RowAssumption
<1>2. SeedUsers \in Table(User) /\ WithEmail(SeedDb, "new") = {}
  <2>1. SeedUsers \in [1..2 -> User]
    <3>1. PICK a \in User : a = [email |-> "admin", admin |-> TRUE, active |-> TRUE]
      BY DEF User
    <3>2. PICK b \in User : b = [email |-> "member", admin |-> FALSE, active |-> TRUE]
      BY DEF User
    <3>3. SeedUsers = <<a, b>>
      BY <3>1, <3>2 DEF SeedUsers
    <3> QED BY <3>3
  <2>2. \A u \in 1..2 : SeedUsers[u].email # "new"
    BY DEF SeedUsers
  <2> QED BY <1>1, <2>1, <2>2 DEF Table, WithEmail, SeedDb
<1>3. SeedOrders \in Table(Order) /\ DOMAIN SeedOrders = {1} /\ SeedOrders[1].status = "CONFIRMED"
  <2>1. SeedOrders \in [1..1 -> Order] /\ SeedOrders[1].status = "CONFIRMED"
    BY <1>1 DEF SeedOrders, Order
  <2> QED BY <1>1, <2>1 DEF Table
<1>4. SeedSubscriptions \in Table(Subscription) /\ DOMAIN SeedSubscriptions = {1}
      /\ SeedSubscriptions[1].order = 1 /\ SeedSubscriptions[1].invite = "SENT"
      /\ SeedSubscriptions[1].group = 1
  <2>1. SeedSubscriptions \in [1..1 -> Subscription]
    BY <1>1 DEF SeedSubscriptions, Subscription
  <2> QED BY <1>1, <2>1 DEF Table, SeedSubscriptions
<1>5. PICK i \in Table(Invite) : i = <<[sub |-> 1, status |-> "SENT"]>> /\ DOMAIN i = {1}
                                /\ i[1].sub = 1 /\ i[1].status = "SENT"
  <2>1. <<[sub |-> 1, status |-> "SENT"]>> \in [1..1 -> Invite]
    BY <1>1 DEF Invite
  <2> QED BY <1>1, <2>1 DEF Table
<1>6. PICK g \in Seq(Group) : g = <<[used |-> 1, room |-> Room]>> /\ DOMAIN g = {1}
                             /\ g[1].used = 1 /\ g[1].room = Room
  <2>1. PICK a \in Group : a = [used |-> 1, room |-> Room]
    BY DEF Group
  <2>2. <<a>> \in Seq(Group) /\ DOMAIN <<a>> = {1} /\ <<a>>[1] = a
    OBVIOUS
  <2> QED BY <2>1, <2>2
<1>7. PICK k \in Task : k = Pending("INVITE_ACTIVATE", 1)
                       /\ k.type = "INVITE_ACTIVATE" /\ k.of = 1 /\ k.done = FALSE
  <2>1. Pending("INVITE_ACTIVATE", 1) \in Task
    BY <1>1 DEF Pending, Task
  <2> QED BY <2>1 DEF Pending
<1>8. PICK d : d = SeedDb
  OBVIOUS
<1>9. d \in Shape /\ d.orders = SeedOrders /\ d.subs = SeedSubscriptions /\ d.invites = i
      /\ d.groups = g /\ d.tasks = {k}
  <2>1. d = [users |-> SeedUsers, product |-> "active", groups |-> g, orders |-> SeedOrders,
             subs |-> SeedSubscriptions, invites |-> i, tasks |-> {k}, texts |-> {}]
    BY <1>5, <1>6, <1>7, <1>8 DEF SeedDb, SeedTasks
  <2> QED BY <1>2, <1>3, <1>4, <1>5, <1>6, <1>7, <2>1 DEF Shape
<1>10. RefersIn(d)
  BY <1>3, <1>4, <1>5, <1>6, <1>9 DEF RefersIn
<1>11. OnceIn(d)
  <2>1. Subs(d, 1) = {1}
    BY <1>4, <1>9 DEF Subs
  <2> QED BY <1>3, <1>9, <2>1 DEF OnceIn
<1>12. SlotsCountedIn(d)
  <2>1. InGroup(d, 1) = {1}
    BY <1>4, <1>9 DEF InGroup
  <2>2. Cardinality(InGroup(d, 1)) = 1
    BY <2>1, FS_Singleton
  <2>3. 1 <= Room
    BY SavesAssumption
  <2> QED BY <1>6, <1>9, <2>2, <2>3 DEF SlotsCountedIn, InGroup
<1>13. TasksListedIn(d)
  BY <1>3, <1>4, <1>5, <1>7, <1>9 DEF TasksListedIn, Sendable, Activatable
<1> QED BY <1>2, <1>8, <1>9, <1>10, <1>11, <1>12, <1>13 DEF Whole

\* Every database the demo may find in the storage is whole, and nobody has registered.
LEMMA FirstDbsWhole ==
  ASSUME NEW db \in {SeedDb, Ordered, ConfirmOrderDemo(OrderedTwice, 3, 3)}
  PROVE  Whole(db) /\ WithEmail(db, "new") = {}
<1>1. {1, 2, 3} \subseteq Row
  BY RowAssumption
<1>2. DOMAIN SeedDb.orders = {1} /\ DOMAIN SeedDb.subs = {1}
  BY DEF SeedDb, SeedOrders, SeedSubscriptions
<1>3. Whole(Ordered) /\ WithEmail(Ordered, "new") = {}
  BY <1>1, <1>2, SeedDbWhole, CreateKeeps DEF Ordered, Keeps
<1>4. /\ DOMAIN Ordered.orders = {1, 2} /\ Ordered.orders[2].status = "AWAITING_PAYMENT"
      /\ DOMAIN Ordered.subs = {1}
  <2>1. Ordered = [SeedDb EXCEPT
                     !.orders = Put(SeedDb.orders, 2, [of |-> 2, status |-> "AWAITING_PAYMENT"]),
                     !.tasks = SeedDb.tasks \cup {Pending("MANUAL_PAYMENT_CONFIRM", 2)}]
    BY DEF Ordered, CreateOrder
  <2>2. /\ Ordered.orders = Put(SeedDb.orders, 2, [of |-> 2, status |-> "AWAITING_PAYMENT"])
        /\ Ordered.subs = SeedDb.subs
    BY <2>1 DEF SeedDb
  <2> QED BY <1>2, <2>2 DEF Put
<1>5. PICK c : c = ConfirmOrderDemo(Ordered, 2, 2)
  OBVIOUS
<1>6. Whole(c) /\ WithEmail(c, "new") = {}
  BY <1>1, <1>3, <1>4, <1>5, ConfirmKeeps DEF Confirmable, Keeps
<1>7. DOMAIN c.orders = {1, 2} /\ DOMAIN c.subs = {1, 2}
  <2>1. Ordered \in Shape
    BY <1>3 DEF Whole
  <2>2. /\ c.orders = [Ordered.orders EXCEPT ![2].status = "CONFIRMED"]
        /\ c.subs = Put(Ordered.subs, 2, [order |-> 2, invite |-> "PENDING", group |-> None])
    BY <1>4, <1>5, <2>1 DEF ConfirmOrderDemo, Shape
  <2> QED BY <1>4, <2>2 DEF Put
<1>8. Whole(OrderedTwice) /\ WithEmail(OrderedTwice, "new") = {}
  BY <1>1, <1>5, <1>6, <1>7, CreateKeeps DEF OrderedTwice, Keeps
<1>9. /\ DOMAIN OrderedTwice.orders = {1, 2, 3} /\ DOMAIN OrderedTwice.subs = {1, 2}
      /\ OrderedTwice.orders[3].status = "AWAITING_PAYMENT"
  <2>1. c \in Shape
    BY <1>6 DEF Whole
  <2>2. /\ OrderedTwice.orders = Put(c.orders, 3, [of |-> 2, status |-> "AWAITING_PAYMENT"])
        /\ OrderedTwice.subs = c.subs
    BY <1>5, <2>1 DEF OrderedTwice, CreateOrder, Shape
  <2> QED BY <1>7, <2>2 DEF Put
<1>10. /\ Whole(ConfirmOrderDemo(OrderedTwice, 3, 3))
       /\ WithEmail(ConfirmOrderDemo(OrderedTwice, 3, 3), "new") = {}
  BY <1>1, <1>8, <1>9, ConfirmKeeps DEF Confirmable, Keeps
<1> QED BY <1>3, <1>10, SeedDbWhole

-------------------------------------------------------------------------------
(* Tabs *)

\* DemoTypeOK without the databases.
DemoTypes ==
  /\ kept \in Row \cup {None}
  /\ session \in [Tab -> Row \cup {None}]
  /\ console \subseteq Tab
  /\ waits \in [Tab -> Waits]
  /\ saves \in 0..MaxSaves
  /\ overlapped \in BOOLEAN
  /\ copy = [t \in Tab |-> copy[t]]

\* Every database is whole, and a tab that waits to push an account has one.
DemoWhole ==
  /\ stored # Nothing => Whole(stored)
  /\ \A t \in Tab : copy[t] # Nothing \/ waits[t].registering > 0 => Whole(copy[t])

OneAccount(db) == \E x : WithEmail(db, "new") \subseteq {x}

\* While a tab waits to push the one account it has found no other.
DemoAccounts ==
  ~overlapped =>
    /\ stored # Nothing => OneAccount(stored)
    /\ \A t \in Tab :
         /\ copy[t] # Nothing => OneAccount(copy[t])
         /\ waits[t].registering <= 1
         /\ waits[t].registering = 1 => WithEmail(copy[t], "new") = {}

\* What a tab waits for.
LEMMA WaitsParts ==
  ASSUME DemoTypes, NEW t \in Tab
  PROVE  /\ waits[t] \in Waits /\ waits[t].seeding \in BOOLEAN /\ waits[t].resetting \in BOOLEAN
         /\ waits[t].registering \in 0..2 /\ waits[t].login \in Row \cup {None}
BY DEF DemoTypes, Waits

\* Who is logged in is in the tab's copy.
LEMMA ActorKnown ==
  ASSUME NEW t \in Tab, Actor(t) # None
  PROVE  Actor(t) \in DOMAIN copy[t].users
BY DEF Actor, ActorIn

\* uid draws what is nowhere in the copy.
LEMMA NewIsFree ==
  ASSUME NEW t \in Tab, copy[t] # Nothing, NEW table \in {"orders", "subs", "invites"},
         NEW r \in New(table)
  PROVE  r \in Row \ DOMAIN copy[t][table]
<1>1. copy[t] \in Databases
  BY DEF Databases
<1> QED BY <1>1 DEF New

\* What is done at once by a click.
LEMMA ClickKeeps ==
  ASSUME DemoWhole, NEW t \in Tab, SiteClick(t) \/ ConsoleClick(t) \/ ChangeRole(t)
  PROVE  /\ copy[t] # Nothing
         /\ UNCHANGED <<kept, session, waits, overlapped>>
         /\ console' \subseteq console
         /\ \E db : /\ Saves(t, db) /\ Keeps(copy[t], db)
                    /\ WithEmail(db, "new") = WithEmail(copy[t], "new")
<1>1. copy[t] # Nothing
  BY DEF SiteClick, ConsoleClick, ChangeRole, Ready
<1>2. UNCHANGED <<kept, session, waits, overlapped>> /\ console' \subseteq console
  BY DEF SiteClick, ConsoleClick, ChangeRole, Renders
<1>3. PICK c : c = copy[t]
  OBVIOUS
<1>4. Whole(c) /\ c \in Shape
  BY <1>1, <1>3 DEF DemoWhole, Whole
<1>5. DOMAIN c.users \subseteq Row /\ \A u \in DOMAIN c.users : c.users[u] \in User
  <2>1. c.users \in Table(User)
    BY <1>4 DEF Shape
  <2> QED BY <2>1, TableRows
<1>6. CASE SiteClick(t)
  <2>1. CASE \E o \in New("orders") : Saves(t, CreateOrder(c, Actor(t), o))
    <3>1. PICK o \in New("orders") : Saves(t, CreateOrder(c, Actor(t), o))
      BY <2>1
    <3>2. o \in Row \ DOMAIN c.orders
      BY <1>1, <1>3, NewIsFree
    <3>3. Actor(t) \in Row
      BY <1>3, <1>5, <1>6, ActorKnown DEF SiteClick
    <3> QED BY <1>1, <1>2, <1>3, <1>4, <3>1, <3>2, <3>3, CreateKeeps
  <2>2. CASE \E o \in Cancellable(c, Actor(t)) : Saves(t, CancelOrder(c, Actor(t), o))
    BY <1>1, <1>2, <1>3, <1>4, <2>2, CancelKeeps
  <2>3. CASE \E k \in Text : Saves(t, WriteText(c, k))
    BY <1>1, <1>2, <1>3, <1>4, <2>3, TextKeeps
  <2> QED BY <1>3, <1>6, <2>1, <2>2, <2>3 DEF SiteClick
<1>7. CASE ConsoleClick(t)
  <2>1. CASE \E o \in Confirmable(c), s \in New("subs") : Saves(t, ConfirmOrderDemo(c, o, s))
    <3>1. PICK o \in Confirmable(c), s \in New("subs") : Saves(t, ConfirmOrderDemo(c, o, s))
      BY <2>1
    <3>2. s \in Row \ DOMAIN c.subs
      BY <1>1, <1>3, NewIsFree
    <3> QED BY <1>1, <1>2, <1>3, <1>4, <3>1, <3>2, ConfirmKeeps
  <2>2. CASE \E s \in Sendable(c), i \in New("invites") : Saves(t, SendInvite(c, s, i))
    <3>1. PICK s \in Sendable(c), i \in New("invites") : Saves(t, SendInvite(c, s, i))
      BY <2>2
    <3>2. i \in Row \ DOMAIN c.invites
      BY <1>1, <1>3, NewIsFree
    <3> QED BY <1>1, <1>2, <1>3, <1>4, <3>1, <3>2, SendKeeps
  <2>3. CASE \E i \in Activatable(c) : Saves(t, ActivateInvite(c, i))
    BY <1>1, <1>2, <1>3, <1>4, <2>3, ActivateKeeps
  <2>4. CASE \E k \in Completable(c) : Saves(t, CompleteTask(c, k))
    BY <1>1, <1>2, <1>3, <1>4, <2>4, CompleteKeeps
  <2>5. CASE \E u \in DOMAIN c.users : Saves(t, SetUserActive(c, u))
    BY <1>1, <1>2, <1>3, <1>4, <2>5, ActiveKeeps
  <2>6. CASE \E state \in {"active", "inactive", "gone"} : Saves(t, SaveProduct(c, state))
    BY <1>1, <1>2, <1>3, <1>4, <2>6, ProductKeeps
  <2>7. CASE Saves(t, SaveGroup(c))
    BY <1>1, <1>2, <1>3, <1>4, <2>7, GroupKeeps
  <2> QED BY <1>3, <1>7, <2>1, <2>2, <2>3, <2>4, <2>5, <2>6, <2>7 DEF ConsoleClick
<1>8. CASE ChangeRole(t)
  <2>1. PICK u \in DOMAIN c.users : Saves(t, SetUserRole(c, u, ~c.users[u].admin))
    BY <1>3, <1>8 DEF ChangeRole
  <2>2. (~c.users[u].admin) \in BOOLEAN
    OBVIOUS
  <2> QED BY <1>1, <1>2, <1>3, <1>4, <2>1, <2>2, RoleKeeps
<1> QED BY <1>6, <1>7, <1>8

\* The account is pushed into a database that stays whole; it is the only new one when there
\* was none before.
LEMMA RegisterEndKeeps ==
  ASSUME DemoTypes, DemoWhole, NEW t \in Tab, RegisterEnd(t)
  PROVE  \E db : /\ Saves(t, db) /\ Keeps(copy[t], db) /\ copy'[t] = db
                /\ \E u : u \in WithEmail(db, "new")
                         /\ WithEmail(db, "new") \subseteq WithEmail(copy[t], "new") \cup {u}
                /\ Min(WithEmail(db, "new")) \in Row
<1>1. PICK u \in New("users") : Saves(t, Register(copy[t], u))
  BY DEF RegisterEnd
<1>2. Whole(copy[t]) /\ u \in Row
  BY DEF RegisterEnd, DemoWhole, New
<1>3. PICK db : db = Register(copy[t], u)
  OBVIOUS
<1>4. /\ Keeps(copy[t], db) /\ u \in WithEmail(db, "new")
      /\ WithEmail(db, "new") \subseteq WithEmail(copy[t], "new") \cup {u}
  BY <1>2, <1>3, RegisterKeeps
<1>5. copy'[t] = db
  BY <1>1, <1>3 DEF Saves, DemoTypes
<1>6. WithEmail(db, "new") \subseteq Row
  <2>1. db.users \in Table(User)
    BY <1>4 DEF Keeps, Whole, Shape
  <2> QED BY <2>1, TableRows DEF WithEmail
<1>7. Min(WithEmail(db, "new")) \in Row
  <2>1. WithEmail(db, "new") \in SUBSET Nat
    BY <1>6, RowAssumption
  <2> QED BY <1>4, <1>6, <2>1, Least
<1> QED BY <1>1, <1>3, <1>4, <1>5, <1>7

\* A step keeps sessions, what tabs wait for and the bound.
LEMMA DemoTypesStep ==
  ASSUME DemoTypes, DemoWhole, [DemoNext]_demoVars
  PROVE  DemoTypes'
<1>1. CASE UNCHANGED demoVars
  BY <1>1 DEF DemoTypes, demoVars
<1>2. ASSUME NEW t \in Tab, NEW db, Saves(t, db)
      PROVE  saves' \in 0..MaxSaves /\ copy' = [x \in Tab |-> copy'[x]]
  <2>1. saves' \in 0..MaxSaves
    BY <1>2, SavesAssumption DEF Saves, DemoTypes
  <2>2. copy' = [copy EXCEPT ![t] = db] /\ copy = [x \in Tab |-> copy[x]]
    BY <1>2 DEF Saves, DemoTypes
  <2>3. copy' = [x \in Tab |-> copy'[x]]
    BY <2>2
  <2> QED BY <2>1, <2>3
<1>3. ASSUME NEW t \in Tab, NEW w \in Waits, waits' = [waits EXCEPT ![t] = w]
      PROVE  waits' \in [Tab -> Waits]
  BY <1>3 DEF DemoTypes
<1>4. ASSUME NEW t \in Tab
      PROVE  Quiet \in Waits
  BY DEF Quiet, Waits
<1>5. ASSUME NEW t \in Tab, Load(t)
      PROVE  DemoTypes'
  <2>1. PICK w \in Waits : waits' = [waits EXCEPT ![t] = w]
    <3>1. PICK b \in BOOLEAN : b = (stored = Nothing)
      OBVIOUS
    <3>2. PICK q \in Waits : q = Quiet
      BY <1>4
    <3>3. [q EXCEPT !.seeding = b] \in Waits
      BY DEF Waits
    <3> QED BY <1>5, <3>1, <3>2, <3>3 DEF Load
  <2>2. waits' \in [Tab -> Waits]
    BY <1>3, <2>1
  <2>3. copy' = [x \in Tab |-> copy'[x]]
    BY <1>5 DEF Load, DemoTypes
  <2> QED BY <1>5, <2>2, <2>3 DEF Load, DemoTypes
<1>6. ASSUME NEW t \in Tab, Seeded(t)
      PROVE  DemoTypes'
  <2>1. waits' \in [Tab -> Waits]
    <3>1. [waits[t] EXCEPT !.seeding = FALSE] \in Waits
      BY WaitsParts DEF Waits
    <3> QED BY <1>6, <1>3, <3>1 DEF Seeded
  <2> QED BY <1>2, <1>6, <2>1 DEF Seeded, DemoTypes
<1>7. ASSUME NEW t \in Tab, OpenConsole(t)
      PROVE  DemoTypes'
  BY <1>7 DEF OpenConsole, DemoTypes
<1>8. ASSUME NEW t \in Tab, SiteClick(t) \/ ConsoleClick(t) \/ ChangeRole(t)
      PROVE  DemoTypes'
  BY <1>2, <1>8, ClickKeeps DEF DemoTypes
<1>9. ASSUME NEW t \in Tab, Logout(t)
      PROVE  DemoTypes'
  BY <1>2, <1>9 DEF Logout, DemoTypes
<1>10. ASSUME NEW t \in Tab, RegisterStart(t)
       PROVE  DemoTypes'
  <2>1. waits' \in [Tab -> Waits]
    <3>1. [waits[t] EXCEPT !.registering = @ + 1] \in Waits
      BY <1>10, WaitsParts DEF Waits, RegisterStart
    <3> QED BY <1>10, <1>3, <3>1 DEF RegisterStart
  <2> QED BY <1>10, <2>1 DEF RegisterStart, DemoTypes
<1>11. ASSUME NEW t \in Tab, RegisterEnd(t)
       PROVE  DemoTypes'
  <2>1. PICK db : Saves(t, db) /\ copy'[t] = db /\ Min(WithEmail(db, "new")) \in Row
    BY <1>11, RegisterEndKeeps
  <2>2. waits' \in [Tab -> Waits]
    <3>1. PICK m \in Row : m = Min(WithEmail(db, "new"))
      BY <2>1
    <3>2. PICK r \in 0..2 : r = waits[t].registering - 1
      BY <1>11, WaitsParts DEF RegisterEnd
    <3>3. PICK w \in Waits : w = waits[t]
      BY WaitsParts
    <3>4. [w EXCEPT !.registering = r, !.login = m] \in Waits
      BY DEF Waits
    <3>5. [waits[t] EXCEPT !.registering = @ - 1, !.login = m] \in Waits
      BY <3>2, <3>3, <3>4
    <3>6. waits' = [waits EXCEPT ![t] = [waits[t] EXCEPT !.registering = @ - 1, !.login = m]]
      <4>1. waits' = [waits EXCEPT ![t].registering = @ - 1, ![t].login = m]
        BY <1>11, <2>1, <3>1 DEF RegisterEnd
      <4> QED BY <4>1 DEF DemoTypes
    <3> QED BY <1>3, <3>5, <3>6
  <2> QED BY <1>2, <1>11, <2>1, <2>2 DEF RegisterEnd, DemoTypes
<1>12. ASSUME NEW t \in Tab, LoginStart(t)
       PROVE  DemoTypes'
  <2>1. PICK u : u \in Row /\ waits' = [waits EXCEPT ![t].login = u]
    <3>1. PICK v \in DOMAIN copy[t].users :
            waits' = [waits EXCEPT ![t].login = Min(WithEmail(copy[t], copy[t].users[v].email))]
      BY <1>12 DEF LoginStart
    <3>2. Whole(copy[t])
      BY <1>12 DEF LoginStart, Ready, DemoWhole
    <3>3. DOMAIN copy[t].users \subseteq Row
      <4>1. copy[t].users \in Table(User)
        BY <3>2 DEF Whole, Shape
      <4> QED BY <4>1, TableRows
    <3>4. PICK S : S = WithEmail(copy[t], copy[t].users[v].email)
      OBVIOUS
    <3>5. v \in S /\ S \subseteq Row /\ S \in SUBSET Nat
      BY <3>3, <3>4, RowAssumption DEF WithEmail
    <3>6. Min(S) \in Row
      BY <3>5, Least
    <3> QED BY <3>1, <3>4, <3>6
  <2>2. waits' \in [Tab -> Waits]
    <3>1. [waits[t] EXCEPT !.login = u] \in Waits
      BY <2>1, WaitsParts DEF Waits
    <3> QED BY <1>3, <2>1, <3>1
  <2> QED BY <1>12, <2>2 DEF LoginStart, DemoTypes
<1>13. ASSUME NEW t \in Tab, LoginEnd(t)
       PROVE  DemoTypes'
  <2>1. waits' \in [Tab -> Waits]
    <3>1. [waits[t] EXCEPT !.login = None] \in Waits
      BY WaitsParts DEF Waits
    <3> QED BY <1>13, <1>3, <3>1 DEF LoginEnd
  <2>2. waits[t].login \in Row \cup {None}
    BY WaitsParts
  <2>3. session' \in [Tab -> Row \cup {None}] /\ kept' \in Row \cup {None}
    BY <1>13, <2>2 DEF LoginEnd, DemoTypes
  <2> QED BY <1>2, <1>13, <2>1, <2>3 DEF LoginEnd, DemoTypes
<1>14. ASSUME NEW t \in Tab, ResetStart(t)
       PROVE  DemoTypes'
  <2>1. waits' \in [Tab -> Waits]
    <3>1. [waits[t] EXCEPT !.resetting = TRUE] \in Waits
      BY WaitsParts DEF Waits
    <3> QED BY <1>14, <1>3, <3>1 DEF ResetStart
  <2> QED BY <1>14, <2>1 DEF ResetStart, DemoTypes
<1>15. ASSUME NEW t \in Tab, ResetEnd(t)
       PROVE  DemoTypes'
  <2>1. waits' \in [Tab -> Waits]
    <3>1. [waits[t] EXCEPT !.resetting = FALSE] \in Waits
      BY WaitsParts DEF Waits
    <3> QED BY <1>15, <1>3, <3>1 DEF ResetEnd
  <2> QED BY <1>2, <1>15, <2>1 DEF ResetEnd, DemoTypes
<1> QED BY <1>1, <1>5, <1>6, <1>7, <1>8, <1>9, <1>10, <1>11, <1>12, <1>13, <1>14, <1>15
        DEF DemoNext, Wait

\* The steps that save.
Writes(t) ==
  \/ Seeded(t) \/ SiteClick(t) \/ ConsoleClick(t) \/ ChangeRole(t) \/ Logout(t)
  \/ RegisterEnd(t) \/ LoginEnd(t) \/ ResetEnd(t)

\* What a tab saves in a step: its copy as it is, the seeded database, or one that an
\* operation has made of the copy.
LEMMA SavesKeep ==
  ASSUME DemoTypes, DemoWhole, NEW t \in Tab, Writes(t)
  PROVE  \E db : /\ copy' = [copy EXCEPT ![t] = db] /\ copy'[t] = db /\ stored' = db
                 /\ db = copy[t] \/ db = SeedDb \/ Keeps(copy[t], db)
                 /\ \A x \in Tab : waits'[x].registering > 0 => waits[x].registering > 0
<1>0. ASSUME NEW db, Saves(t, db)
      PROVE  copy' = [copy EXCEPT ![t] = db] /\ copy'[t] = db /\ stored' = db
  BY <1>0 DEF Saves, DemoTypes
<1>1. ASSUME waits' = [waits EXCEPT ![t].seeding = FALSE]
      PROVE  \A x \in Tab : waits'[x].registering > 0 => waits[x].registering > 0
  BY <1>1, WaitsParts DEF DemoTypes, Waits
<1>2. ASSUME waits' = [waits EXCEPT ![t].resetting = FALSE]
      PROVE  \A x \in Tab : waits'[x].registering > 0 => waits[x].registering > 0
  BY <1>2, WaitsParts DEF DemoTypes, Waits
<1>3. ASSUME waits' = [waits EXCEPT ![t].login = None]
      PROVE  \A x \in Tab : waits'[x].registering > 0 => waits[x].registering > 0
  BY <1>3, WaitsParts DEF DemoTypes, Waits
<1>4. CASE SiteClick(t) \/ ConsoleClick(t) \/ ChangeRole(t)
  BY <1>0, <1>4, ClickKeeps
<1>5. CASE RegisterEnd(t)
  <2>1. PICK db : Saves(t, db) /\ Keeps(copy[t], db)
    BY <1>5, RegisterEndKeeps
  <2>2. \A x \in Tab : waits'[x].registering > 0 => waits[x].registering > 0
    BY <1>5 DEF RegisterEnd, DemoTypes
  <2> QED BY <1>0, <2>1, <2>2
<1>6. CASE Seeded(t)
  BY <1>0, <1>1, <1>6 DEF Seeded
<1>7. CASE Logout(t)
  BY <1>0, <1>7 DEF Logout
<1>8. CASE LoginEnd(t)
  BY <1>0, <1>3, <1>8 DEF LoginEnd
<1>9. CASE ResetEnd(t)
  BY <1>0, <1>2, <1>9 DEF ResetEnd
<1> QED BY <1>4, <1>5, <1>6, <1>7, <1>8, <1>9 DEF Writes

\* The steps that save nothing: a page is loaded, or a tab leaves all databases alone.
LEMMA LeavesAlone ==
  ASSUME DemoTypes, NEW t \in Tab,
         OpenConsole(t) \/ RegisterStart(t) \/ LoginStart(t) \/ ResetStart(t)
  PROVE  /\ UNCHANGED <<stored, copy>>
         /\ \A x \in Tab : waits'[x].registering > 0 =>
              waits[x].registering > 0 \/ copy[x] # Nothing
BY WaitsParts DEF OpenConsole, RegisterStart, LoginStart, ResetStart, Ready, DemoTypes, Waits

\* A step leaves every database whole: the storage gets what a tab has, and a tab what is
\* stored or seeded.
LEMMA DemoWholeStep ==
  ASSUME DemoTypes, DemoWhole, [DemoNext]_demoVars
  PROVE  DemoWhole'
<1>1. CASE UNCHANGED demoVars
  BY <1>1 DEF DemoWhole, demoVars
<1>2. ASSUME NEW t \in Tab, Load(t)
      PROVE  DemoWhole'
  <2>1. PICK db : /\ copy' = [copy EXCEPT ![t] = db] /\ copy'[t] = db
                  /\ db = SeedDb \/ (db # Nothing /\ db = stored)
    BY <1>2 DEF Load, DemoTypes
  <2>2. Whole(db)
    BY <2>1, SeedDbWhole DEF DemoWhole
  <2>3. \A x \in Tab \ {t} : copy'[x] = copy[x] /\ waits'[x] = waits[x]
    BY <1>2, <2>1 DEF Load, DemoTypes
  <2>4. stored' = stored
    BY <1>2 DEF Load
  <2> QED BY <2>1, <2>2, <2>3, <2>4 DEF DemoWhole
<1>3. ASSUME NEW t \in Tab,
             OpenConsole(t) \/ RegisterStart(t) \/ LoginStart(t) \/ ResetStart(t)
      PROVE  DemoWhole'
  <2>1. /\ stored' = stored /\ copy' = copy
        /\ \A x \in Tab : waits'[x].registering > 0 =>
             waits[x].registering > 0 \/ copy[x] # Nothing
    BY <1>3, LeavesAlone
  <2> QED BY <2>1 DEF DemoWhole
<1>4. ASSUME NEW t \in Tab, Writes(t)
      PROVE  DemoWhole'
  <2>1. PICK db : /\ copy' = [copy EXCEPT ![t] = db] /\ copy'[t] = db /\ stored' = db
                  /\ db = copy[t] \/ db = SeedDb \/ Keeps(copy[t], db)
                  /\ \A x \in Tab : waits'[x].registering > 0 => waits[x].registering > 0
    BY <1>4, SavesKeep
  <2>2. \A x \in Tab \ {t} : copy'[x] = copy[x]
    BY <2>1 DEF DemoTypes
  <2> QED BY <2>1, <2>2, SeedDbWhole DEF DemoWhole, Keeps
<1> QED BY <1>1, <1>2, <1>3, <1>4 DEF DemoNext, Wait, Writes

\* The demo begins with whole databases.
LEMMA DemoInitWhole == DemoInit => DemoTypes /\ DemoWhole /\ DemoAccounts
<1> SUFFICES ASSUME DemoInit PROVE DemoTypes /\ DemoWhole /\ DemoAccounts
  OBVIOUS
<1>1. Quiet \in Waits /\ Quiet.registering = 0
  BY DEF Quiet, Waits
<1>2. 1 \in Row
  BY RowAssumption
<1>3. DemoTypes
  <2>1. session \in [Tab -> Row \cup {None}]
    BY <1>2 DEF DemoInit
  <2>2. waits \in [Tab -> Waits]
    BY <1>1 DEF DemoInit
  <2>3. copy = [t \in Tab |-> copy[t]]
    BY DEF DemoInit
  <2>4. saves \in 0..MaxSaves
    BY SavesAssumption DEF DemoInit
  <2> QED BY <2>1, <2>2, <2>3, <2>4 DEF DemoInit, DemoTypes
<1>4. stored # Nothing => Whole(stored) /\ WithEmail(stored, "new") = {}
  BY FirstDbsWhole DEF DemoInit
<1>5. \A t \in Tab : copy[t] = Nothing /\ waits[t] = Quiet
  BY DEF DemoInit
<1>6. DemoWhole
  BY <1>1, <1>4, <1>5 DEF DemoWhole
<1>7. DemoAccounts
  BY <1>1, <1>4, <1>5 DEF DemoAccounts, OneAccount
<1> QED BY <1>3, <1>6, <1>7

\* The storage and every tab's copy are whole at any time, however tabs overwrite each other:
\* rows refer to rows, orders are booked once, slots counted, tasks listed.
THEOREM DemoInvariant == DemoSpec => [](DemoTypes /\ DemoWhole)
<1>1. DemoInit => DemoTypes /\ DemoWhole
  BY DemoInitWhole
<1>2. DemoTypes /\ DemoWhole /\ [DemoNext]_demoVars => (DemoTypes /\ DemoWhole)'
  BY DemoTypesStep, DemoWholeStep
<1> QED BY <1>1, <1>2, PTL DEF DemoSpec

\* Every database there is, is whole.
LEMMA DatabasesWhole ==
  ASSUME DemoWhole, NEW db \in Databases
  PROVE  Whole(db)
BY DEF DemoWhole, Databases

\* An order is confirmed exactly when it has a subscription, and a group has as many slots in
\* use as subscriptions in it: confirmOrderDemo, cancelOrder, sendInvite.
THEOREM DemoBooks == DemoSpec => []Booked
<1>1. DemoWhole => Booked
  BY DatabasesWhole, OnceIsBooked DEF Booked, Whole
<1> QED BY <1>1, DemoInvariant, PTL

\* What waits for an operator is on the list, what is done is not, and rows have their forms:
\* createOrder, confirmOrderDemo, sendInvite, activateInvite, completeTask.
THEOREM DemoListsTasks == DemoSpec => []DemoTasksListed
<1>1. ASSUME DemoTypes, DemoWhole
      PROVE  DemoTasksListed
  <2>1. ASSUME NEW db \in Databases
        PROVE  /\ DOMAIN db.users \subseteq Row /\ \A u \in DOMAIN db.users : db.users[u] \in User
               /\ \A s \in DOMAIN db.subs : db.subs[s] \in Subscription
               /\ db.tasks \subseteq Task
               /\ TasksListedIn(db)
    <3>1. Whole(db)
      BY <1>1, DatabasesWhole
    <3>2. db.users \in Table(User) /\ db.subs \in Table(Subscription) /\ db.tasks \subseteq Task
          /\ TasksListedIn(db)
      BY <3>1 DEF Whole, Shape
    <3> QED BY <3>2, TableRows
  <2> QED BY <1>1, <2>1 DEF DemoTasksListed, DemoTypeOK, DemoTypes
<1> QED BY <1>1, DemoInvariant, PTL

\* What is saved has one account if the copy had, and a tab still finds none where it found
\* none before.
LEMMA AccountsSaved ==
  ASSUME DemoTypes, DemoAccounts, NEW t \in Tab, NEW db,
         copy' = [copy EXCEPT ![t] = db], stored' = db, overlapped' = overlapped,
         ~overlapped => db = Nothing \/ OneAccount(db),
         \A x \in Tab \ {t} : waits'[x].registering = waits[x].registering,
         \/ waits'[t].registering = 0
         \/ /\ waits'[t].registering = waits[t].registering
            /\ WithEmail(db, "new") = WithEmail(copy[t], "new")
  PROVE  DemoAccounts'
<1> SUFFICES ASSUME ~overlapped PROVE DemoAccounts'
  BY DEF DemoAccounts
<1>1. copy'[t] = db /\ \A x \in Tab \ {t} : copy'[x] = copy[x]
  BY DEF DemoTypes
<1>2. ASSUME NEW x \in Tab
      PROVE  /\ copy'[x] # Nothing => OneAccount(copy'[x])
             /\ waits'[x].registering <= 1
             /\ waits'[x].registering = 1 => WithEmail(copy'[x], "new") = {}
  <2>1. CASE x = t
    BY <1>1, <2>1 DEF DemoAccounts
  <2>2. CASE x # t
    BY <1>1, <2>2 DEF DemoAccounts
  <2> QED BY <2>1, <2>2
<1>3. stored' # Nothing => OneAccount(stored')
  OBVIOUS
<1> QED BY <1>2, <1>3 DEF DemoAccounts, OneAccount, WithEmail

\* A step adds no second account as long as no tab has two registrations under way.
LEMMA DemoAccountsStep ==
  ASSUME DemoTypes, DemoWhole, DemoAccounts, [DemoNext]_demoVars
  PROVE  DemoAccounts'
<1>0. \A c : WithEmail(c, "new") = {} => OneAccount(c)
  BY DEF OneAccount
<1>1. CASE UNCHANGED demoVars
  BY <1>1 DEF DemoAccounts, OneAccount, WithEmail, demoVars
<1>2. ASSUME NEW t \in Tab, Load(t)
      PROVE  DemoAccounts'
  <2>1. PICK db : /\ copy' = [copy EXCEPT ![t] = db] /\ copy'[t] = db
                  /\ db = SeedDb \/ (db # Nothing /\ db = stored)
    BY <1>2 DEF Load, DemoTypes
  <2>2. \A x \in Tab \ {t} : copy'[x] = copy[x] /\ waits'[x] = waits[x]
    BY <1>2, <2>1 DEF Load, DemoTypes
  <2>3. waits'[t].registering = 0
    BY <1>2 DEF Load, DemoTypes, Quiet
  <2>4. ~overlapped => OneAccount(db)
    BY <1>0, <2>1, SeedDbWhole DEF DemoAccounts
  <2>5. stored' = stored /\ overlapped' = overlapped
    BY <1>2 DEF Load
  <2> QED BY <2>1, <2>2, <2>3, <2>4, <2>5 DEF DemoAccounts, OneAccount, WithEmail
<1>3. ASSUME NEW t \in Tab, OpenConsole(t) \/ LoginStart(t) \/ ResetStart(t)
      PROVE  DemoAccounts'
  <2>1. stored' = stored /\ copy' = copy /\ overlapped' = overlapped
    BY <1>3 DEF OpenConsole, LoginStart, ResetStart
  <2>2. \A x \in Tab : waits'[x].registering = waits[x].registering
    BY <1>3, WaitsParts DEF OpenConsole, LoginStart, ResetStart, DemoTypes, Waits
  <2> QED BY <2>1, <2>2 DEF DemoAccounts, OneAccount, WithEmail
<1>4. ASSUME NEW t \in Tab, RegisterStart(t)
      PROVE  DemoAccounts'
  <2> SUFFICES ASSUME ~overlapped' PROVE DemoAccounts'
    BY DEF DemoAccounts
  <2>1. stored' = stored /\ copy' = copy /\ ~overlapped
    BY <1>4 DEF RegisterStart
  <2>2. waits[t].registering = 0
    <3>1. ~(waits[t].registering > 0)
      BY <1>4 DEF RegisterStart
    <3> QED BY <3>1, WaitsParts
  <2>3. waits'[t].registering = 1 /\ WithEmail(copy[t], "new") = {}
    BY <1>4, <2>2, WaitsParts DEF RegisterStart, DemoTypes, Waits
  <2>4. \A x \in Tab \ {t} : waits'[x] = waits[x]
    BY <1>4 DEF RegisterStart, DemoTypes
  <2> QED BY <2>1, <2>3, <2>4 DEF DemoAccounts, OneAccount, WithEmail
<1>5. ASSUME NEW t \in Tab, SiteClick(t) \/ ConsoleClick(t) \/ ChangeRole(t)
      PROVE  DemoAccounts'
  <2>1. PICK db : Saves(t, db) /\ WithEmail(db, "new") = WithEmail(copy[t], "new")
    BY <1>5, ClickKeeps
  <2>2. copy[t] # Nothing /\ waits' = waits /\ overlapped' = overlapped
    BY <1>5, ClickKeeps
  <2>3. ~overlapped => OneAccount(db)
    BY <2>1, <2>2 DEF DemoAccounts, OneAccount
  <2> QED BY <2>1, <2>2, <2>3, AccountsSaved DEF Saves
<1>6. ASSUME NEW t \in Tab, Seeded(t) \/ Logout(t) \/ LoginEnd(t)
      PROVE  DemoAccounts'
  <2>1. Saves(t, copy[t]) /\ overlapped' = overlapped
    BY <1>6 DEF Seeded, Logout, LoginEnd
  <2>2. \A x \in Tab : waits'[x].registering = waits[x].registering
    BY <1>6, WaitsParts DEF Seeded, Logout, LoginEnd, DemoTypes, Waits
  <2>3. ~overlapped => copy[t] = Nothing \/ OneAccount(copy[t])
    BY DEF DemoAccounts
  <2> QED BY <2>1, <2>2, <2>3, AccountsSaved DEF Saves
<1>7. ASSUME NEW t \in Tab, ResetEnd(t)
      PROVE  DemoAccounts'
  <2>1. Saves(t, SeedDb) /\ overlapped' = overlapped
    BY <1>7 DEF ResetEnd
  <2>2. \A x \in Tab : waits'[x].registering = waits[x].registering
    BY <1>7, WaitsParts DEF ResetEnd, DemoTypes, Waits
  <2>3. OneAccount(SeedDb) /\ WithEmail(SeedDb, "new") = {}
    BY <1>0, SeedDbWhole
  <2> QED BY <2>1, <2>2, <2>3 DEF Saves, DemoTypes, DemoAccounts, OneAccount, WithEmail
<1>8. ASSUME NEW t \in Tab, RegisterEnd(t)
      PROVE  DemoAccounts'
  <2>1. PICK db, u : /\ Saves(t, db)
                     /\ WithEmail(db, "new") \subseteq WithEmail(copy[t], "new") \cup {u}
    BY <1>8, RegisterEndKeeps
  <2>2. overlapped' = overlapped /\ waits[t].registering > 0
    BY <1>8 DEF RegisterEnd
  <2>3. ~overlapped => waits[t].registering = 1
    BY <2>2, WaitsParts DEF DemoAccounts
  <2>4. ~overlapped => OneAccount(db)
    BY <2>1, <2>3 DEF DemoAccounts, OneAccount
  <2>5. waits'[t].registering = waits[t].registering - 1
        /\ \A x \in Tab \ {t} : waits'[x].registering = waits[x].registering
    BY <1>8, WaitsParts DEF RegisterEnd, DemoTypes, Waits
  <2>6. CASE overlapped
    BY <2>2, <2>6 DEF DemoAccounts
  <2>7. CASE ~overlapped
    <3>1. waits'[t].registering = 0
      BY <2>3, <2>5, <2>7
    <3> QED BY <2>1, <2>2, <2>4, <2>5, <3>1, AccountsSaved DEF Saves
  <2> QED BY <2>6, <2>7
<1> QED BY <1>1, <1>2, <1>3, <1>4, <1>5, <1>6, <1>7, <1>8 DEF DemoNext, Wait

\* An address has one account unless a tab has sent its registration off twice: register.
THEOREM DemoAccountsOnce == DemoSpec => []AccountsOnce
<1>1. ASSUME DemoAccounts
      PROVE  AccountsOnce
  <2>1. ASSUME NEW db, OneAccount(db)
        PROVE  Cardinality(WithEmail(db, "new")) <= 1
    <3>1. PICK x : WithEmail(db, "new") \subseteq {x}
      BY <2>1 DEF OneAccount
    <3>2. WithEmail(db, "new") = {} \/ WithEmail(db, "new") = {x}
      BY <3>1
    <3>3. Cardinality({}) = 0 /\ Cardinality({x}) = 1
      BY FS_EmptySet, FS_Singleton
    <3> QED BY <3>2, <3>3
  <2> QED BY <1>1, <2>1 DEF DemoAccounts, AccountsOnce, Databases
<1>2. DemoInit => DemoAccounts
  BY DemoInitWhole
<1>3. DemoTypes /\ DemoWhole /\ DemoAccounts /\ [DemoNext]_demoVars => DemoAccounts'
  BY DemoAccountsStep
<1> QED BY <1>1, <1>2, <1>3, DemoInvariant, PTL DEF DemoSpec

\* A step that loses something of the storage is a reset, or of a tab whose copy was not
\* what was stored.
LEMMA StaleStep ==
  ASSUME DemoTypes, DemoWhole, [DemoNext]_demoVars, stored # Nothing, Lost(stored, stored'),
         NEW t \in Tab, copy[t] = stored, copy'[t] = stored'
  PROVE  stored' = SeedDb
<1>1. stored' # stored
  BY NothingLost DEF DemoWhole, Whole
<1>2. PICK s \in Tab : Writes(s)
  BY <1>1, LeavesAlone DEF DemoNext, Wait, Writes, Load, demoVars
<1>3. PICK db : /\ copy' = [copy EXCEPT ![s] = db] /\ stored' = db
                /\ db = copy[s] \/ db = SeedDb \/ Keeps(copy[s], db)
  BY <1>2, SavesKeep
<1>4. s = t
  BY <1>1, <1>3 DEF DemoTypes
<1> QED BY <1>1, <1>3, <1>4 DEF Keeps

\* Only a reset, or a tab whose copy was not what was stored, loses what is stored: save.
THEOREM DemoLoses == DemoSpec => OnlyStaleLoses
<1>1. ASSUME DemoTypes, DemoWhole, [DemoNext]_demoVars
      PROVE  [stored # Nothing /\ Lost(stored, stored') =>
                \/ stored' = SeedDb
                \/ \A t \in Tab : copy[t] = stored => copy'[t] # stored']_demoVars
  BY <1>1, StaleStep
<1> QED BY <1>1, DemoInvariant, PTL DEF DemoSpec, OnlyStaleLoses
===============================================================================
