----------------------------- MODULE Subscriptions -----------------------------
(***************************************************************************)
(* The life of a subscription after its payment: the invitation that an    *)
(* operator sends and the customer accepts, expiry and renewal, and the    *)
(* rounds by which schedulers expire subscriptions and ask operators to    *)
(* take seats back.  InvitationService, SubscriptionService, and the jobs  *)
(* of the schedulers that call them.                                       *)
(*                                                                         *)
(* A subscription has one allocation row here and at most one invitation;  *)
(* SlotAllocation has the rows, Fulfilment how a subscription gets one.    *)
(* Dates are abstracted to how far away the expiry is.                     *)
(***************************************************************************)
EXTENDS Naturals, FiniteSets

CONSTANTS
  Sub,        \* subscriptions
  Request,    \* requests of operators, customers and the payment's confirmation
  Scheduler,  \* schedulers: apps/worker, the web server, the cron route
  MaxCrashes  \* bound: how many requests and rounds end in the middle

ASSUME BoundAssumption == MaxCrashes \in Nat

VARIABLES
  status,      \* the subscription's status
  expiry,      \* how far away its expiresAt is
  renewal,     \* its renewal order and whether the new period has been applied
  reminded,    \* subscriptions with a RENEWAL_REMINDER notification
  seat,        \* status of its allocation row
  invitation,  \* status of its invitation
  open,        \* open tasks of operators, as pairs of a type and a subscription
  request,     \* where each request is
  round,       \* where each scheduler's round is
  crashes,     \* how many requests and rounds have ended in the middle
  dropped      \* history: tasks that a crash kept from being created

records == <<status, expiry, renewal, reminded, seat, invitation, open>>
vars == <<records, request, round, crashes, dropped>>

-------------------------------------------------------------------------------
(* Vocabulary *)

Status == {"WAITING", "ACTIVE", "EXPIRING", "EXPIRED"}
Expiry == {"unset", "later", "soon", "past"}  \* soon: within three days
Seat == {"NONE", "RESERVED", "INVITED", "ACTIVE", "PENDING_RECLAIM", "RECLAIMED"}
Invitation ==
  {"NONE", "PENDING_SEND", "SENT", "CUSTOMER_ACCEPTED", "ACTIVATED", "CANCELLED"}
Task == {"INVITE_SEND", "INVITE_ACTIVATE", "SLOT_RECLAIM"}

\* The seats createReclaimTasks looks for.
Occupying == {"ACTIVE", "INVITED"}

\* A request by what it does next.
\*   issuing, tasking, marking   the three statements of createInvitationTask
\*   sending, closing            recordInviteSent's write, and its task
\*   accepting, announcing       reportCustomerAccepted's write, and its task
\*   activating                  confirmActivation's transaction
\*   renewing                    applyRenewalPeriod's transaction
Idle == [pc |-> "idle"]
RequestAt ==
  {Idle} \cup [pc : {"issuing", "tasking", "marking", "sending", "closing", "accepting",
                     "announcing", "activating", "renewing"}, of : Sub]

\* A round by what it does next.
\*   sweeping   the statements of processExpirations that have not run yet
\*   finding    createReclaimTasks' query
\*   walking    its loop, with the rows of its query that are left
\*   asking, taking   it has found no open task for one of them, or has created one
RoundAt ==
  {Idle, [pc |-> "finding"]}
    \cup [pc : {"sweeping"}, todo : (SUBSET {"expired", "expiring"}) \ {{}}]
    \cup [pc : {"walking"}, todo : (SUBSET Sub) \ {{}}]
    \cup [pc : {"asking", "taking"}, of : Sub, todo : SUBSET Sub]

TypeOK ==
  /\ status \in [Sub -> Status]
  /\ expiry \in [Sub -> Expiry]
  /\ renewal \in [Sub -> {"none", "ordered", "applied"}]
  /\ reminded \subseteq Sub
  /\ seat \in [Sub -> Seat]
  /\ invitation \in [Sub -> Invitation]
  /\ open \subseteq Task \X Sub
  /\ request \in [Request -> RequestAt]
  /\ round \in [Scheduler -> RoundAt]
  /\ crashes \in 0..MaxCrashes
  /\ dropped \subseteq Task \X Sub

\* What confirmPayment creates, and the subscriptions of the seed.
New == [status |-> "WAITING", expiry |-> "unset", seat |-> "NONE", invitation |-> "NONE"]
Invited == [status |-> "WAITING", expiry |-> "unset", seat |-> "INVITED", invitation |-> "SENT"]
Active == [status |-> "ACTIVE", expiry |-> "later", seat |-> "ACTIVE", invitation |-> "ACTIVATED"]
Expiring == [status |-> "EXPIRING", expiry |-> "soon", seat |-> "NONE", invitation |-> "NONE"]

Init ==
  /\ \E was \in [Sub -> {New, Invited, Active, Expiring}] :
       /\ status = [s \in Sub |-> was[s].status]
       /\ expiry = [s \in Sub |-> was[s].expiry]
       /\ seat = [s \in Sub |-> was[s].seat]
       /\ invitation = [s \in Sub |-> was[s].invitation]
       /\ open = {"INVITE_ACTIVATE"} \X {s \in Sub : was[s] = Invited}
  /\ renewal = [s \in Sub |-> "none"]
  /\ reminded = {}
  /\ request = [p \in Request |-> Idle]
  /\ round = [w \in Scheduler |-> Idle]
  /\ crashes = 0
  /\ dropped = {}

-------------------------------------------------------------------------------
(* Steps of a request *)

At(p, pc) == request[p].pc = pc

Goto(p, pc, s) == request' = [request EXCEPT ![p] = [pc |-> pc, of |-> s]]

Return(p) == request' = [request EXCEPT ![p] = Idle]

Opens(type, s) == open' = open \cup {<<type, s>>}

Closes(types, s) == open' = open \ (types \X {s})

\* allocateSlot reserves a seat for s.  confirmPayment goes on to createInvitationTask,
\* a round of processWaitlist does not.
Reserve(p, s) ==
  /\ At(p, "idle")
  /\ seat[s] = "NONE" /\ status[s] = "WAITING"
  /\ seat' = [seat EXCEPT ![s] = "RESERVED"]
  /\ Goto(p, "issuing", s) \/ Return(p)
  /\ UNCHANGED <<status, expiry, renewal, reminded, invitation, open, round, crashes, dropped>>

\* createInvitationTask: the invitation, its task, the allocation by id.
Issue(p) ==
  LET s == request[p].of IN
  /\ At(p, "issuing")
  /\ invitation' = [invitation EXCEPT ![s] = "PENDING_SEND"]
  /\ Goto(p, "tasking", s)
  /\ UNCHANGED <<status, expiry, renewal, reminded, seat, open, round, crashes, dropped>>

AskToSend(p) ==
  LET s == request[p].of IN
  /\ At(p, "tasking")
  /\ Opens("INVITE_SEND", s)
  /\ Goto(p, "marking", s)
  /\ UNCHANGED <<status, expiry, renewal, reminded, seat, invitation, round, crashes, dropped>>

MarkInvited(p) ==
  /\ At(p, "marking")
  /\ seat' = [seat EXCEPT ![request[p].of] = "INVITED"]
  /\ Return(p)
  /\ UNCHANGED <<status, expiry, renewal, reminded, invitation, open, round, crashes, dropped>>

\* A request finds s as its operation requires it, in a statement of its own.
Finds(p, pc, s) ==
  /\ At(p, "idle")
  /\ Goto(p, pc, s)
  /\ UNCHANGED <<records, round, crashes, dropped>>

\* recordInviteSent: reads, writes SENT by id, closes the task of sending.
SendRead(p, s) == invitation[s] = "PENDING_SEND" /\ Finds(p, "sending", s)

Send(p) ==
  LET s == request[p].of IN
  /\ At(p, "sending")
  /\ invitation' = [invitation EXCEPT ![s] = "SENT"]
  /\ Goto(p, "closing", s)
  /\ UNCHANGED <<status, expiry, renewal, reminded, seat, open, round, crashes, dropped>>

\* Seeded fault: updateMany without its filter on the type closes every task of it.
CloseEverySend(p) ==
  /\ At(p, "closing")
  /\ Closes({"INVITE_SEND", "INVITE_ACTIVATE"}, request[p].of)
  /\ Return(p)
  /\ UNCHANGED <<status, expiry, renewal, reminded, seat, invitation, round, crashes, dropped>>

CloseSend(p) ==
  /\ At(p, "closing")
  /\ Closes({"INVITE_SEND"}, request[p].of)
  /\ Return(p)
  /\ UNCHANGED <<status, expiry, renewal, reminded, seat, invitation, round, crashes, dropped>>

\* reportCustomerAccepted: reads, writes by id, creates the task of confirming.
AcceptRead(p, s) == invitation[s] = "SENT" /\ Finds(p, "accepting", s)

Accept(p) ==
  LET s == request[p].of IN
  /\ At(p, "accepting")
  /\ invitation' = [invitation EXCEPT ![s] = "CUSTOMER_ACCEPTED"]
  /\ Goto(p, "announcing", s)
  /\ UNCHANGED <<status, expiry, renewal, reminded, seat, open, round, crashes, dropped>>

AskToActivate(p) ==
  /\ At(p, "announcing")
  /\ Opens("INVITE_ACTIVATE", request[p].of)
  /\ Return(p)
  /\ UNCHANGED <<status, expiry, renewal, reminded, seat, invitation, round, crashes, dropped>>

\* confirmActivation: reads, then writes everything in one transaction, whatever has
\* become of the seat and the subscription.
ActivateRead(p, s) == invitation[s] = "CUSTOMER_ACCEPTED" /\ Finds(p, "activating", s)

Activate(p) ==
  LET s == request[p].of IN
  /\ At(p, "activating")
  /\ invitation' = [invitation EXCEPT ![s] = "ACTIVATED"]
  /\ seat' = [seat EXCEPT ![s] = "ACTIVE"]
  /\ status' = [status EXCEPT ![s] = "ACTIVE"]
  /\ Closes({"INVITE_ACTIVATE"}, s)
  /\ Return(p)
  /\ UNCHANGED <<expiry, renewal, reminded, round, crashes, dropped>>

\* confirmReclaim: one transaction on an invitation in any status.  The task that asks
\* for the reclaim carries no invitation and stays open.
ConfirmReclaim(p, s) ==
  /\ At(p, "idle")
  /\ invitation[s] # "NONE"
  /\ invitation' = [invitation EXCEPT ![s] = "CANCELLED"]
  /\ seat' = [seat EXCEPT ![s] = "RECLAIMED"]
  /\ Closes({"INVITE_SEND", "INVITE_ACTIVATE"}, s)
  /\ UNCHANGED <<status, expiry, renewal, reminded, request, round, crashes, dropped>>

\* createRenewalOrder, bounded to one order of each subscription.
OrderRenewal(p, s) ==
  /\ At(p, "idle")
  /\ status[s] \in {"ACTIVE", "EXPIRING"}
  /\ renewal[s] = "none"
  /\ renewal' = [renewal EXCEPT ![s] = "ordered"]
  /\ UNCHANGED <<status, expiry, reminded, seat, invitation, open, request, round, crashes,
                 dropped>>

\* applyRenewalPeriod: no period of this order yet, then the period and the new dates in
\* one transaction.  They count from the old end, which may itself be long past.
RenewRead(p, s) == renewal[s] = "ordered" /\ Finds(p, "renewing", s)

Renew(p) ==
  LET s == request[p].of IN
  /\ At(p, "renewing")
  /\ renewal' = [renewal EXCEPT ![s] = "applied"]
  /\ \E e \in Expiry \ {"unset"} : expiry' = [expiry EXCEPT ![s] = e]
  /\ status' = [status EXCEPT ![s] = "ACTIVE"]
  /\ Return(p)
  /\ UNCHANGED <<reminded, seat, invitation, open, round, crashes, dropped>>

\* The request ends in the middle: its process dies, or a statement fails, which a
\* unique index does to an activation that comes after the seat was given away.
Break(p) ==
  LET s == request[p].of IN
  /\ ~At(p, "idle")
  /\ crashes < MaxCrashes
  /\ crashes' = crashes + 1
  /\ dropped' = dropped \cup
       (CASE At(p, "tasking") -> {<<"INVITE_SEND", s>>}
          [] At(p, "announcing") -> {<<"INVITE_ACTIVATE", s>>}
          [] OTHER -> {})
  /\ Return(p)
  /\ UNCHANGED <<records, round>>

-------------------------------------------------------------------------------
(* Steps of a scheduler's round *)

RoundIs(w, pc) == round[w].pc = pc

RoundGoes(w, r) == round' = [round EXCEPT ![w] = r]

Walks(w, rest) ==
  RoundGoes(w, IF rest = {} THEN Idle ELSE [pc |-> "walking", todo |-> rest])

\* Time passes for the subscription.
Pass(s) ==
  /\ \/ expiry[s] = "later" /\ expiry' = [expiry EXCEPT ![s] = "soon"]
     \/ expiry[s] = "soon" /\ expiry' = [expiry EXCEPT ![s] = "past"]
  /\ UNCHANGED <<status, renewal, reminded, seat, invitation, open, request, round, crashes,
                 dropped>>

\* The cron fires; runJob's key keeps no other scheduler from the same job.
StartRound(w) ==
  /\ RoundIs(w, "idle")
  /\ RoundGoes(w, [pc |-> "sweeping", todo |-> {"expired", "expiring"}])
  /\ UNCHANGED <<records, request, crashes, dropped>>

\* A statement of processExpirations is done; the job of reclaims follows the last one.
Swept(w, statement) ==
  LET rest == round[w].todo \ {statement} IN
  /\ RoundIs(w, "sweeping")
  /\ statement \in round[w].todo
  /\ RoundGoes(w, IF rest = {} THEN [pc |-> "finding"]
                  ELSE [pc |-> "sweeping", todo |-> rest])

\* Seeded fault: only ACTIVE subscriptions are looked at.
SweepExpiredActive(w) ==
  /\ Swept(w, "expired")
  /\ status' = [s \in Sub |->
                  IF status[s] = "ACTIVE" /\ expiry[s] = "past" THEN "EXPIRED"
                  ELSE status[s]]
  /\ UNCHANGED <<expiry, renewal, reminded, seat, invitation, open, request, crashes, dropped>>

SweepExpired(w) ==
  /\ Swept(w, "expired")
  /\ status' = [s \in Sub |->
                  IF status[s] \in {"ACTIVE", "EXPIRING"} /\ expiry[s] = "past" THEN "EXPIRED"
                  ELSE status[s]]
  /\ UNCHANGED <<expiry, renewal, reminded, seat, invitation, open, request, crashes, dropped>>

SweepExpiring(w) ==
  /\ Swept(w, "expiring")
  /\ status' = [s \in Sub |->
                  IF status[s] = "ACTIVE" /\ expiry[s] = "soon" THEN "EXPIRING"
                  ELSE status[s]]
  /\ UNCHANGED <<expiry, renewal, reminded, seat, invitation, open, request, crashes, dropped>>

\* createReclaimTasks' query.
FindExpired(w) ==
  /\ RoundIs(w, "finding")
  /\ Walks(w, {s \in Sub : status[s] = "EXPIRED" /\ seat[s] \in Occupying})
  /\ UNCHANGED <<records, request, crashes, dropped>>

\* An open task of the subscription hides its seat from the loop.
LookForTask(w, s) ==
  /\ RoundIs(w, "walking")
  /\ s \in round[w].todo
  /\ LET rest == round[w].todo \ {s} IN
     IF <<"SLOT_RECLAIM", s>> \in open THEN Walks(w, rest)
     ELSE RoundGoes(w, [pc |-> "asking", of |-> s, todo |-> rest])
  /\ UNCHANGED <<records, request, crashes, dropped>>

AskToReclaim(w) ==
  /\ RoundIs(w, "asking")
  /\ Opens("SLOT_RECLAIM", round[w].of)
  /\ RoundGoes(w, [round[w] EXCEPT !.pc = "taking"])
  /\ UNCHANGED <<status, expiry, renewal, reminded, seat, invitation, request, crashes, dropped>>

\* By id, whatever has become of the seat and the subscription since the query.
TakeBack(w) ==
  /\ RoundIs(w, "taking")
  /\ seat' = [seat EXCEPT ![round[w].of] = "PENDING_RECLAIM"]
  /\ Walks(w, round[w].todo)
  /\ UNCHANGED <<status, expiry, renewal, reminded, invitation, open, request, crashes, dropped>>

\* sendRenewalReminders, which may break off anywhere in its loop.
Remind(w) ==
  /\ RoundIs(w, "idle")
  /\ \E told \in SUBSET {s \in Sub : status[s] = "EXPIRING" /\ expiry[s] = "soon"} :
       reminded' = reminded \cup told
  /\ UNCHANGED <<status, expiry, renewal, seat, invitation, open, request, round, crashes,
                 dropped>>

\* A statement of the round fails or its process dies.  runJob catches what fails in
\* processExpirations, and the round goes on with the reclaims.
BreakRound(w) ==
  /\ ~RoundIs(w, "idle")
  /\ crashes < MaxCrashes
  /\ crashes' = crashes + 1
  /\ \/ RoundGoes(w, Idle)
     \/ RoundIs(w, "sweeping") /\ RoundGoes(w, [pc |-> "finding"])
  /\ UNCHANGED <<records, request, dropped>>

RequestStep(p) ==
  \/ \E s \in Sub :
       \/ Reserve(p, s) \/ SendRead(p, s) \/ AcceptRead(p, s) \/ ActivateRead(p, s)
       \/ ConfirmReclaim(p, s) \/ OrderRenewal(p, s) \/ RenewRead(p, s)
  \/ Issue(p) \/ AskToSend(p) \/ MarkInvited(p) \/ Send(p) \/ CloseSend(p)
  \/ Accept(p) \/ AskToActivate(p) \/ Activate(p) \/ Renew(p)
  \/ Break(p)

\* What a scheduler does of itself.
RoundStep(w) ==
  \/ StartRound(w) \/ SweepExpired(w) \/ SweepExpiring(w)
  \/ FindExpired(w) \/ (\E s \in Sub : LookForTask(w, s)) \/ AskToReclaim(w) \/ TakeBack(w)

Next ==
  \/ \E p \in Request : RequestStep(p)
  \/ \E w \in Scheduler : RoundStep(w) \/ Remind(w) \/ BreakRound(w)
  \/ \E s \in Sub : Pass(s)

\* The crons fire again and again and a round runs to its end unless it breaks.
Fairness == \A w \in Scheduler : WF_vars(RoundStep(w))

Spec == Init /\ [][Next]_vars /\ Fairness

-------------------------------------------------------------------------------
(* Properties *)

\* Operators work from the open tasks.  An invitation that waits for one of them has its
\* task, and so has a seat that is to be taken back, unless the request that is to create
\* the task still runs or a crash cut it off: recordInviteSent, reportCustomerAccepted,
\* confirmActivation and confirmReclaim close only what is done, however they overlap.
WorkVisible ==
  \A s \in Sub :
    LET Told(type, pc) ==
          \/ <<type, s>> \in open \cup dropped
          \/ \E p \in Request : request[p] = [pc |-> pc, of |-> s]
    IN /\ invitation[s] = "PENDING_SEND" => Told("INVITE_SEND", "tasking")
       /\ invitation[s] = "CUSTOMER_ACCEPTED" => Told("INVITE_ACTIVATE", "announcing")
       /\ seat[s] = "PENDING_RECLAIM" => <<"SLOT_RECLAIM", s>> \in open

\* WorkVisible, of rows each of which has one of the forms the code gives them.
WorkListed == TypeOK /\ WorkVisible

\* The customer of a subscription that is past its end keeps the seat only until the
\* schedulers ask an operator to take it back, whatever breaks and whoever activates
\* the subscription again in between; a renewal or a release also ends the wait.
OverdueAsked ==
  \A s \in Sub :
    status[s] \in {"ACTIVE", "EXPIRING"} /\ expiry[s] = "past" /\ seat[s] \in Occupying
      ~> \/ <<"SLOT_RECLAIM", s>> \in open
         \/ expiry[s] # "past"
         \/ seat[s] \notin Occupying
===============================================================================
