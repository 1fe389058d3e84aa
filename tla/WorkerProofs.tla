----------------------------- MODULE WorkerProofs -----------------------------
(***************************************************************************)
(* Theorems of Worker: of Subscriptions, for any number of subscriptions,  *)
(* requests and schedulers, and of Outbox, for any finite number of        *)
(* schedulers, any limit of a batch and any number of messages.            *)
(***************************************************************************)
EXTENDS Worker, FiniteSetTheorems, SequenceTheorems, NaturalsInduction, WellFoundedInduction,
        TLAPS

-------------------------------------------------------------------------------
(* Types of Subscriptions *)

\* A request under way is at one subscription, and is what it does there.
LEMMA RequestParts ==
  ASSUME TypeOK, NEW p \in Request
  PROVE  /\ request[p] \in RequestAt
         /\ request[p].pc # "idle" =>
              /\ request[p].of \in Sub
              /\ request[p] = [pc |-> request[p].pc, of |-> request[p].of]
<1>1. request[p] \in RequestAt
  BY DEF TypeOK
<1> QED BY <1>1 DEF RequestAt, Idle

\* A round under way has what its place in the code needs.
LEMMA RoundParts ==
  ASSUME TypeOK, NEW w \in Scheduler
  PROVE  /\ round[w] \in RoundAt
         /\ round[w].pc \in {"asking", "taking"} =>
              /\ round[w].of \in Sub /\ round[w].todo \in SUBSET Sub
              /\ [round[w] EXCEPT !.pc = "taking"] \in RoundAt
              /\ [round[w] EXCEPT !.pc = "taking"].pc = "taking"
              /\ [round[w] EXCEPT !.pc = "taking"].of = round[w].of
         /\ round[w].pc = "walking" => round[w].todo \in SUBSET Sub
         /\ round[w].pc = "sweeping" => round[w].todo \in SUBSET {"expired", "expiring"}
<1>1. round[w] \in RoundAt
  BY DEF TypeOK
<1>2. ASSUME round[w].pc \in {"asking", "taking"}
      PROVE  round[w] \in [pc : {"asking", "taking"}, of : Sub, todo : SUBSET Sub]
  BY <1>1, <1>2 DEF RoundAt, Idle
<1>3. round[w].pc = "walking" => round[w].todo \in SUBSET Sub
  BY <1>1 DEF RoundAt, Idle
<1>4. round[w].pc = "sweeping" => round[w].todo \in SUBSET {"expired", "expiring"}
  BY <1>1 DEF RoundAt, Idle
<1> QED BY <1>1, <1>2, <1>3, <1>4 DEF RoundAt

\* What a step leaves of the types when a request moves, or a round does.
LEMMA RequestMoves ==
  ASSUME TypeOK, NEW p \in Request, NEW j \in RequestAt, request' = [request EXCEPT ![p] = j]
  PROVE  request' \in [Request -> RequestAt]
BY DEF TypeOK

LEMMA RoundMoves ==
  ASSUME TypeOK, NEW w \in Scheduler, NEW r \in RoundAt, RoundGoes(w, r)
  PROVE  round' \in [Scheduler -> RoundAt]
BY DEF TypeOK, RoundGoes

LEMMA Places ==
  /\ Idle \in RequestAt /\ Idle \in RoundAt /\ Idle.pc = "idle"
  /\ [pc |-> "finding"] \in RoundAt
  /\ \A s \in Sub : \A pc \in {"issuing", "tasking", "marking", "sending", "closing",
                               "accepting", "announcing", "activating", "renewing"} :
       [pc |-> pc, of |-> s] \in RequestAt
  /\ \A rest \in SUBSET Sub :
       (IF rest = {} THEN Idle ELSE [pc |-> "walking", todo |-> rest]) \in RoundAt
BY DEF Idle, RequestAt, RoundAt

\* Every step of a request keeps the types.
LEMMA RequestTypes ==
  ASSUME TypeOK, NEW p \in Request, RequestStep(p)
  PROVE  TypeOK'
<1> DEFINE s == request[p].of
<1>1. ASSUME NEW x \in Sub, Reserve(p, x) \/ SendRead(p, x) \/ AcceptRead(p, x)
                              \/ ActivateRead(p, x) \/ RenewRead(p, x)
      PROVE  TypeOK'
  <2>1. \E j \in RequestAt : request' = [request EXCEPT ![p] = j]
    BY <1>1, Places DEF Reserve, SendRead, AcceptRead, ActivateRead, RenewRead, Finds, Goto,
                        Return
  <2>2. request' \in [Request -> RequestAt]
    BY <2>1, RequestMoves
  <2>3. seat' \in [Sub -> Seat]
    BY <1>1 DEF TypeOK, Seat, Reserve, SendRead, AcceptRead, ActivateRead, RenewRead, Finds,
                records
  <2> QED
    BY <1>1, <2>2, <2>3 DEF TypeOK, Reserve, SendRead, AcceptRead, ActivateRead, RenewRead,
                            Finds, records
<1>2. ASSUME NEW x \in Sub, ConfirmReclaim(p, x) \/ OrderRenewal(p, x)
      PROVE  TypeOK'
  <2>1. open' \subseteq open
    BY <1>2 DEF ConfirmReclaim, OrderRenewal, Closes
  <2>2. invitation' \in [Sub -> Invitation] /\ seat' \in [Sub -> Seat]
        /\ renewal' \in [Sub -> {"none", "ordered", "applied"}]
    BY <1>2 DEF TypeOK, Seat, Invitation, ConfirmReclaim, OrderRenewal
  <2> QED BY <1>2, <2>1, <2>2 DEF TypeOK, ConfirmReclaim, OrderRenewal
<1>3. ASSUME request[p].pc # "idle", NEW j \in RequestAt, request' = [request EXCEPT ![p] = j],
             UNCHANGED <<round, crashes, dropped>>,
             status' \in [Sub -> Status], expiry' \in [Sub -> Expiry],
             renewal' \in [Sub -> {"none", "ordered", "applied"}], reminded' = reminded,
             seat' \in [Sub -> Seat], invitation' \in [Sub -> Invitation],
             open' \subseteq Task \X Sub
      PROVE  TypeOK'
  BY <1>3 DEF TypeOK
<1>4. request[p].pc # "idle" => s \in Sub
  BY RequestParts
<1>5. ASSUME Issue(p) \/ Send(p) \/ Accept(p) PROVE TypeOK'
  <2>1. request[p].pc # "idle" /\ s \in Sub
    BY <1>4, <1>5 DEF Issue, Send, Accept, At
  <2>2. \E j \in RequestAt : request' = [request EXCEPT ![p] = j]
    BY <1>5, <2>1, Places DEF Issue, Send, Accept, Goto
  <2>3. invitation' \in [Sub -> Invitation]
    BY <1>5, <2>1 DEF Issue, Send, Accept, TypeOK, Invitation
  <2> QED BY <1>3, <1>5, <2>1, <2>2, <2>3 DEF Issue, Send, Accept, TypeOK
<1>6. ASSUME AskToSend(p) \/ AskToActivate(p) \/ CloseSend(p) PROVE TypeOK'
  <2>1. request[p].pc # "idle" /\ s \in Sub
    BY <1>4, <1>6 DEF AskToSend, AskToActivate, CloseSend, At
  <2>2. \E j \in RequestAt : request' = [request EXCEPT ![p] = j]
    BY <1>6, <2>1, Places DEF AskToSend, AskToActivate, CloseSend, Goto, Return
  <2>3. open' \subseteq Task \X Sub
    BY <1>6, <2>1 DEF AskToSend, AskToActivate, CloseSend, TypeOK, Task, Opens, Closes
  <2> QED BY <1>3, <1>6, <2>1, <2>2, <2>3 DEF AskToSend, AskToActivate, CloseSend, TypeOK
<1>7. ASSUME MarkInvited(p) PROVE TypeOK'
  <2>1. request[p].pc # "idle" /\ s \in Sub
    BY <1>4, <1>7 DEF MarkInvited, At
  <2>2. request' = [request EXCEPT ![p] = Idle] /\ Idle \in RequestAt
    BY <1>7, Places DEF MarkInvited, Return
  <2>3. seat' \in [Sub -> Seat]
    BY <1>7, <2>1 DEF MarkInvited, TypeOK, Seat
  <2> QED BY <1>3, <1>7, <2>1, <2>2, <2>3 DEF MarkInvited, TypeOK
<1>8. ASSUME Activate(p) PROVE TypeOK'
  <2>1. request[p].pc # "idle" /\ s \in Sub
    BY <1>4, <1>8 DEF Activate, At
  <2>2. request' = [request EXCEPT ![p] = Idle] /\ Idle \in RequestAt
    BY <1>8, Places DEF Activate, Return
  <2>3. seat' \in [Sub -> Seat] /\ invitation' \in [Sub -> Invitation]
        /\ status' \in [Sub -> Status]
    BY <1>8, <2>1 DEF Activate, TypeOK, Seat, Invitation, Status
  <2>4. open' \subseteq Task \X Sub
    BY <1>8 DEF Activate, Closes, TypeOK
  <2> QED BY <1>3, <1>8, <2>1, <2>2, <2>3, <2>4 DEF Activate, TypeOK
<1>9. ASSUME Renew(p) PROVE TypeOK'
  <2>1. request[p].pc # "idle" /\ s \in Sub
    BY <1>4, <1>9 DEF Renew, At
  <2>2. request' = [request EXCEPT ![p] = Idle] /\ Idle \in RequestAt
    BY <1>9, Places DEF Renew, Return
  <2>3. renewal' \in [Sub -> {"none", "ordered", "applied"}] /\ status' \in [Sub -> Status]
    BY <1>9, <2>1 DEF Renew, TypeOK, Status
  <2>4. expiry' \in [Sub -> Expiry]
    BY <1>9, <2>1 DEF Renew, TypeOK
  <2> QED BY <1>3, <1>9, <2>1, <2>2, <2>3, <2>4 DEF Renew, TypeOK
<1>10. ASSUME Break(p) PROVE TypeOK'
  <2>1. request[p].pc # "idle" /\ s \in Sub
    BY <1>4, <1>10 DEF Break, At
  <2>2. request' \in [Request -> RequestAt]
    BY <1>10, Places DEF Break, Return, TypeOK
  <2>3. dropped' \subseteq Task \X Sub
    BY <1>10, <2>1 DEF Break, TypeOK, Task, At
  <2>4. crashes' \in 0..MaxCrashes
    BY <1>10, BoundAssumption DEF Break, TypeOK
  <2> QED BY <1>10, <2>2, <2>3, <2>4 DEF Break, TypeOK, records
<1> QED
  BY <1>1, <1>2, <1>5, <1>6, <1>7, <1>8, <1>9, <1>10 DEF RequestStep

\* Every step of a round keeps the types.
LEMMA RoundTypes ==
  ASSUME TypeOK, NEW w \in Scheduler, RoundStep(w) \/ Remind(w) \/ BreakRound(w)
  PROVE  TypeOK'
<1>1. ASSUME StartRound(w) PROVE TypeOK'
  <2>1. [pc |-> "sweeping", todo |-> {"expired", "expiring"}] \in RoundAt
    BY DEF RoundAt
  <2> QED BY <1>1, <2>1, RoundMoves DEF StartRound, TypeOK, records
<1>2. ASSUME SweepExpired(w) \/ SweepExpiring(w) PROVE TypeOK'
  <2>1. PICK statement : Swept(w, statement)
    BY <1>2 DEF SweepExpired, SweepExpiring
  <2>2. round[w].todo \in SUBSET {"expired", "expiring"}
    BY <2>1, RoundParts DEF Swept, RoundIs
  <2>3. \E r \in RoundAt : RoundGoes(w, r)
    <3> DEFINE rest == round[w].todo \ {statement}
    <3>1. rest # {} => [pc |-> "sweeping", todo |-> rest] \in RoundAt
      BY <2>2 DEF RoundAt
    <3> QED BY <2>1, <3>1, Places DEF Swept
  <2>4. round' \in [Scheduler -> RoundAt]
    BY <2>3, RoundMoves
  <2>5. status' \in [Sub -> Status]
    BY <1>2 DEF SweepExpired, SweepExpiring, TypeOK, Status
  <2> QED BY <1>2, <2>4, <2>5 DEF SweepExpired, SweepExpiring, TypeOK
<1>3. ASSUME FindExpired(w) PROVE TypeOK'
  <2>1. \E r \in RoundAt : RoundGoes(w, r)
    BY <1>3, Places DEF FindExpired, Walks
  <2>2. round' \in [Scheduler -> RoundAt]
    BY <2>1, RoundMoves
  <2> QED BY <1>3, <2>2 DEF FindExpired, TypeOK, records
<1>4. ASSUME NEW s \in Sub, LookForTask(w, s) PROVE TypeOK'
  <2>1. round[w].todo \ {s} \in SUBSET Sub
    BY <1>4, RoundParts DEF LookForTask, RoundIs
  <2>2. [pc |-> "asking", of |-> s, todo |-> round[w].todo \ {s}] \in RoundAt
    BY <2>1 DEF RoundAt
  <2>3. \E r \in RoundAt : RoundGoes(w, r)
    BY <1>4, <2>1, <2>2, Places DEF LookForTask, Walks
  <2>4. round' \in [Scheduler -> RoundAt]
    BY <2>3, RoundMoves
  <2> QED BY <1>4, <2>4 DEF LookForTask, TypeOK, records
<1>5. ASSUME AskToReclaim(w) PROVE TypeOK'
  <2>1. round[w].of \in Sub /\ [round[w] EXCEPT !.pc = "taking"] \in RoundAt
    BY <1>5, RoundParts DEF AskToReclaim, RoundIs
  <2>2. round' \in [Scheduler -> RoundAt]
    BY <1>5, <2>1, RoundMoves DEF AskToReclaim
  <2>3. open' \subseteq Task \X Sub
    BY <1>5, <2>1 DEF AskToReclaim, Opens, Task, TypeOK
  <2> QED BY <1>5, <2>2, <2>3 DEF AskToReclaim, TypeOK
<1>6. ASSUME TakeBack(w) PROVE TypeOK'
  <2>1. round[w].of \in Sub /\ round[w].todo \in SUBSET Sub
    BY <1>6, RoundParts DEF TakeBack, RoundIs
  <2>2. \E r \in RoundAt : RoundGoes(w, r)
    BY <1>6, <2>1, Places DEF TakeBack, Walks
  <2>3. round' \in [Scheduler -> RoundAt]
    BY <2>2, RoundMoves
  <2>4. seat' \in [Sub -> Seat]
    BY <1>6, <2>1 DEF TakeBack, TypeOK, Seat
  <2> QED BY <1>6, <2>3, <2>4 DEF TakeBack, TypeOK
<1>7. ASSUME Remind(w) PROVE TypeOK'
  BY <1>7 DEF Remind, TypeOK
<1>8. ASSUME BreakRound(w) PROVE TypeOK'
  <2>1. round' \in [Scheduler -> RoundAt]
    BY <1>8, Places, RoundMoves DEF BreakRound
  <2>2. crashes' \in 0..MaxCrashes
    BY <1>8, BoundAssumption DEF BreakRound, TypeOK
  <2> QED BY <1>8, <2>1, <2>2 DEF BreakRound, TypeOK, records
<1> QED
  BY <1>1, <1>2, <1>3, <1>4, <1>5, <1>6, <1>7, <1>8 DEF RoundStep

LEMMA TypeStep == TypeOK /\ [Next]_vars => TypeOK'
<1> SUFFICES ASSUME TypeOK, [Next]_vars PROVE TypeOK'
  OBVIOUS
<1>1. ASSUME NEW s \in Sub, Pass(s) PROVE TypeOK'
  <2>1. expiry' \in [Sub -> Expiry]
    BY <1>1 DEF Pass, TypeOK, Expiry
  <2> QED BY <1>1, <2>1 DEF Pass, TypeOK
<1>2. CASE UNCHANGED vars
  BY <1>2 DEF vars, records, TypeOK
<1> QED BY <1>1, <1>2, RequestTypes, RoundTypes DEF Next

LEMMA TypeStart == Init => TypeOK
<1> SUFFICES ASSUME Init PROVE TypeOK
  OBVIOUS
<1>1. PICK was \in [Sub -> {New, Invited, Active, Expiring}] :
        /\ status = [s \in Sub |-> was[s].status]
        /\ expiry = [s \in Sub |-> was[s].expiry]
        /\ seat = [s \in Sub |-> was[s].seat]
        /\ invitation = [s \in Sub |-> was[s].invitation]
        /\ open = {"INVITE_ACTIVATE"} \X {s \in Sub : was[s] = Invited}
  BY DEF Init
<1>2. \A s \in Sub : /\ was[s].status \in Status /\ was[s].expiry \in Expiry
                     /\ was[s].seat \in Seat /\ was[s].invitation \in Invitation
  BY DEF New, Invited, Active, Expiring, Status, Expiry, Seat, Invitation
<1>3. open \subseteq Task \X Sub
  BY <1>1 DEF Task
<1>4. status \in [Sub -> Status] /\ expiry \in [Sub -> Expiry]
  BY <1>1, <1>2
<1>5. seat \in [Sub -> Seat] /\ invitation \in [Sub -> Invitation]
  BY <1>1, <1>2
<1>6. crashes \in 0..MaxCrashes
  BY BoundAssumption DEF Init
<1>7. request \in [Request -> RequestAt] /\ round \in [Scheduler -> RoundAt]
  BY Places DEF Init
<1>8. renewal \in [Sub -> {"none", "ordered", "applied"}] /\ reminded = {} /\ dropped = {}
  BY DEF Init
<1> QED BY <1>3, <1>4, <1>5, <1>6, <1>7, <1>8 DEF TypeOK

-------------------------------------------------------------------------------
(* The tasks of operators *)

\* What each request and round relies on.  A subscription's seat is reserved once, so its
\* invitation is issued once; whoever works on an invitation works on one that was issued;
\* whoever is to close the task of sending finds the invitation sent; and a round that takes
\* a seat back has asked for it.
Relied ==
  /\ \A s \in Sub : seat[s] = "NONE" => invitation[s] = "NONE"
  /\ \A p \in Request :
       /\ At(p, "issuing") => seat[request[p].of] # "NONE" /\ invitation[request[p].of] = "NONE"
       /\ request[p].pc \in {"sending", "accepting", "activating"} =>
            invitation[request[p].of] # "NONE"
       /\ At(p, "closing") => invitation[request[p].of] \notin {"NONE", "PENDING_SEND"}
  /\ \A p, q \in Request :
       At(p, "issuing") /\ At(q, "issuing") /\ request[p].of = request[q].of => p = q
  /\ \A w \in Scheduler : RoundIs(w, "taking") => <<"SLOT_RECLAIM", round[w].of>> \in open

TasksKept == Relied /\ WorkVisible

\* The tasks that are there stay while they are needed, and the one that p is to make is
\* made, or its loss is noted.
KeepsTold(p) ==
  \A s \in Sub :
    /\ invitation[s] = "PENDING_SEND" =>
         /\ <<"INVITE_SEND", s>> \in open \cup dropped =>
              <<"INVITE_SEND", s>> \in open' \cup dropped'
         /\ request[p] = [pc |-> "tasking", of |-> s] =>
              <<"INVITE_SEND", s>> \in open' \cup dropped'
    /\ invitation[s] = "CUSTOMER_ACCEPTED" =>
         /\ <<"INVITE_ACTIVATE", s>> \in open \cup dropped =>
              <<"INVITE_ACTIVATE", s>> \in open' \cup dropped'
         /\ request[p] = [pc |-> "announcing", of |-> s] =>
              <<"INVITE_ACTIVATE", s>> \in open' \cup dropped'

\* A request that goes from one place to another for one subscription, and leaves seats
\* and invitations: only the tasks may change, and not the one it leaves undone.
LEMMA MovesOn ==
  ASSUME TypeOK, TasksKept, NEW p \in Request, NEW j \in RequestAt,
         request' = [request EXCEPT ![p] = j],
         UNCHANGED <<seat, invitation, round>>,
         \A s \in Sub : <<"SLOT_RECLAIM", s>> \in open => <<"SLOT_RECLAIM", s>> \in open',
         j.pc \in {"idle", "marking", "sending", "accepting", "activating", "renewing"},
         j.pc \in {"sending", "accepting", "activating"} => invitation[j.of] # "NONE",
         KeepsTold(p)
  PROVE  TasksKept'
<1>1. request'[p] = j /\ \A q \in Request \ {p} : request'[q] = request[q]
  BY DEF TypeOK
<1>2. Relied'
  BY <1>1 DEF TasksKept, Relied, At, RoundIs, TypeOK
<1>3. WorkVisible'
  <2> SUFFICES ASSUME NEW s \in Sub
               PROVE  /\ (invitation'[s] = "PENDING_SEND" =>
                            \/ <<"INVITE_SEND", s>> \in open' \cup dropped'
                            \/ \E q \in Request : request'[q] = [pc |-> "tasking", of |-> s])
                      /\ (invitation'[s] = "CUSTOMER_ACCEPTED" =>
                            \/ <<"INVITE_ACTIVATE", s>> \in open' \cup dropped'
                            \/ \E q \in Request : request'[q] = [pc |-> "announcing", of |-> s])
                      /\ (seat'[s] = "PENDING_RECLAIM" => <<"SLOT_RECLAIM", s>> \in open')
    BY DEF WorkVisible
  <2>1. seat'[s] = "PENDING_RECLAIM" => <<"SLOT_RECLAIM", s>> \in open'
    BY DEF TasksKept, WorkVisible
  <2>2. ASSUME invitation'[s] = "PENDING_SEND"
        PROVE  \/ <<"INVITE_SEND", s>> \in open' \cup dropped'
               \/ \E q \in Request : request'[q] = [pc |-> "tasking", of |-> s]
    <3>1. \/ <<"INVITE_SEND", s>> \in open \cup dropped
          \/ \E q \in Request : request[q] = [pc |-> "tasking", of |-> s]
      BY <2>2 DEF TasksKept, WorkVisible
    <3>2. CASE \E q \in Request : q # p /\ request[q] = [pc |-> "tasking", of |-> s]
      BY <1>1, <3>2
    <3>3. CASE request[p] = [pc |-> "tasking", of |-> s]
      BY <2>2, <3>3 DEF KeepsTold
    <3> QED BY <2>2, <3>1, <3>2, <3>3 DEF KeepsTold
  <2>3. ASSUME invitation'[s] = "CUSTOMER_ACCEPTED"
        PROVE  \/ <<"INVITE_ACTIVATE", s>> \in open' \cup dropped'
               \/ \E q \in Request : request'[q] = [pc |-> "announcing", of |-> s]
    <3>1. \/ <<"INVITE_ACTIVATE", s>> \in open \cup dropped
          \/ \E q \in Request : request[q] = [pc |-> "announcing", of |-> s]
      BY <2>3 DEF TasksKept, WorkVisible
    <3>2. CASE \E q \in Request : q # p /\ request[q] = [pc |-> "announcing", of |-> s]
      BY <1>1, <3>2
    <3>3. CASE request[p] = [pc |-> "announcing", of |-> s]
      BY <2>3, <3>3 DEF KeepsTold
    <3> QED BY <2>3, <3>1, <3>2, <3>3 DEF KeepsTold
  <2> QED BY <2>1, <2>2, <2>3
<1> QED BY <1>2, <1>3 DEF TasksKept

\* A request that writes the invitation or the seat of one subscription.
LEMMA WritesOne ==
  ASSUME TypeOK, TasksKept, NEW p \in Request, NEW x \in Sub,
         \A q \in Request \ {p} : request'[q] = request[q],
         UNCHANGED <<round, dropped>>,
         \A s \in Sub \ {x} : /\ seat'[s] = seat[s] /\ invitation'[s] = invitation[s]
                              /\ \A type \in Task :
                                   <<type, s>> \in open' <=> <<type, s>> \in open,
         request[p] # request'[p] =>
           request[p].pc \notin {"tasking", "announcing"} \/ request[p].of = x,
         <<"SLOT_RECLAIM", x>> \in open => <<"SLOT_RECLAIM", x>> \in open',
         Relied',
         invitation'[x] = "PENDING_SEND" =>
           \/ <<"INVITE_SEND", x>> \in open' \cup dropped'
           \/ \E q \in Request : request'[q] = [pc |-> "tasking", of |-> x],
         invitation'[x] = "CUSTOMER_ACCEPTED" =>
           \/ <<"INVITE_ACTIVATE", x>> \in open' \cup dropped'
           \/ \E q \in Request : request'[q] = [pc |-> "announcing", of |-> x],
         seat'[x] = "PENDING_RECLAIM" => seat[x] = "PENDING_RECLAIM"
  PROVE  TasksKept'
<1> SUFFICES ASSUME NEW s \in Sub
             PROVE  /\ (invitation'[s] = "PENDING_SEND" =>
                          \/ <<"INVITE_SEND", s>> \in open' \cup dropped'
                          \/ \E q \in Request : request'[q] = [pc |-> "tasking", of |-> s])
                    /\ (invitation'[s] = "CUSTOMER_ACCEPTED" =>
                          \/ <<"INVITE_ACTIVATE", s>> \in open' \cup dropped'
                          \/ \E q \in Request : request'[q] = [pc |-> "announcing", of |-> s])
                    /\ (seat'[s] = "PENDING_RECLAIM" => <<"SLOT_RECLAIM", s>> \in open')
  BY DEF WorkVisible, TasksKept
<1>1. CASE s = x
  BY <1>1 DEF TasksKept, WorkVisible
<1>2. CASE s # x
  <2>1. \A type \in Task : <<type, s>> \in open \cup dropped => <<type, s>> \in open' \cup dropped'
    BY <1>2
  <2>2. \A pc \in {"tasking", "announcing"} : \A q \in Request :
          request[q] = [pc |-> pc, of |-> s] => request'[q] = request[q]
    BY <1>2
  <2>3. seat'[s] = "PENDING_RECLAIM" => <<"SLOT_RECLAIM", s>> \in open'
    BY <1>2 DEF TasksKept, WorkVisible, Task
  <2>4. ASSUME invitation'[s] = "PENDING_SEND"
        PROVE  \/ <<"INVITE_SEND", s>> \in open' \cup dropped'
               \/ \E q \in Request : request'[q] = [pc |-> "tasking", of |-> s]
    <3>1. \/ <<"INVITE_SEND", s>> \in open \cup dropped
          \/ \E q \in Request : request[q] = [pc |-> "tasking", of |-> s]
      BY <1>2, <2>4 DEF TasksKept, WorkVisible
    <3>2. "INVITE_SEND" \in Task
      BY DEF Task
    <3> QED BY <2>1, <2>2, <3>1, <3>2
  <2>5. ASSUME invitation'[s] = "CUSTOMER_ACCEPTED"
        PROVE  \/ <<"INVITE_ACTIVATE", s>> \in open' \cup dropped'
               \/ \E q \in Request : request'[q] = [pc |-> "announcing", of |-> s]
    <3>1. \/ <<"INVITE_ACTIVATE", s>> \in open \cup dropped
          \/ \E q \in Request : request[q] = [pc |-> "announcing", of |-> s]
      BY <1>2, <2>5 DEF TasksKept, WorkVisible
    <3>2. "INVITE_ACTIVATE" \in Task
      BY DEF Task
    <3> QED BY <2>1, <2>2, <3>1, <3>2
  <2> QED BY <2>3, <2>4, <2>5
<1> QED BY <1>1, <1>2

\* Every step of a request keeps the tasks.
LEMMA RequestKeeps ==
  ASSUME TypeOK, TasksKept, NEW p \in Request, RequestStep(p)
  PROVE  TasksKept'
<1> DEFINE s == request[p].of
<1>0. /\ request[p].pc # "idle" =>
           s \in Sub /\ request[p] = [pc |-> request[p].pc, of |-> s]
      /\ Relied
  BY RequestParts DEF TasksKept
<1>1. ASSUME NEW j, request' = [request EXCEPT ![p] = j]
      PROVE  request'[p] = j /\ \A q \in Request \ {p} : request'[q] = request[q]
  BY <1>1 DEF TypeOK
<1>2. ASSUME NEW x \in Sub, Reserve(p, x) PROVE TasksKept'
  <2>1. PICK j \in RequestAt : /\ request' = [request EXCEPT ![p] = j]
                               /\ j = Idle \/ j = [pc |-> "issuing", of |-> x]
    BY <1>2, Places DEF Reserve, Goto, Return
  <2>2. request'[p] = j /\ \A q \in Request \ {p} : request'[q] = request[q]
    BY <1>1, <2>1
  <2>3. /\ seat[x] = "NONE" /\ seat'[x] = "RESERVED" /\ invitation[x] = "NONE"
        /\ \A z \in Sub \ {x} : seat'[z] = seat[z]
        /\ UNCHANGED <<invitation, open, round, dropped>>
        /\ request[p].pc = "idle"
    BY <1>0, <1>2 DEF Reserve, TypeOK, Relied, At
  <2>4. \A q \in Request : At(q, "issuing") => request[q].of # x
    BY <1>0, <2>3 DEF Relied
  <2>5. Relied'
    <3>1. (\A z \in Sub : seat[z] = "NONE" => invitation[z] = "NONE")'
      BY <1>0, <2>3 DEF Relied
    <3>2. (\A q \in Request :
             /\ At(q, "issuing") => seat[request[q].of] # "NONE" /\ invitation[request[q].of] = "NONE"
             /\ request[q].pc \in {"sending", "accepting", "activating"} =>
                  invitation[request[q].of] # "NONE"
             /\ At(q, "closing") => invitation[request[q].of] \notin {"NONE", "PENDING_SEND"})'
      <4>1. ASSUME NEW q \in Request, q # p, At(q, "issuing") PROVE seat'[request[q].of] # "NONE"
        <5>1. request[q].of \in Sub
          BY <4>1, RequestParts DEF At
        <5> QED BY <1>0, <2>3, <4>1, <5>1 DEF Relied
      <4> QED BY <1>0, <2>1, <2>2, <2>3, <4>1 DEF Relied, At, Idle
    <3>3. (\A q, u \in Request :
             At(q, "issuing") /\ At(u, "issuing") /\ request[q].of = request[u].of => q = u)'
      BY <1>0, <2>1, <2>2, <2>4 DEF Relied, At, Idle
    <3>4. (\A w \in Scheduler : RoundIs(w, "taking") => <<"SLOT_RECLAIM", round[w].of>> \in open)'
      BY <1>0, <2>3 DEF Relied, RoundIs
    <3> QED BY <3>1, <3>2, <3>3, <3>4 DEF Relied
  <2>6. /\ invitation'[x] \notin {"PENDING_SEND", "CUSTOMER_ACCEPTED"}
        /\ seat'[x] # "PENDING_RECLAIM"
    BY <2>3
  <2> QED BY <2>2, <2>3, <2>5, <2>6, WritesOne
<1>3. ASSUME Issue(p) PROVE TasksKept'
  <2>1. /\ s \in Sub /\ At(p, "issuing")
        /\ request' = [request EXCEPT ![p] = [pc |-> "tasking", of |-> s]]
    BY <1>0, <1>3 DEF Issue, Goto, At
  <2>2. /\ request'[p] = [pc |-> "tasking", of |-> s]
        /\ \A q \in Request \ {p} : request'[q] = request[q]
    BY <1>1, <2>1
  <2>3. /\ invitation'[s] = "PENDING_SEND" /\ \A z \in Sub \ {s} : invitation'[z] = invitation[z]
        /\ UNCHANGED <<seat, open, round, dropped>>
    BY <1>3, <2>1 DEF Issue, TypeOK
  <2>4. seat[s] # "NONE" /\ invitation[s] = "NONE"
    BY <1>0, <2>1 DEF Relied
  <2>5. Relied'
    <3>1. (\A z \in Sub : seat[z] = "NONE" => invitation[z] = "NONE")'
      BY <1>0, <2>3, <2>4 DEF Relied
    <3>2. (\A q \in Request :
             /\ At(q, "issuing") => seat[request[q].of] # "NONE" /\ invitation[request[q].of] = "NONE"
             /\ request[q].pc \in {"sending", "accepting", "activating"} =>
                  invitation[request[q].of] # "NONE"
             /\ At(q, "closing") => invitation[request[q].of] \notin {"NONE", "PENDING_SEND"})'
      <4>1. ASSUME NEW q \in Request, q # p, request[q].pc # "idle" PROVE request[q].of \in Sub
        BY <4>1, RequestParts
      <4>2. ASSUME NEW q \in Request, q # p, At(q, "issuing") PROVE request[q].of # s
        BY <1>0, <2>1, <4>2 DEF Relied
      <4>3. ASSUME NEW q \in Request, q # p, At(q, "closing") PROVE request[q].of # s
        BY <1>0, <2>4, <4>3 DEF Relied
      <4> QED BY <1>0, <2>2, <2>3, <4>1, <4>2, <4>3 DEF Relied, At
    <3>3. (\A q, u \in Request :
             At(q, "issuing") /\ At(u, "issuing") /\ request[q].of = request[u].of => q = u)'
      BY <1>0, <2>2 DEF Relied, At
    <3>4. (\A w \in Scheduler : RoundIs(w, "taking") => <<"SLOT_RECLAIM", round[w].of>> \in open)'
      BY <1>0, <2>3 DEF Relied, RoundIs
    <3> QED BY <3>1, <3>2, <3>3, <3>4 DEF Relied
  <2>6. invitation'[s] # "CUSTOMER_ACCEPTED" /\ seat'[s] = seat[s]
    BY <2>3
  <2> QED BY <2>1, <2>2, <2>3, <2>5, <2>6, WritesOne DEF At
<1>4. ASSUME NEW x \in Sub, NEW pc \in {"sending", "accepting", "activating", "renewing"},
             Finds(p, pc, x), pc # "renewing" => invitation[x] # "NONE"
      PROVE  TasksKept'
  <2>1. PICK j \in RequestAt : j = [pc |-> pc, of |-> x]
    BY Places
  <2>2. /\ request' = [request EXCEPT ![p] = j] /\ request[p].pc = "idle"
        /\ UNCHANGED <<seat, invitation, open, round, dropped>>
        /\ j.pc = pc /\ j.of = x
    BY <1>4, <2>1 DEF Finds, Goto, At, records
  <2>3. KeepsTold(p)
    BY <2>2 DEF KeepsTold
  <2> QED BY <1>4, <2>2, <2>3, MovesOn
<1>5. ASSUME AskToSend(p) PROVE TasksKept'
  <2>1. PICK j \in RequestAt : j = [pc |-> "marking", of |-> s]
    BY <1>0, <1>5, Places DEF AskToSend, At
  <2>2. /\ request' = [request EXCEPT ![p] = j] /\ request[p].pc = "tasking" /\ j.pc = "marking"
        /\ UNCHANGED <<seat, invitation, round, dropped>>
        /\ open' = open \cup {<<"INVITE_SEND", s>>}
    BY <1>5, <2>1 DEF AskToSend, Goto, At, Opens
  <2>3. KeepsTold(p)
    BY <2>2 DEF KeepsTold
  <2> QED BY <2>2, <2>3, MovesOn
<1>6. ASSUME AskToActivate(p) PROVE TasksKept'
  <2>1. /\ request' = [request EXCEPT ![p] = Idle] /\ request[p].pc = "announcing"
        /\ UNCHANGED <<seat, invitation, round, dropped>>
        /\ open' = open \cup {<<"INVITE_ACTIVATE", s>>}
    BY <1>6 DEF AskToActivate, Return, At, Opens
  <2>2. KeepsTold(p)
    BY <2>1 DEF KeepsTold
  <2> QED BY <2>1, <2>2, MovesOn, Places
<1>7. ASSUME CloseSend(p) PROVE TasksKept'
  <2>1. /\ request' = [request EXCEPT ![p] = Idle] /\ At(p, "closing") /\ s \in Sub
        /\ UNCHANGED <<seat, invitation, round, dropped>>
        /\ open' = open \ ({"INVITE_SEND"} \X {s})
    BY <1>0, <1>7 DEF CloseSend, Return, At, Closes
  <2>2. invitation[s] # "PENDING_SEND"
    BY <1>0, <2>1 DEF Relied
  <2>3. \A z \in Sub :
          /\ <<"SLOT_RECLAIM", z>> \in open => <<"SLOT_RECLAIM", z>> \in open'
          /\ <<"INVITE_ACTIVATE", z>> \in open => <<"INVITE_ACTIVATE", z>> \in open'
          /\ z # s /\ <<"INVITE_SEND", z>> \in open => <<"INVITE_SEND", z>> \in open'
    BY <2>1
  <2>4. KeepsTold(p)
    <3>1. \A z : /\ request[p] # [pc |-> "tasking", of |-> z]
                 /\ request[p] # [pc |-> "announcing", of |-> z]
      BY <2>1 DEF At
    <3>2. ASSUME NEW z \in Sub, invitation[z] = "PENDING_SEND",
                 <<"INVITE_SEND", z>> \in open \cup dropped
          PROVE  <<"INVITE_SEND", z>> \in open' \cup dropped'
      <4>1. z # s
        BY <2>2, <3>2
      <4> QED BY <2>1, <2>3, <3>2, <4>1
    <3>3. ASSUME NEW z \in Sub, <<"INVITE_ACTIVATE", z>> \in open \cup dropped
          PROVE  <<"INVITE_ACTIVATE", z>> \in open' \cup dropped'
      BY <2>1, <2>3, <3>3
    <3> QED BY <3>1, <3>2, <3>3 DEF KeepsTold
  <2> QED BY <2>1, <2>3, <2>4, MovesOn, Places
<1>8. ASSUME NEW i \in {"SENT", "CUSTOMER_ACCEPTED", "ACTIVATED"}, s \in Sub,
             At(p, "sending") \/ At(p, "accepting") \/ At(p, "activating"),
             invitation' = [invitation EXCEPT ![s] = i],
             seat' = seat \/ seat' = [seat EXCEPT ![s] = "ACTIVE"],
             NEW j \in RequestAt, request' = [request EXCEPT ![p] = j],
             j = Idle \/ j = [pc |-> "closing", of |-> s] \/ j = [pc |-> "announcing", of |-> s],
             i = "CUSTOMER_ACCEPTED" => j = [pc |-> "announcing", of |-> s],
             UNCHANGED <<round, dropped>>, open' = open \/ Closes({"INVITE_ACTIVATE"}, s)
      PROVE  TasksKept'
  <2>1. request'[p] = j /\ \A q \in Request \ {p} : request'[q] = request[q]
    BY <1>1, <1>8
  <2>2. /\ invitation'[s] = i /\ \A z \in Sub \ {s} : invitation'[z] = invitation[z]
        /\ seat'[s] = seat[s] \/ seat'[s] = "ACTIVE"
        /\ \A z \in Sub \ {s} : seat'[z] = seat[z]
        /\ invitation[s] # "NONE"
    BY <1>0, <1>8 DEF TypeOK, Relied, At
  <2>3. \A z \in Sub, type \in Task : z # s \/ type # "INVITE_ACTIVATE" =>
          (<<type, z>> \in open' <=> <<type, z>> \in open)
    BY <1>8 DEF Closes
  <2>4. Relied'
    <3>1. (\A z \in Sub : seat[z] = "NONE" => invitation[z] = "NONE")'
      BY <1>0, <2>2 DEF Relied
    <3>2. (\A q \in Request :
             /\ At(q, "issuing") => seat[request[q].of] # "NONE" /\ invitation[request[q].of] = "NONE"
             /\ request[q].pc \in {"sending", "accepting", "activating"} =>
                  invitation[request[q].of] # "NONE"
             /\ At(q, "closing") => invitation[request[q].of] \notin {"NONE", "PENDING_SEND"})'
      <4>1. ASSUME NEW q \in Request, q # p, request[q].pc # "idle" PROVE request[q].of \in Sub
        BY <4>1, RequestParts
      <4>2. ASSUME NEW q \in Request, q # p, At(q, "issuing") PROVE request[q].of # s
        BY <1>0, <2>2, <4>2 DEF Relied
      <4> QED BY <1>0, <1>8, <2>1, <2>2, <4>1, <4>2 DEF Relied, At, Idle
    <3>3. (\A q, u \in Request :
             At(q, "issuing") /\ At(u, "issuing") /\ request[q].of = request[u].of => q = u)'
      BY <1>0, <1>8, <2>1 DEF Relied, At, Idle
    <3>4. (\A w \in Scheduler : RoundIs(w, "taking") => <<"SLOT_RECLAIM", round[w].of>> \in open)'
      BY <1>0, <1>8 DEF Relied, RoundIs, Closes
    <3> QED BY <3>1, <3>2, <3>3, <3>4 DEF Relied
  <2>5. <<"SLOT_RECLAIM", s>> \in open => <<"SLOT_RECLAIM", s>> \in open'
    BY <1>8 DEF Closes
  <2>6. request[p].pc \notin {"tasking", "announcing"}
    BY <1>8 DEF At
  <2>7. /\ invitation'[s] # "PENDING_SEND"
        /\ invitation'[s] = "CUSTOMER_ACCEPTED" =>
             \E q \in Request : request'[q] = [pc |-> "announcing", of |-> s]
        /\ seat'[s] = "PENDING_RECLAIM" => seat[s] = "PENDING_RECLAIM"
    BY <1>8, <2>1, <2>2
  <2>8. \A z \in Sub \ {s} : \A type \in Task : <<type, z>> \in open' <=> <<type, z>> \in open
    BY <2>3
  <2> QED BY <1>8, <2>1, <2>2, <2>4, <2>5, <2>6, <2>7, <2>8, WritesOne
<1>9. ASSUME Send(p) \/ Accept(p) \/ Activate(p) PROVE TasksKept'
  <2>1. s \in Sub
    BY <1>0, <1>9 DEF Send, Accept, Activate, At
  <2>2. CASE Send(p)
    <3>1. PICK j \in RequestAt : j = [pc |-> "closing", of |-> s]
      BY <2>1, Places
    <3>2. /\ At(p, "sending") /\ invitation' = [invitation EXCEPT ![s] = "SENT"]
          /\ request' = [request EXCEPT ![p] = j]
          /\ UNCHANGED <<seat, open, round, dropped>>
      BY <2>2, <3>1 DEF Send, Goto
    <3> QED BY <1>8, <2>1, <3>1, <3>2
  <2>3. CASE Accept(p)
    <3>1. PICK j \in RequestAt : j = [pc |-> "announcing", of |-> s]
      BY <2>1, Places
    <3>2. /\ At(p, "accepting") /\ invitation' = [invitation EXCEPT ![s] = "CUSTOMER_ACCEPTED"]
          /\ request' = [request EXCEPT ![p] = j]
          /\ UNCHANGED <<seat, open, round, dropped>>
      BY <2>3, <3>1 DEF Accept, Goto
    <3> QED BY <1>8, <2>1, <3>1, <3>2
  <2>4. CASE Activate(p)
    <3>1. /\ At(p, "activating") /\ invitation' = [invitation EXCEPT ![s] = "ACTIVATED"]
          /\ seat' = [seat EXCEPT ![s] = "ACTIVE"]
          /\ request' = [request EXCEPT ![p] = Idle]
          /\ Closes({"INVITE_ACTIVATE"}, s)
          /\ UNCHANGED <<round, dropped>>
      BY <2>4 DEF Activate, Return
    <3> QED BY <1>8, <2>1, <3>1, Places
  <2> QED BY <1>9, <2>2, <2>3, <2>4
<1>10. ASSUME MarkInvited(p) PROVE TasksKept'
  <2>1. /\ s \in Sub /\ request[p].pc = "marking" /\ request' = [request EXCEPT ![p] = Idle]
        /\ UNCHANGED <<invitation, open, round, dropped>>
    BY <1>0, <1>10 DEF MarkInvited, At, Return
  <2>2. request'[p] = Idle /\ \A q \in Request \ {p} : request'[q] = request[q]
    BY <1>1, <2>1
  <2>3. seat'[s] = "INVITED" /\ \A z \in Sub \ {s} : seat'[z] = seat[z]
    BY <1>10, <2>1 DEF MarkInvited, TypeOK
  <2>4. Relied'
    <3>1. \A q \in Request : q # p /\ request[q].pc # "idle" => request[q].of \in Sub
      BY RequestParts
    <3> QED BY <1>0, <2>1, <2>2, <2>3, <3>1 DEF Relied, At, RoundIs, Idle
  <2>5. /\ invitation'[s] = "PENDING_SEND" =>
             \/ <<"INVITE_SEND", s>> \in open \cup dropped
             \/ \E q \in Request : request[q] = [pc |-> "tasking", of |-> s]
        /\ invitation'[s] = "CUSTOMER_ACCEPTED" =>
             \/ <<"INVITE_ACTIVATE", s>> \in open \cup dropped
             \/ \E q \in Request : request[q] = [pc |-> "announcing", of |-> s]
    BY <2>1 DEF TasksKept, WorkVisible
  <2>6. \A q \in Request :
          request[q].pc \in {"tasking", "announcing"} => request'[q] = request[q]
    BY <2>1, <2>2
  <2>7. /\ invitation'[s] = "PENDING_SEND" =>
             \/ <<"INVITE_SEND", s>> \in open' \cup dropped'
             \/ \E q \in Request : request'[q] = [pc |-> "tasking", of |-> s]
        /\ invitation'[s] = "CUSTOMER_ACCEPTED" =>
             \/ <<"INVITE_ACTIVATE", s>> \in open' \cup dropped'
             \/ \E q \in Request : request'[q] = [pc |-> "announcing", of |-> s]
    BY <2>1, <2>5, <2>6
  <2> QED BY <2>1, <2>2, <2>3, <2>4, <2>7, WritesOne
<1>11. ASSUME NEW x \in Sub, ConfirmReclaim(p, x) PROVE TasksKept'
  <2>1. /\ invitation[x] # "NONE"
        /\ invitation'[x] = "CANCELLED" /\ \A z \in Sub \ {x} : invitation'[z] = invitation[z]
        /\ seat'[x] = "RECLAIMED" /\ \A z \in Sub \ {x} : seat'[z] = seat[z]
        /\ UNCHANGED <<request, round, dropped>>
    BY <1>11 DEF ConfirmReclaim, TypeOK
  <2>2. \A z \in Sub, type \in Task :
          z # x \/ type = "SLOT_RECLAIM" => (<<type, z>> \in open' <=> <<type, z>> \in open)
    BY <1>11 DEF ConfirmReclaim, Closes
  <2>3. Relied'
    <3>1. \A q \in Request : request[q].pc # "idle" => request[q].of \in Sub
      BY RequestParts
    <3>2. \A w \in Scheduler : RoundIs(w, "taking") => round[w].of \in Sub
      BY RoundParts DEF RoundIs
    <3> QED BY <1>0, <2>1, <2>2, <3>1, <3>2 DEF Relied, At, RoundIs, Task
  <2> QED BY <2>1, <2>2, <2>3, WritesOne DEF Task
<1>12. ASSUME NEW x \in Sub, OrderRenewal(p, x) PROVE TasksKept'
  BY <1>12 DEF OrderRenewal, TasksKept, Relied, WorkVisible, At, RoundIs
<1>13. ASSUME Renew(p) PROVE TasksKept'
  <2>1. /\ request' = [request EXCEPT ![p] = Idle] /\ request[p].pc = "renewing"
        /\ UNCHANGED <<seat, invitation, open, round, dropped>>
    BY <1>13 DEF Renew, Return, At
  <2>2. KeepsTold(p)
    BY <2>1 DEF KeepsTold
  <2> QED BY <2>1, <2>2, MovesOn, Places
<1>14. ASSUME Break(p) PROVE TasksKept'
  <2>1. /\ request' = [request EXCEPT ![p] = Idle]
        /\ UNCHANGED <<seat, invitation, open, round>>
    BY <1>14 DEF Break, Return, records
  <2>2. /\ dropped \subseteq dropped'
        /\ request[p].pc = "tasking" => <<"INVITE_SEND", s>> \in dropped'
        /\ request[p].pc = "announcing" => <<"INVITE_ACTIVATE", s>> \in dropped'
    BY <1>14 DEF Break, At
  <2>3. KeepsTold(p)
    BY <2>1, <2>2 DEF KeepsTold
  <2> QED BY <2>1, <2>3, MovesOn, Places
<1> QED
  BY <1>2, <1>3, <1>4, <1>5, <1>6, <1>7, <1>9, <1>10, <1>11, <1>12, <1>13, <1>14
     DEF RequestStep, SendRead, AcceptRead, ActivateRead, RenewRead

\* Every step of a round keeps the tasks.
LEMMA RoundKeeps ==
  ASSUME TypeOK, TasksKept, NEW w \in Scheduler, RoundStep(w) \/ Remind(w) \/ BreakRound(w)
  PROVE  TasksKept'
<1>1. ASSUME UNCHANGED <<seat, invitation, request, dropped>>, open \subseteq open',
             NEW r, RoundGoes(w, r), r.pc = "taking" => <<"SLOT_RECLAIM", r.of>> \in open'
      PROVE  TasksKept'
  <2>1. round'[w] = r /\ \A v \in Scheduler \ {w} : round'[v] = round[v]
    BY <1>1 DEF RoundGoes, TypeOK
  <2>2. Relied'
    BY <1>1, <2>1 DEF TasksKept, Relied, At, RoundIs
  <2>3. WorkVisible'
    BY <1>1 DEF TasksKept, WorkVisible
  <2> QED BY <2>2, <2>3 DEF TasksKept
<1>2. ASSUME StartRound(w) PROVE TasksKept'
  <2>1. \E r : RoundGoes(w, r) /\ r.pc # "taking"
    BY <1>2 DEF StartRound
  <2> QED BY <1>1, <1>2, <2>1 DEF StartRound, records
<1>3. ASSUME NEW rest, Walks(w, rest), UNCHANGED <<seat, invitation, open, request, dropped>>
      PROVE  TasksKept'
  <2>1. \E r : RoundGoes(w, r) /\ r.pc # "taking"
    BY <1>3 DEF Walks, Idle
  <2> QED BY <1>1, <1>3, <2>1
<1>4. ASSUME SweepExpired(w) \/ SweepExpiring(w) PROVE TasksKept'
  <2>1. \E r : RoundGoes(w, r) /\ r.pc # "taking"
    BY <1>4 DEF SweepExpired, SweepExpiring, Swept
  <2> QED BY <1>1, <1>4, <2>1 DEF SweepExpired, SweepExpiring
<1>5. ASSUME FindExpired(w) PROVE TasksKept'
  BY <1>3, <1>5 DEF FindExpired, records
<1>6. ASSUME NEW s \in Sub, LookForTask(w, s) PROVE TasksKept'
  <2>1. \/ \E rest : Walks(w, rest)
        \/ \E r : RoundGoes(w, r) /\ r.pc # "taking"
    BY <1>6 DEF LookForTask
  <2> QED BY <1>1, <1>3, <1>6, <2>1 DEF LookForTask, records
<1>7. ASSUME AskToReclaim(w) PROVE TasksKept'
  <2>1. PICK r : r = [round[w] EXCEPT !.pc = "taking"]
    OBVIOUS
  <2>2. r.of = round[w].of /\ RoundGoes(w, r)
    BY <1>7, <2>1, RoundParts DEF AskToReclaim, RoundIs
  <2>3. open' = open \cup {<<"SLOT_RECLAIM", round[w].of>>}
    BY <1>7 DEF AskToReclaim, Opens
  <2> QED BY <1>1, <1>7, <2>2, <2>3 DEF AskToReclaim
<1>8. ASSUME TakeBack(w) PROVE TasksKept'
  <2>1. PICK r : RoundGoes(w, r) /\ r.pc # "taking"
    BY <1>8 DEF TakeBack, Walks, Idle
  <2>2. round'[w] = r /\ \A v \in Scheduler \ {w} : round'[v] = round[v]
    BY <2>1 DEF RoundGoes, TypeOK
  <2>3. PICK s \in Sub : s = round[w].of /\ <<"SLOT_RECLAIM", s>> \in open
    BY <1>8, RoundParts DEF TakeBack, RoundIs, TasksKept, Relied
  <2>4. /\ seat'[s] = "PENDING_RECLAIM" /\ \A z \in Sub \ {s} : seat'[z] = seat[z]
        /\ UNCHANGED <<invitation, open, request, dropped>>
    BY <1>8, <2>3 DEF TakeBack, TypeOK
  <2>5. Relied'
    <3>1. \A q \in Request : request[q].pc # "idle" => request[q].of \in Sub
      BY RequestParts
    <3> QED BY <2>1, <2>2, <2>4, <3>1 DEF TasksKept, Relied, At, RoundIs
  <2>6. WorkVisible'
    BY <2>3, <2>4 DEF TasksKept, WorkVisible
  <2> QED BY <2>5, <2>6 DEF TasksKept
<1>9. ASSUME Remind(w) PROVE TasksKept'
  BY <1>9 DEF Remind, TasksKept, Relied, WorkVisible, At, RoundIs
<1>10. ASSUME BreakRound(w) PROVE TasksKept'
  <2>1. \E r : RoundGoes(w, r) /\ r.pc # "taking"
    BY <1>10 DEF BreakRound, Idle
  <2> QED BY <1>1, <1>10, <2>1 DEF BreakRound, records
<1> QED
  BY <1>2, <1>4, <1>5, <1>6, <1>7, <1>8, <1>9, <1>10 DEF RoundStep

\* Everything starts with its tasks.
LEMMA TasksStart == Init => TasksKept
<1> SUFFICES ASSUME Init PROVE TasksKept
  OBVIOUS
<1>1. \A p \in Request : request[p].pc = "idle"
  BY DEF Init, Idle
<1>2. \A w \in Scheduler : round[w].pc = "idle"
  BY DEF Init, Idle
<1>3. PICK was \in [Sub -> {New, Invited, Active, Expiring}] :
        /\ seat = [s \in Sub |-> was[s].seat]
        /\ invitation = [s \in Sub |-> was[s].invitation]
  BY DEF Init
<1>4. \A s \in Sub :
        /\ was[s].seat = "NONE" => was[s].invitation = "NONE"
        /\ was[s].invitation \notin {"PENDING_SEND", "CUSTOMER_ACCEPTED"}
        /\ was[s].seat # "PENDING_RECLAIM"
  BY DEF New, Invited, Active, Expiring
<1>5. Relied
  BY <1>1, <1>2, <1>3, <1>4 DEF Relied, At, RoundIs
<1>6. WorkVisible
  BY <1>3, <1>4 DEF WorkVisible
<1> QED BY <1>5, <1>6 DEF TasksKept

\* Whatever operators, customers and schedulers do at once and whatever breaks, work that
\* waits for an operator is among the open tasks, or a crash kept its task from being made.
THEOREM WorkIsListed == Init /\ [][Next]_vars => []WorkListed
<1>1. TypeOK /\ TasksKept /\ [Next]_vars => TasksKept'
  <2> SUFFICES ASSUME TypeOK, TasksKept, [Next]_vars PROVE TasksKept'
    OBVIOUS
  <2>1. ASSUME NEW s \in Sub, Pass(s) PROVE TasksKept'
    BY <2>1 DEF Pass, TasksKept, Relied, WorkVisible, At, RoundIs
  <2>2. CASE UNCHANGED vars
    BY <2>2 DEF vars, records, TasksKept, Relied, WorkVisible, At, RoundIs
  <2> QED BY <2>1, <2>2, RequestKeeps, RoundKeeps DEF Next
<1>2. TypeOK /\ TasksKept => WorkListed
  BY DEF TasksKept, WorkListed
<1> QED BY <1>1, <1>2, TypeStart, TypeStep, TasksStart, PTL

-------------------------------------------------------------------------------
(* Types of the outbox *)

Less == {ij \in Nat \X Nat : ij[1] < ij[2]}

\* A nonempty set of naturals has a least element.
LEMMA Least ==
  ASSUME NEW T \in SUBSET Nat, T # {}
  PROVE  \E n \in T : \A m \in T : n <= m
<1>1. Less = OpToRel(<, Nat)
  BY Zenon DEF OpToRel, Less
<1>2. IsWellFoundedOn(Less, Nat)
  BY <1>1, NatLessThanWellFounded
<1>3. PICK n \in T : \A m \in T : ~ (<<m, n>> \in Less)
  BY <1>2, WFMin
<1>4. ASSUME NEW m \in T PROVE n <= m
  <2>1. <<m, n>> \notin Less /\ m \in Nat /\ n \in Nat
    BY <1>3
  <2>2. ~(m < n)
    BY <2>1 DEF Less
  <2> QED BY <2>1, <2>2
<1> QED BY <1>4

\* The messages there are, and the one at hand of a tick.
LEMMA MessageParts ==
  ASSUME Out!TypeOK
  PROVE  /\ DOMAIN message = 1..Len(message) /\ Len(message) \in Nat
         /\ DOMAIN message \subseteq Out!Messages
         /\ \A m \in DOMAIN message : message[m] \in {"PENDING", "SENT", "FAILED"}
         /\ message \in [DOMAIN message -> {"PENDING", "SENT", "FAILED"}]
<1>1. message \in Seq({"PENDING", "SENT", "FAILED"}) /\ Len(message) <= MaxMessages
  BY DEF Out!TypeOK
<1>2. DOMAIN message = 1..Len(message) /\ Len(message) \in Nat
  BY <1>1
<1>3. DOMAIN message \subseteq Out!Messages
  BY <1>1, <1>2, MessagesAssumption DEF Out!Messages
<1>4. message \in [DOMAIN message -> {"PENDING", "SENT", "FAILED"}]
  BY <1>1
<1> QED BY <1>2, <1>3, <1>4

LEMMA OldestIn ==
  ASSUME NEW S \in SUBSET Nat, S # {}
  PROVE  Out!Oldest(S) \in S
<1>1. \E m \in S : \A n \in S : m <= n
  BY Least
<1> QED BY <1>1 DEF Out!Oldest

LEMMA TickParts ==
  ASSUME Out!TypeOK, NEW w \in Scheduler
  PROVE  /\ tick[w] \in Out!TickAt
         /\ tick[w].pc \in {"idle", "sending", "sent", "refused"}
         /\ tick[w].pc # "idle" =>
              /\ tick[w].batch \in SUBSET (DOMAIN message) /\ tick[w].batch # {}
              /\ Out!Current(w) \in tick[w].batch
              /\ Out!Current(w) \in DOMAIN message /\ Out!Current(w) \in Out!Messages
         /\ tick[w].pc = "idle" => tick[w] = Out!Idle
<1>1. tick[w] \in Out!TickAt
  BY DEF Out!TypeOK
<1>2. /\ tick[w].pc \in {"idle", "sending", "sent", "refused"}
      /\ tick[w].pc = "idle" => tick[w] = Out!Idle
  BY <1>1 DEF Out!TickAt, Out!Idle
<1>3. ASSUME tick[w].pc # "idle"
      PROVE  /\ tick[w].batch \in SUBSET (DOMAIN message) /\ tick[w].batch # {}
             /\ Out!Current(w) \in tick[w].batch
             /\ Out!Current(w) \in DOMAIN message /\ Out!Current(w) \in Out!Messages
  <2>1. tick[w] # Out!Idle
    BY <1>3 DEF Out!Idle
  <2>2. tick[w].batch \in SUBSET (DOMAIN message)
    BY <2>1 DEF Out!TypeOK
  <2>3. tick[w].batch # {}
    BY <1>1, <2>1 DEF Out!TickAt
  <2>4. tick[w].batch \in SUBSET Nat
    BY <2>2, MessageParts
  <2>5. Out!Current(w) \in tick[w].batch
    BY <2>3, <2>4, OldestIn DEF Out!Current
  <2> QED BY <2>2, <2>3, <2>5, MessageParts
<1> QED BY <1>1, <1>2, <1>3

\* A tick goes to a place in the code, with what is left of its batch.
LEMMA TickGoes ==
  ASSUME Out!TypeOK, NEW w \in Scheduler, NEW pc \in {"sending", "sent", "refused", "idle"},
         NEW batch \in SUBSET (DOMAIN message), pc = "idle" => batch = {},
         Out!Goto(w, pc, batch)
  PROVE  /\ tick' \in [Scheduler -> Out!TickAt]
         /\ tick'[w] = IF batch = {} THEN Out!Idle ELSE [pc |-> pc, batch |-> batch]
         /\ \A v \in Scheduler \ {w} : tick'[v] = tick[v]
         /\ \A v \in Scheduler : tick'[v] # Out!Idle => tick'[v].batch \subseteq DOMAIN message
<1>1. PICK t : t = IF batch = {} THEN Out!Idle ELSE [pc |-> pc, batch |-> batch]
  OBVIOUS
<1>2. t \in Out!TickAt /\ (t # Out!Idle => t.batch \subseteq DOMAIN message)
  BY <1>1, MessageParts DEF Out!TickAt
<1>3. tick' = [tick EXCEPT ![w] = t]
  BY <1>1 DEF Out!Goto
<1> QED BY <1>1, <1>2, <1>3 DEF Out!TypeOK

\* Only a delivery makes a tick one that is to mark a message SENT.
LEMMA NotSent ==
  ASSUME Out!TypeOK, NEW w \in Scheduler, NEW pc \in {"sending", "refused", "idle"},
         NEW batch \in SUBSET (DOMAIN message), pc = "idle" => batch = {},
         Out!Goto(w, pc, batch)
  PROVE  tick'[w].pc # "sent"
<1>1. tick'[w] = IF batch = {} THEN Out!Idle ELSE [pc |-> pc, batch |-> batch]
  BY TickGoes
<1>2. CASE batch = {}
  BY <1>1, <1>2 DEF Out!Idle
<1>3. CASE batch # {}
  BY <1>1, <1>3
<1> QED BY <1>2, <1>3

\* Every step of the outbox keeps the types.
LEMMA OutTypeStep == Out!TypeOK /\ [Out!Next]_(Out!vars) => Out!TypeOK'
<1> SUFFICES ASSUME Out!TypeOK, [Out!Next]_(Out!vars) PROVE Out!TypeOK'
  OBVIOUS
<1>1. CASE Out!Queue
  <2>1. /\ message' \in Seq({"PENDING", "SENT", "FAILED"}) /\ Len(message') <= MaxMessages
        /\ DOMAIN message \subseteq DOMAIN message'
    <3>1. Len(message') = Len(message) + 1 /\ message' \in Seq({"PENDING", "SENT", "FAILED"})
      BY <1>1 DEF Out!Queue, Out!TypeOK
    <3> QED BY <1>1, <3>1, MessageParts, MessagesAssumption DEF Out!Queue
  <2> QED BY <1>1, <2>1 DEF Out!Queue, Out!TypeOK, Out!history
<1>2. ASSUME NEW w \in Scheduler, Out!Fetch(w) PROVE Out!TypeOK'
  <2>1. Out!PendingMessages \in SUBSET (DOMAIN message)
    BY DEF Out!PendingMessages
  <2>2. Out!Goto(w, "sending", Out!PendingMessages) /\ UNCHANGED <<message, copies, breaks>>
    BY <1>2 DEF Out!Fetch
  <2>3. /\ tick' \in [Scheduler -> Out!TickAt]
        /\ \A v \in Scheduler : tick'[v] # Out!Idle => tick'[v].batch \subseteq DOMAIN message
    BY <2>1, <2>2, TickGoes
  <2>4. overlaps' \in [Out!Messages -> Nat]
    BY <1>2 DEF Out!Fetch, Out!TypeOK
  <2>5. passed' \in [Scheduler -> [Out!Messages -> Nat]]
    BY <1>2 DEF Out!Fetch, Out!TypeOK
  <2> QED BY <2>2, <2>3, <2>4, <2>5 DEF Out!TypeOK
<1>3. ASSUME NEW w \in Scheduler, Out!Deliver(w) \/ Out!Refuse(w) PROVE Out!TypeOK'
  <2>1. tick[w].pc # "idle"
    BY <1>3 DEF Out!Deliver, Out!Refuse, Out!At
  <2>2. /\ \E pc \in {"sent", "refused"} : Out!Goto(w, pc, tick[w].batch)
        /\ UNCHANGED <<message, breaks, overlaps, passed>>
    BY <1>3 DEF Out!Deliver, Out!Refuse, Out!history
  <2>3. /\ tick' \in [Scheduler -> Out!TickAt]
        /\ \A v \in Scheduler : tick'[v] # Out!Idle => tick'[v].batch \subseteq DOMAIN message
    BY <2>1, <2>2, TickGoes, TickParts
  <2>4. copies' \in [Out!Messages -> Nat]
    BY <1>3 DEF Out!Deliver, Out!Refuse, Out!TypeOK
  <2> QED BY <2>2, <2>3, <2>4 DEF Out!TypeOK
<1>4. ASSUME NEW w \in Scheduler, Out!MarkSent(w) \/ Out!MarkFailed(w) PROVE Out!TypeOK'
  <2>1. tick[w].pc # "idle"
    BY <1>4 DEF Out!MarkSent, Out!MarkFailed, Out!At
  <2>2. PICK mark \in {"SENT", "FAILED"} : Out!Marks(w, mark)
    BY <1>4 DEF Out!MarkSent, Out!MarkFailed
  <2>3. /\ message' = [message EXCEPT ![Out!Current(w)] = mark]
        /\ Out!Goto(w, "sending", tick[w].batch \ {Out!Current(w)})
    BY <2>2 DEF Out!Marks
  <2>4. tick[w].batch \ {Out!Current(w)} \in SUBSET (DOMAIN message)
    BY <2>1, TickParts
  <2>5. /\ tick' \in [Scheduler -> Out!TickAt]
        /\ \A v \in Scheduler : tick'[v] # Out!Idle => tick'[v].batch \subseteq DOMAIN message
    BY <2>3, <2>4, TickGoes
  <2>6. /\ message' \in Seq({"PENDING", "SENT", "FAILED"}) /\ Len(message') <= MaxMessages
        /\ DOMAIN message' = DOMAIN message
    <3>1. message' \in [1..Len(message) -> {"PENDING", "SENT", "FAILED"}]
      BY <2>3, MessageParts
    <3>2. message' \in Seq({"PENDING", "SENT", "FAILED"}) /\ Len(message') = Len(message)
      BY <3>1, MessageParts, SeqDef
    <3> QED BY <3>1, <3>2, MessageParts DEF Out!TypeOK
  <2> QED
    BY <1>4, <2>5, <2>6 DEF Out!MarkSent, Out!MarkFailed, Out!TypeOK, Out!history
<1>5. ASSUME NEW w \in Scheduler, Out!Break(w) PROVE Out!TypeOK'
  <2>1. tick[w].pc # "idle"
    BY <1>5 DEF Out!Break, Out!At
  <2>2. /\ \/ Out!Goto(w, "refused", tick[w].batch)
           \/ Out!Goto(w, "idle", {})
        /\ UNCHANGED <<message, copies, overlaps, passed>>
    BY <1>5 DEF Out!Break, Out!history
  <2>3. /\ tick' \in [Scheduler -> Out!TickAt]
        /\ \A v \in Scheduler : tick'[v] # Out!Idle => tick'[v].batch \subseteq DOMAIN message
    BY <2>1, <2>2, TickGoes, TickParts
  <2>4. breaks' \in 0..MaxCrashes
    BY <1>5, BoundAssumption DEF Out!Break, Out!TypeOK
  <2> QED BY <2>2, <2>3, <2>4 DEF Out!TypeOK
<1>6. CASE UNCHANGED Out!vars
  BY <1>6 DEF Out!vars, Out!history, Out!TypeOK
<1> QED
  BY <1>1, <1>2, <1>3, <1>4, <1>5, <1>6 DEF Out!Next, Out!TickStep

-------------------------------------------------------------------------------
(* Copies *)

Holds(w, m) == tick[w].pc # "idle" /\ m \in tick[w].batch

\* The tick may still send the message.
MaySend(w, m) == Holds(w, m) /\ (tick[w].pc = "sending" \/ m # Out!Current(w))

Senders(m) == {w \in Scheduler : MaySend(w, m)}

\* 1 when a tick to come may send the message though nobody has it.
Left(m) ==
  IF message[m] = "PENDING" /\ \A w \in Scheduler : ~Holds(w, m) THEN 1 ELSE 0

\* The copies there are and those that may still be sent have their reasons; a message that
\* is SENT, or is to be marked so, has left the house.
CopiesCounted ==
  /\ \A m \in DOMAIN message :
       copies[m] + Cardinality(Senders(m)) + Left(m) <= 1 + breaks + overlaps[m]
  /\ \A m \in Out!Messages \ DOMAIN message : copies[m] = 0
  /\ \A m \in DOMAIN message : message[m] = "SENT" => copies[m] > 0
  /\ \A w \in Scheduler : tick[w].pc = "sent" => copies[Out!Current(w)] > 0

Sends(w, m) == IF MaySend(w, m) THEN 1 ELSE 0

\* The step is one of a single tick.
Only(w) == \A v \in Scheduler \ {w} : tick'[v] = tick[v]

LEMMA OthersHold ==
  ASSUME NEW w \in Scheduler, Only(w), NEW m
  PROVE  \A v \in Scheduler \ {w} :
           (Holds(v, m)' <=> Holds(v, m)) /\ (MaySend(v, m)' <=> MaySend(v, m))
BY DEF Only, Holds, MaySend, Out!Current

\* One tick counts for one among those that may send a message.
LEMMA SendersCount ==
  ASSUME NEW w \in Scheduler, Only(w), NEW m
  PROVE  \E rest \in Nat : /\ Cardinality(Senders(m)) = rest + Sends(w, m)
                           /\ Cardinality(Senders(m)') = rest + Sends(w, m)'
<1> DEFINE Others == Senders(m) \ {w}
<1>1. IsFiniteSet(Others) /\ Cardinality(Others) \in Nat
  <2>1. Others \subseteq Scheduler
    BY DEF Senders
  <2> QED BY <2>1, SchedulerAssumption, FS_Subset, FS_CardinalityType
<1>2. w \notin Others
  OBVIOUS
<1>3. Cardinality(Others \cup {w}) = Cardinality(Others) + 1
  BY <1>1, <1>2, FS_AddElement
<1>4. Senders(m) = IF MaySend(w, m) THEN Others \cup {w} ELSE Others
  BY DEF Senders
<1>5. \A v \in Scheduler \ {w} : MaySend(v, m)' <=> MaySend(v, m)
  BY OthersHold
<1>6. Senders(m)' = IF MaySend(w, m)' THEN Others \cup {w} ELSE Others
  BY <1>5 DEF Senders
<1> HIDE DEF Others
<1>7. Cardinality(Senders(m)) = Cardinality(Others) + Sends(w, m)
  BY <1>1, <1>3, <1>4 DEF Sends
<1>8. Cardinality(Senders(m)') = Cardinality(Others) + Sends(w, m)'
  BY <1>1, <1>3, <1>6 DEF Sends
<1> QED BY <1>1, <1>7, <1>8

\* What a step of one tick must pay for.
Pays(w, m) ==
  copies'[m] + Sends(w, m)' + Left(m)' + breaks + overlaps[m]
    <= copies[m] + Sends(w, m) + Left(m) + breaks' + overlaps'[m]

LEMMA CountStep ==
  ASSUME Out!TypeOK, Out!TypeOK', NEW w \in Scheduler, Only(w),
         NEW m \in DOMAIN message, m \in DOMAIN message', Pays(w, m),
         copies[m] + Cardinality(Senders(m)) + Left(m) <= 1 + breaks + overlaps[m]
  PROVE  (copies[m] + Cardinality(Senders(m)) + Left(m) <= 1 + breaks + overlaps[m])'
<1>1. m \in Out!Messages
  BY MessageParts
<1>2. /\ copies[m] \in Nat /\ copies'[m] \in Nat /\ overlaps[m] \in Nat /\ overlaps'[m] \in Nat
      /\ breaks \in Nat /\ breaks' \in Nat
  BY <1>1, BoundAssumption DEF Out!TypeOK
<1>3. Left(m) \in {0, 1} /\ Left(m)' \in {0, 1} /\ Sends(w, m) \in {0, 1} /\ Sends(w, m)' \in {0, 1}
  BY DEF Left, Sends
<1>4. PICK rest \in Nat : /\ Cardinality(Senders(m)) = rest + Sends(w, m)
                          /\ Cardinality(Senders(m)') = rest + Sends(w, m)'
  BY SendersCount
<1>5. copies'[m] + (rest + Sends(w, m)') + Left(m)' <= 1 + breaks' + overlaps'[m]
  BY <1>2, <1>3, <1>4 DEF Pays
<1> QED BY <1>4, <1>5

LEMMA LeftSame ==
  ASSUME NEW w \in Scheduler, Only(w), NEW m, message'[m] = message[m],
         Holds(w, m)' <=> Holds(w, m)
  PROVE  Left(m)' = Left(m)
<1>1. (\A v \in Scheduler : ~Holds(v, m))' <=> (\A v \in Scheduler : ~Holds(v, m))
  BY OthersHold
<1> QED BY <1>1 DEF Left

\* Reading a message that nobody has makes it wait no more; reading one that another tick
\* has is noted.
LEMMA FetchPays ==
  ASSUME Out!TypeOK, NEW w \in Scheduler, Out!Fetch(w), NEW m \in DOMAIN message
  PROVE  Pays(w, m) /\ Only(w)
<1> DEFINE Pend == Out!PendingMessages
<1>1. tick[w].pc = "idle" /\ ~Holds(w, m) /\ ~MaySend(w, m)
  BY DEF Out!Fetch, Out!At, Holds, MaySend
<1>2. Pend \in SUBSET (DOMAIN message) /\ (m \in Pend => message[m] = "PENDING")
  BY DEF Out!PendingMessages
<1>3. /\ tick'[w] = IF Pend = {} THEN Out!Idle ELSE [pc |-> "sending", batch |-> Pend]
      /\ Only(w)
  BY <1>2, TickGoes DEF Out!Fetch, Only
<1>4. /\ UNCHANGED <<message, copies, breaks>>
      /\ overlaps'[m] = overlaps[m] + IF m \in Pend /\ \E v \in Scheduler : Holds(v, m)
                                      THEN 1 ELSE 0
  <2>1. m \in Out!Messages
    BY MessageParts
  <2>2. \A v \in Scheduler : ~Out!At(v, "idle") /\ m \in tick[v].batch <=> Holds(v, m)
    BY DEF Out!At, Holds
  <2> QED BY <2>1, <2>2 DEF Out!Fetch
<1>5. copies[m] \in Nat /\ overlaps[m] \in Nat /\ breaks \in Nat
  BY MessageParts, BoundAssumption DEF Out!TypeOK
<1> HIDE DEF Pend
<1>6. CASE m \in Pend
  <2>1. Holds(w, m)' /\ MaySend(w, m)'
    BY <1>3, <1>6 DEF Holds, MaySend
  <2>2. Left(m)' = 0
    BY <2>1 DEF Left
  <2>3. CASE \E v \in Scheduler : Holds(v, m)
    <3>1. overlaps'[m] = overlaps[m] + 1
      BY <1>4, <1>6, <2>3
    <3>2. Left(m) = 0
      BY <2>3 DEF Left
    <3>3. Sends(w, m) = 0 /\ Sends(w, m)' = 1
      BY <1>1, <2>1 DEF Sends
    <3> QED BY <1>3, <1>4, <1>5, <2>2, <3>1, <3>2, <3>3 DEF Pays
  <2>4. CASE ~ \E v \in Scheduler : Holds(v, m)
    <3>1. overlaps'[m] = overlaps[m]
      BY <1>4, <1>5, <2>4
    <3>2. Left(m) = 1
      BY <1>2, <1>6, <2>4 DEF Left
    <3>3. Sends(w, m) = 0 /\ Sends(w, m)' = 1
      BY <1>1, <2>1 DEF Sends
    <3> QED BY <1>3, <1>4, <1>5, <2>2, <3>1, <3>2, <3>3 DEF Pays
  <2> QED BY <2>3, <2>4
<1>7. CASE m \notin Pend
  <2>1. ~Holds(w, m)' /\ ~MaySend(w, m)'
    BY <1>3, <1>7 DEF Holds, MaySend, Out!Idle
  <2>2. Left(m)' = Left(m) /\ Left(m) \in {0, 1}
    BY <1>1, <1>3, <1>4, <2>1, LeftSame DEF Left
  <2>3. overlaps'[m] = overlaps[m] /\ Sends(w, m) = 0 /\ Sends(w, m)' = 0
    BY <1>1, <1>4, <1>5, <1>7, <2>1 DEF Sends
  <2> QED BY <1>3, <1>4, <1>5, <2>2, <2>3 DEF Pays
<1> QED BY <1>6, <1>7

\* A copy that leaves, or may have left, was to be sent.
LEMMA SendPays ==
  ASSUME Out!TypeOK, NEW w \in Scheduler, Out!Deliver(w) \/ Out!Refuse(w),
         NEW m \in DOMAIN message
  PROVE  Pays(w, m) /\ Only(w)
<1>1. /\ tick[w].pc = "sending" /\ tick[w].batch \in SUBSET (DOMAIN message)
      /\ tick[w].batch # {} /\ Out!Current(w) \in tick[w].batch
      /\ Out!Current(w) \in Out!Messages
  BY TickParts DEF Out!Deliver, Out!Refuse, Out!At
<1>2. PICK pc \in {"sent", "refused"} : Out!Goto(w, pc, tick[w].batch)
  BY DEF Out!Deliver, Out!Refuse
<1>3. tick'[w] = [pc |-> pc, batch |-> tick[w].batch] /\ Only(w)
  BY <1>1, <1>2, TickGoes DEF Only
<1>4. PICK taken \in {0, 1} : copies' = [copies EXCEPT ![Out!Current(w)] = @ + taken]
  BY DEF Out!Deliver, Out!Refuse
<1>5. UNCHANGED <<message, breaks, overlaps>>
  BY DEF Out!Deliver, Out!Refuse, Out!history
<1>6. Out!Current(w)' = Out!Current(w)
  BY <1>3 DEF Out!Current
<1>7. Holds(w, m)' <=> Holds(w, m)
  BY <1>1, <1>3 DEF Holds
<1>8. Left(m)' = Left(m) /\ Left(m) \in {0, 1}
  BY <1>3, <1>5, <1>7, LeftSame DEF Left
<1>9. copies[m] \in Nat /\ overlaps[m] \in Nat /\ breaks \in Nat /\ m \in Out!Messages
  BY MessageParts, BoundAssumption DEF Out!TypeOK
<1>10. CASE m = Out!Current(w)
  <2>1. MaySend(w, m) /\ ~MaySend(w, m)'
    BY <1>1, <1>3, <1>6, <1>10 DEF MaySend, Holds
  <2>2. copies'[m] = copies[m] + taken
    BY <1>4, <1>9, <1>10 DEF Out!TypeOK
  <2>3. Sends(w, m) = 1 /\ Sends(w, m)' = 0
    BY <2>1 DEF Sends
  <2> QED BY <1>3, <1>5, <1>8, <1>9, <2>2, <2>3 DEF Pays
<1>11. CASE m # Out!Current(w)
  <2>1. MaySend(w, m)' <=> MaySend(w, m)
    BY <1>1, <1>3, <1>6, <1>7, <1>11 DEF MaySend
  <2>2. copies'[m] = copies[m]
    BY <1>4, <1>9, <1>11 DEF Out!TypeOK
  <2>3. Sends(w, m) \in {0, 1} /\ Sends(w, m)' = Sends(w, m)
    BY <2>1 DEF Sends
  <2> QED BY <1>3, <1>5, <1>8, <1>9, <2>2, <2>3 DEF Pays
<1> QED BY <1>10, <1>11

\* A message that is marked is left alone, and the others stay as they were.
LEMMA MarkPays ==
  ASSUME Out!TypeOK, NEW w \in Scheduler, Out!MarkSent(w) \/ Out!MarkFailed(w),
         NEW m \in DOMAIN message
  PROVE  Pays(w, m) /\ Only(w)
<1> DEFINE rest == tick[w].batch \ {Out!Current(w)}
<1>1. /\ tick[w].pc \in {"sent", "refused"} /\ tick[w].batch \in SUBSET (DOMAIN message)
      /\ Out!Current(w) \in tick[w].batch /\ Out!Current(w) \in DOMAIN message
  BY TickParts DEF Out!MarkSent, Out!MarkFailed, Out!At
<1>2. PICK mark \in {"SENT", "FAILED"} :
        message' = [message EXCEPT ![Out!Current(w)] = mark] /\ Out!Goto(w, "sending", rest)
  BY DEF Out!MarkSent, Out!MarkFailed, Out!Marks
<1>3. /\ tick'[w] = IF rest = {} THEN Out!Idle ELSE [pc |-> "sending", batch |-> rest]
      /\ Only(w)
  BY <1>1, <1>2, TickGoes DEF Only
<1>4. UNCHANGED <<copies, breaks, overlaps>>
  BY DEF Out!MarkSent, Out!MarkFailed, Out!history
<1>5. copies[m] \in Nat /\ overlaps[m] \in Nat /\ breaks \in Nat
  BY MessageParts, BoundAssumption DEF Out!TypeOK
<1>6. (Holds(w, m)' <=> m \in rest) /\ (MaySend(w, m)' <=> m \in rest)
  BY <1>3 DEF Holds, MaySend, Out!Idle
<1>7. (Holds(w, m) <=> m \in tick[w].batch) /\ (MaySend(w, m) <=> m \in rest)
  BY <1>1 DEF Holds, MaySend
<1>8. Sends(w, m) \in {0, 1} /\ Sends(w, m)' = Sends(w, m)
  BY <1>6, <1>7 DEF Sends
<1>9. Left(m) \in {0, 1} /\ Left(m)' <= Left(m) /\ Left(m)' \in {0, 1}
  <2>1. CASE m = Out!Current(w)
    <3>1. message'[m] # "PENDING"
      BY <1>1, <1>2, <2>1, MessageParts
    <3> QED BY <3>1 DEF Left
  <2>2. CASE m # Out!Current(w)
    <3>1. message'[m] = message[m] /\ (Holds(w, m)' <=> Holds(w, m))
      BY <1>1, <1>2, <1>6, <1>7, <2>2, MessageParts
    <3>2. Left(m)' = Left(m)
      BY <1>3, <3>1, LeftSame
    <3> QED BY <3>2 DEF Left
  <2> QED BY <2>1, <2>2
<1> QED BY <1>3, <1>4, <1>5, <1>8, <1>9 DEF Pays

\* A tick that breaks off may leave its message for another; that it broke off is counted.
LEMMA BreakPays ==
  ASSUME Out!TypeOK, NEW w \in Scheduler, Out!Break(w), NEW m \in DOMAIN message
  PROVE  Pays(w, m) /\ Only(w)
<1>1. /\ tick[w].pc # "idle" /\ tick[w].batch \in SUBSET (DOMAIN message) /\ tick[w].batch # {}
      /\ Out!Current(w) \in tick[w].batch
  BY TickParts DEF Out!Break, Out!At
<1>2. UNCHANGED <<message, copies, overlaps>> /\ breaks' = breaks + 1
  BY DEF Out!Break, Out!history
<1>3. copies[m] \in Nat /\ overlaps[m] \in Nat /\ breaks \in Nat
  BY MessageParts, BoundAssumption DEF Out!TypeOK
<1>4. CASE tick[w].pc = "sent" /\ Out!Goto(w, "refused", tick[w].batch)
  <2>1. tick'[w] = [pc |-> "refused", batch |-> tick[w].batch] /\ Only(w)
    BY <1>1, <1>4, TickGoes DEF Only
  <2>2. Out!Current(w)' = Out!Current(w)
    BY <2>1 DEF Out!Current
  <2>3. (Holds(w, m)' <=> Holds(w, m)) /\ (MaySend(w, m)' <=> MaySend(w, m))
    BY <1>1, <1>4, <2>1, <2>2 DEF Holds, MaySend
  <2>4. Left(m)' = Left(m) /\ Left(m) \in {0, 1}
    BY <1>2, <2>1, <2>3, LeftSame DEF Left
  <2>5. Sends(w, m) \in {0, 1} /\ Sends(w, m)' = Sends(w, m)
    BY <2>3 DEF Sends
  <2> QED BY <1>2, <1>3, <2>1, <2>4, <2>5 DEF Pays
<1>5. CASE Out!Goto(w, "idle", {})
  <2>1. tick'[w] = Out!Idle /\ Only(w)
    BY <1>5, TickGoes DEF Only
  <2>2. ~Holds(w, m)' /\ Sends(w, m)' = 0 /\ Sends(w, m) \in {0, 1}
    BY <2>1 DEF Holds, MaySend, Sends, Out!Idle
  <2>3. Left(m)' <= Left(m) + 1 /\ Left(m) \in {0, 1} /\ Left(m)' \in {0, 1}
    BY DEF Left
  <2> QED BY <1>2, <1>3, <2>1, <2>2, <2>3 DEF Pays
<1> QED BY <1>4, <1>5 DEF Out!Break, Out!At

\* Copies stay accounted for.
LEMMA CopiesStep ==
  ASSUME Out!TypeOK, Out!TypeOK', CopiesCounted, [Out!Next]_(Out!vars)
  PROVE  CopiesCounted'
<1>1. CASE Out!Queue
  <2>0. PICK new : new = Len(message) + 1
    OBVIOUS
  <2>1. /\ message' = Append(message, "PENDING") /\ Len(message) < MaxMessages
        /\ UNCHANGED <<copies, tick, breaks, overlaps>>
    BY <1>1 DEF Out!Queue, Out!history
  <2>2. /\ DOMAIN message' = DOMAIN message \cup {new} /\ new \notin DOMAIN message
        /\ new \in Out!Messages
        /\ message'[new] = "PENDING"
        /\ \A m \in DOMAIN message : message'[m] = message[m]
    <3>1. message \in Seq({"PENDING", "SENT", "FAILED"}) /\ Len(message) \in Nat
          /\ DOMAIN message = 1..Len(message)
      BY MessageParts DEF Out!TypeOK
    <3>2. /\ DOMAIN message' = 1..new /\ message'[new] = "PENDING"
          /\ \A m \in 1..Len(message) : message'[m] = message[m]
      BY <2>0, <2>1, <3>1
    <3> QED BY <2>0, <2>1, <3>1, <3>2, MessagesAssumption DEF Out!Messages
  <2>3. ASSUME NEW m
        PROVE  /\ Senders(m)' = Senders(m)
               /\ \A w \in Scheduler : Holds(w, m)' <=> Holds(w, m)
    BY <2>1 DEF Senders, MaySend, Holds, Out!Current
  <2>4. ASSUME NEW m \in DOMAIN message
        PROVE  (copies[m] + Cardinality(Senders(m)) + Left(m) <= 1 + breaks + overlaps[m])'
    <3>1. Left(m)' = Left(m)
      BY <2>2, <2>3 DEF Left
    <3> QED BY <2>1, <2>3, <3>1 DEF CopiesCounted
  <2>5. (copies[new] + Cardinality(Senders(new)) + Left(new) <= 1 + breaks + overlaps[new])'
    <3>1. \A w \in Scheduler : ~MaySend(w, new)
      BY <2>2, TickParts DEF MaySend, Holds
    <3>2. Senders(new) = {}
      BY <3>1 DEF Senders
    <3>3. Cardinality(Senders(new)) = 0
      BY <3>2, FS_EmptySet
    <3>4. copies[new] = 0
      BY <2>2 DEF CopiesCounted
    <3>5. overlaps[new] \in Nat /\ breaks \in Nat
      BY <2>2, BoundAssumption DEF Out!TypeOK
    <3>6. Left(new)' \in {0, 1}
      BY DEF Left
    <3>7. Senders(new)' = Senders(new)
      BY <2>3
    <3>8. Cardinality(Senders(new)') = 0
      BY <3>3, <3>7
    <3>9. copies'[new] = 0 /\ overlaps'[new] = overlaps[new] /\ breaks' = breaks
      BY <2>1, <3>4
    <3> QED BY <2>2, <3>5, <3>6, <3>8, <3>9
  <2>6. \A w \in Scheduler : (tick[w].pc = "sent")' => copies'[Out!Current(w)'] > 0
    BY <2>1 DEF CopiesCounted, Out!Current
  <2>7. \A m \in Out!Messages \ DOMAIN message' : copies'[m] = 0
    BY <2>1, <2>2 DEF CopiesCounted
  <2>8. \A m \in DOMAIN message' : message'[m] = "SENT" => copies'[m] > 0
    BY <2>1, <2>2 DEF CopiesCounted
  <2>9. \A m \in DOMAIN message' :
          (copies[m] + Cardinality(Senders(m)) + Left(m) <= 1 + breaks + overlaps[m])'
    <3>1. ASSUME NEW m \in DOMAIN message'
          PROVE  (copies[m] + Cardinality(Senders(m)) + Left(m) <= 1 + breaks + overlaps[m])'
      <4>1. CASE m = new
        BY <2>5, <4>1
      <4>2. CASE m # new
        BY <2>2, <2>4, <4>2
      <4> QED BY <4>1, <4>2
    <3> QED BY <3>1
  <2> QED BY <2>6, <2>7, <2>8, <2>9 DEF CopiesCounted
<1>2. ASSUME NEW w \in Scheduler, Out!TickStep(w) \/ Out!Break(w)
      PROVE  CopiesCounted'
  <2>1. DOMAIN message' = DOMAIN message
    BY <1>2 DEF Out!TickStep, Out!Fetch, Out!Deliver, Out!Refuse, Out!MarkSent, Out!MarkFailed,
                Out!Marks, Out!Break
  <2>2. ASSUME NEW m \in DOMAIN message PROVE Pays(w, m) /\ Only(w)
    BY <1>2, FetchPays, SendPays, MarkPays, BreakPays DEF Out!TickStep
  <2>3. ASSUME NEW m \in DOMAIN message
        PROVE  (copies[m] + Cardinality(Senders(m)) + Left(m) <= 1 + breaks + overlaps[m])'
    BY <2>1, <2>2, CountStep DEF CopiesCounted
  <2>4. /\ \A m \in Out!Messages : copies'[m] >= copies[m]
        /\ \A m \in Out!Messages \ DOMAIN message : copies'[m] = copies[m]
    <3>1. \/ copies' = copies
          \/ /\ \E taken \in {0, 1} : copies' = [copies EXCEPT ![Out!Current(w)] = @ + taken]
             /\ Out!Current(w) \in DOMAIN message
      <4>1. CASE Out!Deliver(w) \/ Out!Refuse(w)
        BY <4>1, TickParts DEF Out!Deliver, Out!Refuse, Out!At
      <4>2. CASE ~(Out!Deliver(w) \/ Out!Refuse(w))
        BY <1>2, <4>2 DEF Out!TickStep, Out!Fetch, Out!MarkSent, Out!MarkFailed, Out!Break
      <4> QED BY <4>1, <4>2
    <3>2. \A m \in Out!Messages : copies[m] \in Nat
      BY DEF Out!TypeOK
    <3>3. CASE copies' = copies
      BY <3>2, <3>3
    <3>4. ASSUME NEW taken \in {0, 1}, copies' = [copies EXCEPT ![Out!Current(w)] = @ + taken],
                 Out!Current(w) \in DOMAIN message
          PROVE  /\ \A m \in Out!Messages : copies'[m] >= copies[m]
                 /\ \A m \in Out!Messages \ DOMAIN message : copies'[m] = copies[m]
      <4>1. copies \in [Out!Messages -> Nat]
        BY DEF Out!TypeOK
      <4> QED BY <3>2, <3>4, <4>1
    <3> QED BY <3>1, <3>3, <3>4
  <2>5. \A m \in Out!Messages \ DOMAIN message' : copies'[m] = 0
    BY <2>1, <2>4 DEF CopiesCounted
  <2>6. \A v \in Scheduler \ {w} : tick'[v] = tick[v]
    <3>1. CASE DOMAIN message # {}
      BY <2>2, <3>1 DEF Only
    <3>2. CASE DOMAIN message = {}
      <4>1. tick[w].pc = "idle"
        BY <3>2, TickParts
      <4>2. Out!Fetch(w)
        BY <1>2, <4>1 DEF Out!TickStep, Out!Deliver, Out!Refuse, Out!MarkSent, Out!MarkFailed,
                          Out!Break, Out!At
      <4>3. Out!PendingMessages \in SUBSET (DOMAIN message)
        BY DEF Out!PendingMessages
      <4> QED BY <4>2, <4>3, TickGoes DEF Out!Fetch
    <3> QED BY <3>1, <3>2
  <2>7. ASSUME NEW v \in Scheduler, tick'[v].pc = "sent" PROVE copies'[Out!Current(v)'] > 0
    <3>1. CASE v = w
      <4>1. Out!Deliver(w)
        <5>1. CASE Out!Fetch(w)
          <6>1. Out!PendingMessages \in SUBSET (DOMAIN message)
            BY DEF Out!PendingMessages
          <6>2. tick'[w].pc # "sent"
            BY <5>1, <6>1, NotSent DEF Out!Fetch
          <6> QED BY <2>7, <3>1, <6>2
        <5>2. CASE Out!Refuse(w)
          <6>1. tick[w].batch \in SUBSET (DOMAIN message)
            BY <5>2, TickParts DEF Out!Refuse, Out!At
          <6>2. tick'[w].pc # "sent"
            BY <5>2, <6>1, NotSent DEF Out!Refuse
          <6> QED BY <2>7, <3>1, <6>2
        <5>3. CASE Out!MarkSent(w) \/ Out!MarkFailed(w)
          <6>1. tick[w].batch \ {Out!Current(w)} \in SUBSET (DOMAIN message)
            BY <5>3, TickParts DEF Out!MarkSent, Out!MarkFailed, Out!At
          <6>2. Out!Goto(w, "sending", tick[w].batch \ {Out!Current(w)})
            BY <5>3 DEF Out!MarkSent, Out!MarkFailed, Out!Marks
          <6>3. tick'[w].pc # "sent"
            BY <6>1, <6>2, NotSent
          <6> QED BY <2>7, <3>1, <6>3
        <5>4. CASE Out!Break(w)
          <6>1. tick[w].batch \in SUBSET (DOMAIN message)
            BY <5>4, TickParts DEF Out!Break, Out!At
          <6>2. Out!Goto(w, "refused", tick[w].batch) \/ Out!Goto(w, "idle", {})
            BY <5>4 DEF Out!Break
          <6>3. tick'[w].pc # "sent"
            BY <6>1, <6>2, NotSent
          <6> QED BY <2>7, <3>1, <6>3
        <5> QED BY <1>2, <5>1, <5>2, <5>3, <5>4 DEF Out!TickStep
      <4>2. /\ tick[w].batch \in SUBSET (DOMAIN message) /\ tick[w].batch # {}
            /\ Out!Current(w) \in Out!Messages
        BY <4>1, TickParts DEF Out!Deliver, Out!At
      <4>3. tick'[w] = [pc |-> "sent", batch |-> tick[w].batch]
        BY <4>1, <4>2, TickGoes DEF Out!Deliver
      <4>4. Out!Current(w)' = Out!Current(w)
        BY <4>3 DEF Out!Current
      <4>5. copies'[Out!Current(w)] = copies[Out!Current(w)] + 1
            /\ copies[Out!Current(w)] \in Nat
        BY <4>1, <4>2 DEF Out!Deliver, Out!TypeOK
      <4> QED BY <3>1, <4>4, <4>5
    <3>2. CASE v # w
      <4>1. tick'[v] = tick[v] /\ Out!Current(v)' = Out!Current(v)
        BY <2>6, <3>2 DEF Out!Current
      <4>2. Out!Current(v) \in Out!Messages
        BY <2>7, <4>1, TickParts
      <4>3. /\ copies[Out!Current(v)] > 0 /\ copies'[Out!Current(v)] >= copies[Out!Current(v)]
            /\ copies[Out!Current(v)] \in Nat /\ copies'[Out!Current(v)] \in Nat
        BY <2>4, <2>7, <4>1, <4>2 DEF CopiesCounted, Out!TypeOK
      <4> QED BY <4>1, <4>3
    <3> QED BY <3>1, <3>2
  <2>8. ASSUME NEW m \in DOMAIN message', message'[m] = "SENT" PROVE copies'[m] > 0
    <3>1. m \in Out!Messages /\ copies[m] \in Nat /\ copies'[m] \in Nat
      BY <2>1, <2>8, MessageParts DEF Out!TypeOK
    <3>2. copies[m] > 0
      <4>1. CASE message[m] = "SENT"
        BY <2>1, <2>8, <4>1 DEF CopiesCounted
      <4>2. CASE message[m] # "SENT"
        <5>1. Out!MarkSent(w)
          BY <1>2, <2>1, <2>8, <4>2, MessageParts DEF Out!TickStep, Out!Fetch, Out!Deliver,
             Out!Refuse, Out!MarkFailed, Out!Marks, Out!Break
        <5>2. m = Out!Current(w) /\ tick[w].pc = "sent"
          BY <2>1, <2>8, <4>2, <5>1, MessageParts DEF Out!MarkSent, Out!Marks, Out!At
        <5> QED BY <5>2 DEF CopiesCounted
      <4> QED BY <4>1, <4>2
    <3> QED BY <2>4, <3>1, <3>2
  <2>9. \A m \in DOMAIN message' :
          (copies[m] + Cardinality(Senders(m)) + Left(m) <= 1 + breaks + overlaps[m])'
    BY <2>1, <2>3
  <2> QED BY <2>5, <2>7, <2>8, <2>9 DEF CopiesCounted
<1>3. CASE UNCHANGED Out!vars
  <2>1. UNCHANGED <<message, copies, tick, breaks, overlaps>>
    BY <1>3 DEF Out!vars, Out!history
  <2> QED
    BY <2>1 DEF CopiesCounted, Senders, Left, MaySend, Holds, Out!Current
<1> QED BY <1>1, <1>2, <1>3 DEF Out!Next

\* The outbox starts empty.
LEMMA OutStart == Out!Init => Out!TypeOK /\ CopiesCounted
<1> SUFFICES ASSUME Out!Init PROVE Out!TypeOK /\ CopiesCounted
  OBVIOUS
<1>1. message = <<>> /\ DOMAIN message = {} /\ Len(message) = 0
  BY DEF Out!Init
<1>2. \A w \in Scheduler : tick[w] = Out!Idle /\ tick[w].pc = "idle"
  BY DEF Out!Init, Out!Idle
<1>3. Out!TypeOK
  BY <1>1, <1>2, BoundAssumption, MessagesAssumption DEF Out!Init, Out!TypeOK, Out!TickAt
<1>4. CopiesCounted
  BY <1>1, <1>2 DEF Out!Init, CopiesCounted
<1> QED BY <1>3, <1>4

\* However ticks overlap and break off, a message marked SENT has left the house and every
\* copy but the first has a tick that broke off or two that overlapped behind it.
THEOREM CopiesHaveReasons == Out!Spec => [](Out!TypeOK /\ Out!CopiesExplained)
<1>1. Out!TypeOK /\ CopiesCounted => Out!CopiesExplained
  <2> SUFFICES ASSUME Out!TypeOK, CopiesCounted, NEW m \in DOMAIN message
               PROVE  /\ message[m] = "SENT" => copies[m] > 0
                      /\ copies[m] <= 1 + breaks + overlaps[m]
    BY DEF Out!CopiesExplained
  <2>1. IsFiniteSet(Senders(m))
    BY SchedulerAssumption, FS_Subset DEF Senders
  <2>2. Cardinality(Senders(m)) \in Nat
    BY <2>1, FS_CardinalityType
  <2>3. Left(m) \in {0, 1} /\ copies[m] \in Nat /\ overlaps[m] \in Nat /\ breaks \in Nat
    BY MessageParts, BoundAssumption DEF Left, Out!TypeOK
  <2> QED BY <2>2, <2>3 DEF CopiesCounted
<1> QED BY <1>1, OutStart, OutTypeStep, CopiesStep, PTL DEF Out!Spec

-------------------------------------------------------------------------------
(* Waiting *)

\* The messages before one that are done with, or in the batch of a scheduler's tick.
Behind(w, m) ==
  {n \in 1..(m - 1) : n \in DOMAIN message /\ (message[n] # "PENDING" \/ Holds(w, n))}

\* A batch is of Limit messages at most; and for each time a scheduler has passed a message
\* over there are Limit others before it that the scheduler need not take up again, but for
\* what its broken ticks have dropped.
WaitCounted ==
  /\ \A w \in Scheduler : tick[w].pc # "idle" => Cardinality(tick[w].batch) <= Limit
  /\ \A w \in Scheduler, m \in Out!Messages :
       passed[w][m] * Limit <= Cardinality(Behind(w, m)) + breaks * Limit

\* The PENDING messages before one.
Waiting(m) == {n \in 1..(m - 1) : message[n] = "PENDING"}

\* The instance of Outbox counts as the modules of the prover's library do.
LEMMA OutCounts == \A S : Out!Cardinality(S) = Cardinality(S)
BY DEF Out!Cardinality, Cardinality, Out!IsFiniteSet, IsFiniteSet

LEMMA PendingParts ==
  Out!PendingMessages =
    {m \in DOMAIN message : message[m] = "PENDING" /\ Cardinality(Waiting(m)) < Limit}
BY OutCounts DEF Out!PendingMessages, Waiting

LEMMA BehindFinite ==
  ASSUME NEW w \in Scheduler, NEW m \in Nat \ {0}
  PROVE  /\ IsFiniteSet(Behind(w, m)) /\ IsFiniteSet(Waiting(m))
         /\ Cardinality(Behind(w, m)) \in Nat /\ Cardinality(Waiting(m)) \in Nat
         /\ Cardinality(Behind(w, m)) <= m - 1
<1>1. IsFiniteSet(1..(m - 1)) /\ Cardinality(1..(m - 1)) = m - 1
  BY FS_Interval
<1>2. Behind(w, m) \in SUBSET (1..(m - 1)) /\ Waiting(m) \in SUBSET (1..(m - 1))
  BY DEF Behind, Waiting
<1>3. /\ IsFiniteSet(Behind(w, m)) /\ IsFiniteSet(Waiting(m))
      /\ Cardinality(Behind(w, m)) <= m - 1
  BY <1>1, <1>2, FS_Subset
<1> QED BY <1>3, FS_CardinalityType

LEMMA BatchFinite ==
  ASSUME Out!TypeOK, NEW w \in Scheduler, tick[w].pc # "idle"
  PROVE  IsFiniteSet(tick[w].batch) /\ Cardinality(tick[w].batch) \in Nat
<1>1. tick[w].batch \in SUBSET (DOMAIN message)
  BY TickParts
<1>2. IsFiniteSet(DOMAIN message)
  <2>1. DOMAIN message = 1..Len(message) /\ 1 \in Int /\ Len(message) \in Int
    BY MessageParts
  <2>2. IsFiniteSet(1..Len(message))
    BY <2>1, FS_Interval
  <2> QED BY <2>1, <2>2
<1> QED BY <1>1, <1>2, FS_Subset, FS_CardinalityType

\* A tick reads Limit messages at most.
LEMMA BatchSmall ==
  ASSUME Out!TypeOK
  PROVE  IsFiniteSet(Out!PendingMessages) /\ Cardinality(Out!PendingMessages) <= Limit
<1> DEFINE T == Out!PendingMessages
           Bounds == {b \in Nat : \A t \in T : t <= b}
<1>1. /\ T \in SUBSET (DOMAIN message) /\ T \in SUBSET Nat
      /\ DOMAIN message = 1..Len(message) /\ Len(message) \in Nat
  BY PendingParts, MessageParts
<1>2. CASE T = {}
  BY <1>2, FS_EmptySet, LimitAssumption
<1>3. CASE T # {}
  <2>1. Len(message) \in Bounds /\ Bounds \in SUBSET Nat
    BY <1>1
  <2>2. PICK b \in Bounds : \A c \in Bounds : b <= c
    <3> HIDE DEF Bounds
    <3> QED BY <2>1, Least
  <2>3. b \in T
    <3> SUFFICES ASSUME b \notin T PROVE FALSE
      OBVIOUS
    <3>1. PICK t \in T : TRUE
      BY <1>3
    <3>2. \A u \in T : u \in Nat /\ u <= b /\ u # b
      BY <1>1
    <3>3. b - 1 \in Bounds
      <4> HIDE DEF T
      <4> QED BY <3>1, <3>2
    <3> QED BY <2>2, <3>3
  <2>4. T \in SUBSET (Waiting(b) \cup {b})
    <3> SUFFICES ASSUME NEW t \in T PROVE t \in Waiting(b) \cup {b}
      OBVIOUS
    <3>1. t \in 1..Len(message) /\ t <= b /\ b \in Nat /\ message[t] = "PENDING"
      BY <1>1, PendingParts
    <3> QED BY <3>1 DEF Waiting
  <2>5. Cardinality(Waiting(b)) < Limit /\ b \in Nat \ {0}
    <3> HIDE DEF Bounds
    <3> QED BY <1>1, <2>3, PendingParts
  <2>6. IsFiniteSet(Waiting(b)) /\ Cardinality(Waiting(b)) \in Nat
    <3>1. IsFiniteSet(1..(b - 1))
      BY <2>5, FS_Interval
    <3>2. Waiting(b) \in SUBSET (1..(b - 1))
      BY DEF Waiting
    <3> QED BY <3>1, <3>2, FS_Subset, FS_CardinalityType
  <2>7. /\ IsFiniteSet(Waiting(b) \cup {b})
        /\ Cardinality(Waiting(b) \cup {b}) <= Cardinality(Waiting(b)) + 1
    BY <2>6, FS_AddElement
  <2>8. /\ IsFiniteSet(T) /\ Cardinality(T) <= Cardinality(Waiting(b) \cup {b})
        /\ Cardinality(T) \in Nat /\ Cardinality(Waiting(b) \cup {b}) \in Nat
    <3> HIDE DEF T, Bounds
    <3> QED BY <2>4, <2>7, FS_Subset, FS_CardinalityType
  <2> QED BY <2>5, <2>6, <2>7, <2>8, LimitAssumption
<1> QED BY <1>2, <1>3

\* A message that a tick leaves for later has Limit messages of the batch before it.
LEMMA PassedBehind ==
  ASSUME Out!TypeOK, NEW m \in DOMAIN message, message[m] = "PENDING",
         m \notin Out!PendingMessages
  PROVE  \E k \in DOMAIN message :
           k <= m /\ Waiting(k) \subseteq Out!PendingMessages /\ Cardinality(Waiting(k)) >= Limit
<1> DEFINE U == {n \in DOMAIN message :
                   message[n] = "PENDING" /\ ~(Cardinality(Waiting(n)) < Limit)}
<1>1. /\ U \in SUBSET Nat /\ m \in U
      /\ DOMAIN message = 1..Len(message) /\ Len(message) \in Nat
  BY MessageParts, PendingParts
<1>2. PICK k \in U : \A n \in U : k <= n
  <2> HIDE DEF U
  <2> QED BY <1>1, Least
<1>3. k \in 1..Len(message) /\ k \in Nat \ {0} /\ k <= m
  BY <1>1, <1>2
<1>4. ASSUME NEW n \in Waiting(k) PROVE n \in Out!PendingMessages
  <2>1. n \in 1..(k - 1) /\ message[n] = "PENDING"
    BY DEF Waiting
  <2>2. n \in DOMAIN message /\ n < k
    BY <1>1, <1>3, <2>1
  <2>3. n \notin U
    BY <1>2, <1>3, <2>1, <2>2
  <2> QED BY <2>1, <2>2, <2>3, PendingParts
<1>5. Cardinality(Waiting(k)) \in Nat
  <2>1. IsFiniteSet(1..(k - 1))
    BY <1>3, FS_Interval
  <2>2. Waiting(k) \in SUBSET (1..(k - 1))
    BY DEF Waiting
  <2> QED BY <2>1, <2>2, FS_Subset, FS_CardinalityType
<1> QED BY <1>1, <1>2, <1>3, <1>4, <1>5, LimitAssumption

\* What was behind a message stays there in every step that drops no batch.
LEMMA BehindKept ==
  ASSUME WaitCounted, NEW w \in Scheduler, NEW m \in Out!Messages,
         passed[w][m] \in Nat, passed'[w][m] = passed[w][m],
         breaks \in Nat, breaks' \in Nat, breaks <= breaks',
         Behind(w, m) \subseteq Behind(w, m)'
  PROVE  (passed[w][m] * Limit <= Cardinality(Behind(w, m)) + breaks * Limit)'
<1>1. m \in Nat \ {0}
  BY MessagesAssumption DEF Out!Messages
<1>2. IsFiniteSet(Behind(w, m)') /\ Cardinality(Behind(w, m)') \in Nat
      /\ Cardinality(Behind(w, m)) \in Nat
  <2>1. IsFiniteSet(1..(m - 1))
    BY <1>1, FS_Interval
  <2>2. Behind(w, m)' \in SUBSET (1..(m - 1))
    BY DEF Behind
  <2> QED BY <1>1, <2>1, <2>2, BehindFinite, FS_Subset, FS_CardinalityType
<1>3. Cardinality(Behind(w, m)) <= Cardinality(Behind(w, m)')
  BY <1>2, FS_Subset
<1>4. \A a, b, c \in Nat : a * c \in Nat /\ (a <= b => a * c <= b * c)
  OBVIOUS
<1>5. breaks * Limit <= breaks' * Limit
  BY <1>4, LimitAssumption
<1>6. breaks * Limit \in Nat /\ breaks' * Limit \in Nat /\ passed[w][m] * Limit \in Nat
  BY <1>4, LimitAssumption
<1> QED BY <1>2, <1>3, <1>5, <1>6 DEF WaitCounted

\* A tick that reads passes messages over that have its whole batch before them.
LEMMA FetchWaits ==
  ASSUME Out!TypeOK, WaitCounted, NEW w \in Scheduler, Out!Fetch(w), NEW m \in Out!Messages
  PROVE  (passed[w][m] * Limit <= Cardinality(Behind(w, m)) + breaks * Limit)'
<1>1. /\ tick[w].pc = "idle" /\ UNCHANGED <<message, breaks>>
      /\ Out!Goto(w, "sending", Out!PendingMessages)
  BY DEF Out!Fetch, Out!At
<1>2. /\ m \in Nat \ {0} /\ breaks \in Nat /\ passed[w][m] \in Nat
      /\ DOMAIN message = 1..Len(message) /\ Len(message) \in Nat
  BY MessagesAssumption, BoundAssumption, MessageParts DEF Out!Messages, Out!TypeOK
<1>3. \A n \in Out!PendingMessages : Holds(w, n)'
  <2>1. Out!PendingMessages \in SUBSET (DOMAIN message)
    BY PendingParts
  <2>2. Out!PendingMessages # {} =>
          tick'[w] = [pc |-> "sending", batch |-> Out!PendingMessages]
    BY <1>1, <2>1, TickGoes
  <2> QED BY <2>2 DEF Holds
<1>4. \A n : ~Holds(w, n)
  BY <1>1 DEF Holds
<1>5. Behind(w, m) \subseteq Behind(w, m)'
  BY <1>1, <1>4 DEF Behind
<1>6. CASE ~(Out!Untried(m) /\ m \notin Out!PendingMessages)
  <2>1. passed'[w][m] = passed[w][m]
    BY <1>2, <1>6 DEF Out!Fetch, Out!TypeOK
  <2> QED BY <1>1, <1>2, <1>5, <2>1, BehindKept
<1>7. CASE Out!Untried(m) /\ m \notin Out!PendingMessages
  <2>1. passed'[w][m] = passed[w][m] + 1
    BY <1>2, <1>7 DEF Out!Fetch, Out!TypeOK
  <2>2. PICK k \in DOMAIN message :
          k <= m /\ Waiting(k) \subseteq Out!PendingMessages /\ Cardinality(Waiting(k)) >= Limit
    BY <1>7, PassedBehind DEF Out!Untried
  <2>3. k \in Nat \ {0} /\ k <= m
    BY <1>2, <2>2
  <2>4. Waiting(k) \cap Behind(w, m) = {}
    BY <1>4 DEF Waiting, Behind
  <2>5. Waiting(k) \subseteq Behind(w, m)'
    <3> SUFFICES ASSUME NEW n \in Waiting(k) PROVE n \in Behind(w, m)'
      OBVIOUS
    <3>1. n \in 1..(k - 1) /\ n \in Out!PendingMessages
      BY <2>2 DEF Waiting
    <3>2. n \in 1..(m - 1) /\ n \in DOMAIN message
      BY <1>2, <2>3, <3>1, PendingParts
    <3> QED BY <1>1, <1>3, <3>1, <3>2 DEF Behind
  <2>6. /\ IsFiniteSet(Waiting(k)) /\ Cardinality(Waiting(k)) \in Nat
        /\ IsFiniteSet(Behind(w, m)) /\ Cardinality(Behind(w, m)) \in Nat
    BY <1>2, <2>3, BehindFinite
  <2>7. IsFiniteSet(Behind(w, m)') /\ Cardinality(Behind(w, m)') \in Nat
    <3>1. IsFiniteSet(1..(m - 1))
      BY <1>2, FS_Interval
    <3>2. Behind(w, m)' \in SUBSET (1..(m - 1))
      BY DEF Behind
    <3> QED BY <3>1, <3>2, FS_Subset, FS_CardinalityType
  <2>8. Cardinality(Waiting(k) \cup Behind(w, m)) =
          Cardinality(Waiting(k)) + Cardinality(Behind(w, m))
    <3>1. Cardinality(Waiting(k) \cap Behind(w, m)) = 0
      BY <2>4, FS_EmptySet
    <3> DEFINE B == Behind(w, m)
               W == Waiting(k)
    <3>2. /\ IsFiniteSet(W) /\ Cardinality(W) \in Nat /\ Cardinality(W \cap B) = 0
          /\ IsFiniteSet(B) /\ Cardinality(B) \in Nat
      BY <2>6, <3>1
    <3> HIDE DEF B, W
    <3>3. Cardinality(W \cup B) = Cardinality(W) + Cardinality(B) - Cardinality(W \cap B)
      BY <3>2, FS_Union
    <3>4. Cardinality(W \cup B) = Cardinality(W) + Cardinality(B)
      BY <3>2, <3>3
    <3> QED BY <3>4 DEF B, W
  <2>9. Cardinality(Waiting(k) \cup Behind(w, m)) <= Cardinality(Behind(w, m)')
    <3>1. Waiting(k) \cup Behind(w, m) \in SUBSET Behind(w, m)'
      BY <1>5, <2>5
    <3> QED BY <2>7, <3>1, FS_Subset
  <2>10. (passed[w][m] + 1) * Limit = passed[w][m] * Limit + Limit
    BY <1>2, LimitAssumption
  <2>11. passed[w][m] * Limit \in Nat /\ breaks * Limit \in Nat
    BY <1>2, LimitAssumption
  <2>12. passed[w][m] * Limit <= Cardinality(Behind(w, m)) + breaks * Limit
    BY DEF WaitCounted
  <2> QED
    BY <1>1, <2>1, <2>2, <2>6, <2>7, <2>8, <2>9, <2>10, <2>11, <2>12, LimitAssumption
<1> QED BY <1>6, <1>7

\* A tick that breaks off drops a batch at most.
LEMMA BreakWaits ==
  ASSUME Out!TypeOK, WaitCounted, NEW w \in Scheduler, Out!Break(w), NEW m \in Out!Messages
  PROVE  (passed[w][m] * Limit <= Cardinality(Behind(w, m)) + breaks * Limit)'
<1>1. /\ tick[w].pc # "idle" /\ UNCHANGED <<message, passed>> /\ breaks' = breaks + 1
      /\ tick[w].batch \in SUBSET (DOMAIN message) /\ tick[w].batch # {}
  BY TickParts DEF Out!Break, Out!history, Out!At
<1>2. /\ m \in Nat \ {0} /\ breaks \in Nat /\ passed[w][m] \in Nat
  BY MessagesAssumption, BoundAssumption DEF Out!Messages, Out!TypeOK
<1>3. IsFiniteSet(tick[w].batch) /\ Cardinality(tick[w].batch) \in Nat
  BY <1>1, BatchFinite
<1>4. Behind(w, m) \subseteq Behind(w, m)' \cup tick[w].batch
  BY <1>1 DEF Behind, Holds
<1>5. IsFiniteSet(Behind(w, m)') /\ Cardinality(Behind(w, m)') \in Nat
  <2>1. IsFiniteSet(1..(m - 1))
    BY <1>2, FS_Interval
  <2>2. Behind(w, m)' \in SUBSET (1..(m - 1))
    BY DEF Behind
  <2> QED BY <2>1, <2>2, FS_Subset, FS_CardinalityType
<1>6. Cardinality(Behind(w, m)) \in Nat
  BY <1>2, BehindFinite
<1>7. Cardinality(Behind(w, m)) <= Cardinality(Behind(w, m)') + Cardinality(tick[w].batch)
  <2> DEFINE All == Behind(w, m)' \cup tick[w].batch
             Both == Behind(w, m)' \cap tick[w].batch
  <2>1. IsFiniteSet(All) /\ IsFiniteSet(Both)
    BY <1>3, <1>5, FS_Union, FS_Subset
  <2>2. Cardinality(All) \in Nat /\ Cardinality(Both) \in Nat
    BY <2>1, FS_CardinalityType
  <2>3. Cardinality(All) =
          Cardinality(Behind(w, m)') + Cardinality(tick[w].batch) - Cardinality(Both)
    BY <1>3, <1>5, FS_Union
  <2>4. Cardinality(Behind(w, m)) <= Cardinality(All)
    BY <1>4, <2>1, FS_Subset
  <2> QED BY <1>3, <1>5, <1>6, <2>2, <2>3, <2>4
<1>8. Cardinality(tick[w].batch) <= Limit
  BY <1>1 DEF WaitCounted
<1>9. (breaks + 1) * Limit = breaks * Limit + Limit
  BY <1>2, LimitAssumption
<1>10. passed[w][m] * Limit \in Nat /\ breaks * Limit \in Nat
  BY <1>2, LimitAssumption
<1>11. passed[w][m] * Limit <= Cardinality(Behind(w, m)) + breaks * Limit
  BY DEF WaitCounted
<1> QED
  BY <1>1, <1>3, <1>5, <1>6, <1>7, <1>8, <1>9, <1>10, <1>11, LimitAssumption

\* A message that is marked stays behind those after it, taken or not.
LEMMA MarkWaits ==
  ASSUME Out!TypeOK, NEW w \in Scheduler, Out!MarkSent(w) \/ Out!MarkFailed(w)
  PROVE  /\ Only(w) /\ UNCHANGED <<passed, breaks>>
         /\ \A v \in Scheduler, m \in Out!Messages : Behind(v, m) \subseteq Behind(v, m)'
         /\ tick'[w].pc # "idle" => tick'[w].batch \in SUBSET tick[w].batch
         /\ tick[w].pc # "idle"
<1>1. /\ tick[w].pc # "idle" /\ tick[w].batch \in SUBSET (DOMAIN message)
      /\ Out!Current(w) \in DOMAIN message
  BY TickParts DEF Out!MarkSent, Out!MarkFailed, Out!At
<1>2. PICK mark \in {"SENT", "FAILED"} : Out!Marks(w, mark)
  BY DEF Out!MarkSent, Out!MarkFailed
<1>3. UNCHANGED <<passed, breaks>>
  BY DEF Out!MarkSent, Out!MarkFailed, Out!history
<1>4. message' = [message EXCEPT ![Out!Current(w)] = mark]
  BY <1>2 DEF Out!Marks
<1>5. /\ tick'[w] = IF tick[w].batch \ {Out!Current(w)} = {} THEN Out!Idle
                    ELSE [pc |-> "sending", batch |-> tick[w].batch \ {Out!Current(w)}]
      /\ Only(w)
  BY <1>1, <1>2, TickGoes DEF Out!Marks, Only
<1>6. ASSUME NEW v \in Scheduler, NEW m \in Out!Messages, NEW n \in Behind(v, m)
      PROVE  n \in Behind(v, m)'
  <2>1. n \in 1..(m - 1) /\ n \in DOMAIN message /\ (message[n] # "PENDING" \/ Holds(v, n))
    BY DEF Behind
  <2>2. DOMAIN message' = DOMAIN message
    BY <1>4
  <2>3. CASE n = Out!Current(w)
    <3>1. message'[n] = mark /\ mark # "PENDING"
      BY <1>4, <2>1, <2>3
    <3> QED BY <2>1, <2>2, <3>1 DEF Behind
  <2>4. CASE n # Out!Current(w)
    <3>1. message'[n] = message[n]
      BY <1>4, <2>1, <2>4
    <3>2. Holds(v, n) => Holds(v, n)'
      <4>1. CASE v = w
        BY <1>5, <2>4, <4>1 DEF Holds
      <4>2. CASE v # w
        BY <1>5, <4>2 DEF Only, Holds
      <4> QED BY <4>1, <4>2
    <3> QED BY <2>1, <2>2, <3>1, <3>2 DEF Behind
  <2> QED BY <2>3, <2>4
<1> QED BY <1>1, <1>3, <1>5, <1>6 DEF Out!Idle

LEMMA WaitStep ==
  ASSUME Out!TypeOK, Out!TypeOK', WaitCounted, [Out!Next]_(Out!vars)
  PROVE  WaitCounted'
<1>0. /\ \A w \in Scheduler, m \in Out!Messages : passed[w][m] \in Nat
      /\ breaks \in Nat /\ breaks' \in Nat
  BY BoundAssumption DEF Out!TypeOK
<1>1. CASE Out!Queue
  <2>1. /\ UNCHANGED <<tick, breaks, passed>> /\ message' = Append(message, "PENDING")
    BY <1>1 DEF Out!Queue, Out!history
  <2>2. /\ DOMAIN message \subseteq DOMAIN message'
        /\ \A m \in DOMAIN message : message'[m] = message[m]
    <3>1. message \in Seq({"PENDING", "SENT", "FAILED"})
      BY DEF Out!TypeOK
    <3> QED BY <2>1, <3>1
  <2>3. \A w \in Scheduler, m \in Out!Messages : Behind(w, m) \subseteq Behind(w, m)'
    BY <2>1, <2>2 DEF Behind, Holds
  <2>4. ASSUME NEW w \in Scheduler, NEW m \in Out!Messages
        PROVE  (passed[w][m] * Limit <= Cardinality(Behind(w, m)) + breaks * Limit)'
    BY <1>0, <2>1, <2>3, BehindKept
  <2> QED BY <2>1, <2>4 DEF WaitCounted
<1>2. ASSUME NEW w \in Scheduler, Out!Fetch(w) PROVE WaitCounted'
  <2>1. /\ Out!Goto(w, "sending", Out!PendingMessages) /\ UNCHANGED <<message, breaks>>
        /\ \A v \in Scheduler \ {w} : passed'[v] = passed[v]
    BY <1>2 DEF Out!Fetch, Out!TypeOK
  <2>2. /\ tick'[w] = IF Out!PendingMessages = {} THEN Out!Idle
                      ELSE [pc |-> "sending", batch |-> Out!PendingMessages]
        /\ Only(w)
    <3>1. Out!PendingMessages \in SUBSET (DOMAIN message)
      BY PendingParts
    <3> QED BY <2>1, <3>1, TickGoes DEF Only
  <2>3. tick'[w].pc # "idle" => Cardinality(tick'[w].batch) <= Limit
    BY <2>2, BatchSmall DEF Out!Idle
  <2>4. ASSUME NEW v \in Scheduler \ {w}, NEW m \in Out!Messages
        PROVE  (passed[v][m] * Limit <= Cardinality(Behind(v, m)) + breaks * Limit)'
    <3>1. Behind(v, m) \subseteq Behind(v, m)'
      BY <2>1, <2>2 DEF Behind, Holds, Only
    <3> QED BY <1>0, <2>1, <3>1, BehindKept
  <2>5. \A v \in Scheduler \ {w} :
          tick'[v].pc # "idle" => Cardinality(tick'[v].batch) <= Limit
    BY <2>2 DEF Only, WaitCounted
  <2>6. \A m \in Out!Messages :
          (passed[w][m] * Limit <= Cardinality(Behind(w, m)) + breaks * Limit)'
    BY <1>2, FetchWaits
  <2> QED BY <2>3, <2>4, <2>5, <2>6 DEF WaitCounted
<1>3. ASSUME NEW w \in Scheduler, Out!Deliver(w) \/ Out!Refuse(w) PROVE WaitCounted'
  <2>1. /\ UNCHANGED <<message, breaks, passed>>
        /\ tick[w].pc # "idle"
        /\ \E pc \in {"sent", "refused"} : Out!Goto(w, pc, tick[w].batch)
    BY <1>3 DEF Out!Deliver, Out!Refuse, Out!history, Out!At
  <2>2. /\ tick'[w].pc # "idle" /\ tick'[w].batch = tick[w].batch /\ Only(w)
    <3>1. tick[w].batch \in SUBSET (DOMAIN message) /\ tick[w].batch # {}
      BY <2>1, TickParts
    <3>2. PICK pc \in {"sent", "refused"} : Out!Goto(w, pc, tick[w].batch)
      BY <2>1
    <3>3. tick'[w] = [pc |-> pc, batch |-> tick[w].batch] /\ Only(w)
      BY <3>1, <3>2, TickGoes DEF Only
    <3> QED BY <3>3
  <2>3. \A v \in Scheduler, m \in Out!Messages : Behind(v, m) \subseteq Behind(v, m)'
    BY <2>1, <2>2 DEF Behind, Holds, Only
  <2>4. ASSUME NEW v \in Scheduler, NEW m \in Out!Messages
        PROVE  (passed[v][m] * Limit <= Cardinality(Behind(v, m)) + breaks * Limit)'
    BY <1>0, <2>1, <2>3, BehindKept
  <2>5. \A v \in Scheduler : tick'[v].pc # "idle" => Cardinality(tick'[v].batch) <= Limit
    BY <2>1, <2>2 DEF Only, WaitCounted
  <2> QED BY <2>4, <2>5 DEF WaitCounted
<1>4. ASSUME NEW w \in Scheduler, Out!MarkSent(w) \/ Out!MarkFailed(w) PROVE WaitCounted'
  <2>1. ASSUME NEW v \in Scheduler, NEW m \in Out!Messages
        PROVE  (passed[v][m] * Limit <= Cardinality(Behind(v, m)) + breaks * Limit)'
    <3>1. Behind(v, m) \subseteq Behind(v, m)' /\ UNCHANGED <<passed, breaks>>
      BY <1>4, MarkWaits
    <3> QED BY <1>0, <3>1, BehindKept
  <2>2. ASSUME tick'[w].pc # "idle" PROVE Cardinality(tick'[w].batch) <= Limit
    <3>1. tick'[w].batch \in SUBSET tick[w].batch /\ tick[w].pc # "idle"
      BY <1>4, <2>2, MarkWaits
    <3>2. IsFiniteSet(tick[w].batch)
      BY <3>1, BatchFinite
    <3>3. /\ Cardinality(tick'[w].batch) <= Cardinality(tick[w].batch)
          /\ Cardinality(tick'[w].batch) \in Nat /\ Cardinality(tick[w].batch) \in Nat
      BY <3>1, <3>2, FS_Subset, FS_CardinalityType
    <3>4. Cardinality(tick[w].batch) <= Limit
      BY <3>1 DEF WaitCounted
    <3> QED BY <3>3, <3>4, LimitAssumption
  <2>3. \A v \in Scheduler \ {w} :
          tick'[v].pc # "idle" => Cardinality(tick'[v].batch) <= Limit
    BY <1>4, MarkWaits DEF Only, WaitCounted
  <2> QED BY <2>1, <2>2, <2>3 DEF WaitCounted
<1>5. ASSUME NEW w \in Scheduler, Out!Break(w) PROVE WaitCounted'
  <2>1. /\ UNCHANGED <<message, passed>> /\ breaks' = breaks + 1 /\ tick[w].pc # "idle"
        /\ \/ Out!Goto(w, "refused", tick[w].batch)
           \/ Out!Goto(w, "idle", {})
    BY <1>5 DEF Out!Break, Out!history, Out!At
  <2>2. /\ \/ tick'[w].batch = tick[w].batch
           \/ tick'[w].pc = "idle"
        /\ Only(w)
    <3>1. tick[w].batch \in SUBSET (DOMAIN message) /\ tick[w].batch # {}
      BY <2>1, TickParts
    <3>2. CASE Out!Goto(w, "refused", tick[w].batch)
      <4>1. tick'[w] = [pc |-> "refused", batch |-> tick[w].batch] /\ Only(w)
        BY <3>1, <3>2, TickGoes DEF Only
      <4> QED BY <4>1
    <3>3. CASE Out!Goto(w, "idle", {})
      <4>1. tick'[w] = Out!Idle /\ Only(w)
        BY <3>3, TickGoes DEF Only
      <4> QED BY <4>1 DEF Out!Idle
    <3> QED BY <2>1, <3>2, <3>3
  <2>3. ASSUME NEW v \in Scheduler \ {w}, NEW m \in Out!Messages
        PROVE  (passed[v][m] * Limit <= Cardinality(Behind(v, m)) + breaks * Limit)'
    <3>1. Behind(v, m) \subseteq Behind(v, m)'
      BY <2>1, <2>2 DEF Behind, Holds, Only
    <3> QED BY <1>0, <2>1, <3>1, BehindKept
  <2>4. \A m \in Out!Messages :
          (passed[w][m] * Limit <= Cardinality(Behind(w, m)) + breaks * Limit)'
    BY <1>5, BreakWaits
  <2>5. \A v \in Scheduler : tick'[v].pc # "idle" => Cardinality(tick'[v].batch) <= Limit
    BY <2>1, <2>2 DEF Only, WaitCounted
  <2> QED BY <2>3, <2>4, <2>5 DEF WaitCounted
<1>6. CASE UNCHANGED Out!vars
  BY <1>6 DEF Out!vars, Out!history, WaitCounted, Behind, Holds
<1> QED BY <1>1, <1>2, <1>3, <1>4, <1>5, <1>6 DEF Out!Next, Out!TickStep

LEMMA WaitStart == Out!Init => WaitCounted
<1> SUFFICES ASSUME Out!Init PROVE WaitCounted
  OBVIOUS
<1>1. breaks = 0 /\ \A w \in Scheduler : tick[w].pc = "idle"
  BY DEF Out!Init, Out!Idle
<1>2. ASSUME NEW w \in Scheduler, NEW m \in Out!Messages
      PROVE  passed[w][m] * Limit <= Cardinality(Behind(w, m)) + breaks * Limit
  <2>1. m \in Nat \ {0}
    BY MessagesAssumption DEF Out!Messages
  <2>2. Cardinality(Behind(w, m)) \in Nat
    BY <2>1, BehindFinite
  <2>3. passed[w][m] = 0
    BY <1>2 DEF Out!Init
  <2> QED BY <1>1, <2>2, <2>3, LimitAssumption
<1> QED BY <1>1, <1>2 DEF WaitCounted

\* However many messages cannot be sent, a scheduler passes none over more often than the
\* messages before it fill batches, and once for each tick that broke off.
THEOREM MessagesSoonTried == Out!Spec => []Out!SoonTried
<1>1. Out!TypeOK /\ WaitCounted => Out!SoonTried
  <2> SUFFICES ASSUME Out!TypeOK, WaitCounted, NEW w \in Scheduler, NEW m \in DOMAIN message
               PROVE  passed[w][m] * Limit < m + breaks * Limit
    BY DEF Out!SoonTried
  <2>1. m \in Out!Messages
    BY MessageParts
  <2>2. m \in Nat \ {0} /\ passed[w][m] \in Nat /\ breaks \in Nat
    BY <2>1, MessagesAssumption, BoundAssumption DEF Out!Messages, Out!TypeOK
  <2>3. Cardinality(Behind(w, m)) \in Nat /\ Cardinality(Behind(w, m)) <= m - 1
    BY <2>2, BehindFinite
  <2>4. passed[w][m] * Limit \in Nat /\ breaks * Limit \in Nat
    BY <2>2, LimitAssumption
  <2>5. passed[w][m] * Limit <= Cardinality(Behind(w, m)) + breaks * Limit
    BY <2>1 DEF WaitCounted
  <2> QED BY <2>2, <2>3, <2>4, <2>5
<1>2. Out!Init => Out!TypeOK
  BY OutStart
<1> QED BY <1>1, <1>2, WaitStart, OutTypeStep, WaitStep, PTL DEF Out!Spec

-------------------------------------------------------------------------------
(* Subscriptions and the outbox side by side *)

\* Each side steps as it does alone.
LEMMA WorkerParts == WorkerSpec => (Init /\ [][Next]_vars) /\ Out!Spec
<1>1. WorkerInit => Init /\ Out!Init
  BY DEF WorkerInit
<1>2. [WorkerNext]_<<vars, outbox>> => [Next]_vars /\ [Out!Next]_(Out!vars)
  BY DEF WorkerNext, Quietly, OutQuietly, outbox, Out!vars, Out!history
<1> QED BY <1>1, <1>2, PTL DEF WorkerSpec, Out!Spec

\* In the worker's rounds, work that waits for an operator is among the open tasks.
THEOREM WorkerLists == WorkerSpec => []WorkListed
BY WorkerParts, WorkIsListed, PTL

\* In the worker's rounds, every copy of a message has its reason.
THEOREM WorkerCopies == WorkerSpec => []CopiesExplained
<1>1. Out!TypeOK /\ Out!CopiesExplained => CopiesExplained
  BY DEF CopiesExplained
<1> QED BY <1>1, WorkerParts, CopiesHaveReasons, PTL

\* In the worker's rounds, no message is passed over for long.
THEOREM WorkerTriesSoon == WorkerSpec => []SoonTried
<1>1. Out!SoonTried => SoonTried
  BY DEF SoonTried
<1> QED BY <1>1, WorkerParts, MessagesSoonTried, PTL
===============================================================================
