-------------------------------- MODULE Outbox --------------------------------
(***************************************************************************)
(* The outbox of e-mails: rows that requests and jobs create as PENDING,   *)
(* and the ticks of the schedulers, each of which reads a batch, sends it  *)
(* message by message and then marks what became of the message.  Several  *)
(* schedulers run at once, and a tick may break off anywhere.              *)
(***************************************************************************)
EXTENDS Naturals, Sequences, FiniteSets

CONSTANTS
  Scheduler,    \* the processes that run ticks: apps/worker, the web server, cron route
  Limit,        \* how many messages a tick reads
  MaxMessages,  \* bound: how many messages there ever are
  MaxCrashes    \* bound: how many ticks break off

VARIABLES
  message,   \* status of each message, in the order of scheduledAt
  copies,    \* how many copies of each message the mail server has accepted
  tick,      \* where each scheduler's tick is
  crashes,   \* how many ticks have broken off
  overlaps,  \* history: how often a message was read while another tick had it
  passed     \* history: how often ticks of a scheduler left a PENDING message for later

history == <<overlaps, passed>>
vars == <<message, copies, tick, crashes, history>>

-------------------------------------------------------------------------------
Messages == 1..MaxMessages

\* sending: it sends the first message of its batch next; sent, refused: it marks it.
Idle == [pc |-> "idle"]
TickAt ==
  {Idle} \cup [pc : {"sending", "sent", "refused"}, batch : (SUBSET Messages) \ {{}}]

TypeOK ==
  /\ message \in Seq({"PENDING", "SENT", "FAILED"}) /\ Len(message) <= MaxMessages
  /\ copies \in [Messages -> Nat]
  /\ tick \in [Scheduler -> TickAt]
  /\ \A w \in Scheduler : tick[w] # Idle => tick[w].batch \subseteq DOMAIN message
  /\ crashes \in 0..MaxCrashes
  /\ overlaps \in [Messages -> Nat]
  /\ passed \in [Scheduler -> [Messages -> Nat]]

Init ==
  /\ message = <<>>
  /\ copies = [m \in Messages |-> 0]
  /\ tick = [w \in Scheduler |-> Idle]
  /\ crashes = 0
  /\ overlaps = [m \in Messages |-> 0]
  /\ passed = [w \in Scheduler |-> [m \in Messages |-> 0]]

At(w, pc) == tick[w].pc = pc

Goto(w, pc, batch) ==
  tick' = [tick EXCEPT ![w] = IF batch = {} THEN Idle ELSE [pc |-> pc, batch |-> batch]]

Oldest(S) == CHOOSE m \in S : \A n \in S : m <= n

Current(w) == Oldest(tick[w].batch)

\* The message at hand is marked and the loop goes on with the rest.
Marks(w, status) ==
  /\ message' = [message EXCEPT ![Current(w)] = status]
  /\ Goto(w, "sending", tick[w].batch \ {Current(w)})

-------------------------------------------------------------------------------
(* Steps *)

\* A password reset or a family event queues a message.
Queue ==
  /\ Len(message) < MaxMessages
  /\ message' = Append(message, "PENDING")
  /\ UNCHANGED <<copies, tick, crashes, history>>

\* Seeded fault: the batch is of messages that have not been sent, FAILED ones included.
PendingUnsent ==
  LET Waits(m) == message[m] # "SENT" IN
  {m \in DOMAIN message :
     Waits(m) /\ Cardinality({n \in 1..(m - 1) : Waits(n)}) < Limit}

\* Seeded fault: the oldest messages are taken first and the PENDING ones kept of them.
PendingOfOldest == {m \in DOMAIN message : m <= Limit /\ message[m] = "PENDING"}

\* getPendingOutboxMessages: the oldest Limit of the PENDING messages.
PendingMessages ==
  LET Waits(m) == message[m] = "PENDING" IN
  {m \in DOMAIN message :
     Waits(m) /\ Cardinality({n \in 1..(m - 1) : Waits(n)}) < Limit}

Untried(m) == m \in DOMAIN message /\ message[m] = "PENDING"

Fetch(w) ==
  /\ At(w, "idle")
  /\ Goto(w, "sending", PendingMessages)
  /\ overlaps' =
       [m \in Messages |->
          overlaps[m] + IF /\ m \in PendingMessages
                           /\ \E v \in Scheduler : ~At(v, "idle") /\ m \in tick[v].batch
                        THEN 1 ELSE 0]
  /\ passed' =
       [passed EXCEPT ![w] =
          [m \in Messages |->
             @[m] + IF Untried(m) /\ m \notin PendingMessages THEN 1 ELSE 0]]
  /\ UNCHANGED <<message, copies, crashes>>

\* The mail server takes the message.
Deliver(w) ==
  /\ At(w, "sending")
  /\ copies' = [copies EXCEPT ![Current(w)] = @ + 1]
  /\ Goto(w, "sent", tick[w].batch)
  /\ UNCHANGED <<message, crashes, history>>

\* sendMail throws, without the server having taken the message or after it has.
Refuse(w) ==
  /\ At(w, "sending")
  /\ \E taken \in {0, 1} : copies' = [copies EXCEPT ![Current(w)] = @ + taken]
  /\ Goto(w, "refused", tick[w].batch)
  /\ UNCHANGED <<message, crashes, history>>

MarkSent(w) ==
  /\ At(w, "sent")
  /\ Marks(w, "SENT")
  /\ UNCHANGED <<copies, crashes, history>>

\* The catch of the loop.
MarkFailed(w) ==
  /\ At(w, "refused")
  /\ Marks(w, "FAILED")
  /\ UNCHANGED <<copies, crashes, history>>

\* Marking SENT fails and the same catch marks a message FAILED that was sent; or the
\* process dies, or marking FAILED fails too, and the tick is over.
Break(w) ==
  /\ ~At(w, "idle")
  /\ crashes < MaxCrashes
  /\ crashes' = crashes + 1
  /\ \/ At(w, "sent") /\ Goto(w, "refused", tick[w].batch)
     \/ Goto(w, "idle", {})
  /\ UNCHANGED <<message, copies, history>>

TickStep(w) == Fetch(w) \/ Deliver(w) \/ Refuse(w) \/ MarkSent(w) \/ MarkFailed(w)

Next == Queue \/ \E w \in Scheduler : TickStep(w) \/ Break(w)

Spec == Init /\ [][Next]_vars

-------------------------------------------------------------------------------
(* Properties *)

\* A message marked SENT has left the house, and a second copy of any message has a
\* reason: a tick that broke off before it had marked the message, or two ticks that
\* had read it at the same time.  Nothing else sends twice; FAILED is final.
CopiesExplained ==
  \A m \in DOMAIN message :
    /\ message[m] = "SENT" => copies[m] > 0
    /\ copies[m] <= 1 + crashes + overlaps[m]

\* A message does not wait behind others for longer than they take: a tick reads the oldest
\* few only and each scheduler, as long as its ticks do not break off, is done with those
\* it has read before it reads again, whether they could be sent or not.
SoonTried ==
  \A w \in Scheduler, m \in DOMAIN message :
    passed[w][m] * Limit < m + crashes * Limit
===============================================================================
