-------------------------------- MODULE Worker --------------------------------
(***************************************************************************)
(* What the schedulers do in their rounds beside the waitlist: the life of *)
(* the subscriptions, and the outbox.  The two share no state, so nothing  *)
(* is lost by letting one work only while the other is as it began.        *)
(***************************************************************************)
EXTENDS Subscriptions, Sequences

CONSTANTS Limit, MaxMessages

VARIABLES message, copies, tick, breaks, overlaps, passed  \* Outbox's

Out == INSTANCE Outbox WITH crashes <- breaks

ASSUME LimitAssumption == Limit \in Nat \ {0}
ASSUME MessagesAssumption == MaxMessages \in Nat
ASSUME SchedulerAssumption == IsFiniteSet(Scheduler)

outbox == <<message, copies, tick, breaks, overlaps, passed>>

WorkerInit == Init /\ Out!Init

\* Nothing has been queued; the subscriptions are new ones that nobody has touched.
Quietly(step) == message = <<>> /\ step /\ UNCHANGED outbox
OutQuietly(step) ==
  /\ Init /\ \A s \in Sub : invitation[s] = "NONE" /\ expiry[s] = "unset"
  /\ step /\ UNCHANGED vars

WorkerNext == Quietly(Next) \/ OutQuietly(Out!Next)

WorkerSpec ==
  /\ WorkerInit
  /\ [][WorkerNext]_<<vars, outbox>>
  /\ \A w \in Scheduler : WF_vars(Quietly(RoundStep(w)))

\* A message marked SENT has left the house, and a second copy has a broken or an
\* overlapping tick behind it: processOutbox.
CopiesExplained == Out!TypeOK /\ Out!CopiesExplained

\* However many messages cannot be sent, those behind them wait a few ticks only: the tick
\* takes the oldest PENDING ones and gives each of them one try.
SoonTried == Out!SoonTried
===============================================================================
