--------------------------------- MODULE Seed ---------------------------------
(***************************************************************************)
(* The seed script: rows written one by one with upserts, by runs that may *)
(* break off anywhere, be started again and cross each other, while the    *)
(* application already works on what is there.  docker compose runs it at  *)
(* every start of the stack.  A section stands for the rows of one kind or *)
(* of one part of a scenario, and is there when all of them are; what an   *)
(* upsert writes back when the row exists is named by the decision of an   *)
(* operator it overwrites.                                                 *)
(***************************************************************************)
EXTENDS Naturals, Sequences

CONSTANTS
  Run,       \* runs of the script under way
  Decision,  \* what operators decide here
  MaxStarts  \* bound: how often the script is started

AnyDecision ==
  {"role", "product", "price", "owner", "group", "faq", "stop", "mode", "consent", "bank",
   "refund"}

VARIABLES
  there,    \* the sections whose rows are all there
  at,       \* the section each run is at; 0 when it is not under way
  holder,   \* who has the slots the scenarios want
  decided,  \* what operators have decided otherwise than the seed
  starts,   \* how often the script has been started
  finished, \* history: a run has got to its end
  undone,   \* history: a run has taken a decision back
  later     \* history: decisions made since each run has passed their section

vars == <<there, at, holder, decided, starts, finished, undone, later>>

\* The parts of the script in its order: the catalogue, the supply, the scenarios of a paid,
\* a waiting and an ending subscription, the texts and the switches.
Steps ==
  <<"policies", "users", "products", "plans", "owners", "groups",
    "pending", "active", "activeSeat", "activeInvite",
    "waiting", "waitingSeat", "waitingInvite", "expiring", "refund",
    "faqs", "notices", "settings", "family">>

Section == {Steps[i] : i \in 1..Len(Steps)}

\* The sections whose rows the rows of one refer to.
Refers(k) ==
  CASE k = "plans" -> {"products"}
    [] k = "groups" -> {"products", "owners"}
    [] k \in {"pending", "active", "waiting", "expiring", "refund"} -> {"users", "plans"}
    [] k = "activeSeat" -> {"active", "groups"}
    [] k = "activeInvite" -> {"activeSeat"}
    [] k = "waitingSeat" -> {"waiting", "groups"}
    [] k = "waitingInvite" -> {"waitingSeat"}
    [] k = "notices" -> {"users"}
    [] k = "family" -> {"groups", "owners"}
    [] OTHER -> {}

\* Where the row is that holds a decision.
RowOf(d) ==
  CASE d = "role" -> "users"
    [] d = "product" -> "products"
    [] d = "price" -> "plans"
    [] d = "owner" -> "owners"
    [] d = "group" -> "groups"
    [] d = "faq" -> "faqs"
    [] d \in {"stop", "bank"} -> "settings"
    [] d \in {"mode", "consent"} -> "family"
    [] d = "refund" -> "refund"

\* The fields in the update of the upserts; a consent of the owner is given anew each time.
WritesBack(k) == {d \in Decision \ {"bank", "refund"} : RowOf(d) = k}

\* The first slot of the full group, in no order, and the second of the open one.
Slot == {"full0", "full1", "open1"}
Wanted(k) == IF k = "activeSeat" THEN {"full0", "full1"} ELSE {"open1"}
Seats == {"activeSeat", "waitingSeat"}

Init ==
  /\ there = {}
  /\ at = [r \in Run |-> 0]
  /\ holder = [s \in Slot |-> "nobody"]
  /\ decided = {}
  /\ starts = 0
  /\ finished = FALSE
  /\ undone = FALSE
  /\ later = [r \in Run |-> {}]

-------------------------------------------------------------------------------
(* The script *)

Start(r) ==
  /\ at[r] = 0
  /\ starts < MaxStarts
  /\ starts' = starts + 1
  /\ at' = [at EXCEPT ![r] = 1]
  /\ later' = [later EXCEPT ![r] = {}]
  /\ UNCHANGED <<there, holder, decided, finished, undone>>

\* Seeded fault: a row that exists stays as it is.
WrittenOnce(r, k) ==
  /\ there' = there \cup {k}
  /\ at' = [at EXCEPT ![r] = IF @ = Len(Steps) THEN 0 ELSE @ + 1]
  /\ finished' = (finished \/ at[r] = Len(Steps))
  /\ UNCHANGED <<decided, starts, undone, later>>

\* A run has written section k.
Written(r, k) ==
  /\ there' = there \cup {k}
  /\ decided' = decided \ WritesBack(k)
  /\ undone' = (undone \/ WritesBack(k) \cap decided # {})
  /\ at' = [at EXCEPT ![r] = IF @ = Len(Steps) THEN 0 ELSE @ + 1]
  /\ finished' = (finished \/ at[r] = Len(Steps))
  /\ UNCHANGED <<starts, later>>

Write(r) ==
  /\ at[r] # 0 /\ Steps[at[r]] \notin Seats
  /\ Written(r, Steps[at[r]])
  /\ UNCHANGED holder

\* Seeded fault: a scenario whose slot is taken goes without a seat.
WriteSeatOrNot(r) ==
  /\ at[r] # 0 /\ Steps[at[r]] \in Seats
  /\ LET k == Steps[at[r]] IN
       \/ /\ k \in there
          /\ Written(r, k) /\ UNCHANGED holder
       \/ /\ k \notin there
          /\ \E s \in Wanted(k) :
               \/ holder[s] = "nobody" /\ holder' = [holder EXCEPT ![s] = k] /\ Written(r, k)
               \/ /\ holder[s] # "nobody"
                  /\ at' = [at EXCEPT ![r] = @ + 1]
                  /\ UNCHANGED <<there, holder, decided, starts, finished, undone, later>>

\* The allocation is made once, and stays as it is when its seat has been given back.
WriteSeat(r) ==
  /\ at[r] # 0 /\ Steps[at[r]] \in Seats
  /\ LET k == Steps[at[r]] IN
       \/ /\ k \in there
          /\ Written(r, k) /\ UNCHANGED holder
       \/ /\ k \notin there
          /\ \E s \in Wanted(k) :
               /\ holder[s] = "nobody"
               /\ holder' = [holder EXCEPT ![s] = k]
          /\ Written(r, k)

\* The index on live allocations refuses the seat, or the process dies, or two upserts of
\* the same row cross.
BreakOff(r) ==
  /\ at[r] # 0
  /\ at' = [at EXCEPT ![r] = 0]
  /\ UNCHANGED <<there, holder, decided, starts, finished, undone, later>>

-------------------------------------------------------------------------------
(* The application *)

\* An operator changes what is there.
Decide(d) ==
  /\ RowOf(d) \in there
  /\ d \notin decided
  /\ decided' = decided \cup {d}
  /\ later' = [r \in Run |->
                IF \E i \in 1..Len(Steps) : Steps[i] = RowOf(d) /\ i < at[r]
                THEN later[r] \cup {d} ELSE later[r]]
  /\ UNCHANGED <<there, at, holder, starts, finished, undone>>

\* A customer is seated, or a seat is given back.
Seat(s) ==
  /\ "groups" \in there
  /\ holder' = [holder EXCEPT ![s] = IF @ = "nobody" THEN "customer" ELSE "nobody"]
  /\ UNCHANGED <<there, at, decided, starts, finished, undone, later>>

Next ==
  \/ \E r \in Run : Start(r) \/ Write(r) \/ WriteSeat(r) \/ BreakOff(r)
  \/ \E d \in Decision : Decide(d)
  \/ \E s \in Slot : Seat(s)

Spec == Init /\ [][Next]_vars

-------------------------------------------------------------------------------
(* Properties *)

\* However often the script has broken off, what a row refers to is there.
References == \A k \in there : Refers(k) \subseteq there

\* Once a run has got to its end the scenarios have everything, their seats as well.
ScenariosWhole == finished => there = Section

\* What a run has passed is as seeded where it writes back, unless decided since.
WrittenBack ==
  \A r \in Run : \A i \in 1..Len(Steps) :
    i < at[r] => WritesBack(Steps[i]) \cap decided \subseteq later[r]

\* What the deployment guide rules out: that a run on a database in use takes back what
\* operators have decided.
DecisionsStand == ~undone
===============================================================================
