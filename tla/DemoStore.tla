------------------------------- MODULE DemoStore -------------------------------
(***************************************************************************)
(* The database of the static demo: one value that a page of the site      *)
(* holds in memory and writes to localStorage as a whole.  Every operation *)
(* is a function from a database to the one after it; what the pages offer *)
(* of it is here too, since the operations rely on that.  There is one     *)
(* product.  The audit log, the notices an operation leaves behind and the *)
(* failed logins are not in it.                                            *)
(***************************************************************************)
EXTENDS Naturals, Sequences, FiniteSetsExt

CONSTANTS
  Row,   \* identifiers of the rows of a table; uid draws them at random
  Text,  \* what is written and nothing else depends on: FAQs, tickets, notices, settings
  Room   \* totalCapacity of a group

\* A row that is referred to by nothing.
None == 0

\* admin: SUPER_ADMIN, OPERATOR or SUPPORT, which isAdmin treats the same.
User == [email : {"admin", "member", "new"}, admin : BOOLEAN, active : BOOLEAN]

\* invite: inviteStatus of the subscription, which is WAITING until it is ACTIVATED.
Subscription == [order : Row, invite : {"PENDING", "SENT", "ACTIVATED"}, group : Nat]

Task == [type : {"MANUAL_PAYMENT_CONFIRM", "INVITE_SEND", "INVITE_ACTIVATE"}, of : Row,
         done : BOOLEAN]

Pending(type, row) == [type |-> type, of |-> row, done |-> FALSE]

\* A table with one row more.
Put(table, r, row) == [x \in DOMAIN table \cup {r} |-> IF x = r THEN row ELSE table[x]]

\* The rows that matter here: one operator, one member, whose invitation has been sent.
SeedUsers ==
  <<[email |-> "admin", admin |-> TRUE, active |-> TRUE],
    [email |-> "member", admin |-> FALSE, active |-> TRUE]>>

SeedOrders == <<[of |-> 2, status |-> "CONFIRMED"]>>

SeedSubscriptions == <<[order |-> 1, invite |-> "SENT", group |-> 1]>>

SeedTasks == {Pending("INVITE_ACTIVATE", 1)}

SeedDb ==
  [users   |-> SeedUsers,
   product |-> "active",
   groups  |-> <<[used |-> 1, room |-> Room]>>,
   orders  |-> SeedOrders,
   subs    |-> SeedSubscriptions,
   invites |-> <<[sub |-> 1, status |-> "SENT"]>>,
   tasks   |-> SeedTasks,
   texts   |-> {}]

IsAdmin(db, u) == u \in DOMAIN db.users /\ db.users[u].active /\ db.users[u].admin

-------------------------------------------------------------------------------
(* Orders *)

\* viewProductDetail, and what createOrder asks for again.
Orderable(db) == db.product = "active"

CreateOrder(db, u, o) ==
  [db EXCEPT !.orders = Put(@, o, [of |-> u, status |-> "AWAITING_PAYMENT"]),
             !.tasks = @ \cup {Pending("MANUAL_PAYMENT_CONFIRM", o)}]

\* viewAdminOrders shows the button of orders that wait.
Confirmable(db) == {o \in DOMAIN db.orders : db.orders[o].status = "AWAITING_PAYMENT"}

ConfirmOrderDemo(db, o, s) ==
  IF db.orders[o].status = "CONFIRMED" THEN db
  ELSE [db EXCEPT
          !.orders[o].status = "CONFIRMED",
          !.subs = Put(@, s, [order |-> o, invite |-> "PENDING", group |-> None]),
          !.tasks = {k \in @ : k.type # "MANUAL_PAYMENT_CONFIRM" \/ k.of # o}
                      \cup {Pending("INVITE_SEND", s)}]

\* viewOrderDetail shows the button of one's own orders that wait.
Cancellable(db, u) ==
  {o \in DOMAIN db.orders : db.orders[o] = [of |-> u, status |-> "AWAITING_PAYMENT"]}

\* The task stays.
CancelOrder(db, u, o) ==
  IF db.orders[o].of # u \/ db.orders[o].status = "CONFIRMED" THEN db
  ELSE [db EXCEPT !.orders[o].status = "CANCELLED"]

-------------------------------------------------------------------------------
(* Invitations *)

\* Seeded fault: the button is there for every subscription that waits.
SendableAgain(db) == {s \in DOMAIN db.subs : db.subs[s].invite # "ACTIVATED"}

\* viewAdminInvites lists subscriptions that wait, with a button unless the invitation is
\* out already.
Sendable(db) == {s \in DOMAIN db.subs : db.subs[s].invite \notin {"SENT", "ACTIVATED"}}

\* The first group with room, in the order they were made.
FreeGroup(db) ==
  LET free == {g \in DOMAIN db.groups : db.groups[g].used < db.groups[g].room} IN
  IF free = {} THEN None ELSE Min(free)

\* The subscription and the groups when its invitation has gone out; g: the group found, if any.
Sent(sub, g) == [sub EXCEPT !.invite = "SENT", !.group = IF g = None THEN @ ELSE g]
Taken(groups, g) == IF g = None THEN groups ELSE [groups EXCEPT ![g].used = @ + 1]

\* The invitation goes out even when no group has room.
SendInvite(db, s, i) ==
  LET g == FreeGroup(db) IN
  [db EXCEPT
     !.invites = Put(@, i, [sub |-> s, status |-> "SENT"]),
     !.subs[s] = Sent(@, g),
     !.groups = Taken(@, g),
     !.tasks = (@ \ {Pending("INVITE_SEND", s)}) \cup {Pending("INVITE_ACTIVATE", i)}]

\* The second table of viewAdminInvites.
Activatable(db) == {i \in DOMAIN db.invites : db.invites[i].status = "SENT"}

\* Seeded fault: all tasks of that type are taken off the list.
ActivateInviteAll(db, i) ==
  [db EXCEPT !.invites[i].status = "ACTIVATED",
             !.subs[db.invites[i].sub].invite = "ACTIVATED",
             !.tasks = {k \in @ : k.type # "INVITE_ACTIVATE" \/ k.done}]

ActivateInvite(db, i) ==
  [db EXCEPT !.invites[i].status = "ACTIVATED",
             !.subs[db.invites[i].sub].invite = "ACTIVATED",
             !.tasks = @ \ {Pending("INVITE_ACTIVATE", i)}]

\* viewAdminDash lists what is to be done.
Completable(db) == {k \in db.tasks : ~k.done}

CompleteTask(db, k) == [db EXCEPT !.tasks = (@ \ {k}) \cup {[k EXCEPT !.done = TRUE]}]

-------------------------------------------------------------------------------
(* The rest of the console, and texts *)

SetUserRole(db, u, admin) == [db EXCEPT !.users[u].admin = admin]

\* viewAdminMembers shows the one button or the other.
SetUserActive(db, u) == [db EXCEPT !.users[u].active = ~@]

\* Seeded fault: the groups of a product are deleted with it.
SaveProductGroups(db, state) ==
  [db EXCEPT !.product = state, !.groups = IF state = "gone" THEN <<>> ELSE @]

\* The product is edited, which may take it off the site; "gone": it has been deleted.
SaveProduct(db, state) == [db EXCEPT !.product = state]

\* Only a new group is ever saved.
SaveGroup(db) == [db EXCEPT !.groups = Append(@, [used |-> 0, room |-> Room])]

\* A text is in db.texts when it is not as it was seeded.
WriteText(db, k) == [db EXCEPT !.texts = IF k \in @ THEN @ \ {k} ELSE @ \cup {k}]

-------------------------------------------------------------------------------
(* Accounts *)

WithEmail(db, email) == {u \in DOMAIN db.users : db.users[u].email = email}

Register(db, u) ==
  [db EXCEPT !.users = Put(@, u, [email |-> "new", admin |-> FALSE, active |-> TRUE])]

-------------------------------------------------------------------------------
(* What holds of a database *)

\* An order is confirmed exactly when there is a subscription for it, and only one.
BookedIn(db) ==
  \A o \in DOMAIN db.orders :
    Cardinality({s \in DOMAIN db.subs : db.subs[s].order = o})
      = IF db.orders[o].status = "CONFIRMED" THEN 1 ELSE 0

\* A group has as many slots in use as there are subscriptions in it, and no more than
\* it has.
SlotsCountedIn(db) ==
  \A g \in DOMAIN db.groups :
    /\ db.groups[g].used = Cardinality({s \in DOMAIN db.subs : db.subs[s].group = g})
    /\ db.groups[g].used <= db.groups[g].room

\* What waits for an operator has its task, unless he has ticked it off himself; and there
\* is no task of sending or confirming what is sent or confirmed.
TasksListedIn(db) ==
  LET Listed(type, row) == \E k \in db.tasks : k.type = type /\ k.of = row
      Open(type) == {k.of : k \in {j \in db.tasks : j.type = type /\ ~j.done}} IN
  /\ \A o \in DOMAIN db.orders :
       db.orders[o].status = "AWAITING_PAYMENT" => Listed("MANUAL_PAYMENT_CONFIRM", o)
  /\ \A s \in DOMAIN db.subs :
       db.subs[s].invite = "PENDING" => Listed("INVITE_SEND", s)
  /\ \A i \in DOMAIN db.invites :
       db.invites[i].status = "SENT" => Listed("INVITE_ACTIVATE", i)
  /\ Open("INVITE_SEND") \subseteq Sendable(db)
  /\ Open("INVITE_ACTIVATE") \subseteq Activatable(db)

\* after lacks something of before, or has it as it was at an earlier stage.
Lost(before, after) ==
  LET Stage(invite) ==
        CASE invite = "PENDING" -> 0 [] invite = "SENT" -> 1 [] invite = "ACTIVATED" -> 2 IN
  \/ \E u \in DOMAIN before.users : u \notin DOMAIN after.users
  \/ \E o \in DOMAIN before.orders :
       \/ o \notin DOMAIN after.orders
       \/ before.orders[o].status = "CONFIRMED" /\ after.orders[o].status # "CONFIRMED"
  \/ \E s \in DOMAIN before.subs :
       \/ s \notin DOMAIN after.subs
       \/ Stage(after.subs[s].invite) < Stage(before.subs[s].invite)
  \/ \E i \in DOMAIN before.invites : i \notin DOMAIN after.invites
  \/ Len(after.groups) < Len(before.groups)
===============================================================================
