------------------------------ MODULE StaticDemo ------------------------------
(***************************************************************************)
(* The static demo of the site in a browser: several tabs, each with its   *)
(* own copy of the database in memory, over one localStorage.  A tab reads *)
(* the storage when its page is loaded and never again, and every handler  *)
(* writes the whole copy back.  Handlers run one at a time in a tab but    *)
(* wait for hashes, and tabs know nothing of each other.                   *)
(***************************************************************************)
EXTENDS DemoStore

CONSTANTS
  Tab,
  Nothing,  \* no database
  MaxSaves  \* bound: how often the storage is written

ASSUME RowAssumption == Row \subseteq Nat \ {0} /\ IsFiniteSet(Row) /\ 1..3 \subseteq Row
ASSUME SavesAssumption == MaxSaves \in Nat /\ Room \in Nat \ {0}

VARIABLES
  stored,      \* the database in localStorage
  kept,        \* the session in localStorage, by its user: remember was ticked
  copy,        \* each tab's database
  session,     \* each tab's sessionStorage
  console,     \* the tabs that show a page of the console
  waits,       \* what each tab waits for
  saves,       \* how often the storage has been written
  overlapped   \* history: a tab has had two registrations under way at once

demoVars == <<stored, kept, copy, session, console, waits, saves, overlapped>>

\* seeding: _init has no database to read and makes one; resetting: reset.
\* registering: how many registrations have found their address free.
\* login: whose.
Waits ==
  [seeding : BOOLEAN, resetting : BOOLEAN, registering : 0..2, login : Row \cup {None}]
Quiet == [seeding |-> FALSE, resetting |-> FALSE, registering |-> 0, login |-> None]

Databases == ({stored} \cup {copy[t] : t \in Tab}) \ {Nothing}

\* The member has ordered, and ordered again after the operator had confirmed it.
Ordered == CreateOrder(SeedDb, 2, 2)
OrderedTwice == CreateOrder(ConfirmOrderDemo(Ordered, 2, 2), 2, 3)

\* Nobody has used the site before; or the operator is logged in everywhere, and there may
\* be orders of the member.
DemoInit ==
  /\ stored \in {Nothing, SeedDb, Ordered, ConfirmOrderDemo(OrderedTwice, 3, 3)}
  /\ kept = None
  /\ copy = [t \in Tab |-> Nothing]
  /\ session = [t \in Tab |-> IF stored = Nothing THEN None ELSE 1]
  /\ console = {}
  /\ waits = [t \in Tab |-> Quiet]
  /\ saves = 0
  /\ overlapped = FALSE

-------------------------------------------------------------------------------
(* Pages *)

Ready(t) == copy[t] # Nothing /\ ~waits[t].seeding

\* getSession and currentUser: the tab's own session goes before the kept one, and counts
\* only while its user is there and active in the tab's copy.
ActorIn(db, own, shared) ==
  LET u == IF own # None THEN own ELSE shared IN
  IF u \in DOMAIN db.users /\ db.users[u].active THEN u ELSE None

Actor(t) == ActorIn(copy[t], session[t], kept)

\* save: the whole copy.
Saves(t, db) ==
  /\ saves < MaxSaves
  /\ saves' = saves + 1
  /\ copy' = [copy EXCEPT ![t] = db]
  /\ stored' = db

\* The page is drawn again; requireAdmin leads away from the console who is no operator.
Renders(t) ==
  console' = IF IsAdmin(copy'[t], ActorIn(copy'[t], session'[t], kept'))
             THEN console ELSE console \ {t}

\* A page is loaded: _init.  What the tab waited for is forgotten.
Load(t) ==
  /\ copy' = [copy EXCEPT ![t] = IF stored = Nothing THEN SeedDb ELSE stored]
  /\ waits' = [waits EXCEPT ![t] = [Quiet EXCEPT !.seeding = stored = Nothing]]
  /\ console' = console \ {t}
  /\ UNCHANGED <<stored, kept, session, saves, overlapped>>

\* The end of _init, whatever other tabs have stored since it began.
Seeded(t) ==
  /\ waits[t].seeding
  /\ Saves(t, copy[t])
  /\ waits' = [waits EXCEPT ![t].seeding = FALSE]
  /\ UNCHANGED <<kept, session, console, overlapped>>

\* render with a page of the console in the address.
OpenConsole(t) ==
  /\ Ready(t)
  /\ IsAdmin(copy[t], Actor(t))
  /\ console' = console \cup {t}
  /\ UNCHANGED <<stored, kept, copy, session, waits, saves, overlapped>>

-------------------------------------------------------------------------------
(* Handlers that do their work at once.  One that needs the console leaves the tab there; *)
(* the pages of the site can be gone to from anywhere.                                    *)

\* An identifier that is nowhere, in no session either; which one makes no difference.
New(table) ==
  LET known == UNION {DOMAIN db[table] : db \in Databases}
      meant == {kept} \cup {session[t] : t \in Tab} \cup {waits[t].login : t \in Tab}
      free == Row \ (known \cup IF table = "users" THEN meant ELSE {}) IN
  {r \in free : \A other \in free : r <= other}

\* What a member or an operator does on the site.
SiteClick(t) ==
  /\ Ready(t) /\ Actor(t) # None
  /\ LET db == copy[t] IN
       \/ /\ Orderable(db)
          /\ \E o \in New("orders") : Saves(t, CreateOrder(db, Actor(t), o))
       \/ \E o \in Cancellable(db, Actor(t)) : Saves(t, CancelOrder(db, Actor(t), o))
       \/ \E k \in Text : Saves(t, WriteText(db, k))
  /\ console' = console \ {t}
  /\ UNCHANGED <<kept, session, waits, overlapped>>

\* The buttons of the console; the handler asks only that somebody is logged in.
ConsoleClick(t) ==
  /\ Ready(t) /\ Actor(t) # None /\ t \in console
  /\ LET db == copy[t] IN
       \/ \E o \in Confirmable(db), s \in New("subs") : Saves(t, ConfirmOrderDemo(db, o, s))
       \/ \E s \in Sendable(db), i \in New("invites") : Saves(t, SendInvite(db, s, i))
       \/ \E i \in Activatable(db) : Saves(t, ActivateInvite(db, i))
       \/ \E k \in Completable(db) : Saves(t, CompleteTask(db, k))
       \/ \E u \in DOMAIN db.users : Saves(t, SetUserActive(db, u))
       \/ /\ db.product # "gone"
          /\ \E state \in {"active", "inactive", "gone"} \ {db.product} :
               Saves(t, SaveProduct(db, state))
       \/ db.product = "active" /\ Saves(t, SaveGroup(db))
  /\ UNCHANGED <<kept, session, waits, overlapped>>
  /\ Renders(t)

\* The list of roles does not draw the page again.
ChangeRole(t) ==
  /\ Ready(t) /\ Actor(t) # None /\ t \in console
  /\ \E u \in DOMAIN copy[t].users :
       Saves(t, SetUserRole(copy[t], u, ~copy[t].users[u].admin))
  /\ UNCHANGED <<kept, session, console, waits, overlapped>>

\* It is saved that somebody has logged out.
Logout(t) ==
  /\ Ready(t) /\ Actor(t) # None
  /\ Saves(t, copy[t])
  /\ session' = [session EXCEPT ![t] = None]
  /\ kept' = None
  /\ console' = console \ {t}
  /\ UNCHANGED <<waits, overlapped>>

-------------------------------------------------------------------------------
(* Handlers that wait *)

\* Seeded fault: the address is not looked up.
RegisterAnyway(t) ==
  /\ Ready(t) /\ Actor(t) = None
  /\ waits[t].registering < 2
  /\ waits' = [waits EXCEPT ![t].registering = @ + 1]
  /\ overlapped' = (overlapped \/ waits[t].registering > 0)
  /\ UNCHANGED <<stored, kept, copy, session, console, saves>>

\* The address is looked up; then the password is hashed.
RegisterStart(t) ==
  /\ Ready(t) /\ Actor(t) = None
  /\ WithEmail(copy[t], "new") = {}
  /\ waits[t].registering < 2
  /\ waits' = [waits EXCEPT ![t].registering = @ + 1]
  /\ overlapped' = (overlapped \/ waits[t].registering > 0)
  /\ UNCHANGED <<stored, kept, copy, session, console, saves>>

\* The row is pushed, and the form goes on to log in.
RegisterEnd(t) ==
  /\ waits[t].registering > 0 /\ waits[t].login = None
  /\ \E u \in New("users") :
       /\ Saves(t, Register(copy[t], u))
       /\ waits' = [waits EXCEPT ![t].registering = @ - 1,
                                 ![t].login = Min(WithEmail(copy'[t], "new"))]
  /\ UNCHANGED <<kept, session, console, overlapped>>

\* The first row with the address, unless it is not active.  One login at a time waits in
\* a tab.
LoginStart(t) ==
  /\ Ready(t) /\ Actor(t) = None
  /\ waits[t].login = None
  /\ \E u \in {Min(WithEmail(copy[t], copy[t].users[v].email)) : v \in DOMAIN copy[t].users} :
       /\ copy[t].users[u].active
       /\ waits' = [waits EXCEPT ![t].login = u]
  /\ UNCHANGED <<stored, kept, copy, session, console, saves, overlapped>>

\* The password was wrong; or it was right, and the session goes to the one storage and
\* away from the other.  All is saved, whoever's row a reset has put there meanwhile.
LoginEnd(t) ==
  /\ waits[t].login # None
  /\ Saves(t, copy[t])
  /\ \/ UNCHANGED <<session, kept>>
     \/ /\ session' = [session EXCEPT ![t] = waits[t].login]
        /\ kept' = None
     \/ /\ session' = [session EXCEPT ![t] = None]
        /\ kept' = waits[t].login
  /\ waits' = [waits EXCEPT ![t].login = None]
  /\ console' = console \ {t}
  /\ UNCHANGED overlapped

\* reset, from the settings page of the console: it hashes the seeded passwords first.
ResetStart(t) ==
  /\ Ready(t) /\ t \in console
  /\ ~waits[t].resetting
  /\ waits' = [waits EXCEPT ![t].resetting = TRUE]
  /\ UNCHANGED <<stored, kept, copy, session, console, saves, overlapped>>

\* The session of a tab's own storage stays.
ResetEnd(t) ==
  /\ waits[t].resetting
  /\ Saves(t, SeedDb)
  /\ kept' = None
  /\ waits' = [waits EXCEPT ![t].resetting = FALSE]
  /\ console' = console \ {t}
  /\ UNCHANGED <<session, overlapped>>

Wait(t) ==
  \/ RegisterStart(t) \/ RegisterEnd(t) \/ LoginStart(t) \/ LoginEnd(t)
  \/ ResetStart(t) \/ ResetEnd(t)

DemoNext ==
  \E t \in Tab :
    \/ Load(t) \/ Seeded(t) \/ OpenConsole(t)
    \/ SiteClick(t) \/ ConsoleClick(t) \/ ChangeRole(t) \/ Logout(t)
    \/ Wait(t)

DemoSpec == DemoInit /\ [][DemoNext]_demoVars

-------------------------------------------------------------------------------
(* Properties *)

DemoTypeOK ==
  /\ kept \in Row \cup {None}
  /\ session \in [Tab -> Row \cup {None}]
  /\ console \subseteq Tab
  /\ waits \in [Tab -> Waits]
  /\ saves \in 0..MaxSaves
  /\ overlapped \in BOOLEAN
  /\ \A db \in Databases :
       /\ DOMAIN db.users \subseteq Row /\ \A u \in DOMAIN db.users : db.users[u] \in User
       /\ \A s \in DOMAIN db.subs : db.subs[s] \in Subscription
       /\ db.tasks \subseteq Task

\* Whatever tabs overwrite each other's work, the orders that are confirmed are those with
\* a subscription and the slots in use are those of subscriptions, in the storage and in
\* every tab: confirmOrderDemo, cancelOrder, sendInvite.
Booked == \A db \in Databases : BookedIn(db) /\ SlotsCountedIn(db)

\* What waits for an operator is on the list of tasks and what is done is not, and all rows
\* have one of the forms the code gives them: createOrder, confirmOrderDemo, sendInvite,
\* activateInvite, completeTask.
DemoTasksListed == DemoTypeOK /\ \A db \in Databases : TasksListedIn(db)

\* An address has one account, unless a tab has sent its registration off twice: register.
AccountsOnce ==
  ~overlapped =>
    \A db \in Databases : Cardinality(WithEmail(db, "new")) <= 1

\* Nothing that has been stored is lost or goes back through a tab whose copy was what is
\* stored: only a tab that had not read it overwrites it, or a reset does.
OnlyStaleLoses ==
  [][stored # Nothing /\ Lost(stored, stored') =>
       \/ stored' = SeedDb
       \/ \A t \in Tab : copy[t] = stored => copy'[t] # stored']_demoVars
===============================================================================
