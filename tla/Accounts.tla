------------------------------- MODULE Accounts -------------------------------
(***************************************************************************)
(* The accounts of the web application: registration, login with its lock  *)
(* after failed attempts, sessions, changing and resetting a password.     *)
(* Each route is a few statements without a transaction; requests cross    *)
(* each other, and any of them may break off between two statements.       *)
(* MemberPermissions has what operators do to accounts by the statement.   *)
(***************************************************************************)
EXTENDS Naturals, Sequences

CONSTANTS
  User,          \* e-mail addresses, with an account or without one yet
  Request,       \* requests under way
  Token,         \* what names a session; bound: how many are open at a time
  MaxAttempts,   \* MAX_LOGIN_ATTEMPTS
  MaxPasswords,  \* bound: how often each password is written anew
  MaxLinks,      \* bound: how many reset links there ever are
  MaxBreaks      \* bound: how many requests break off

VARIABLES
  account,   \* the User rows
  session,   \* the sessions that are open, by token
  link,      \* the AuthTokens that reset a password
  op,        \* where each request is
  breaks,    \* how many requests have broken off
  streak,    \* history: failed logins since the counter was last set back, counted to MaxAttempts
  mixed,     \* history: who had a failed login under way when that happened
  cut        \* history: whose change of password broke off before it ended the sessions

history == <<streak, mixed, cut>>
vars == <<account, session, link, op, breaks, history>>

\* password: how often it has been written; locked: lockedUntil is in the future.
Account ==
  [exists : BOOLEAN, active : BOOLEAN, password : 0..MaxPasswords,
   attempts : 0..(MaxAttempts + 1), locked : BOOLEAN]

\* with: the password its login has verified; late: that was no longer the password.
Session == [open : {TRUE}, of : User, with : 0..MaxPasswords, late : BOOLEAN]
NoSession == [open |-> FALSE]

\* uses: history, how often it has reset a password; shared: history, by requests that
\* crossed each other or broke off.
Link == [of : User, status : {"open", "used", "expired"}, uses : Nat, shared : BOOLEAN]

Idle == [pc |-> "idle"]
RequestAt ==
  {Idle} \cup [pc : {"registering", "changing", "changed", "linking"}, of : User]
         \cup [pc : {"wrong"}, of : User, attempts : 1..(MaxAttempts + 1)]
         \cup [pc : {"verified", "opening"}, of : User, with : 0..MaxPasswords]
         \cup [pc : {"resetting", "reset"}, link : 1..MaxLinks]

TypeOK ==
  /\ account \in [User -> Account]
  /\ session \in [Token -> Session \cup {NoSession}]
  /\ link \in Seq(Link) /\ Len(link) <= MaxLinks
  /\ op \in [Request -> RequestAt]
  /\ breaks \in 0..MaxBreaks
  /\ streak \in [User -> 0..MaxAttempts]
  /\ mixed \subseteq User
  /\ cut \subseteq User

NewAccount ==
  [exists |-> TRUE, active |-> TRUE, password |-> 0, attempts |-> 0, locked |-> FALSE]

\* Some have an account; the fields of who has none mean nothing yet.
Init ==
  /\ \E here \in SUBSET User :
       account = [u \in User |-> [NewAccount EXCEPT !.exists = u \in here]]
  /\ session = [t \in Token |-> NoSession]
  /\ link = <<>>
  /\ op = [p \in Request |-> Idle]
  /\ breaks = 0
  /\ streak = [u \in User |-> 0]
  /\ mixed = {}
  /\ cut = {}

At(p, pc) == op[p].pc = pc
Goto(p, where) == op' = [op EXCEPT ![p] = where]

\* The sessions, with none of u left.
WithoutSessions(u) ==
  [t \in Token |-> IF session[t].open /\ session[t].of = u THEN NoSession ELSE session[t]]

\* What setting the counter of failed logins back means to the history.
SetBack(u) ==
  /\ streak' = [streak EXCEPT ![u] = 0]
  /\ mixed' = IF \E q \in Request : At(q, "wrong") /\ op[q].of = u
              THEN mixed \cup {u} ELSE mixed \ {u}

-------------------------------------------------------------------------------
(* Registration and login *)

RegisterRead(p, u) ==
  /\ op[p] = Idle
  /\ ~account[u].exists
  /\ Goto(p, [pc |-> "registering", of |-> u])
  /\ UNCHANGED <<account, session, link, breaks, history>>

\* The unique index on the address refuses a second account.
RegisterWrite(p) ==
  /\ At(p, "registering")
  /\ IF account[op[p].of].exists
     THEN Goto(p, Idle) /\ UNCHANGED account
     ELSE /\ account' = [account EXCEPT ![op[p].of] = NewAccount]
          /\ Goto(p, [pc |-> "opening", of |-> op[p].of, with |-> 0])
  /\ UNCHANGED <<session, link, breaks, history>>

\* The account is read and the password compared with what was read.  The counter goes on
\* after a lock that has run out; the bound on it is one failure more than the lock takes.
LoginRead(p, u) ==
  /\ op[p] = Idle
  /\ account[u].exists /\ account[u].active /\ ~account[u].locked
  /\ \/ Goto(p, [pc |-> "verified", of |-> u, with |-> account[u].password])
     \/ /\ account[u].attempts <= MaxAttempts
        /\ Goto(p, [pc |-> "wrong", of |-> u, attempts |-> account[u].attempts + 1])
  /\ UNCHANGED <<account, session, link, breaks, history>>

LoginWrong(p) ==
  /\ At(p, "wrong")
  /\ account' = [account EXCEPT ![op[p].of].attempts = op[p].attempts,
                                ![op[p].of].locked = op[p].attempts >= MaxAttempts]
  /\ streak' = [streak EXCEPT ![op[p].of] = IF @ < MaxAttempts THEN @ + 1 ELSE @]
  /\ Goto(p, Idle)
  /\ UNCHANGED <<session, link, breaks, mixed, cut>>

\* Seeded fault: a login leaves the counter as it is.
LoginResetNothing(p) ==
  /\ At(p, "verified")
  /\ SetBack(op[p].of)
  /\ Goto(p, [op[p] EXCEPT !.pc = "opening"])
  /\ UNCHANGED <<account, session, link, breaks, cut>>

LoginReset(p) ==
  /\ At(p, "verified")
  /\ account' = [account EXCEPT ![op[p].of].attempts = 0, ![op[p].of].locked = FALSE]
  /\ SetBack(op[p].of)
  /\ Goto(p, [op[p] EXCEPT !.pc = "opening"])
  /\ UNCHANGED <<session, link, breaks, cut>>

\* createSession
OpenSession(p, t) ==
  /\ At(p, "opening")
  /\ ~session[t].open
  /\ session' = [session EXCEPT ![t] =
                  [open |-> TRUE, of |-> op[p].of, with |-> op[p].with,
                   late |-> op[p].with # account[op[p].of].password]]
  /\ Goto(p, Idle)
  /\ UNCHANGED <<account, link, breaks, history>>

LockRunsOut(u) ==
  /\ account[u].locked
  /\ account' = [account EXCEPT ![u].locked = FALSE]
  /\ UNCHANGED <<session, link, op, breaks, history>>

\* A logout; or the session has run out, and its next use deletes it.
EndSession(t) ==
  /\ session[t].open
  /\ session' = [session EXCEPT ![t] = NoSession]
  /\ UNCHANGED <<account, link, op, breaks, history>>

\* getSession: who has session t, as long as the account is active.
Authenticated(t) == session[t].open /\ account[session[t].of].active

-------------------------------------------------------------------------------
(* Passwords *)

\* The current password is asked for, and was right.
ChangeRead(p, t) ==
  /\ op[p] = Idle
  /\ Authenticated(t)
  /\ Goto(p, [pc |-> "changing", of |-> session[t].of])
  /\ UNCHANGED <<account, session, link, breaks, history>>

ChangeWrite(p) ==
  /\ At(p, "changing")
  /\ account[op[p].of].password < MaxPasswords
  /\ account' = [account EXCEPT ![op[p].of].password = @ + 1]
  /\ Goto(p, [op[p] EXCEPT !.pc = "changed"])
  /\ UNCHANGED <<session, link, breaks, history>>

ChangeEnd(p) ==
  /\ At(p, "changed")
  /\ session' = WithoutSessions(op[p].of)
  /\ cut' = cut \ {op[p].of}
  /\ Goto(p, Idle)
  /\ UNCHANGED <<account, link, breaks, streak, mixed>>

\* createPasswordResetToken: the links there are become used, then there is a new one.
LinkInvalidate(p, u) ==
  /\ op[p] = Idle
  /\ account[u].exists
  /\ link' = [l \in DOMAIN link |->
                IF link[l].of = u /\ link[l].status = "open"
                THEN [link[l] EXCEPT !.status = "used"] ELSE link[l]]
  /\ Goto(p, [pc |-> "linking", of |-> u])
  /\ UNCHANGED <<account, session, breaks, history>>

LinkCreate(p) ==
  /\ At(p, "linking")
  /\ Len(link) < MaxLinks
  /\ link' = Append(link, [of |-> op[p].of, status |-> "open", uses |-> 0, shared |-> FALSE])
  /\ Goto(p, Idle)
  /\ UNCHANGED <<account, session, breaks, history>>

LinkExpires(l) ==
  /\ link[l].status = "open"
  /\ link' = [link EXCEPT ![l].status = "expired"]
  /\ UNCHANGED <<account, session, op, breaks, history>>

Resets(q, l) == op[q].pc \in {"resetting", "reset"} /\ op[q].link = l

\* validatePasswordResetToken
ResetRead(p, l) ==
  /\ op[p] = Idle
  /\ link[l].status = "open"
  /\ link' = [link EXCEPT ![l].shared = @ \/ \E q \in Request : Resets(q, l)]
  /\ Goto(p, [pc |-> "resetting", link |-> l])
  /\ UNCHANGED <<account, session, breaks, history>>

\* Seeded fault: the sessions are left as they are.
ResetWriteOnly(p) ==
  /\ At(p, "resetting")
  /\ LET u == link[op[p].link].of IN
       /\ account[u].password < MaxPasswords
       /\ account' = [account EXCEPT ![u].password = @ + 1, ![u].attempts = 0,
                                     ![u].locked = FALSE]
       /\ SetBack(u)
       /\ cut' = cut \ {u}
  /\ link' = [link EXCEPT ![op[p].link].uses = @ + 1]
  /\ Goto(p, [op[p] EXCEPT !.pc = "reset"])
  /\ UNCHANGED <<session, breaks>>

\* One transaction.
ResetWrite(p) ==
  /\ At(p, "resetting")
  /\ LET u == link[op[p].link].of IN
       /\ account[u].password < MaxPasswords
       /\ account' = [account EXCEPT ![u].password = @ + 1, ![u].attempts = 0,
                                     ![u].locked = FALSE]
       /\ session' = WithoutSessions(u)
       /\ SetBack(u)
       /\ cut' = cut \ {u}
  /\ link' = [link EXCEPT ![op[p].link].uses = @ + 1]
  /\ Goto(p, [op[p] EXCEPT !.pc = "reset"])
  /\ UNCHANGED breaks

\* Seeded fault: a link is not used up.
ResetEndNothing(p) ==
  /\ At(p, "reset")
  /\ Goto(p, Idle)
  /\ UNCHANGED <<account, session, link, breaks, history>>

\* consumePasswordResetToken
ResetEnd(p) ==
  /\ At(p, "reset")
  /\ link' = [link EXCEPT ![op[p].link].status = "used"]
  /\ Goto(p, Idle)
  /\ UNCHANGED <<account, session, breaks, history>>

\* An operator lifts the lock, or shuts the account out or lets it in again.
Manage(u) ==
  /\ account[u].exists
  /\ \/ /\ account' = [account EXCEPT ![u].attempts = 0, ![u].locked = FALSE]
        /\ SetBack(u)
     \/ /\ account' = [account EXCEPT ![u].active = ~@]
        /\ UNCHANGED <<streak, mixed>>
  /\ UNCHANGED <<session, link, op, breaks, cut>>

-------------------------------------------------------------------------------

\* A statement fails, or the process dies.
Break(p) ==
  /\ op[p] # Idle
  /\ breaks < MaxBreaks
  /\ breaks' = breaks + 1
  /\ cut' = IF At(p, "changed") THEN cut \cup {op[p].of} ELSE cut
  /\ link' = IF At(p, "reset") THEN [link EXCEPT ![op[p].link].shared = TRUE] ELSE link
  /\ Goto(p, Idle)
  /\ UNCHANGED <<account, session, streak, mixed>>

Visit(p) ==
  \/ \E u \in User : RegisterRead(p, u) \/ LoginRead(p, u)
  \/ RegisterWrite(p) \/ LoginWrong(p) \/ LoginReset(p)
  \/ \E t \in Token : OpenSession(p, t)

Password(p) ==
  \/ \E t \in Token : ChangeRead(p, t)
  \/ ChangeWrite(p) \/ ChangeEnd(p)
  \/ \E u \in User : LinkInvalidate(p, u)
  \/ LinkCreate(p)
  \/ \E l \in DOMAIN link : ResetRead(p, l)
  \/ ResetWrite(p) \/ ResetEnd(p)

Next ==
  \/ \E p \in Request : Visit(p) \/ Password(p) \/ Break(p)
  \/ \E u \in User : LockRunsOut(u) \/ Manage(u)
  \/ \E t \in Token : EndSession(t)
  \/ \E l \in DOMAIN link : LinkExpires(l)

Spec == Init /\ [][Next]_vars

-------------------------------------------------------------------------------
(* Properties *)

\* Nobody is locked out for fewer failed logins than it takes: what was counted before
\* the counter was set back comes back only by a login that was under way then.
LockEarned ==
  \A u \in User : account[u].locked => u \in mixed \/ streak[u] = MaxAttempts

\* Changing and resetting a password end the sessions there are.  One of an earlier
\* password is open only while the change goes on, after it broke off, or because its
\* login had compared the password before.
SessionsEnded ==
  \A t \in Token :
    session[t].open /\ session[t].with # account[session[t].of].password =>
      \/ session[t].late
      \/ session[t].of \in cut
      \/ \E p \in Request : At(p, "changed") /\ op[p].of = session[t].of

\* A link resets a password once, unless requests with it cross each other or one of them
\* breaks off before the link is used up.
LinkSpent == \A l \in DOMAIN link : link[l].uses > 1 => link[l].shared
===============================================================================
