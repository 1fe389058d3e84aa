-------------------------- MODULE MemberPermissions --------------------------
(***************************************************************************)
(* Who may do what on the site: the route by which operators and super     *)
(* administrators change the role of a user and shut users out, one        *)
(* statement at a time and several requests at once.  It counts the other  *)
(* super administrators before it takes one away and writes an audit row   *)
(* afterwards, all without a transaction.                                  *)
(***************************************************************************)
EXTENDS Naturals

CONSTANTS
  User,
  Request,    \* requests under way
  MaxBreaks   \* bound: how many requests break off

ASSUME BoundAssumption == MaxBreaks \in Nat

VARIABLES
  user,     \* role and isActive of the User rows
  told,     \* what the last audit row about each user says of it afterwards
  op,       \* where each request is
  breaks,   \* how many requests have broken off
  moved,    \* history: requests during which others have changed who is an administrator
  crossed,  \* history: such a request has taken an administrator away
  untold    \* history: users one change of whom has no row, or has crossed another's

history == <<moved, crossed, untold>>
vars == <<user, told, op, breaks, history>>

\* MEMBER stands for SUPPORT as well, which the route treats the same.
Role == {"MEMBER", "OPERATOR", "SUPER_ADMIN"}
Row == [role : Role, active : BOOLEAN]

\* What a request asks for; "same" where it says nothing.
Patch == [role : Role \cup {"same"}, active : {"same", "on", "off"}]
Nothing == [role |-> "same", active |-> "same"]

\* by: the actor's role when the request came in.
Idle == [pc |-> "idle"]
RequestAt ==
  {Idle} \cup [pc : {"asked"}, actor : User, by : {"OPERATOR", "SUPER_ADMIN"}]
         \cup [pc : {"counting", "writing"}, of : User, patch : Patch]
         \cup [pc : {"telling"}, of : User, after : Row]

TypeOK ==
  /\ user \in [User -> Row]
  /\ told \in [User -> Row]
  /\ op \in [Request -> RequestAt]
  /\ breaks \in 0..MaxBreaks
  /\ moved \subseteq Request
  /\ crossed \in BOOLEAN
  /\ untold \subseteq User

\* Who can still give out roles.
IsAdmin(row) == row.role = "SUPER_ADMIN" /\ row.active
Admins == {u \in User : IsAdmin(user[u])}

Init ==
  /\ user \in [User -> Row]
  /\ Admins # {}
  /\ told = user
  /\ op = [p \in Request |-> Idle]
  /\ breaks = 0
  /\ moved = {}
  /\ crossed = FALSE
  /\ untold = {}

At(p, pc) == op[p].pc = pc
Goto(p, where) == op' = [op EXCEPT ![p] = where]

-------------------------------------------------------------------------------

\* requireRole
Ask(p, actor) ==
  /\ op[p] = Idle
  /\ user[actor].active
  /\ user[actor].role \in {"SUPER_ADMIN", "OPERATOR"}
  /\ Goto(p, [pc |-> "asked", actor |-> actor, by |-> user[actor].role])
  /\ UNCHANGED <<user, told, breaks, history>>

\* Seeded fault: shutting out is not taking away.
TakesRole(patch) == patch.role \notin {"same", "SUPER_ADMIN"}

TakesAway(patch) == patch.role \notin {"same", "SUPER_ADMIN"} \/ patch.active = "off"

\* Only a super administrator changes roles, nobody shuts himself out, and an operator
\* shuts no super administrator out, wherever in the route that is said.  A request that is
\* refused has changed nothing, like one that breaks off before it writes.
MayAsk(p, of, patch) ==
  /\ patch # Nothing
  /\ patch.role # "same" => op[p].by = "SUPER_ADMIN"
  /\ patch.active = "off" =>
       of # op[p].actor /\ (user[of].role = "SUPER_ADMIN" => op[p].by = "SUPER_ADMIN")

\* What the request asks for has come in, and its target is read.
Read(p, of, patch) ==
  /\ At(p, "asked")
  /\ MayAsk(p, of, patch)
  /\ Goto(p, [pc |-> IF user[of].role = "SUPER_ADMIN" /\ TakesAway(patch)
                     THEN "counting" ELSE "writing",
              of |-> of, patch |-> patch])
  /\ UNCHANGED <<user, told, breaks, history>>

\* The only one stays.
Count(p) ==
  /\ At(p, "counting")
  /\ IF Admins \subseteq {op[p].of}
     THEN /\ Goto(p, Idle)
          /\ moved' = moved \ {p}
     ELSE /\ Goto(p, [pc |-> "writing", of |-> op[p].of, patch |-> op[p].patch])
          /\ UNCHANGED moved
  /\ UNCHANGED <<user, told, breaks, crossed, untold>>

Patched(row, patch) ==
  [role   |-> IF patch.role = "same" THEN row.role ELSE patch.role,
   active |-> IF patch.active = "same" THEN row.active ELSE patch.active = "on"]

Write(p) ==
  /\ At(p, "writing")
  /\ LET u == op[p].of
         after == Patched(user[u], op[p].patch) IN
       /\ user' = [user EXCEPT ![u] = after]
       /\ Goto(p, [pc |-> "telling", of |-> u, after |-> after])
       /\ moved' = (IF IsAdmin(after) # IsAdmin(user[u])
                    THEN {q \in Request : At(q, "counting") \/ At(q, "writing")}
                    ELSE moved) \ {p}
       /\ crossed' = (crossed \/ (p \in moved /\ IsAdmin(user[u]) /\ ~IsAdmin(after)))
       /\ untold' = IF \E q \in Request : At(q, "telling") /\ op[q].of = u
                    THEN untold \cup {u} ELSE untold
  /\ UNCHANGED <<told, breaks>>

\* Seeded fault: the row says what the user was before.
TellBefore(p) ==
  /\ At(p, "telling")
  /\ told' = [told EXCEPT ![op[p].of] = @]
  /\ Goto(p, Idle)
  /\ UNCHANGED <<user, breaks, history>>

\* The audit row MEMBER_PERMISSIONS_UPDATE.
Tell(p) ==
  /\ At(p, "telling")
  /\ told' = [told EXCEPT ![op[p].of] = op[p].after]
  /\ Goto(p, Idle)
  /\ UNCHANGED <<user, breaks, history>>

\* A statement fails, or the process dies.
Break(p) ==
  /\ op[p] # Idle
  /\ breaks < MaxBreaks
  /\ breaks' = breaks + 1
  /\ untold' = IF At(p, "telling") THEN untold \cup {op[p].of} ELSE untold
  /\ moved' = moved \ {p}
  /\ Goto(p, Idle)
  /\ UNCHANGED <<user, told, crossed>>

Next ==
  \E p \in Request :
    \/ \E actor \in User : Ask(p, actor)
    \/ \E of \in User, patch \in Patch : Read(p, of, patch)
    \/ Count(p) \/ Write(p) \/ Tell(p) \/ Break(p)

Spec == Init /\ [][Next]_vars

-------------------------------------------------------------------------------
(* Properties *)

\* There is a super administrator who can log in, unless a request has taken one away
\* during which others have changed who is one.
AdminUnlessCrossed == Admins # {} \/ crossed

\* The last audit row about a user says what the user is, unless a change of it is under
\* way, has no row because its request broke off, or has crossed another one.
AuditTells ==
  \A u \in User : told[u] # user[u] =>
    u \in untold \/ \E p \in Request : At(p, "telling") /\ op[p].of = u

\* What the route tells who asks for it: the only super administrator can be neither
\* demoted nor shut out.
AdminRemains == Admins # {}
===============================================================================
