------------------------------ MODULE SiteProofs ------------------------------
(***************************************************************************)
(* What the two parts of the site keep, for any number of users, accounts, *)
(* sessions, links and requests.  An administrator remains, since what a   *)
(* request has found out when it read its target and counted still holds   *)
(* as long as nobody else has changed who is one.  Nobody is locked out    *)
(* for too few failed logins, since what is counted, here or by a login    *)
(* under way, has failed since the counter was set back.  A link that is   *)
(* open and has reset a password is with the request that will use it up.  *)
(***************************************************************************)
EXTENDS Site, SequenceTheorems, TLAPS

\* The user of a request about to write, patched, or another user is an administrator.
Harmless(p) ==
  LET after == Patched(user[op[p].of], op[p].patch) IN
    IsAdmin(user[op[p].of]) /\ ~IsAdmin(after) => ~(Admins \subseteq {op[p].of})

\* A request with which nobody has interfered does no harm when it writes.
Careful == \A p \in Request : At(p, "writing") /\ p \notin moved => Harmless(p)

Guarded == TypeOK /\ AdminUnlessCrossed /\ Careful

-------------------------------------------------------------------------------

LEMMA InitTypes == ASSUME Init PROVE TypeOK
<1>1. Idle \in RequestAt
  BY DEF RequestAt
<1>2. op \in [Request -> RequestAt]
  BY <1>1 DEF Init
<1>3. breaks \in 0..MaxBreaks
  BY BoundAssumption DEF Init
<1> QED BY <1>2, <1>3 DEF Init, TypeOK

\* Users, audit rows, requests and the history keep their types.
THEOREM TypeCorrect == Spec => []TypeOK
<1>1. Init => TypeOK
  BY InitTypes
<1>2. TypeOK /\ [Next]_vars => TypeOK'
  <2> SUFFICES ASSUME TypeOK, [Next]_vars PROVE TypeOK'
    OBVIOUS
  <2>1. ASSUME NEW p \in Request, NEW actor \in User, Ask(p, actor) PROVE TypeOK'
    <3>1. user[actor].role \in {"OPERATOR", "SUPER_ADMIN"}
      BY <2>1 DEF Ask
    <3>2. [pc |-> "asked", actor |-> actor, by |-> user[actor].role] \in RequestAt
      BY <3>1 DEF RequestAt
    <3> QED BY <2>1, <3>2 DEF Ask, Goto, TypeOK, history
  <2>2. ASSUME NEW p \in Request, NEW of \in User, NEW patch \in Patch, Read(p, of, patch)
        PROVE  TypeOK'
    <3>1. op'[p] \in RequestAt /\ op' = [op EXCEPT ![p] = op'[p]]
      BY <2>2 DEF Read, Goto, TypeOK, RequestAt
    <3> QED BY <2>2, <3>1 DEF Read, TypeOK, history
  <2>3. ASSUME NEW p \in Request, Count(p) PROVE TypeOK'
    <3>1. op[p].of \in User /\ op[p].patch \in Patch
      BY <2>3 DEF Count, At, TypeOK, RequestAt, Idle
    <3>2. op'[p] \in RequestAt /\ op' = [op EXCEPT ![p] = op'[p]]
      BY <2>3, <3>1 DEF Count, Goto, TypeOK, RequestAt
    <3> QED BY <2>3, <3>2 DEF Count, TypeOK
  <2>4. ASSUME NEW p \in Request, Write(p) PROVE TypeOK'
    <3>1. op[p].of \in User /\ op[p].patch \in Patch
      BY <2>4 DEF Write, At, TypeOK, RequestAt, Idle
    <3> DEFINE after == Patched(user[op[p].of], op[p].patch)
    <3>2. after \in Row
      BY <3>1 DEF TypeOK, Patched, Row, Patch
    <3>3. [pc |-> "telling", of |-> op[p].of, after |-> after] \in RequestAt
      BY <3>1, <3>2 DEF RequestAt
    <3>4. moved' \subseteq Request /\ crossed' \in BOOLEAN /\ untold' \subseteq User
      BY <2>4, <3>1 DEF Write, TypeOK
    <3> QED BY <2>4, <3>1, <3>2, <3>3, <3>4 DEF Write, Goto, TypeOK
  <2>5. ASSUME NEW p \in Request, Tell(p) PROVE TypeOK'
    <3>1. op[p].of \in User /\ op[p].after \in Row
      BY <2>5 DEF Tell, At, TypeOK, RequestAt, Idle
    <3> QED BY <2>5, <3>1 DEF Tell, Goto, TypeOK, history, RequestAt
  <2>6. ASSUME NEW p \in Request, Break(p) PROVE TypeOK'
    <3>1. At(p, "telling") => op[p].of \in User
      BY DEF At, TypeOK, RequestAt, Idle
    <3> QED BY <2>6, <3>1, BoundAssumption DEF Break, Goto, TypeOK, RequestAt
  <2>7. CASE UNCHANGED vars
    BY <2>7 DEF vars, history, TypeOK
  <2> QED BY <2>1, <2>2, <2>3, <2>4, <2>5, <2>6, <2>7 DEF Next
<1> QED BY <1>1, <1>2, PTL DEF Spec

-------------------------------------------------------------------------------

\* Taking neither the role nor the access leaves an administrator one.
LEMMA KeepsAdmin ==
  ASSUME NEW row \in Row, NEW patch \in Patch, IsAdmin(row), ~TakesAway(patch)
  PROVE  IsAdmin(Patched(row, patch))
BY DEF IsAdmin, Patched, TakesAway, Row, Patch

\* What a patch makes of an administrator does not depend on which one it is.
LEMMA PatchedAlike ==
  ASSUME NEW row \in Row, NEW other \in Row, NEW patch \in Patch, IsAdmin(row), IsAdmin(other)
  PROVE  IsAdmin(Patched(row, patch)) <=> IsAdmin(Patched(other, patch))
BY DEF IsAdmin, Patched, Row, Patch

\* A step that leaves users and the requests about to write as they are keeps what is
\* guarded, whoever else it lets or makes break off.
LEMMA StillGuarded ==
  ASSUME Guarded, TypeOK', user' = user, crossed' = crossed, NEW p \in Request,
         moved \subseteq moved' \cup {p},
         op' = [op EXCEPT ![p] = op'[p]],
         op'[p].pc = "writing" /\ p \notin moved' => Harmless(p)'
  PROVE  Guarded'
<1>1. AdminUnlessCrossed'
  BY DEF Guarded, AdminUnlessCrossed, Admins
<1>2. ASSUME NEW q \in Request, At(q, "writing")', q \notin moved' PROVE Harmless(q)'
  <2>1. CASE q = p
    BY <1>2, <2>1 DEF At
  <2>2. CASE q # p
    <3>1. op'[q] = op[q] /\ q \notin moved
      BY <1>2, <2>2 DEF Guarded, TypeOK
    <3>2. Harmless(q)
      BY <1>2, <3>1 DEF Guarded, Careful, At
    <3> QED BY <3>1, <3>2 DEF Harmless, Admins
  <2> QED BY <2>1, <2>2
<1> QED BY <1>1, <1>2 DEF Guarded, Careful

\* There is a super administrator who can log in, unless a request has taken one away
\* during which others have changed who is one: for any number of users and requests.
THEOREM AdminKept == Spec => []AdminUnlessCrossed
<1>1. Init => Guarded
  <2>1. Init => AdminUnlessCrossed
    BY DEF Init, AdminUnlessCrossed
  <2>2. Init => Careful
    BY DEF Init, Careful, At, Idle
  <2> QED BY <2>1, <2>2, InitTypes DEF Guarded
<1>2. Guarded /\ TypeOK' /\ [Next]_vars => Guarded'
  <2> SUFFICES ASSUME Guarded, TypeOK', [Next]_vars PROVE Guarded'
    OBVIOUS
  <2> USE DEF Guarded
  <2>1. ASSUME NEW p \in Request, NEW actor \in User, Ask(p, actor) PROVE Guarded'
    <3>1. op'[p].pc = "asked" /\ op' = [op EXCEPT ![p] = op'[p]]
      BY <2>1 DEF Ask, Goto, TypeOK
    <3> QED BY <2>1, <3>1, StillGuarded DEF Ask, history
  <2>2. ASSUME NEW p \in Request, NEW of \in User, NEW patch \in Patch, Read(p, of, patch)
        PROVE  Guarded'
    <3>1. op' = [op EXCEPT ![p] = op'[p]] /\ user' = user
      BY <2>2 DEF Read, Goto, TypeOK
    <3>2. ASSUME op'[p].pc = "writing" PROVE Harmless(p)'
      <4>1. op'[p].of = of /\ op'[p].patch = patch
        BY <2>2, <3>2 DEF Read, Goto, TypeOK
      <4>2. user[of].role # "SUPER_ADMIN" \/ ~TakesAway(patch)
        BY <2>2, <3>2 DEF Read, Goto, TypeOK
      <4>3. user[of] \in Row
        BY DEF TypeOK
      <4>4. IsAdmin(user[of]) => IsAdmin(Patched(user[of], patch))
        BY <4>2, <4>3, KeepsAdmin DEF IsAdmin
      <4> QED BY <3>1, <4>1, <4>4 DEF Harmless
    <3> QED BY <2>2, <3>1, <3>2, StillGuarded DEF Read, history
  <2>3. ASSUME NEW p \in Request, Count(p) PROVE Guarded'
    <3>1. op' = [op EXCEPT ![p] = op'[p]] /\ user' = user
      BY <2>3 DEF Count, Goto, TypeOK
    <3>2. ASSUME op'[p].pc = "writing" PROVE Harmless(p)'
      <4>1. op'[p].of = op[p].of /\ ~(Admins \subseteq {op[p].of})
        BY <2>3, <3>2 DEF Count, Goto, TypeOK, Idle
      <4> QED BY <3>1, <4>1 DEF Harmless, Admins
    <3>3. moved \subseteq moved' \cup {p}
      BY <2>3 DEF Count
    <3> QED BY <2>3, <3>1, <3>2, <3>3, StillGuarded DEF Count
  <2>4. ASSUME NEW p \in Request, Write(p) PROVE Guarded'
    <3>1. op[p].of \in User /\ op[p].patch \in Patch
      BY <2>4 DEF Write, At, TypeOK, RequestAt, Idle
    <3> DEFINE u == op[p].of
               after == Patched(user[u], op[p].patch)
    <3>2. /\ user' = [user EXCEPT ![u] = after]
          /\ op' = [op EXCEPT ![p] = [pc |-> "telling", of |-> u, after |-> after]]
          /\ crossed' = (crossed \/ (p \in moved /\ IsAdmin(user[u]) /\ ~IsAdmin(after)))
          /\ moved' = (IF IsAdmin(after) # IsAdmin(user[u])
                       THEN {q \in Request : At(q, "counting") \/ At(q, "writing")}
                       ELSE moved) \ {p}
      BY <2>4 DEF Write, Goto
    <3>3. user'[u] = after /\ \A w \in User \ {u} : user'[w] = user[w]
      BY <3>1, <3>2 DEF TypeOK
    <3> HIDE DEF after
    <3>4. AdminUnlessCrossed'
      <4>1. CASE IsAdmin(user[u]) /\ ~IsAdmin(after)
        <5>1. p \in moved => crossed'
          BY <3>2, <4>1
        <5>2. ASSUME p \notin moved PROVE Admins' # {}
          <6>1. Harmless(p)
            BY <2>4, <5>2 DEF Careful, Write
          <6>2. PICK w \in Admins : w # u
            BY <4>1, <6>1 DEF Harmless, after
          <6> QED BY <3>3, <6>2 DEF Admins
        <5> QED BY <5>1, <5>2 DEF AdminUnlessCrossed
      <4>2. CASE ~(IsAdmin(user[u]) /\ ~IsAdmin(after))
        <5>1. \A w \in Admins : w \in Admins'
          BY <3>3, <4>2 DEF Admins
        <5> QED BY <3>2, <5>1 DEF AdminUnlessCrossed
      <4> QED BY <4>1, <4>2
    <3>5. ASSUME NEW q \in Request, At(q, "writing")', q \notin moved' PROVE Harmless(q)'
      <4>1. q # p /\ op'[q] = op[q] /\ At(q, "writing")
        BY <3>2, <3>5 DEF At, TypeOK
      <4>2. (IsAdmin(after) <=> IsAdmin(user[u])) /\ q \notin moved
        BY <3>2, <3>5, <4>1 DEF IsAdmin
      <4>3. Harmless(q) /\ op[q].of \in User /\ op[q].patch \in Patch
        BY <4>1, <4>2 DEF Careful, At, TypeOK, RequestAt, Idle
      <4>4. Admins' = Admins
        BY <3>3, <4>2 DEF Admins
      <4>5. CASE Admins \subseteq {op[q].of}
        <5>1. CASE op[q].of # u
          BY <3>3, <4>1, <4>3, <4>4, <4>5, <5>1 DEF Harmless
        <5>2. CASE op[q].of = u
          <6>1. user[u] \in Row /\ user'[u] \in Row
            BY <3>1 DEF TypeOK
          <6>2. IsAdmin(user[u]) => IsAdmin(Patched(user[u], op[q].patch))
            BY <4>3, <4>5, <5>2 DEF Harmless
          <6>3. IsAdmin(user'[u]) => IsAdmin(Patched(user'[u], op[q].patch))
            BY <3>3, <4>2, <4>3, <6>1, <6>2, PatchedAlike
          <6> QED BY <4>1, <5>2, <6>3 DEF Harmless
        <5> QED BY <5>1, <5>2
      <4>6. CASE ~(Admins \subseteq {op[q].of})
        BY <4>1, <4>4, <4>6 DEF Harmless
      <4> QED BY <4>5, <4>6
    <3> QED BY <3>4, <3>5 DEF Careful
  <2>5. ASSUME NEW p \in Request, Tell(p) PROVE Guarded'
    <3>1. op'[p].pc # "writing" /\ op' = [op EXCEPT ![p] = op'[p]]
      BY <2>5 DEF Tell, Goto, TypeOK, Idle
    <3> QED BY <2>5, <3>1, StillGuarded DEF Tell, history
  <2>6. ASSUME NEW p \in Request, Break(p) PROVE Guarded'
    <3>1. op'[p].pc # "writing" /\ op' = [op EXCEPT ![p] = op'[p]]
      BY <2>6 DEF Break, Goto, TypeOK, Idle
    <3>2. moved \subseteq moved' \cup {p}
      BY <2>6 DEF Break
    <3> QED BY <2>6, <3>1, <3>2, StillGuarded DEF Break
  <2>7. CASE UNCHANGED vars
    BY <2>7 DEF vars, history, AdminUnlessCrossed, Admins, Careful, At, Harmless
  <2> QED BY <2>1, <2>2, <2>3, <2>4, <2>5, <2>6, <2>7 DEF Next
<1>3. Guarded => AdminUnlessCrossed
  BY DEF Guarded
<1> QED BY <1>1, <1>2, <1>3, TypeCorrect, PTL DEF Spec

-------------------------------------------------------------------------------

\* A request about to tell of a user whose rows can be trusted tells what the user is,
\* and is the only one to tell of it.
TellsTruly ==
  \A p \in Request : At(p, "telling") /\ op[p].of \notin untold =>
    /\ op[p].after = user[op[p].of]
    /\ \A q \in Request : At(q, "telling") /\ op[q].of = op[p].of => q = p

\* The last audit row about a user says what the user is, but for a change under way, one
\* whose request broke off, and changes that crossed: for any number of users and requests.
THEOREM AuditTrue == Spec => []AuditTells
<1> DEFINE Kept == TypeOK /\ AuditTells /\ TellsTruly
<1>1. Init => Kept
  <2>1. Init => AuditTells
    BY DEF Init, AuditTells
  <2>2. Init => TellsTruly
    BY DEF Init, TellsTruly, At, Idle
  <2> QED BY <2>1, <2>2, InitTypes
<1>2. Kept /\ TypeOK' /\ [Next]_vars => Kept'
  <2> SUFFICES ASSUME Kept, TypeOK', [Next]_vars PROVE AuditTells' /\ TellsTruly'
    OBVIOUS
  <2>1. ASSUME NEW p \in Request, ~At(p, "telling"), op'[p].pc # "telling",
               op' = [op EXCEPT ![p] = op'[p]], user' = user, told' = told, untold' = untold
        PROVE  AuditTells' /\ TellsTruly'
    <3>1. \A q \in Request : At(q, "telling") <=> At(q, "telling")'
      BY <2>1 DEF At, TypeOK
    <3>2. \A q \in Request : At(q, "telling") => op'[q] = op[q]
      BY <2>1 DEF At, TypeOK
    <3> QED BY <2>1, <3>1, <3>2 DEF AuditTells, TellsTruly
  <2>2. ASSUME NEW p \in Request, NEW actor \in User, Ask(p, actor)
        PROVE  AuditTells' /\ TellsTruly'
    <3>1. ~At(p, "telling") /\ op'[p].pc # "telling" /\ op' = [op EXCEPT ![p] = op'[p]]
      BY <2>2 DEF Ask, Goto, TypeOK, At, Idle
    <3> QED BY <2>1, <2>2, <3>1 DEF Ask, history
  <2>3. ASSUME NEW p \in Request, NEW of \in User, NEW patch \in Patch, Read(p, of, patch)
        PROVE  AuditTells' /\ TellsTruly'
    <3>1. ~At(p, "telling") /\ op'[p].pc # "telling" /\ op' = [op EXCEPT ![p] = op'[p]]
      BY <2>3 DEF Read, Goto, TypeOK, At, Idle
    <3> QED BY <2>1, <2>3, <3>1 DEF Read, history
  <2>4. ASSUME NEW p \in Request, Count(p) PROVE AuditTells' /\ TellsTruly'
    <3>1. ~At(p, "telling") /\ op'[p].pc # "telling" /\ op' = [op EXCEPT ![p] = op'[p]]
      BY <2>4 DEF Count, Goto, TypeOK, At, Idle
    <3> QED BY <2>1, <2>4, <3>1 DEF Count
  <2>5. ASSUME NEW p \in Request, Write(p) PROVE AuditTells' /\ TellsTruly'
    <3>1. op[p].of \in User
      BY <2>5 DEF Write, At, TypeOK, RequestAt, Idle
    <3> DEFINE u == op[p].of
               after == Patched(user[u], op[p].patch)
    <3>2. /\ user' = [user EXCEPT ![u] = after] /\ told' = told
          /\ op' = [op EXCEPT ![p] = [pc |-> "telling", of |-> u, after |-> after]]
          /\ untold' = IF \E q \in Request : At(q, "telling") /\ op[q].of = u
                       THEN untold \cup {u} ELSE untold
      BY <2>5 DEF Write, Goto
    <3>3. ~At(p, "telling")
      BY <2>5 DEF Write, At
    <3> HIDE DEF after
    <3>4. /\ user'[u] = after /\ \A w \in User \ {u} : user'[w] = user[w]
          /\ op'[p].pc = "telling" /\ op'[p].of = u /\ op'[p].after = after
          /\ \A q \in Request \ {p} : op'[q] = op[q]
      BY <3>1, <3>2 DEF TypeOK
    <3> HIDE DEF u
    <3>5. AuditTells'
      <4> SUFFICES ASSUME NEW w \in User, told'[w] # user'[w]
                   PROVE  w \in untold' \/ \E q \in Request : At(q, "telling")' /\ op'[q].of = w
        BY DEF AuditTells
      <4>1. CASE w = u
        BY <3>4, <4>1 DEF At
      <4>2. CASE w # u
        <5>1. w \in untold \/ \E q \in Request : At(q, "telling") /\ op[q].of = w
          BY <3>2, <3>4, <4>2 DEF AuditTells
        <5> QED BY <3>2, <3>3, <3>4, <5>1 DEF At
      <4> QED BY <4>1, <4>2
    <3>6. TellsTruly'
      <4> SUFFICES ASSUME NEW q \in Request, At(q, "telling")', op'[q].of \notin untold'
                   PROVE  /\ op'[q].after = user'[op'[q].of]
                          /\ \A r \in Request :
                               At(r, "telling")' /\ op'[r].of = op'[q].of => r = q
        BY DEF TellsTruly
      <4>1. CASE q = p
        <5>1. \A r \in Request : ~(At(r, "telling") /\ op[r].of = u)
          BY <3>2, <3>4, <4>1
        <5> QED BY <3>4, <4>1, <5>1 DEF At
      <4>2. CASE q # p
        <5>1. At(q, "telling") /\ op[q].of # u /\ op[q].of \notin untold
          BY <3>2, <3>4, <4>2 DEF At
        <5>2. op[q].of \in User
          BY <5>1 DEF At, TypeOK, RequestAt, Idle
        <5> QED BY <3>4, <4>2, <5>1, <5>2 DEF TellsTruly, At
      <4> QED BY <4>1, <4>2
    <3> QED BY <3>5, <3>6
  <2>6. ASSUME NEW p \in Request, At(p, "telling"), op' = [op EXCEPT ![p] = Idle],
               user' = user,
               \/ told' = [told EXCEPT ![op[p].of] = op[p].after] /\ untold' = untold
               \/ told' = told /\ untold' = untold \cup {op[p].of}
        PROVE  AuditTells' /\ TellsTruly'
    <3>1. op[p].of \in User
      BY <2>6 DEF At, TypeOK, RequestAt, Idle
    <3>2. ~At(p, "telling")' /\ \A q \in Request \ {p} : op'[q] = op[q]
      BY <2>6 DEF At, TypeOK, Idle
    <3>3. \A w \in User \ {op[p].of} : told'[w] = told[w]
      BY <2>6, <3>1 DEF TypeOK
    <3>4. op[p].of \in untold' \/ told'[op[p].of] = user[op[p].of]
      BY <2>6, <3>1 DEF TellsTruly, TypeOK
    <3>5. AuditTells'
      BY <2>6, <3>2, <3>3, <3>4 DEF AuditTells, At
    <3>6. TellsTruly'
      BY <2>6, <3>2 DEF TellsTruly, At
    <3> QED BY <3>5, <3>6
  <2>7. ASSUME NEW p \in Request, Tell(p) PROVE AuditTells' /\ TellsTruly'
    BY <2>6, <2>7 DEF Tell, Goto, history
  <2>8. ASSUME NEW p \in Request, Break(p) PROVE AuditTells' /\ TellsTruly'
    <3>1. op' = [op EXCEPT ![p] = Idle] /\ user' = user /\ told' = told
      BY <2>8 DEF Break, Goto
    <3>2. CASE At(p, "telling")
      BY <2>6, <2>8, <3>1, <3>2 DEF Break
    <3>3. CASE ~At(p, "telling")
      <4>1. op'[p].pc # "telling" /\ op' = [op EXCEPT ![p] = op'[p]]
        BY <3>1 DEF TypeOK, Idle
      <4> QED BY <2>1, <2>8, <3>1, <3>3, <4>1 DEF Break
    <3> QED BY <3>2, <3>3
  <2>9. CASE UNCHANGED vars
    BY <2>9 DEF vars, history, AuditTells, TellsTruly, At
  <2> QED BY <2>2, <2>3, <2>4, <2>5, <2>7, <2>8, <2>9 DEF Next
<1>3. Kept => AuditTells
  OBVIOUS
<1> QED BY <1>1, <1>2, <1>3, TypeCorrect, PTL DEF Spec

-------------------------------------------------------------------------------
(* The visitors' requests *)

\* A request that resets a password has read its link.
LinksRead == \A p \in Call : call[p].pc \in {"resetting", "reset"} => call[p].link \in DOMAIN link

VisitorTypes == A!TypeOK /\ LinksRead

\* What has an element for each of a sequence's is one as long.
LEMMA SameLength ==
  ASSUME NEW S, NEW seq \in Seq(S), NEW other \in [DOMAIN seq -> S]
  PROVE  other \in Seq(S) /\ DOMAIN other = DOMAIN seq /\ Len(other) = Len(seq)
<1>1. DOMAIN seq = 1..Len(seq) /\ Len(seq) \in Nat
  OBVIOUS
<1>2. other \in Seq(S)
  BY <1>1, SeqDef
<1> QED BY <1>1, <1>2

LEMMA Rows ==
  ASSUME VisitorTypes
  PROVE  /\ \A u \in Address : account[u] \in A!Account
         /\ \A t \in Token : session[t] \in A!Session \cup {A!NoSession}
         /\ \A l \in DOMAIN link : link[l] \in A!Link
         /\ \A p \in Call : call[p] \in A!RequestAt
BY DEF VisitorTypes, A!TypeOK

\* Where a request is says what it carries.
LEMMA Carries ==
  ASSUME VisitorTypes, NEW p \in Call
  PROVE  /\ call[p].pc \in {"registering", "changing", "changed", "linking", "wrong",
                           "verified", "opening"} => call[p].of \in Address
         /\ call[p].pc = "wrong" => call[p].attempts \in 1..(MaxAttempts + 1)
         /\ call[p].pc \in {"verified", "opening"} => call[p].with \in 0..MaxPasswords
         /\ call[p].pc \in {"resetting", "reset"} =>
               call[p].link \in DOMAIN link /\ link[call[p].link].of \in Address
<1>1. call[p] \in A!RequestAt
  BY Rows
<1>2. call[p].pc \in {"resetting", "reset"} => call[p].link \in DOMAIN link
  BY DEF VisitorTypes, LinksRead
<1>3. \A l \in DOMAIN link : link[l].of \in Address
  BY Rows DEF A!Link
<1> QED BY <1>1, <1>2, <1>3 DEF A!RequestAt, A!Idle

\* A step that moves one request on.
LEMMA MovesOn ==
  ASSUME VisitorTypes, NEW p \in Call, NEW where \in A!RequestAt,
         call' = [call EXCEPT ![p] = where],
         DOMAIN link \subseteq DOMAIN link',
         where.pc \in {"resetting", "reset"} => where.link \in DOMAIN link
  PROVE  call' \in [Call -> A!RequestAt] /\ LinksRead'
<1>1. call' \in [Call -> A!RequestAt]
  BY DEF VisitorTypes, A!TypeOK
<1>2. ASSUME NEW q \in Call, call'[q].pc \in {"resetting", "reset"}
      PROVE  call'[q].link \in DOMAIN link'
  BY <1>2 DEF VisitorTypes, A!TypeOK, LinksRead
<1> QED BY <1>1, <1>2 DEF LinksRead

\* What the routes make of an account is one.
LEMMA CounterSet ==
  ASSUME NEW rows \in [Address -> A!Account], NEW u \in Address,
         NEW n \in 0..(MaxAttempts + 1), NEW b \in BOOLEAN
  PROVE  [rows EXCEPT ![u].attempts = n, ![u].locked = b] \in [Address -> A!Account]
BY DEF A!Account

LEMMA PasswordSet ==
  ASSUME VisitorTypes, NEW u \in Address, account[u].password < MaxPasswords
  PROVE  [account EXCEPT ![u].password = @ + 1] \in [Address -> A!Account]
<1>1. account \in [Address -> A!Account]
  BY DEF VisitorTypes, A!TypeOK
<1>2. account[u].password + 1 \in 0..MaxPasswords
  BY <1>1, BoundsAssumption DEF A!Account
<1> QED BY <1>1, <1>2 DEF A!Account

LEMMA CounterCleared ==
  ASSUME NEW rows \in [Address -> A!Account], NEW u \in Address
  PROVE  [rows EXCEPT ![u].attempts = 0, ![u].locked = FALSE] \in [Address -> A!Account]
<1>1. 0 \in 0..(MaxAttempts + 1)
  BY AttemptsAssumption
<1> QED BY <1>1, CounterSet

LEMMA PasswordReset ==
  ASSUME VisitorTypes, NEW u \in Address, account[u].password < MaxPasswords
  PROVE  [account EXCEPT ![u].password = @ + 1, ![u].attempts = 0, ![u].locked = FALSE]
           \in [Address -> A!Account]
<1> DEFINE rows == [account EXCEPT ![u].password = @ + 1]
<1>1. [rows EXCEPT ![u].attempts = 0, ![u].locked = FALSE] \in [Address -> A!Account]
  BY PasswordSet, CounterCleared
<1> QED BY <1>1

LEMMA VisitorsStep == VisitorTypes /\ [A!Next]_(A!vars) => VisitorTypes'
<1> SUFFICES ASSUME VisitorTypes, [A!Next]_(A!vars) PROVE VisitorTypes'
  OBVIOUS
<1> USE DEF VisitorTypes
<1>1. ASSUME NEW p \in Call, NEW u \in Address, A!RegisterRead(p, u) PROVE VisitorTypes'
  <2>1. [pc |-> "registering", of |-> u] \in A!RequestAt
    BY DEF A!RequestAt
  <2> QED BY <1>1, <2>1, MovesOn DEF A!RegisterRead, A!Goto, A!TypeOK, A!history
<1>2. ASSUME NEW p \in Call, A!RegisterWrite(p) PROVE VisitorTypes'
  <2>1. A!Idle \in A!RequestAt /\ 0 \in 0..MaxPasswords
    BY BoundsAssumption DEF A!RequestAt
  <2>2. call[p].of \in Address
    BY <1>2, Carries DEF A!RegisterWrite, A!At
  <2>3. [pc |-> "opening", of |-> call[p].of, with |-> 0] \in A!RequestAt
    BY <2>1, <2>2 DEF A!RequestAt
  <2>4. call' \in [Call -> A!RequestAt] /\ LinksRead'
    BY <1>2, <2>1, <2>3, MovesOn DEF A!RegisterWrite, A!Goto, A!Idle
  <2>5. A!NewAccount \in A!Account
    BY <2>1, AttemptsAssumption DEF A!NewAccount, A!Account
  <2>6. account' \in [Address -> A!Account]
    BY <1>2, <2>2, <2>5 DEF A!RegisterWrite, A!TypeOK
  <2> QED BY <1>2, <2>4, <2>6 DEF A!RegisterWrite, A!TypeOK, A!history
<1>3. ASSUME NEW p \in Call, NEW u \in Address, A!LoginRead(p, u) PROVE VisitorTypes'
  <2>1. account[u] \in A!Account
    BY Rows
  <2>2. [pc |-> "verified", of |-> u, with |-> account[u].password] \in A!RequestAt
    BY <2>1 DEF A!RequestAt, A!Account
  <2>3. account[u].attempts <= MaxAttempts =>
          [pc |-> "wrong", of |-> u, attempts |-> account[u].attempts + 1] \in A!RequestAt
    BY <2>1, AttemptsAssumption DEF A!RequestAt, A!Account
  <2>4. call' \in [Call -> A!RequestAt] /\ LinksRead'
    BY <1>3, <2>2, <2>3, MovesOn DEF A!LoginRead, A!Goto
  <2> QED BY <1>3, <2>4 DEF A!LoginRead, A!TypeOK, A!history
<1>4. ASSUME NEW p \in Call, A!LoginWrong(p) PROVE VisitorTypes'
  <2>1. call[p].of \in Address /\ call[p].attempts \in 1..(MaxAttempts + 1)
    BY <1>4, Carries DEF A!LoginWrong, A!At
  <2>2. call' \in [Call -> A!RequestAt] /\ LinksRead'
    BY <1>4, MovesOn DEF A!LoginWrong, A!Goto, A!Idle, A!RequestAt
  <2>3. account' \in [Address -> A!Account]
    <3>1. call[p].attempts \in 0..(MaxAttempts + 1)
      BY <2>1
    <3>2. (call[p].attempts >= MaxAttempts) \in BOOLEAN
      OBVIOUS
    <3>3. account \in [Address -> A!Account]
      BY DEF A!TypeOK
    <3> QED BY <1>4, <2>1, <3>1, <3>2, <3>3, CounterSet DEF A!LoginWrong
  <2>4. streak' \in [Address -> 0..MaxAttempts]
    BY <1>4, <2>1, AttemptsAssumption DEF A!LoginWrong, A!TypeOK
  <2> QED BY <1>4, <2>2, <2>3, <2>4 DEF A!LoginWrong, A!TypeOK
<1>5. ASSUME NEW u \in Address, A!SetBack(u)
      PROVE  streak' \in [Address -> 0..MaxAttempts] /\ mixed' \subseteq Address
  BY <1>5, AttemptsAssumption DEF A!SetBack, A!TypeOK
<1>6. ASSUME NEW p \in Call, A!LoginReset(p) PROVE VisitorTypes'
  <2>1. call[p].of \in Address /\ call[p].with \in 0..MaxPasswords
    BY <1>6, Carries DEF A!LoginReset, A!At
  <2>2. [call[p] EXCEPT !.pc = "opening"] \in A!RequestAt
    BY <1>6, <2>1, Rows DEF A!LoginReset, A!At, A!RequestAt, A!Idle
  <2>3. [call[p] EXCEPT !.pc = "opening"].pc = "opening"
    BY <2>2, Rows DEF A!RequestAt, A!Idle
  <2>4. call' \in [Call -> A!RequestAt] /\ LinksRead'
    BY <1>6, <2>2, <2>3, MovesOn DEF A!LoginReset, A!Goto
  <2>5. account' \in [Address -> A!Account]
    BY <1>6, <2>1, CounterCleared DEF A!LoginReset, A!TypeOK
  <2> QED BY <1>5, <1>6, <2>1, <2>4, <2>5 DEF A!LoginReset, A!TypeOK
<1>7. ASSUME NEW p \in Call, NEW t \in Token, A!OpenSession(p, t) PROVE VisitorTypes'
  <2>1. call[p].of \in Address /\ call[p].with \in 0..MaxPasswords
    BY <1>7, Carries DEF A!OpenSession, A!At
  <2>2. call' \in [Call -> A!RequestAt] /\ LinksRead'
    BY <1>7, MovesOn DEF A!OpenSession, A!Goto, A!Idle, A!RequestAt
  <2>3. [open |-> TRUE, of |-> call[p].of, with |-> call[p].with,
         late |-> call[p].with # account[call[p].of].password] \in A!Session
    BY <2>1 DEF A!Session
  <2>4. session' \in [Token -> A!Session \cup {A!NoSession}]
    BY <1>7, <2>3 DEF A!OpenSession, A!TypeOK
  <2> QED BY <1>7, <2>2, <2>4 DEF A!OpenSession, A!TypeOK, A!history
<1>8. ASSUME NEW u \in Address, A!LockRunsOut(u) PROVE VisitorTypes'
  <2>1. account' \in [Address -> A!Account]
    BY <1>8 DEF A!LockRunsOut, A!TypeOK, A!Account
  <2> QED BY <1>8, <2>1 DEF A!LockRunsOut, A!TypeOK, A!history, LinksRead
<1>9. ASSUME NEW t \in Token, A!EndSession(t) PROVE VisitorTypes'
  BY <1>9 DEF A!EndSession, A!TypeOK, A!history, LinksRead
<1>10. ASSUME NEW p \in Call, NEW t \in Token, A!ChangeRead(p, t) PROVE VisitorTypes'
  <2>1. session[t] \in A!Session
    BY <1>10, Rows DEF A!ChangeRead, A!Authenticated, A!NoSession
  <2>2. [pc |-> "changing", of |-> session[t].of] \in A!RequestAt
    BY <2>1 DEF A!RequestAt, A!Session
  <2>3. call' \in [Call -> A!RequestAt] /\ LinksRead'
    BY <1>10, <2>2, MovesOn DEF A!ChangeRead, A!Goto
  <2> QED BY <1>10, <2>3 DEF A!ChangeRead, A!TypeOK, A!history
<1>11. ASSUME NEW p \in Call, A!ChangeWrite(p) PROVE VisitorTypes'
  <2>1. call[p].of \in Address
    BY <1>11, Carries DEF A!ChangeWrite, A!At
  <2>2. [call[p] EXCEPT !.pc = "changed"] \in A!RequestAt
    BY <1>11, <2>1, Rows DEF A!ChangeWrite, A!At, A!RequestAt, A!Idle
  <2>3. [call[p] EXCEPT !.pc = "changed"].pc = "changed"
    BY <2>2, Rows DEF A!RequestAt, A!Idle
  <2>4. call' \in [Call -> A!RequestAt] /\ LinksRead'
    BY <1>11, <2>2, <2>3, MovesOn DEF A!ChangeWrite, A!Goto
  <2>5. account' \in [Address -> A!Account]
    BY <1>11, <2>1, PasswordSet DEF A!ChangeWrite
  <2> QED BY <1>11, <2>4, <2>5 DEF A!ChangeWrite, A!TypeOK, A!history
<1>12. ASSUME NEW u PROVE A!WithoutSessions(u) \in [Token -> A!Session \cup {A!NoSession}]
  BY Rows DEF A!WithoutSessions
<1>13. ASSUME NEW p \in Call, A!ChangeEnd(p) PROVE VisitorTypes'
  <2>1. call' \in [Call -> A!RequestAt] /\ LinksRead'
    BY <1>13, MovesOn DEF A!ChangeEnd, A!Goto, A!Idle, A!RequestAt
  <2> QED BY <1>12, <1>13, <2>1 DEF A!ChangeEnd, A!TypeOK


<1>14. ASSUME NEW p \in Call, NEW u \in Address, A!LinkInvalidate(p, u) PROVE VisitorTypes'
  <2>1. link' \in [DOMAIN link -> A!Link]
    BY <1>14, Rows DEF A!LinkInvalidate, A!Link
  <2>2. link' \in Seq(A!Link) /\ DOMAIN link' = DOMAIN link /\ Len(link') = Len(link)
    BY <2>1, SameLength DEF A!TypeOK
  <2>3. [pc |-> "linking", of |-> u] \in A!RequestAt
    BY DEF A!RequestAt
  <2>4. call' \in [Call -> A!RequestAt] /\ LinksRead'
    BY <1>14, <2>2, <2>3, MovesOn DEF A!LinkInvalidate, A!Goto
  <2> QED BY <1>14, <2>2, <2>4 DEF A!LinkInvalidate, A!TypeOK, A!history
<1>15. ASSUME NEW p \in Call, A!LinkCreate(p) PROVE VisitorTypes'
  <2>1. [of |-> call[p].of, status |-> "open", uses |-> 0, shared |-> FALSE] \in A!Link
    BY <1>15, Carries DEF A!LinkCreate, A!At, A!Link
  <2>2. /\ link' \in Seq(A!Link) /\ Len(link') <= MaxLinks
        /\ DOMAIN link \subseteq DOMAIN link'
    BY <1>15, <2>1, BoundsAssumption DEF A!LinkCreate, A!TypeOK
  <2>3. call' \in [Call -> A!RequestAt] /\ LinksRead'
    BY <1>15, <2>2, MovesOn DEF A!LinkCreate, A!Goto, A!Idle, A!RequestAt
  <2> QED BY <1>15, <2>2, <2>3 DEF A!LinkCreate, A!TypeOK, A!history
<1>16. ASSUME NEW l \in DOMAIN link, link' \in [DOMAIN link -> A!Link]
       PROVE  /\ link' \in Seq(A!Link) /\ Len(link') <= MaxLinks
              /\ DOMAIN link' = DOMAIN link
  BY <1>16, SameLength DEF A!TypeOK
<1>17. ASSUME NEW l \in DOMAIN link, A!LinkExpires(l) PROVE VisitorTypes'
  <2>1. link' \in [DOMAIN link -> A!Link]
    BY <1>17, Rows DEF A!LinkExpires, A!TypeOK, A!Link
  <2> QED BY <1>16, <1>17, <2>1 DEF A!LinkExpires, A!TypeOK, A!history, LinksRead
<1>18. ASSUME NEW p \in Call, NEW l \in DOMAIN link, A!ResetRead(p, l) PROVE VisitorTypes'
  <2>1. link' \in [DOMAIN link -> A!Link]
    BY <1>18, Rows DEF A!ResetRead, A!TypeOK, A!Link, A!Resets
  <2>2. l \in 1..MaxLinks
    BY BoundsAssumption DEF A!TypeOK
  <2>3. [pc |-> "resetting", link |-> l] \in A!RequestAt
    BY <2>2 DEF A!RequestAt
  <2>4. call' \in [Call -> A!RequestAt] /\ LinksRead'
    BY <1>16, <1>18, <2>1, <2>3, MovesOn DEF A!ResetRead, A!Goto
  <2> QED BY <1>16, <1>18, <2>1, <2>4 DEF A!ResetRead, A!TypeOK, A!history
<1>19. ASSUME NEW p \in Call, A!ResetWrite(p) PROVE VisitorTypes'
  <2> DEFINE l == call[p].link
             u == link[l].of
  <2>1. l \in DOMAIN link /\ u \in Address
    BY <1>19, Carries DEF A!ResetWrite, A!At
  <2>2. call[p] \in [pc : {"resetting", "reset"}, link : 1..MaxLinks]
    <3>1. call[p].pc = "resetting"
      BY <1>19 DEF A!ResetWrite, A!At
    <3> QED BY <3>1, Rows DEF A!RequestAt, A!Idle
  <2>3. /\ [call[p] EXCEPT !.pc = "reset"] \in A!RequestAt
        /\ [call[p] EXCEPT !.pc = "reset"].link = l
    BY <2>2 DEF A!RequestAt
  <2>4. /\ account[u].password < MaxPasswords
        /\ account' = [account EXCEPT ![u].password = @ + 1, ![u].attempts = 0,
                                      ![u].locked = FALSE]
        /\ session' = A!WithoutSessions(u) /\ A!SetBack(u)
        /\ cut' = cut \ {u}
        /\ link' = [link EXCEPT ![l].uses = @ + 1]
        /\ call' = [call EXCEPT ![p] = [call[p] EXCEPT !.pc = "reset"]]
        /\ broken' = broken
    BY <1>19 DEF A!ResetWrite, A!Goto
  <2> HIDE DEF u, l
  <2>5. link' \in [DOMAIN link -> A!Link]
    <3>1. link \in [DOMAIN link -> A!Link]
      BY Rows DEF A!TypeOK
    <3> QED BY <2>1, <2>4, <3>1 DEF A!Link
  <2>6. call' \in [Call -> A!RequestAt] /\ LinksRead'
    BY <1>16, <2>1, <2>3, <2>4, <2>5, MovesOn
  <2>7. account' \in [Address -> A!Account]
    BY <2>1, <2>4, PasswordReset
  <2> QED BY <1>5, <1>12, <1>16, <2>1, <2>4, <2>5, <2>6, <2>7 DEF A!TypeOK
<1>20. ASSUME NEW p \in Call, A!ResetEnd(p) PROVE VisitorTypes'
  <2> DEFINE l == call[p].link
  <2>1. l \in DOMAIN link /\ link' = [link EXCEPT ![l].status = "used"]
    BY <1>20, Carries DEF A!ResetEnd, A!At
  <2> HIDE DEF l
  <2>2. link' \in [DOMAIN link -> A!Link]
    BY <2>1, Rows DEF A!TypeOK, A!Link
  <2>3. call' \in [Call -> A!RequestAt] /\ LinksRead'
    BY <1>16, <1>20, <2>1, <2>2, MovesOn DEF A!ResetEnd, A!Goto, A!Idle, A!RequestAt
  <2> QED BY <1>16, <1>20, <2>1, <2>2, <2>3 DEF A!ResetEnd, A!TypeOK, A!history
<1>21. ASSUME NEW u \in Address, A!Manage(u) PROVE VisitorTypes'
  <2>1. account' \in [Address -> A!Account]
    <3>1. CASE account' = [account EXCEPT ![u].attempts = 0, ![u].locked = FALSE]
      BY <3>1, CounterCleared DEF A!TypeOK
    <3>2. CASE account' = [account EXCEPT ![u].active = ~@]
      BY <3>2 DEF A!TypeOK, A!Account
    <3> QED BY <1>21, <3>1, <3>2 DEF A!Manage
  <2>2. streak' \in [Address -> 0..MaxAttempts] /\ mixed' \subseteq Address
    BY <1>5, <1>21 DEF A!Manage, A!TypeOK
  <2> QED BY <1>21, <2>1, <2>2 DEF A!Manage, A!TypeOK, LinksRead
<1>22. ASSUME NEW p \in Call, A!Break(p) PROVE VisitorTypes'
  <2>1. cut' \subseteq Address
    BY <1>22, Carries DEF A!Break, A!At, A!TypeOK
  <2>2. /\ link' \in Seq(A!Link) /\ Len(link') <= MaxLinks
        /\ DOMAIN link' = DOMAIN link
    <3> DEFINE l == call[p].link
    <3>1. CASE link' = link
      BY <3>1 DEF A!TypeOK
    <3>2. CASE l \in DOMAIN link /\ link' = [link EXCEPT ![l].shared = TRUE]
      <4> HIDE DEF l
      <4>1. link' \in [DOMAIN link -> A!Link]
        BY <3>2, Rows DEF A!TypeOK, A!Link
      <4> QED BY <1>16, <3>2, <4>1
    <3> QED BY <1>22, <3>1, <3>2, Carries DEF A!Break, A!At
  <2>3. call' \in [Call -> A!RequestAt] /\ LinksRead'
    BY <1>22, <2>2, MovesOn DEF A!Break, A!Goto, A!Idle, A!RequestAt
  <2> QED BY <1>22, <2>1, <2>2, <2>3, BoundAssumption DEF A!Break, A!TypeOK
<1>23. CASE UNCHANGED A!vars
  BY <1>23 DEF A!vars, A!history, A!TypeOK, LinksRead
<1> QED
  BY <1>1, <1>2, <1>3, <1>4, <1>6, <1>7, <1>8, <1>9, <1>10, <1>11, <1>13, <1>14, <1>15,
     <1>17, <1>18, <1>19, <1>20, <1>21, <1>22, <1>23
  DEF A!Next, A!Visit, A!Password

LEMMA InitVisitors == A!Init => VisitorTypes
<1> SUFFICES ASSUME A!Init PROVE VisitorTypes
  OBVIOUS
<1>1. 0 \in 0..(MaxAttempts + 1) /\ 0 \in 0..MaxAttempts /\ 0 \in 0..MaxPasswords
      /\ 0 \in 0..MaxBreaks /\ 0 <= MaxLinks
  BY AttemptsAssumption, BoundsAssumption, BoundAssumption
<1>2. account \in [Address -> A!Account]
  <2>1. ASSUME NEW b \in BOOLEAN PROVE [A!NewAccount EXCEPT !.exists = b] \in A!Account
    BY <1>1 DEF A!NewAccount, A!Account
  <2>2. PICK here \in SUBSET Address :
          account = [u \in Address |-> [A!NewAccount EXCEPT !.exists = u \in here]]
    BY DEF A!Init
  <2>3. ASSUME NEW u \in Address PROVE account[u] \in A!Account
    <3>1. (u \in here) \in BOOLEAN
      OBVIOUS
    <3> QED BY <2>1, <2>2, <3>1
  <2> QED BY <2>2, <2>3
<1>3. link \in Seq(A!Link) /\ Len(link) <= MaxLinks
  BY <1>1 DEF A!Init
<1>4. call \in [Call -> A!RequestAt] /\ LinksRead
  BY DEF A!Init, A!RequestAt, A!Idle, LinksRead
<1> QED BY <1>1, <1>2, <1>3, <1>4 DEF A!Init, VisitorTypes, A!TypeOK

\* Accounts, sessions, links and requests keep their types, and a request its link.
THEOREM VisitorsTyped == A!Spec => []VisitorTypes
BY InitVisitors, VisitorsStep, PTL DEF A!Spec

-------------------------------------------------------------------------------

\* What has been counted, or a failed login under way has counted, has failed since the
\* counter was last set back.
Counted ==
  \A u \in Address : u \notin mixed /\ streak[u] # MaxAttempts =>
    /\ account[u].attempts <= streak[u]
    /\ \A p \in Call : A!At(p, "wrong") /\ call[p].of = u => call[p].attempts <= streak[u] + 1

Earned == VisitorTypes /\ A!LockEarned /\ Counted

\* A step that counts nothing and sets nothing back.
LEMMA NothingCounted ==
  ASSUME Earned, VisitorTypes', streak' = streak, mixed' = mixed,
         \A u \in Address : /\ account'[u].attempts <= account[u].attempts
                            /\ account'[u].locked => account[u].locked,
         \A p \in Call : call'[p].pc = "wrong" =>
           call'[p] = call[p] \/ call'[p].attempts = account[call'[p].of].attempts + 1
  PROVE  Earned'
<1>1. A!LockEarned'
  BY DEF Earned, A!LockEarned
<1>2. ASSUME NEW u \in Address, u \notin mixed, streak[u] # MaxAttempts
      PROVE  /\ account'[u].attempts <= streak[u]
             /\ \A p \in Call : A!At(p, "wrong")' /\ call'[p].of = u =>
                                  call'[p].attempts <= streak[u] + 1
  <2>1. account[u].attempts <= streak[u] /\ account[u].attempts \in Nat
        /\ account'[u].attempts \in Nat /\ streak[u] \in Nat
    BY <1>2, Rows, AttemptsAssumption DEF Earned, Counted, VisitorTypes, A!TypeOK, A!Account
  <2>2. ASSUME NEW p \in Call, A!At(p, "wrong")', call'[p].of = u
        PROVE  call'[p].attempts <= streak[u] + 1
    BY <1>2, <2>1, <2>2 DEF Earned, Counted, A!At
  <2> QED BY <2>1, <2>2
<1> QED BY <1>1, <1>2 DEF Earned, Counted

\* A step that sets the counter of one account back.
LEMMA CounterBack ==
  ASSUME Earned, VisitorTypes', NEW u \in Address, A!SetBack(u),
         account'[u].attempts = 0, ~account'[u].locked,
         \A w \in Address \ {u} : /\ account'[w].attempts = account[w].attempts
                                  /\ account'[w].locked = account[w].locked,
         \A p \in Call : call'[p].pc = "wrong" => call'[p] = call[p]
  PROVE  Earned'
<1>1. streak' = [streak EXCEPT ![u] = 0] /\ streak \in [Address -> 0..MaxAttempts]
  BY DEF A!SetBack, Earned, VisitorTypes, A!TypeOK
<1>2. u \notin mixed' => \A q \in Call : ~(A!At(q, "wrong") /\ call[q].of = u)
  BY DEF A!SetBack
<1>3. \A w \in Address \ {u} : w \in mixed' <=> w \in mixed
  BY DEF A!SetBack
<1>4. A!LockEarned'
  BY <1>1, <1>3 DEF Earned, A!LockEarned
<1>5. ASSUME NEW w \in Address, w \notin mixed', streak'[w] # MaxAttempts
      PROVE  /\ account'[w].attempts <= streak'[w]
             /\ \A p \in Call : A!At(p, "wrong")' /\ call'[p].of = w =>
                                  call'[p].attempts <= streak'[w] + 1
  <2>1. CASE w = u
    <3>1. ASSUME NEW p \in Call, A!At(p, "wrong")', call'[p].of = u PROVE FALSE
      <4>1. call'[p] = call[p] /\ A!At(p, "wrong") /\ call[p].of = u
        BY <3>1 DEF A!At
      <4> QED BY <1>2, <1>5, <2>1, <4>1
    <3>2. account'[u].attempts <= streak'[u]
      BY <1>1
    <3> QED BY <2>1, <3>1, <3>2
  <2>2. CASE w # u
    BY <1>1, <1>3, <1>5, <2>2 DEF Earned, Counted, A!At
  <2> QED BY <2>1, <2>2
<1> QED BY <1>4, <1>5 DEF Earned, Counted

LEMMA EarnedStep == Earned /\ VisitorTypes' /\ [A!Next]_(A!vars) => Earned'
<1> SUFFICES ASSUME Earned, VisitorTypes', [A!Next]_(A!vars) PROVE Earned'
  OBVIOUS
<1> USE DEF Earned
<1>1. account \in [Address -> A!Account] /\ call \in [Call -> A!RequestAt]
      /\ \A u \in Address : account[u].attempts \in Nat
  BY Rows, AttemptsAssumption DEF VisitorTypes, A!TypeOK, A!Account
<1>2. ASSUME account' = account, streak' = streak, mixed' = mixed, NEW p \in Call,
             call' = [call EXCEPT ![p] = call'[p]], call'[p].pc # "wrong"
      PROVE  Earned'
  BY <1>1, <1>2, NothingCounted
<1>3. ASSUME NEW p \in Call, NEW u \in Address, A!RegisterRead(p, u) PROVE Earned'
  <2>1. call' = [call EXCEPT ![p] = call'[p]] /\ call'[p].pc # "wrong"
    BY <1>1, <1>3 DEF A!RegisterRead, A!Goto
  <2> QED BY <1>2, <1>3, <2>1 DEF A!RegisterRead, A!history
<1>4. ASSUME NEW p \in Call, A!RegisterWrite(p) PROVE Earned'
  <2>1. \A u \in Address : /\ account'[u].attempts <= account[u].attempts
                           /\ account'[u].locked => account[u].locked
    BY <1>1, <1>4 DEF A!RegisterWrite, A!NewAccount
  <2>2. \A q \in Call : call'[q].pc = "wrong" => call'[q] = call[q]
    BY <1>1, <1>4 DEF A!RegisterWrite, A!Goto, A!Idle
  <2> QED BY <1>4, <2>1, <2>2, NothingCounted DEF A!RegisterWrite, A!history
<1>5. ASSUME NEW p \in Call, NEW u \in Address, A!LoginRead(p, u) PROVE Earned'
  <2>1. \A q \in Call : call'[q].pc = "wrong" =>
          call'[q] = call[q] \/ call'[q].attempts = account[call'[q].of].attempts + 1
    BY <1>1, <1>5 DEF A!LoginRead, A!Goto
  <2>2. \A w \in Address : account'[w].attempts <= account[w].attempts
    BY <1>1, <1>5 DEF A!LoginRead
  <2> QED BY <1>5, <2>1, <2>2, NothingCounted DEF A!LoginRead, A!history
<1>6. ASSUME NEW p \in Call, A!LoginWrong(p) PROVE Earned'
  <2> DEFINE u == call[p].of
             n == call[p].attempts
  <2>1. u \in Address /\ n \in 1..(MaxAttempts + 1) /\ call[p].pc = "wrong"
    BY <1>6, Carries DEF A!LoginWrong, A!At
  <2>2. /\ account' = [account EXCEPT ![u].attempts = n, ![u].locked = n >= MaxAttempts]
        /\ streak' = [streak EXCEPT ![u] = IF @ < MaxAttempts THEN @ + 1 ELSE @]
        /\ mixed' = mixed /\ call' = [call EXCEPT ![p] = A!Idle]
    BY <1>6 DEF A!LoginWrong, A!Goto
  <2>3. u \notin mixed /\ streak[u] # MaxAttempts => n <= streak[u] + 1
    BY <2>1 DEF Counted, A!At
  <2> HIDE DEF u, n
  <2>4. /\ account'[u].attempts = n /\ account'[u].locked = (n >= MaxAttempts)
        /\ \A w \in Address \ {u} : account'[w] = account[w]
    BY <1>1, <2>1, <2>2 DEF A!Account
  <2>5. streak \in [Address -> 0..MaxAttempts]
    BY DEF VisitorTypes, A!TypeOK
  <2>6. /\ streak[u] \in 0..MaxAttempts
        /\ streak'[u] = (IF streak[u] < MaxAttempts THEN streak[u] + 1 ELSE streak[u])
        /\ \A w \in Address \ {u} : streak'[w] = streak[w]
    BY <2>1, <2>2, <2>5
  <2>7. /\ call'[p].pc # "wrong" /\ \A q \in Call \ {p} : call'[q] = call[q]
    BY <1>1, <2>2 DEF A!Idle
  <2>8. A!LockEarned'
    <3> SUFFICES ASSUME NEW w \in Address, account'[w].locked
                 PROVE  w \in mixed' \/ streak'[w] = MaxAttempts
      BY DEF A!LockEarned
    <3>1. CASE w = u
      <4>1. n >= MaxAttempts
        BY <2>4, <3>1
      <4>2. u \notin mixed /\ streak[u] # MaxAttempts => streak'[u] >= MaxAttempts
        BY <2>1, <2>3, <2>6, <4>1, AttemptsAssumption
      <4>3. streak'[u] \in 0..MaxAttempts /\ (streak[u] = MaxAttempts => streak'[u] = streak[u])
        BY <2>6, AttemptsAssumption
      <4> QED BY <2>2, <3>1, <4>2, <4>3, AttemptsAssumption
    <3>2. CASE w # u
      BY <2>2, <2>4, <2>6, <3>2 DEF A!LockEarned
    <3> QED BY <3>1, <3>2
  <2>9. ASSUME NEW w \in Address, w \notin mixed', streak'[w] # MaxAttempts
        PROVE  /\ account'[w].attempts <= streak'[w]
               /\ \A q \in Call : A!At(q, "wrong")' /\ call'[q].of = w =>
                                    call'[q].attempts <= streak'[w] + 1
    <3>1. CASE w = u
      <4>1. streak[u] # MaxAttempts /\ u \notin mixed /\ streak'[u] = streak[u] + 1
        BY <2>2, <2>6, <2>9, <3>1, AttemptsAssumption
      <4>2. ASSUME NEW q \in Call, A!At(q, "wrong")', call'[q].of = w
            PROVE  call'[q].attempts <= streak'[w] + 1
        <5>1. call'[q] = call[q] /\ A!At(q, "wrong") /\ call[q].of = u
          BY <2>7, <3>1, <4>2 DEF A!At
        <5>2. call[q].attempts <= streak[u] + 1 /\ call[q].attempts \in Nat
          BY <2>1, <4>1, <5>1, Carries DEF Counted, A!At
        <5> QED BY <2>6, <3>1, <4>1, <5>1, <5>2, AttemptsAssumption
      <4> QED BY <2>1, <2>3, <2>4, <2>6, <3>1, <4>1, <4>2, AttemptsAssumption
    <3>2. CASE w # u
      BY <2>2, <2>4, <2>6, <2>7, <2>9, <3>2 DEF Counted, A!At
    <3> QED BY <3>1, <3>2
  <2> QED BY <2>8, <2>9 DEF Counted
<1>7. ASSUME NEW p \in Call, A!LoginReset(p) PROVE Earned'
  <2> DEFINE u == call[p].of
  <2>1. u \in Address
    BY <1>7, Carries DEF A!LoginReset, A!At
  <2>2. /\ account' = [account EXCEPT ![u].attempts = 0, ![u].locked = FALSE]
        /\ A!SetBack(u)
    BY <1>7 DEF A!LoginReset
  <2>3. \A q \in Call : call'[q].pc = "wrong" => call'[q] = call[q]
    <3>1. call[p] \in [pc : {"verified", "opening"}, of : Address, with : 0..MaxPasswords]
      <4>1. call[p].pc = "verified"
        BY <1>7 DEF A!LoginReset, A!At
      <4> QED BY <4>1, Rows DEF A!RequestAt, A!Idle
    <3> QED BY <1>1, <1>7, <3>1 DEF A!LoginReset, A!Goto
  <2> HIDE DEF u
  <2>4. /\ account'[u].attempts = 0 /\ ~account'[u].locked
        /\ \A w \in Address \ {u} : account'[w] = account[w]
    BY <1>1, <2>1, <2>2 DEF A!Account
  <2> QED BY <2>1, <2>2, <2>3, <2>4, CounterBack
<1>8. ASSUME NEW p \in Call, NEW t \in Token, A!OpenSession(p, t) PROVE Earned'
  <2>1. call' = [call EXCEPT ![p] = call'[p]] /\ call'[p].pc # "wrong"
    BY <1>1, <1>8 DEF A!OpenSession, A!Goto, A!Idle
  <2> QED BY <1>2, <1>8, <2>1 DEF A!OpenSession, A!history
<1>9. ASSUME call' = call, streak' = streak, mixed' = mixed,
             \A u \in Address : /\ account'[u].attempts = account[u].attempts
                                /\ account'[u].locked => account[u].locked
      PROVE  Earned'
  BY <1>1, <1>9, NothingCounted
<1>10. ASSUME NEW u \in Address, A!LockRunsOut(u) PROVE Earned'
  BY <1>1, <1>9, <1>10 DEF A!LockRunsOut, A!history, A!Account
<1>11. ASSUME NEW t \in Token, A!EndSession(t) PROVE Earned'
  BY <1>9, <1>11 DEF A!EndSession, A!history
<1>12. ASSUME NEW p \in Call, NEW t \in Token, A!ChangeRead(p, t) PROVE Earned'
  <2>1. call' = [call EXCEPT ![p] = call'[p]] /\ call'[p].pc # "wrong"
    BY <1>1, <1>12 DEF A!ChangeRead, A!Goto
  <2> QED BY <1>2, <1>12, <2>1 DEF A!ChangeRead, A!history
<1>13. ASSUME NEW p \in Call, A!ChangeWrite(p) PROVE Earned'
  <2>1. call[p].of \in Address /\ call[p].pc = "changing"
    BY <1>13, Carries DEF A!ChangeWrite, A!At
  <2>2. call[p] \in [pc : {"registering", "changing", "changed", "linking"}, of : Address]
    BY <2>1, Rows DEF A!RequestAt, A!Idle
  <2>3. \A q \in Call : call'[q].pc = "wrong" => call'[q] = call[q]
    BY <1>1, <1>13, <2>2 DEF A!ChangeWrite, A!Goto
  <2>4. \A w \in Address : /\ account'[w].attempts = account[w].attempts
                           /\ account'[w].locked = account[w].locked
    BY <1>1, <1>13, <2>1 DEF A!ChangeWrite, A!Account
  <2> QED BY <1>1, <1>13, <2>3, <2>4, NothingCounted DEF A!ChangeWrite, A!history
<1>14. ASSUME NEW p \in Call, A!ChangeEnd(p) PROVE Earned'
  <2>1. call' = [call EXCEPT ![p] = call'[p]] /\ call'[p].pc # "wrong"
    BY <1>1, <1>14 DEF A!ChangeEnd, A!Goto, A!Idle
  <2> QED BY <1>2, <1>14, <2>1 DEF A!ChangeEnd, A!history
<1>15. ASSUME NEW p \in Call, NEW u \in Address, A!LinkInvalidate(p, u) PROVE Earned'
  <2>1. call' = [call EXCEPT ![p] = call'[p]] /\ call'[p].pc # "wrong"
    BY <1>1, <1>15 DEF A!LinkInvalidate, A!Goto
  <2> QED BY <1>2, <1>15, <2>1 DEF A!LinkInvalidate, A!history
<1>16. ASSUME NEW p \in Call, A!LinkCreate(p) PROVE Earned'
  <2>1. call' = [call EXCEPT ![p] = call'[p]] /\ call'[p].pc # "wrong"
    BY <1>1, <1>16 DEF A!LinkCreate, A!Goto, A!Idle
  <2> QED BY <1>2, <1>16, <2>1 DEF A!LinkCreate, A!history
<1>17. ASSUME NEW l \in DOMAIN link, A!LinkExpires(l) PROVE Earned'
  BY <1>9, <1>17 DEF A!LinkExpires, A!history
<1>18. ASSUME NEW p \in Call, NEW l \in DOMAIN link, A!ResetRead(p, l) PROVE Earned'
  <2>1. call' = [call EXCEPT ![p] = call'[p]] /\ call'[p].pc # "wrong"
    BY <1>1, <1>18 DEF A!ResetRead, A!Goto
  <2> QED BY <1>2, <1>18, <2>1 DEF A!ResetRead, A!history
<1>19. ASSUME NEW p \in Call, A!ResetWrite(p) PROVE Earned'
  <2> DEFINE u == link[call[p].link].of
  <2>1. u \in Address /\ call[p].pc = "resetting"
    BY <1>19, Carries DEF A!ResetWrite, A!At
  <2>2. /\ account' = [account EXCEPT ![u].password = @ + 1, ![u].attempts = 0,
                                      ![u].locked = FALSE]
        /\ A!SetBack(u)
        /\ call' = [call EXCEPT ![p] = [call[p] EXCEPT !.pc = "reset"]]
    BY <1>19 DEF A!ResetWrite, A!Goto
  <2>3. call[p] \in [pc : {"resetting", "reset"}, link : 1..MaxLinks]
    BY <2>1, Rows DEF A!RequestAt, A!Idle
  <2> HIDE DEF u
  <2>4. \A q \in Call : call'[q].pc = "wrong" => call'[q] = call[q]
    BY <1>1, <2>2, <2>3
  <2>5. /\ account'[u].attempts = 0 /\ ~account'[u].locked
        /\ \A w \in Address \ {u} : account'[w] = account[w]
    BY <1>1, <2>1, <2>2 DEF A!Account
  <2> QED BY <2>1, <2>2, <2>4, <2>5, CounterBack
<1>20. ASSUME NEW p \in Call, A!ResetEnd(p) PROVE Earned'
  <2>1. call' = [call EXCEPT ![p] = call'[p]] /\ call'[p].pc # "wrong"
    BY <1>1, <1>20 DEF A!ResetEnd, A!Goto, A!Idle
  <2> QED BY <1>2, <1>20, <2>1 DEF A!ResetEnd, A!history
<1>21. ASSUME NEW u \in Address, A!Manage(u) PROVE Earned'
  <2>1. CASE account' = [account EXCEPT ![u].attempts = 0, ![u].locked = FALSE] /\ A!SetBack(u)
    <3>1. /\ account'[u].attempts = 0 /\ ~account'[u].locked
          /\ \A w \in Address \ {u} : account'[w] = account[w]
      BY <1>1, <2>1 DEF A!Account
    <3> QED BY <1>21, <2>1, <3>1, CounterBack DEF A!Manage
  <2>2. CASE account' = [account EXCEPT ![u].active = ~@] /\ UNCHANGED <<streak, mixed>>
    <3>1. \A w \in Address : /\ account'[w].attempts = account[w].attempts
                             /\ account'[w].locked = account[w].locked
      BY <1>1, <2>2 DEF A!Account
    <3> QED BY <1>9, <1>21, <2>2, <3>1 DEF A!Manage
  <2> QED BY <1>21, <2>1, <2>2 DEF A!Manage
<1>22. ASSUME NEW p \in Call, A!Break(p) PROVE Earned'
  <2>1. call' = [call EXCEPT ![p] = call'[p]] /\ call'[p].pc # "wrong"
    BY <1>1, <1>22 DEF A!Break, A!Goto, A!Idle
  <2> QED BY <1>2, <1>22, <2>1 DEF A!Break, A!history
<1>23. CASE UNCHANGED A!vars
  BY <1>9, <1>23 DEF A!vars, A!history
<1> QED
  BY <1>3, <1>4, <1>5, <1>6, <1>7, <1>8, <1>10, <1>11, <1>12, <1>13, <1>14, <1>15,
     <1>16, <1>17, <1>18, <1>19, <1>20, <1>21, <1>22, <1>23
  DEF A!Next, A!Visit, A!Password

\* Nobody is locked out for fewer failed logins than it takes: for any number of accounts
\* and requests.
THEOREM LocksAreEarned == A!Spec => []A!LockEarned
<1>1. A!Init => Earned
  <2>1. A!Init => A!LockEarned
    BY DEF A!Init, A!NewAccount, A!LockEarned
  <2>2. A!Init => Counted
    BY DEF A!Init, A!NewAccount, A!Idle, A!At, Counted
  <2> QED BY <2>1, <2>2, InitVisitors DEF Earned
<1>2. Earned => A!LockEarned
  BY DEF Earned
<1> QED BY <1>1, <1>2, EarnedStep, VisitorsTyped, PTL DEF A!Spec

-------------------------------------------------------------------------------

\* Where a request is when it has found an account or made one.
Found == {"verified", "opening", "changing", "changed", "linking"}

\* Only accounts that exist have sessions, links and passwords written anew.
Existing ==
  /\ \A u \in Address : ~account[u].exists => account[u].password = 0
  /\ \A p \in Call : call[p].pc \in Found => account[call[p].of].exists
  /\ \A t \in Token : session[t].open => account[session[t].of].exists
  /\ \A l \in DOMAIN link : account[link[l].of].exists

Ended == VisitorTypes /\ A!SessionsEnded /\ Existing

\* A step that opens no session, and writes no password.
LEMMA NothingOpened ==
  ASSUME Ended, VisitorTypes',
         \A u \in Address : /\ account'[u].exists = account[u].exists
                            /\ account'[u].password = account[u].password,
         \A t \in Token : session'[t].open => session'[t] = session[t],
         cut \subseteq cut',
         \A p \in Call : /\ A!At(p, "changed") => call'[p] = call[p] \/ call[p].of \in cut'
                         /\ call'[p].pc \in Found =>
                              call'[p] = call[p] \/ account[call'[p].of].exists,
         \A l \in DOMAIN link' : account[link'[l].of].exists
  PROVE  Ended'
<1>1. /\ \A t \in Token : session'[t].open => session[t] \in A!Session
      /\ \A p \in Call : call'[p].pc \in Found => call'[p].of \in Address
      /\ \A l \in DOMAIN link' : link'[l].of \in Address
  <2>1. \A t \in Token : session'[t].open => session[t] \in A!Session
    BY Rows DEF Ended, A!NoSession
  <2>2. ASSUME NEW p \in Call, call'[p].pc \in Found PROVE call'[p].of \in Address
    BY <2>2 DEF Found, VisitorTypes, A!TypeOK, A!RequestAt, A!Idle
  <2>3. ASSUME NEW l \in DOMAIN link' PROVE link'[l].of \in Address
    <3>1. link' \in Seq(A!Link)
      BY DEF VisitorTypes, A!TypeOK
    <3>2. link'[l] \in A!Link
      BY <2>3, <3>1
    <3> QED BY <3>2 DEF A!Link
  <2> QED BY <2>1, <2>2, <2>3
<1>2. ASSUME NEW t \in Token, session'[t].open,
             session'[t].with # account'[session'[t].of].password
      PROVE  \/ session'[t].late \/ session'[t].of \in cut'
             \/ \E p \in Call : A!At(p, "changed")' /\ call'[p].of = session'[t].of
  <2>1. session'[t] = session[t] /\ session[t].of \in Address
    BY <1>1, <1>2 DEF A!Session
  <2>2. session[t].late \/ session[t].of \in cut
        \/ \E p \in Call : A!At(p, "changed") /\ call[p].of = session[t].of
    BY <1>2, <2>1 DEF Ended, A!SessionsEnded
  <2> QED BY <2>1, <2>2 DEF A!At
<1>3. Existing'
  <2>1. \A t \in Token : session'[t].open => account'[session'[t].of].exists
    BY <1>1 DEF Ended, Existing, A!Session
  <2>2. \A p \in Call : call'[p].pc \in Found => account'[call'[p].of].exists
    BY <1>1 DEF Ended, Existing
  <2>3. \A l \in DOMAIN link' : account'[link'[l].of].exists
    BY <1>1
  <2> QED BY <2>1, <2>2, <2>3 DEF Ended, Existing
<1> QED BY <1>2, <1>3 DEF Ended, A!SessionsEnded

\* A step that ends the sessions of one account, whose password it may have written.
LEMMA EndedFor ==
  ASSUME Ended, VisitorTypes', NEW u \in Address, account[u].exists,
         session' = A!WithoutSessions(u), cut' = cut \ {u},
         \A w \in Address : account'[w].exists = account[w].exists,
         \A w \in Address \ {u} : account'[w].password = account[w].password,
         \A p \in Call : /\ A!At(p, "changed") /\ call[p].of # u => call'[p] = call[p]
                         /\ call'[p].pc \in Found => call'[p] = call[p],
         DOMAIN link' = DOMAIN link,
         \A l \in DOMAIN link : link'[l].of = link[l].of
  PROVE  Ended'
<1>1. \A t \in Token : session'[t].open =>
        /\ session'[t] = session[t] /\ session[t].of # u /\ session[t] \in A!Session
  BY Rows DEF Ended, A!WithoutSessions, A!NoSession
<1>2. ASSUME NEW t \in Token, session'[t].open,
             session'[t].with # account'[session'[t].of].password
      PROVE  \/ session'[t].late \/ session'[t].of \in cut'
             \/ \E p \in Call : A!At(p, "changed")' /\ call'[p].of = session'[t].of
  <2>1. session'[t] = session[t] /\ session[t].of \in Address \ {u}
    BY <1>1, <1>2 DEF A!Session
  <2>2. session[t].late \/ session[t].of \in cut
        \/ \E p \in Call : A!At(p, "changed") /\ call[p].of = session[t].of
    BY <1>2, <2>1 DEF Ended, A!SessionsEnded
  <2> QED BY <2>1, <2>2 DEF A!At
<1>3. Existing'
  <2>1. \A t \in Token : session'[t].open => account'[session'[t].of].exists
    BY <1>1 DEF Ended, Existing, A!Session
  <2>2. \A p \in Call : call'[p].pc \in Found => account'[call'[p].of].exists
    <3>1. \A p \in Call : call[p].pc \in Found => call[p].of \in Address
      BY Carries DEF Ended, Found
    <3> QED BY <3>1 DEF Ended, Existing
  <2>3. \A l \in DOMAIN link' : account'[link'[l].of].exists
    BY Rows DEF Ended, Existing, A!Link
  <2> QED BY <2>1, <2>2, <2>3 DEF Ended, Existing
<1> QED BY <1>2, <1>3 DEF Ended, A!SessionsEnded

LEMMA EndedStep == Ended /\ VisitorTypes' /\ [A!Next]_(A!vars) => Ended'
<1> SUFFICES ASSUME Ended, VisitorTypes', [A!Next]_(A!vars) PROVE Ended'
  OBVIOUS
<1> USE DEF Ended
<1>1. /\ account \in [Address -> A!Account] /\ call \in [Call -> A!RequestAt]
      /\ session \in [Token -> A!Session \cup {A!NoSession}]
      /\ \A l \in DOMAIN link : account[link[l].of].exists
  BY DEF VisitorTypes, A!TypeOK, Existing
<1>2. ASSUME NEW p \in Call, call' = [call EXCEPT ![p] = call'[p]], call[p].pc # "changed",
             call'[p].pc \in Found => account[call'[p].of].exists,
             account' = account, session' = session, cut' = cut,
             \A l \in DOMAIN link' : account[link'[l].of].exists
      PROVE  Ended'
  <2>1. \A q \in Call \ {p} : call'[q] = call[q]
    BY <1>1, <1>2
  <2>2. \A q \in Call : /\ A!At(q, "changed") => call'[q] = call[q]
                        /\ call'[q].pc \in Found =>
                             call'[q] = call[q] \/ account[call'[q].of].exists
    BY <1>2, <2>1 DEF A!At
  <2> QED BY <1>2, <2>2, NothingOpened
<1>3. ASSUME NEW p \in Call, NEW u \in Address, A!RegisterRead(p, u) PROVE Ended'
  <2>1. call' = [call EXCEPT ![p] = call'[p]] /\ call'[p].pc \notin Found
        /\ call[p].pc # "changed"
    BY <1>1, <1>3 DEF A!RegisterRead, A!Goto, Found, A!Idle
  <2> QED BY <1>1, <1>2, <1>3, <2>1 DEF A!RegisterRead, A!history
<1>4. ASSUME NEW p \in Call, A!RegisterWrite(p) PROVE Ended'
  <2> DEFINE u == call[p].of
  <2>1. u \in Address /\ call[p].pc = "registering"
    BY <1>4, Carries DEF A!RegisterWrite, A!At
  <2>2. CASE account[u].exists
    <3>1. call' = [call EXCEPT ![p] = call'[p]] /\ call'[p].pc \notin Found
      BY <1>1, <1>4, <2>2 DEF A!RegisterWrite, A!Goto, Found, A!Idle
    <3> QED BY <1>1, <1>2, <1>4, <2>1, <2>2, <3>1 DEF A!RegisterWrite, A!history
  <2>3. CASE ~account[u].exists
    <3>1. /\ account' = [account EXCEPT ![u] = A!NewAccount]
          /\ call' = [call EXCEPT ![p] = [pc |-> "opening", of |-> u, with |-> 0]]
          /\ session' = session /\ link' = link /\ cut' = cut
      BY <1>4, <2>3 DEF A!RegisterWrite, A!Goto, A!history
    <3> HIDE DEF u
    <3>2. /\ account'[u].exists /\ account'[u].password = account[u].password
          /\ \A w \in Address \ {u} : account'[w] = account[w]
      BY <1>1, <2>1, <2>3, <3>1 DEF A!NewAccount, Existing
    <3>3. call'[p].of = u /\ call'[p].pc = "opening" /\ \A q \in Call \ {p} : call'[q] = call[q]
      BY <1>1, <3>1
    <3>4. A!SessionsEnded'
      <4> SUFFICES ASSUME NEW t \in Token, session'[t].open,
                          session'[t].with # account'[session'[t].of].password
                   PROVE  \/ session'[t].late \/ session'[t].of \in cut'
                          \/ \E q \in Call : A!At(q, "changed")' /\ call'[q].of = session'[t].of
        BY DEF A!SessionsEnded
      <4>1. session[t].of \in Address
        <5>1. session[t] \in A!Session
          BY <1>1, <3>1 DEF A!NoSession
        <5> QED BY <5>1 DEF A!Session
      <4>2. session[t].with # account[session[t].of].password
        BY <3>1, <3>2, <4>1
      <4>3. session[t].late \/ session[t].of \in cut
            \/ \E q \in Call : A!At(q, "changed") /\ call[q].of = session[t].of
        BY <3>1, <4>2 DEF A!SessionsEnded
      <4> QED BY <2>1, <3>1, <3>3, <4>3 DEF A!At
    <3>5. Existing'
      <4>1. \A w \in Address : account[w].exists => account'[w].exists
        BY <3>2
      <4>2. /\ \A q \in Call \ {p} : call'[q].pc \in Found => account'[call'[q].of].exists
        <5>1. \A q \in Call : call[q].pc \in Found => call[q].of \in Address
          BY Carries DEF Found
        <5> QED BY <3>3, <4>1, <5>1 DEF Existing
      <4>3. \A t \in Token : session'[t].open => account'[session'[t].of].exists
        BY <1>1, <3>1, <4>1 DEF Existing, A!Session, A!NoSession
      <4>4. \A l \in DOMAIN link' : account'[link'[l].of].exists
        BY <3>1, <4>1, Rows DEF Existing, A!Link
      <4>5. \A w \in Address : ~account'[w].exists => account'[w].password = 0
        BY <3>2 DEF Existing
      <4> QED BY <3>2, <3>3, <4>2, <4>3, <4>4, <4>5 DEF Existing
    <3> QED BY <3>4, <3>5
  <2> QED BY <2>2, <2>3
<1>5. ASSUME NEW p \in Call, NEW u \in Address, A!LoginRead(p, u) PROVE Ended'
  <2>1. call' = [call EXCEPT ![p] = call'[p]] /\ call'[p].of = u /\ call[p].pc # "changed"
    BY <1>1, <1>5 DEF A!LoginRead, A!Goto, A!Idle
  <2> QED BY <1>1, <1>2, <1>5, <2>1 DEF A!LoginRead, A!history
<1>6. ASSUME NEW p \in Call, call[p].pc # "changed", NEW u \in Address,
             call' = [call EXCEPT ![p] = call'[p]],
             call'[p].pc \in Found => account[call'[p].of].exists,
             \A w \in Address : /\ account'[w].exists = account[w].exists
                                /\ account'[w].password = account[w].password,
             session' = session, cut' = cut, link' = link
      PROVE  Ended'
  <2>1. \A q \in Call \ {p} : call'[q] = call[q]
    BY <1>1, <1>6
  <2>2. \A q \in Call : /\ A!At(q, "changed") => call'[q] = call[q]
                        /\ call'[q].pc \in Found =>
                             call'[q] = call[q] \/ account[call'[q].of].exists
    BY <1>6, <2>1 DEF A!At
  <2> QED BY <1>1, <1>6, <2>2, NothingOpened
<1>7. ASSUME NEW p \in Call, A!LoginWrong(p) PROVE Ended'
  <2>1. call[p].of \in Address /\ call[p].pc = "wrong"
    BY <1>7, Carries DEF A!LoginWrong, A!At
  <2>2. call' = [call EXCEPT ![p] = call'[p]] /\ call'[p].pc \notin Found
    BY <1>1, <1>7 DEF A!LoginWrong, A!Goto, A!Idle, Found
  <2>3. \A w \in Address : /\ account'[w].exists = account[w].exists
                           /\ account'[w].password = account[w].password
    BY <1>1, <1>7, <2>1 DEF A!LoginWrong, A!Account
  <2> QED BY <1>6, <1>7, <2>1, <2>2, <2>3 DEF A!LoginWrong
<1>8. ASSUME NEW p \in Call, A!LoginReset(p) PROVE Ended'
  <2>1. call[p].of \in Address /\ call[p].pc = "verified"
    BY <1>8, Carries DEF A!LoginReset, A!At
  <2>2. account[call[p].of].exists
    BY <2>1 DEF Existing, Found
  <2>3. call[p] \in [pc : {"verified", "opening"}, of : Address, with : 0..MaxPasswords]
    BY <2>1, Rows DEF A!RequestAt, A!Idle
  <2>4. call' = [call EXCEPT ![p] = call'[p]] /\ call'[p].of = call[p].of
    BY <1>1, <1>8, <2>3 DEF A!LoginReset, A!Goto
  <2>5. \A w \in Address : /\ account'[w].exists = account[w].exists
                           /\ account'[w].password = account[w].password
    BY <1>1, <1>8, <2>1 DEF A!LoginReset, A!Account
  <2> QED BY <1>6, <1>8, <2>1, <2>2, <2>4, <2>5 DEF A!LoginReset
<1>9. ASSUME NEW p \in Call, NEW t \in Token, A!OpenSession(p, t) PROVE Ended'
  <2> DEFINE u == call[p].of
  <2>1. u \in Address /\ call[p].pc = "opening"
    BY <1>9, Carries DEF A!OpenSession, A!At
  <2>2. account[u].exists
    BY <2>1 DEF Existing, Found
  <2>3. /\ session'[t].of = u /\ session'[t].with = call[p].with
        /\ session'[t].late = (call[p].with # account[u].password)
        /\ \A s \in Token \ {t} : session'[s] = session[s]
    BY <1>1, <1>9 DEF A!OpenSession
  <2>4. /\ \A q \in Call \ {p} : call'[q] = call[q]
        /\ call'[p].pc \notin Found
        /\ account' = account /\ link' = link /\ cut' = cut
    BY <1>1, <1>9 DEF A!OpenSession, A!Goto, A!Idle, Found, A!history
  <2> HIDE DEF u
  <2>5. A!SessionsEnded'
    <3> SUFFICES ASSUME NEW s \in Token, session'[s].open,
                        session'[s].with # account'[session'[s].of].password
                 PROVE  \/ session'[s].late \/ session'[s].of \in cut'
                        \/ \E q \in Call : A!At(q, "changed")' /\ call'[q].of = session'[s].of
      BY DEF A!SessionsEnded
    <3>1. CASE s = t
      BY <2>3, <2>4, <3>1
    <3>2. CASE s # t
      <4>1. session[s].late \/ session[s].of \in cut
            \/ \E q \in Call : A!At(q, "changed") /\ call[q].of = session[s].of
        BY <2>3, <2>4, <3>2 DEF A!SessionsEnded
      <4> QED BY <2>1, <2>3, <2>4, <3>2, <4>1 DEF A!At
    <3> QED BY <3>1, <3>2
  <2>6. Existing'
    BY <2>2, <2>3, <2>4 DEF Existing
  <2> QED BY <2>5, <2>6
<1>10. ASSUME call' = call, cut' = cut,
              \A l \in DOMAIN link' : account[link'[l].of].exists,
              \A w \in Address : /\ account'[w].exists = account[w].exists
                                 /\ account'[w].password = account[w].password,
              \A t \in Token : session'[t].open => session'[t] = session[t]
       PROVE  Ended'
  BY <1>10, NothingOpened
<1>11. ASSUME NEW u \in Address, A!LockRunsOut(u) PROVE Ended'
  <2>1. \A w \in Address : /\ account'[w].exists = account[w].exists
                           /\ account'[w].password = account[w].password
    BY <1>1, <1>11 DEF A!LockRunsOut, A!Account
  <2> QED BY <1>1, <1>10, <1>11, <2>1 DEF A!LockRunsOut, A!history
<1>12. ASSUME NEW t \in Token, A!EndSession(t) PROVE Ended'
  <2>1. \A s \in Token : session'[s].open => session'[s] = session[s]
    BY <1>1, <1>12 DEF A!EndSession, A!NoSession
  <2> QED BY <1>1, <1>10, <1>12, <2>1 DEF A!EndSession, A!history
<1>13. ASSUME NEW p \in Call, NEW t \in Token, A!ChangeRead(p, t) PROVE Ended'
  <2>1. account[session[t].of].exists
    BY <1>13 DEF A!ChangeRead, A!Authenticated, Existing
  <2>2. call' = [call EXCEPT ![p] = call'[p]] /\ call'[p].of = session[t].of
        /\ call[p].pc # "changed"
    BY <1>1, <1>13 DEF A!ChangeRead, A!Goto, A!Idle
  <2> QED BY <1>1, <1>2, <1>13, <2>1, <2>2 DEF A!ChangeRead, A!history
<1>14. ASSUME NEW p \in Call, A!ChangeWrite(p) PROVE Ended'
  <2> DEFINE u == call[p].of
  <2>1. u \in Address /\ call[p].pc = "changing"
    BY <1>14, Carries DEF A!ChangeWrite, A!At
  <2>2. account[u].exists
    BY <2>1 DEF Existing, Found
  <2>3. call[p] \in [pc : {"registering", "changing", "changed", "linking"}, of : Address]
    BY <2>1, Rows DEF A!RequestAt, A!Idle
  <2>4. /\ call'[p].pc = "changed" /\ call'[p].of = u
        /\ \A q \in Call \ {p} : call'[q] = call[q]
    BY <1>1, <1>14, <2>3 DEF A!ChangeWrite, A!Goto
  <2>5. /\ \A w \in Address : account'[w].exists = account[w].exists
        /\ \A w \in Address \ {u} : account'[w].password = account[w].password
        /\ session' = session /\ link' = link /\ cut' = cut
    BY <1>1, <1>14, <2>1 DEF A!ChangeWrite, A!Account, A!history
  <2> HIDE DEF u
  <2>6. A!SessionsEnded'
    <3> SUFFICES ASSUME NEW t \in Token, session'[t].open,
                        session'[t].with # account'[session'[t].of].password
                 PROVE  \/ session'[t].late \/ session'[t].of \in cut'
                        \/ \E q \in Call : A!At(q, "changed")' /\ call'[q].of = session'[t].of
      BY DEF A!SessionsEnded
    <3>1. session[t].of \in Address
      <4>1. session[t] \in A!Session
        BY <1>1, <2>5 DEF A!NoSession
      <4> QED BY <4>1 DEF A!Session
    <3>2. CASE session[t].of = u
      BY <2>4, <2>5, <3>2 DEF A!At
    <3>3. CASE session[t].of # u
      <4>1. session[t].late \/ session[t].of \in cut
            \/ \E q \in Call : A!At(q, "changed") /\ call[q].of = session[t].of
        BY <2>5, <3>1, <3>3 DEF A!SessionsEnded
      <4> QED BY <2>1, <2>4, <2>5, <4>1 DEF A!At
    <3> QED BY <3>2, <3>3
  <2>7. Existing'
    <3>1. \A q \in Call : call'[q].pc \in Found => account'[call'[q].of].exists
      <4>1. \A q \in Call : call[q].pc \in Found => call[q].of \in Address
        BY Carries DEF Found
      <4> QED BY <2>1, <2>2, <2>4, <2>5, <4>1 DEF Existing
    <3>2. ASSUME NEW t \in Token, session'[t].open PROVE account'[session'[t].of].exists
      <4>1. session[t] \in A!Session
        BY <1>1, <2>5, <3>2 DEF A!NoSession
      <4>2. session[t].of \in Address /\ account[session[t].of].exists
        BY <2>5, <3>2, <4>1 DEF A!Session, Existing
      <4> QED BY <2>5, <4>2
    <3>3. \A l \in DOMAIN link' : account'[link'[l].of].exists
      BY <2>5, Rows DEF Existing, A!Link
    <3>4. \A w \in Address : ~account'[w].exists => account'[w].password = 0
      BY <2>2, <2>5 DEF Existing
    <3> QED BY <3>1, <3>2, <3>3, <3>4 DEF Existing
  <2> QED BY <2>6, <2>7
<1>15. ASSUME NEW p \in Call, A!ChangeEnd(p) PROVE Ended'
  <2>1. call[p].of \in Address /\ call[p].pc = "changed"
    BY <1>15, Carries DEF A!ChangeEnd, A!At
  <2>2. account[call[p].of].exists
    BY <2>1 DEF Existing, Found
  <2>3. call'[p].pc \notin Found /\ \A q \in Call \ {p} : call'[q] = call[q]
    BY <1>1, <1>15 DEF A!ChangeEnd, A!Goto, A!Idle, Found
  <2>4. account' = account /\ link' = link
        /\ session' = A!WithoutSessions(call[p].of) /\ cut' = cut \ {call[p].of}
    BY <1>15 DEF A!ChangeEnd
  <2> QED BY <2>1, <2>2, <2>3, <2>4, EndedFor
<1>16. ASSUME NEW p \in Call, NEW u \in Address, A!LinkInvalidate(p, u) PROVE Ended'
  <2>1. call' = [call EXCEPT ![p] = call'[p]] /\ call'[p].of = u /\ call[p].pc # "changed"
    BY <1>1, <1>16 DEF A!LinkInvalidate, A!Goto, A!Idle
  <2>2. DOMAIN link' = DOMAIN link /\ \A l \in DOMAIN link : link'[l].of = link[l].of
    BY <1>16, Rows DEF A!LinkInvalidate, A!Link
  <2> QED BY <1>1, <1>2, <1>16, <2>1, <2>2 DEF A!LinkInvalidate, A!history
<1>17. ASSUME NEW p \in Call, A!LinkCreate(p) PROVE Ended'
  <2>1. call[p].of \in Address /\ call[p].pc = "linking"
    BY <1>17, Carries DEF A!LinkCreate, A!At
  <2>2. account[call[p].of].exists
    BY <2>1 DEF Existing, Found
  <2>3. call' = [call EXCEPT ![p] = call'[p]] /\ call'[p].pc \notin Found
    BY <1>1, <1>17 DEF A!LinkCreate, A!Goto, A!Idle, Found
  <2>4. \A l \in DOMAIN link' : \/ l \in DOMAIN link /\ link'[l] = link[l]
                                \/ link'[l].of = call[p].of
    BY <1>17 DEF A!LinkCreate, VisitorTypes, A!TypeOK
  <2> QED BY <1>1, <1>2, <1>17, <2>1, <2>2, <2>3, <2>4 DEF A!LinkCreate, A!history
<1>18. ASSUME NEW l \in DOMAIN link, A!LinkExpires(l) PROVE Ended'
  <2>1. DOMAIN link' = DOMAIN link /\ \A k \in DOMAIN link : link'[k].of = link[k].of
    BY <1>18, Rows DEF A!LinkExpires, A!Link
  <2> QED BY <1>1, <1>10, <1>18, <2>1 DEF A!LinkExpires, A!history
<1>19. ASSUME NEW p \in Call, NEW l \in DOMAIN link, A!ResetRead(p, l) PROVE Ended'
  <2>1. DOMAIN link' = DOMAIN link /\ \A k \in DOMAIN link : link'[k].of = link[k].of
    BY <1>19, Rows DEF A!ResetRead, A!Link
  <2>2. call' = [call EXCEPT ![p] = call'[p]] /\ call'[p].pc \notin Found
        /\ call[p].pc # "changed"
    BY <1>1, <1>19 DEF A!ResetRead, A!Goto, A!Idle, Found
  <2> QED BY <1>1, <1>2, <1>19, <2>1, <2>2 DEF A!ResetRead, A!history
<1>20. ASSUME NEW p \in Call, A!ResetWrite(p) PROVE Ended'
  <2> DEFINE l == call[p].link
             u == link[l].of
  <2>1. l \in DOMAIN link /\ u \in Address /\ account[u].exists /\ call[p].pc = "resetting"
    BY <1>20, Carries DEF A!ResetWrite, A!At, Existing
  <2>2. /\ account' = [account EXCEPT ![u].password = @ + 1, ![u].attempts = 0,
                                      ![u].locked = FALSE]
        /\ session' = A!WithoutSessions(u) /\ cut' = cut \ {u}
        /\ link' = [link EXCEPT ![l].uses = @ + 1]
        /\ call' = [call EXCEPT ![p] = [call[p] EXCEPT !.pc = "reset"]]
    BY <1>20 DEF A!ResetWrite, A!Goto
  <2>3. call[p] \in [pc : {"resetting", "reset"}, link : 1..MaxLinks]
    BY <2>1, Rows DEF A!RequestAt, A!Idle
  <2> HIDE DEF u, l
  <2>4. call'[p].pc \notin Found /\ \A q \in Call \ {p} : call'[q] = call[q]
    BY <1>1, <2>2, <2>3 DEF Found
  <2>5. /\ \A w \in Address : account'[w].exists = account[w].exists
        /\ \A w \in Address \ {u} : account'[w].password = account[w].password
    BY <1>1, <2>1, <2>2 DEF A!Account
  <2>6. DOMAIN link' = DOMAIN link /\ \A k \in DOMAIN link : link'[k].of = link[k].of
    BY <2>1, <2>2, Rows DEF A!Link
  <2> QED BY <2>1, <2>2, <2>4, <2>5, <2>6, EndedFor DEF A!At
<1>21. ASSUME NEW p \in Call, A!ResetEnd(p) PROVE Ended'
  <2>1. call[p].link \in DOMAIN link /\ call[p].pc = "reset"
    BY <1>21, Carries DEF A!ResetEnd, A!At
  <2>2. DOMAIN link' = DOMAIN link /\ \A k \in DOMAIN link : link'[k].of = link[k].of
    BY <1>21, <2>1, Rows DEF A!ResetEnd, A!Link
  <2>3. call' = [call EXCEPT ![p] = call'[p]] /\ call'[p].pc \notin Found
    BY <1>1, <1>21 DEF A!ResetEnd, A!Goto, A!Idle, Found
  <2> QED BY <1>1, <1>2, <1>21, <2>1, <2>2, <2>3 DEF A!ResetEnd, A!history
<1>22. ASSUME NEW u \in Address, A!Manage(u) PROVE Ended'
  <2>1. \A w \in Address : /\ account'[w].exists = account[w].exists
                           /\ account'[w].password = account[w].password
    BY <1>1, <1>22 DEF A!Manage, A!Account
  <2> QED BY <1>1, <1>10, <1>22, <2>1 DEF A!Manage
<1>23. ASSUME NEW p \in Call, A!Break(p) PROVE Ended'
  <2>1. call'[p].pc \notin Found /\ \A q \in Call \ {p} : call'[q] = call[q]
    BY <1>1, <1>23 DEF A!Break, A!Goto, A!Idle, Found
  <2>2. cut \subseteq cut' /\ (A!At(p, "changed") => call[p].of \in cut')
        /\ account' = account /\ session' = session
    BY <1>23 DEF A!Break
  <2>3. DOMAIN link' = DOMAIN link /\ \A k \in DOMAIN link : link'[k].of = link[k].of
    <3>1. CASE link' = link
      BY <3>1
    <3>2. CASE A!At(p, "reset") /\ link' = [link EXCEPT ![call[p].link].shared = TRUE]
      BY <3>2, Rows, Carries DEF A!At, A!Link
    <3> QED BY <1>23, <3>1, <3>2 DEF A!Break
  <2> QED BY <1>1, <2>1, <2>2, <2>3, NothingOpened
<1>24. CASE UNCHANGED A!vars
  BY <1>1, <1>10, <1>24 DEF A!vars, A!history
<1> QED
  BY <1>3, <1>4, <1>5, <1>7, <1>8, <1>9, <1>11, <1>12, <1>13, <1>14, <1>15,
     <1>16, <1>17, <1>18, <1>19, <1>20, <1>21, <1>22, <1>23, <1>24
  DEF A!Next, A!Visit, A!Password

\* A session of an earlier password is open only while the change goes on, after it broke
\* off, or because its login had compared before: for any number of accounts and requests.
THEOREM OldSessionsEnd == A!Spec => []A!SessionsEnded
<1>1. A!Init => Ended
  <2>1. A!Init => A!SessionsEnded
    BY DEF A!Init, A!NoSession, A!SessionsEnded
  <2>2. A!Init => Existing
    BY DEF A!Init, A!NewAccount, A!NoSession, A!Idle, Existing, Found
  <2> QED BY <2>1, <2>2, InitVisitors
  DEF Ended
<1>2. Ended => A!SessionsEnded
  BY DEF Ended
<1> QED BY <1>1, <1>2, EndedStep, VisitorsTyped, PTL DEF A!Spec

-------------------------------------------------------------------------------

\* A link whose requests did not cross is with one request at a time, resets a password
\* once, and is then used up or with the request that is about to use it up.
UsedOnce(l) ==
  /\ link[l].uses <= 1
  /\ link[l].uses > 0 =>
       link[l].status # "open" \/ \E p \in Call : A!At(p, "reset") /\ call[p].link = l
  /\ \A p \in Call : A!Resets(p, l) =>
       /\ A!At(p, "resetting") => link[l].uses = 0
       /\ \A q \in Call : A!Resets(q, l) => q = p

Spent == VisitorTypes /\ \A l \in DOMAIN link : ~link[l].shared => UsedOnce(l)

\* A step that reads no link and resets no password with one.
LEMMA NothingReset ==
  ASSUME Spent, VisitorTypes',
         \A l \in DOMAIN link : /\ link'[l].uses = link[l].uses
                                /\ link[l].shared => link'[l].shared
                                /\ link'[l].status = "open" => link[l].status = "open",
         \A l \in DOMAIN link' \ DOMAIN link : link'[l].uses = 0,
         \A p \in Call :
           /\ call'[p].pc \in {"resetting", "reset"} => call'[p] = call[p]
           /\ A!At(p, "reset") => \/ call'[p] = call[p]
                                  \/ link'[call[p].link].shared
                                  \/ link'[call[p].link].status # "open"
  PROVE  Spent'
<1> SUFFICES ASSUME NEW l \in DOMAIN link', ~link'[l].shared PROVE UsedOnce(l)'
  BY DEF Spent
<1>1. \A p \in Call : A!Resets(p, l)' => A!Resets(p, l) /\ call'[p] = call[p]
  BY DEF A!Resets
<1>2. CASE l \in DOMAIN link
  <2>1. UsedOnce(l)
    BY <1>2 DEF Spent
  <2>2. link'[l].uses = link[l].uses
    BY <1>2
  <2>3. link'[l].uses > 0 =>
          link'[l].status # "open" \/ \E p \in Call : A!At(p, "reset")' /\ call'[p].link = l
    <3> SUFFICES ASSUME link'[l].uses > 0, link'[l].status = "open"
                 PROVE  \E p \in Call : A!At(p, "reset")' /\ call'[p].link = l
      OBVIOUS
    <3>1. PICK p \in Call : A!At(p, "reset") /\ call[p].link = l
      BY <1>2, <2>1, <2>2 DEF UsedOnce
    <3> QED BY <3>1 DEF A!At
  <2> QED BY <1>1, <2>1, <2>2, <2>3 DEF UsedOnce, A!At
<1>3. CASE l \notin DOMAIN link
  <2>1. \A p \in Call : ~A!Resets(p, l)
    BY <1>3 DEF Spent, VisitorTypes, LinksRead, A!Resets
  <2>2. link'[l].uses = 0
    BY <1>3
  <2>3. link'[l].uses <= 1 /\ ~(link'[l].uses > 0)
    BY <2>2
  <2> QED BY <1>1, <2>1, <2>3 DEF UsedOnce
<1> QED BY <1>2, <1>3

LEMMA SpentStep == Spent /\ VisitorTypes' /\ [A!Next]_(A!vars) => Spent'
<1> SUFFICES ASSUME Spent, VisitorTypes', [A!Next]_(A!vars) PROVE Spent'
  OBVIOUS
<1>1. call \in [Call -> A!RequestAt]
  BY DEF Spent, VisitorTypes, A!TypeOK
<1>2. ASSUME link' = link, NEW p \in Call, \A q \in Call \ {p} : call'[q] = call[q],
             call'[p].pc \notin {"resetting", "reset"}, call[p].pc # "reset"
      PROVE  Spent'
  <2>1. \A q \in Call :
           /\ call'[q].pc \in {"resetting", "reset"} => call'[q] = call[q]
           /\ A!At(q, "reset") => call'[q] = call[q]
    BY <1>2 DEF A!At
  <2> QED BY <1>2, <2>1, NothingReset
<1>3. ASSUME NEW p \in Call, NEW u \in Address, A!RegisterRead(p, u) PROVE Spent'
  <2>1. \A q \in Call \ {p} : call'[q] = call[q]
    BY <1>1, <1>3 DEF A!RegisterRead, A!Goto
  <2>2. call'[p].pc = "registering" /\ call[p].pc # "reset"
    BY <1>1, <1>3 DEF A!RegisterRead, A!Goto, A!Idle
  <2> QED BY <1>2, <1>3, <2>1, <2>2 DEF A!RegisterRead
<1>4. ASSUME NEW p \in Call, A!RegisterWrite(p) PROVE Spent'
  <2>1. \A q \in Call \ {p} : call'[q] = call[q]
    BY <1>1, <1>4 DEF A!RegisterWrite, A!Goto
  <2>2. call'[p].pc \in {"idle", "opening"} /\ call[p].pc # "reset"
    BY <1>1, <1>4 DEF A!RegisterWrite, A!Goto, A!Idle, A!At
  <2> QED BY <1>2, <1>4, <2>1, <2>2 DEF A!RegisterWrite
<1>5. ASSUME NEW p \in Call, NEW u \in Address, A!LoginRead(p, u) PROVE Spent'
  <2>1. \A q \in Call \ {p} : call'[q] = call[q]
    BY <1>1, <1>5 DEF A!LoginRead, A!Goto
  <2>2. call'[p].pc \in {"verified", "wrong"} /\ call[p].pc # "reset"
    BY <1>1, <1>5 DEF A!LoginRead, A!Goto, A!Idle
  <2> QED BY <1>2, <1>5, <2>1, <2>2 DEF A!LoginRead
<1>6. ASSUME NEW p \in Call, A!LoginWrong(p) PROVE Spent'
  <2>1. \A q \in Call \ {p} : call'[q] = call[q]
    BY <1>1, <1>6 DEF A!LoginWrong, A!Goto
  <2>2. call'[p].pc = "idle" /\ call[p].pc # "reset"
    BY <1>1, <1>6 DEF A!LoginWrong, A!Goto, A!Idle, A!At
  <2> QED BY <1>2, <1>6, <2>1, <2>2 DEF A!LoginWrong
<1>7. ASSUME NEW p \in Call, A!LoginReset(p) PROVE Spent'
  <2>1. call[p].pc = "verified"
    BY <1>7 DEF A!LoginReset, A!At
  <2>2. call[p] \in [pc : {"verified", "opening"}, of : Address, with : 0..MaxPasswords]
    BY <1>1, <2>1 DEF A!RequestAt, A!Idle
  <2>3. call'[p].pc = "opening" /\ \A q \in Call \ {p} : call'[q] = call[q]
    BY <1>1, <1>7, <2>2 DEF A!LoginReset, A!Goto
  <2> QED BY <1>2, <1>7, <2>1, <2>3 DEF A!LoginReset
<1>8. ASSUME NEW p \in Call, NEW t \in Token, A!OpenSession(p, t) PROVE Spent'
  <2>1. \A q \in Call \ {p} : call'[q] = call[q]
    BY <1>1, <1>8 DEF A!OpenSession, A!Goto
  <2>2. call'[p].pc = "idle" /\ call[p].pc # "reset"
    BY <1>1, <1>8 DEF A!OpenSession, A!Goto, A!Idle, A!At
  <2> QED BY <1>2, <1>8, <2>1, <2>2 DEF A!OpenSession
<1>9. ASSUME UNCHANGED <<link, call>> PROVE Spent'
  BY <1>9, NothingReset
<1>10. ASSUME NEW u \in Address, A!LockRunsOut(u) \/ A!Manage(u) PROVE Spent'
  BY <1>9, <1>10 DEF A!LockRunsOut, A!Manage
<1>11. ASSUME NEW t \in Token, A!EndSession(t) PROVE Spent'
  BY <1>9, <1>11 DEF A!EndSession
<1>12. ASSUME NEW p \in Call, NEW t \in Token, A!ChangeRead(p, t) PROVE Spent'
  <2>1. \A q \in Call \ {p} : call'[q] = call[q]
    BY <1>1, <1>12 DEF A!ChangeRead, A!Goto
  <2>2. call'[p].pc = "changing" /\ call[p].pc # "reset"
    BY <1>1, <1>12 DEF A!ChangeRead, A!Goto, A!Idle
  <2> QED BY <1>2, <1>12, <2>1, <2>2 DEF A!ChangeRead
<1>13. ASSUME NEW p \in Call, A!ChangeWrite(p) PROVE Spent'
  <2>1. call[p].pc = "changing"
    BY <1>13 DEF A!ChangeWrite, A!At
  <2>2. call[p] \in [pc : {"registering", "changing", "changed", "linking"}, of : Address]
    BY <1>1, <2>1 DEF A!RequestAt, A!Idle
  <2>3. call'[p].pc = "changed" /\ \A q \in Call \ {p} : call'[q] = call[q]
    BY <1>1, <1>13, <2>2 DEF A!ChangeWrite, A!Goto
  <2> QED BY <1>2, <1>13, <2>1, <2>3 DEF A!ChangeWrite
<1>14. ASSUME NEW p \in Call, A!ChangeEnd(p) PROVE Spent'
  <2>1. \A q \in Call \ {p} : call'[q] = call[q]
    BY <1>1, <1>14 DEF A!ChangeEnd, A!Goto
  <2>2. call'[p].pc = "idle" /\ call[p].pc # "reset"
    BY <1>1, <1>14 DEF A!ChangeEnd, A!Goto, A!Idle, A!At
  <2> QED BY <1>2, <1>14, <2>1, <2>2 DEF A!ChangeEnd
<1>15. ASSUME NEW p \in Call, NEW u \in Address, A!LinkInvalidate(p, u) PROVE Spent'
  <2>1. \A q \in Call \ {p} : call'[q] = call[q]
    BY <1>1, <1>15 DEF A!LinkInvalidate, A!Goto
  <2>2. call'[p].pc = "linking" /\ call[p].pc # "reset"
    BY <1>1, <1>15 DEF A!LinkInvalidate, A!Goto, A!Idle
  <2>3. /\ DOMAIN link' = DOMAIN link
        /\ \A l \in DOMAIN link : /\ link'[l].uses = link[l].uses
                                  /\ link'[l].shared = link[l].shared
                                  /\ link'[l].status = "open" => link[l].status = "open"
    BY <1>15, Rows DEF A!LinkInvalidate, A!Link, Spent
  <2>4. \A q \in Call : /\ call'[q].pc \in {"resetting", "reset"} => call'[q] = call[q]
                        /\ A!At(q, "reset") => call'[q] = call[q]
    BY <2>1, <2>2 DEF A!At
  <2> QED BY <2>3, <2>4, NothingReset
<1>16. ASSUME NEW p \in Call, A!LinkCreate(p) PROVE Spent'
  <2>1. \A q \in Call \ {p} : call'[q] = call[q]
    BY <1>1, <1>16 DEF A!LinkCreate, A!Goto
  <2>2. call'[p].pc = "idle" /\ call[p].pc # "reset"
    BY <1>1, <1>16 DEF A!LinkCreate, A!Goto, A!Idle, A!At
  <2>3. /\ \A l \in DOMAIN link : link'[l] = link[l]
        /\ \A l \in DOMAIN link' \ DOMAIN link : link'[l].uses = 0
    BY <1>16 DEF A!LinkCreate, Spent, VisitorTypes, A!TypeOK
  <2>4. \A q \in Call : /\ call'[q].pc \in {"resetting", "reset"} => call'[q] = call[q]
                        /\ A!At(q, "reset") => call'[q] = call[q]
    BY <2>1, <2>2 DEF A!At
  <2> QED BY <2>3, <2>4, NothingReset
<1>17. ASSUME NEW l \in DOMAIN link, A!LinkExpires(l) PROVE Spent'
  <2>1. /\ DOMAIN link' = DOMAIN link
        /\ \A k \in DOMAIN link : /\ link'[k].uses = link[k].uses
                                  /\ link'[k].shared = link[k].shared
                                  /\ link'[k].status = "open" => link[k].status = "open"
    BY <1>17, Rows DEF A!LinkExpires, A!Link, Spent
  <2> QED BY <1>17, <2>1, NothingReset DEF A!LinkExpires
<1>18. ASSUME NEW p \in Call, NEW l \in DOMAIN link, A!ResetRead(p, l) PROVE Spent'
  <2>1. /\ DOMAIN link' = DOMAIN link
        /\ \A k \in DOMAIN link : link'[k].uses = link[k].uses /\ link'[k].status = link[k].status
        /\ \A k \in DOMAIN link \ {l} : link'[k].shared = link[k].shared
        /\ ~link'[l].shared => ~link[l].shared /\ \A q \in Call : ~A!Resets(q, l)
    BY <1>18, Rows DEF A!ResetRead, A!Link, Spent
  <2>2. call'[p].pc = "resetting" /\ call'[p].link = l /\ call[p].pc = "idle"
        /\ \A q \in Call \ {p} : call'[q] = call[q]
    BY <1>1, <1>18 DEF A!ResetRead, A!Goto, A!Idle
  <2>3. \A k \in DOMAIN link, q \in Call :
          A!Resets(q, k)' => (k = l /\ q = p) \/ (q # p /\ A!Resets(q, k))
    BY <2>2 DEF A!Resets
  <2>4. \A q \in Call : A!At(q, "reset") <=> A!At(q, "reset")'
    BY <2>2 DEF A!At
  <2>5. ASSUME NEW k \in DOMAIN link, ~link'[k].shared PROVE UsedOnce(k)'
    <3>1. UsedOnce(k)
      BY <2>1, <2>5 DEF Spent
    <3>2. link'[k].uses > 0 =>
            link'[k].status # "open" \/ \E q \in Call : A!At(q, "reset")' /\ call'[q].link = k
      BY <2>1, <2>2, <2>4, <3>1 DEF UsedOnce, A!At
    <3>3. CASE k = l
      <4>1. \A q \in Call : ~A!Resets(q, l)
        BY <2>1, <2>5, <3>3
      <4>2. ~(link[l].uses > 0) /\ link[l].uses \in Nat
        BY <1>18, <3>1, <3>3, <4>1, Rows DEF UsedOnce, A!ResetRead, A!Resets, A!At, A!Link, Spent
      <4>3. link'[k].uses = 0
        BY <2>1, <3>3, <4>2
      <4>4. \A q \in Call : A!Resets(q, k)' => q = p
        BY <2>3, <3>3, <4>1
      <4> QED BY <2>1, <3>1, <3>2, <4>3, <4>4 DEF UsedOnce
    <3>4. CASE k # l
      <4>1. \A q \in Call : A!Resets(q, k)' => A!Resets(q, k) /\ call'[q] = call[q]
        BY <2>2, <2>3, <3>4
      <4> QED BY <2>1, <3>1, <3>2, <4>1 DEF UsedOnce, A!At
    <3> QED BY <3>3, <3>4
  <2> QED BY <2>1, <2>5 DEF Spent
<1>19. ASSUME NEW p \in Call, A!ResetWrite(p) PROVE Spent'
  <2>1. PICK l \in DOMAIN link : call[p].link = l /\ call[p].pc = "resetting"
    BY <1>19, Carries DEF A!ResetWrite, A!At, Spent
  <2>2. link' = [link EXCEPT ![l].uses = @ + 1]
        /\ call' = [call EXCEPT ![p] = [call[p] EXCEPT !.pc = "reset"]]
    BY <1>19, <2>1 DEF A!ResetWrite, A!Goto
  <2>3. call[p] \in [pc : {"resetting", "reset"}, link : 1..MaxLinks]
    BY <1>1, <2>1 DEF A!RequestAt, A!Idle
  <2>4. A!Resets(p, l) /\ A!At(p, "resetting")
    BY <2>1 DEF A!Resets, A!At
  <2>5. call'[p].pc = "reset" /\ call'[p].link = l /\ \A q \in Call \ {p} : call'[q] = call[q]
    BY <1>1, <2>1, <2>2, <2>3
  <2>6. /\ DOMAIN link' = DOMAIN link
        /\ \A k \in DOMAIN link : link'[k].shared = link[k].shared /\ link'[k].status = link[k].status
        /\ \A k \in DOMAIN link \ {l} : link'[k].uses = link[k].uses
        /\ link'[l].uses = link[l].uses + 1
    BY <2>1, <2>2, Rows DEF A!Link, Spent
  <2>7. \A k \in DOMAIN link, q \in Call : A!Resets(q, k)' => A!Resets(q, k)
    BY <2>4, <2>5 DEF A!Resets
  <2>8. ASSUME NEW k \in DOMAIN link, ~link'[k].shared PROVE UsedOnce(k)'
    <3>1. UsedOnce(k)
      BY <2>6, <2>8 DEF Spent
    <3>2. CASE k = l
      <4>1. link[l].uses = 0 /\ \A q \in Call : A!Resets(q, l) => q = p
        BY <2>4, <3>1, <3>2 DEF UsedOnce
      <4>2. link'[l].uses = 1 /\ A!At(p, "reset")' /\ ~A!At(p, "resetting")'
        BY <2>5, <2>6, <4>1 DEF A!At
      <4>3. \A q \in Call : A!Resets(q, l)' => q = p
        BY <2>1, <2>7, <4>1
      <4>4. UsedOnce(l)'
        BY <2>5, <4>2, <4>3 DEF UsedOnce
      <4> QED BY <3>2, <4>4
    <3>3. CASE k # l
      <4>1. ~A!Resets(p, k)
        BY <2>4, <3>3 DEF A!Resets
      <4>2. \A q \in Call : A!Resets(q, k)' => A!Resets(q, k) /\ call'[q] = call[q]
        BY <2>5, <2>7, <4>1
      <4>3. link'[k].uses = link[k].uses /\ link'[k].status = link[k].status
        BY <2>6, <3>3
      <4>4. \A q \in Call : A!At(q, "reset") => A!At(q, "reset")' /\ call'[q].link = call[q].link
        BY <2>1, <2>5 DEF A!At
      <4> QED BY <3>1, <4>2, <4>3, <4>4 DEF UsedOnce, A!At
    <3> QED BY <3>2, <3>3
  <2> QED BY <2>6, <2>8 DEF Spent
<1>20. ASSUME NEW p \in Call, A!ResetEnd(p) PROVE Spent'
  <2> DEFINE l == call[p].link
  <2>1. l \in DOMAIN link
    BY <1>20, Carries DEF A!ResetEnd, A!At, Spent
  <2>2. link' = [link EXCEPT ![l].status = "used"]
    BY <1>20 DEF A!ResetEnd
  <2>3. /\ DOMAIN link' = DOMAIN link /\ link'[l].status # "open"
        /\ \A k \in DOMAIN link : /\ link'[k].uses = link[k].uses
                                  /\ link'[k].shared = link[k].shared
                                  /\ link'[k].status = "open" => link[k].status = "open"
    <3> HIDE DEF l
    <3> QED BY <2>1, <2>2, Rows DEF A!Link, Spent
  <2>4. call'[p].pc = "idle" /\ \A q \in Call \ {p} : call'[q] = call[q]
    BY <1>1, <1>20 DEF A!ResetEnd, A!Goto, A!Idle
  <2>5. \A q \in Call :
           /\ call'[q].pc \in {"resetting", "reset"} => call'[q] = call[q]
           /\ A!At(q, "reset") => call'[q] = call[q] \/ link'[call[q].link].status # "open"
    BY <2>3, <2>4
  <2> QED BY <2>3, <2>5, NothingReset
<1>21. ASSUME NEW p \in Call, A!Break(p) PROVE Spent'
  <2> DEFINE l == call[p].link
  <2>1. A!At(p, "reset") => l \in DOMAIN link
    BY Carries DEF A!At, Spent
  <2>2. link' = IF A!At(p, "reset") THEN [link EXCEPT ![l].shared = TRUE] ELSE link
    BY <1>21 DEF A!Break
  <2>3. /\ DOMAIN link' = DOMAIN link /\ (A!At(p, "reset") => link'[l].shared)
        /\ \A k \in DOMAIN link : /\ link'[k].uses = link[k].uses
                                  /\ link[k].shared => link'[k].shared
                                  /\ link'[k].status = "open" => link[k].status = "open"
    <3> HIDE DEF l
    <3> QED BY <2>1, <2>2, Rows DEF A!Link, Spent
  <2>4. call'[p].pc = "idle" /\ \A q \in Call \ {p} : call'[q] = call[q]
    BY <1>1, <1>21 DEF A!Break, A!Goto, A!Idle
  <2>5. \A q \in Call :
           /\ call'[q].pc \in {"resetting", "reset"} => call'[q] = call[q]
           /\ A!At(q, "reset") => call'[q] = call[q] \/ link'[call[q].link].shared
    BY <2>3, <2>4
  <2> QED BY <2>3, <2>5, NothingReset
<1>22. CASE UNCHANGED A!vars
  BY <1>9, <1>22 DEF A!vars
<1> QED
  BY <1>3, <1>4, <1>5, <1>6, <1>7, <1>8, <1>10, <1>11, <1>12, <1>13, <1>14, <1>15,
     <1>16, <1>17, <1>18, <1>19, <1>20, <1>21, <1>22
  DEF A!Next, A!Visit, A!Password

\* A link resets a password once, unless requests with it cross each other or one of them
\* breaks off before the link is used up: for any number of links and requests.
THEOREM LinksAreSpent == A!Spec => []A!LinkSpent
<1>1. A!Init => Spent
  <2>1. A!Init => DOMAIN link = {}
    BY DEF A!Init
  <2> QED BY <2>1, InitVisitors DEF Spent
<1>2. Spent => A!LinkSpent
  BY Rows DEF Spent, UsedOnce, A!LinkSpent, A!Link
<1> QED BY <1>1, <1>2, SpentStep, VisitorsTyped, PTL DEF A!Spec

-------------------------------------------------------------------------------
(* The site as it is checked *)

LEMMA SiteParts == SiteSpec => Spec /\ A!Spec
<1>1. SiteInit => Init /\ A!Init
  BY DEF SiteInit
<1>2. [SiteNext]_<<vars, accounts, about>> => [Next]_vars /\ [A!Next]_(A!vars)
  BY DEF SiteNext, accounts, A!vars, A!history
<1> QED BY <1>1, <1>2, PTL DEF SiteSpec, Spec, A!Spec

\* In the site as it is checked nobody is locked out for fewer failed logins than it takes.
THEOREM LocksEarned == SiteSpec => []LockEarned
<1>1. A!LockEarned => LockEarned
  BY DEF LockEarned
<1> QED BY <1>1, SiteParts, LocksAreEarned, PTL

\* In the site as it is checked changing and resetting a password end the sessions there
\* are.
THEOREM SessionsOver == SiteSpec => []SessionsEnded
<1>1. A!SessionsEnded => SessionsEnded
  BY DEF SessionsEnded
<1> QED BY <1>1, SiteParts, OldSessionsEnd, PTL

\* In the site as it is checked a link resets a password once.
THEOREM LinksOnce == SiteSpec => []LinkSpent
<1>1. A!LinkSpent => LinkSpent
  BY DEF LinkSpent
<1> QED BY <1>1, SiteParts, LinksAreSpent, PTL

\* In the site as it is checked an administrator remains but for requests that cross, and
\* the audit rows tell what the users are.
THEOREM OperatorsRight == SiteSpec => [](AdminUnlessCrossed /\ AuditTells)
BY SiteParts, AdminKept, AuditTrue, PTL
===============================================================================
