------------------------------ MODULE CsvAllocator ------------------------------
(***************************************************************************)
(* CsvAllocatorService: the pure algorithm that works through a sheet of   *)
(* accounts, takes refunded ones out of their family groups and puts paid  *)
(* ones into groups.  A sheet is a function from accounts, numbered in the *)
(* order of their rows, to rows.                                           *)
(***************************************************************************)
EXTENDS Naturals, FiniteSets, FiniteSetsExt

CONSTANTS
  Account,    \* accounts, numbered in the order of their rows
  MaxMembers  \* MAX_MEMBERS_PER_GROUP, 5 in the code: members beside the manager

ASSUME AccountAssumption == Account \subseteq Nat \ {0} /\ IsFiniteSet(Account)
ASSUME MembersAssumption == MaxMembers \in Nat \ {0}

-------------------------------------------------------------------------------
(* Sheets *)

NoGroup == 0

\* PENDING stands for EXPIRED and for every status the parser does not know as well.
\* joined: none, within the last twelve months, or before.  email: as it was given, with
\* or without a character that a spreadsheet takes for a formula, or quoted for that.
CsvAccount(groups) ==
  [status : {"PAID", "REFUNDED", "PENDING", "BLOCKED_POLICY"},
   group  : groups \cup {NoGroup},
   role   : {"none", "MANAGER", "MEMBER"},
   joined : {"none", "recent", "old"},
   email  : {"plain", "formula", "quoted"}]

Groups(sheet) == {sheet[a].group : a \in Account} \ {NoGroup}

In(sheet, g) == {a \in Account : sheet[a].group = g}

With(sheet, g, role) == {a \in In(sheet, g) : sheet[a].role = role}

Vacancy(sheet, g) ==
  LET members == Cardinality(With(sheet, g, "MEMBER")) IN
  IF members >= MaxMembers THEN 0 ELSE MaxMembers - members

Vacant(sheet) == {g \in Groups(sheet) : Vacancy(sheet, g) > 0}

\* The groups in the order of their first rows, stably sorted by vacancy, the least
\* vacant first: the first of them that has room.
LeastVacant(sheet) ==
  CHOOSE g \in Vacant(sheet) :
    \A h \in Vacant(sheet) \ {g} :
      \/ Vacancy(sheet, g) < Vacancy(sheet, h)
      \/ /\ Vacancy(sheet, g) = Vacancy(sheet, h)
         /\ Min(In(sheet, g)) < Min(In(sheet, h))

-------------------------------------------------------------------------------
(* Refunds *)

\* The rows of accounts leave their groups.
Without(sheet, accounts) ==
  [a \in Account |->
     IF a \in accounts THEN [sheet[a] EXCEPT !.group = NoGroup, !.role = "none"]
     ELSE sheet[a]]

Heirs(sheet, a) ==
  {b \in With(sheet, sheet[a].group, "MEMBER") \ {a} : sheet[b].status = "PAID"}

\* A refunded manager is followed by the first paid member of the group; without one the
\* group is dissolved.
RefundOne(sheet, a) ==
  IF sheet[a].role # "MANAGER" THEN Without(sheet, {a})
  ELSE IF Heirs(sheet, a) = {} THEN Without(sheet, In(sheet, sheet[a].group) \cup {a})
  ELSE Without([sheet EXCEPT ![Min(Heirs(sheet, a))].role = "MANAGER"], {a})

Refundable(sheet) == {a \in Account : sheet[a].status = "REFUNDED" /\ sheet[a].group # NoGroup}

\* Row by row, the last one after all others.  Who is to be refunded is settled before the
\* first of them is.
Refunded(sheet) ==
  MapThenFoldSet(LAMBDA a, done : RefundOne(done, a), sheet, LAMBDA a : a, Max,
                 Refundable(sheet))

-------------------------------------------------------------------------------
(* Allocation.  state.next is the next group identifier nobody has used. *)

\* Nobody re-joins within twelve months of having joined.
Blocked(row) == row.role # "MANAGER" /\ row.joined = "recent"

Joins(state, a, g, role) ==
  LET row == state.sheet[a] IN
  [state EXCEPT !.sheet[a] =
     [row EXCEPT !.group = g, !.role = role,
                 !.joined = IF row.joined = "none" THEN "recent" ELSE row.joined]]

\* Seeded fault: any group will do, whether it has room or not.
PlaceAnywhere(state, a) ==
  IF Blocked(state.sheet[a])
  THEN [state EXCEPT !.sheet[a].status = "BLOCKED_POLICY"]
  ELSE IF Groups(state.sheet) # {}
  THEN Joins(state, a, Min(Groups(state.sheet)), "MEMBER")
  ELSE [Joins(state, a, state.next, "MANAGER") EXCEPT !.next = @ + 1]

\* An account is blocked, or joins the least vacant group, or with all full founds one.
PlaceOne(state, a) ==
  IF Blocked(state.sheet[a])
  THEN [state EXCEPT !.sheet[a].status = "BLOCKED_POLICY"]
  ELSE IF Vacant(state.sheet) # {}
  THEN Joins(state, a, LeastVacant(state.sheet), "MEMBER")
  ELSE [Joins(state, a, state.next, "MANAGER") EXCEPT !.next = @ + 1]

Placeable(sheet) == {a \in Account : sheet[a].status = "PAID" /\ sheet[a].group = NoGroup}

Placed(sheet, next) ==
  MapThenFoldSet(LAMBDA a, state : PlaceOne(state, a), [sheet |-> sheet, next |-> next],
                 LAMBDA a : a, Max, Placeable(sheet))

\* parseAndProcess up to its export.
Processed(sheet, next) == Placed(Refunded(sheet), next)

\* A name that looks like a formula is exported with a quote in front, for good.
Quoted(name) == IF name = "formula" THEN "quoted" ELSE name

Exported(sheet) == [a \in Account |-> [sheet[a] EXCEPT !.email = Quoted(@)]]

-------------------------------------------------------------------------------
(* What a run over a sheet promises *)

\* Every payer sits in a group, the payer who sat in one before in the same; nobody who
\* was refunded sits in one.
PayersServed(before, after) ==
  \A a \in Account :
    /\ after[a].status = "PAID" => after[a].group # NoGroup
    /\ before[a].status = "PAID" /\ before[a].group # NoGroup
         => after[a].status = "PAID" /\ after[a].group = before[a].group
    /\ after[a].status = "REFUNDED" => after[a].group = NoGroup

\* A group has one manager and no more members than it may.
GroupsSound(sheet) ==
  \A g \in Groups(sheet) :
    /\ Cardinality(With(sheet, g, "MANAGER")) = 1
    /\ Cardinality(With(sheet, g, "MEMBER")) <= MaxMembers

\* A group is founded only when there is no room left in any.
FoundedOfNeed(before, after) ==
  Groups(after) \ Groups(before) # {} => Cardinality(Vacant(after)) <= 1

\* Working through the result again changes nothing.
Settled(sheet, next) == Processed(sheet, next) = [sheet |-> sheet, next |-> next]
===============================================================================
