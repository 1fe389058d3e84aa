------------------------------- MODULE CsvImport -------------------------------
(***************************************************************************)
(* The administrator's CSV import: an operator keeps a sheet of accounts,  *)
(* has it worked through by CsvAllocatorService, and may have the result   *)
(* written to the database by CsvFamilyPersistService, statement by        *)
(* statement and without a transaction.  The operator may go on from the   *)
(* sheet that came back or from the old one, and a request may break off   *)
(* anywhere.  One import runs at a time.                                   *)
(***************************************************************************)
EXTENDS CsvAllocator

CONSTANTS
  Formula,    \* accounts whose e-mail begins with a formula character
  MaxGroups,  \* bound: how many group identifiers there ever are
  MaxEdits,   \* bound: how often a row's status changes between imports
  MaxBreaks  \* bound: how many imports break off

ASSUME FormulaAssumption == Formula \subseteq Account
ASSUME ImportBounds == MaxGroups \in Nat /\ MaxEdits \in Nat /\ MaxBreaks \in Nat

VARIABLES
  file,      \* the operator's sheet
  next,      \* the next unused group identifier
  work,      \* the sheet the import at hand has come to; the file when there is none
  import,    \* where the import is
  owner,     \* e-mails with an OwnerAccount, by their account and form
  groups,    \* how many SubscriptionGroups were made for each group of the sheet
  holder,    \* the account that owns each group's latest SubscriptionGroup
  slots,     \* groups whose latest SubscriptionGroup has its slots
  link,      \* the account that owns each group's FamilyGroupLink
  setting,   \* groups with a FamilyAutomationSetting
  member,    \* the JOINED FamilyExternalMembers
  cut,       \* history: groups whose creation was cut off
  edits,     \* how many edits there have been
  breaks    \* how many imports have broken off

database == <<owner, groups, holder, slots, link, setting, member>>
importVars == <<file, next, work, import, database, cut, edits, breaks>>

-------------------------------------------------------------------------------
Group == 1..MaxGroups
Unlinked == 0

Kind == {"ADMIN", "MEMBER"}
Email == Account \X {"plain", "quoted"}

EmailOf(a) == <<a, work[a].email>>

\* An import by the statement it comes to, with the groups of the sheet that are still to
\* be written (of is the one at hand) and the members of that group.
NoImport == [pc |-> "idle"]
ImportAt ==
  {NoImport} \cup [pc : {"processed", "saved"}]
    \cup [pc : {"owner", "lookup", "regroup", "relink", "group", "slots", "link", "setting"},
          of : Group, todo : SUBSET Group]
    \cup [pc : {"members"}, of : Group, todo : SUBSET Group, left : (SUBSET Account) \ {{}}]
    \cup [pc : {"snapshot"}]

ImportTypeOK ==
  /\ file \in [Account -> CsvAccount(Group)]
  /\ next \in 1..(MaxGroups + 1)
  /\ work \in [Account -> CsvAccount(Group)]
  /\ import \in ImportAt
  /\ owner \subseteq Email
  /\ groups \in [Group -> Nat]
  /\ slots \subseteq Group /\ setting \subseteq Group /\ cut \subseteq Group
  /\ holder \in [Group -> Account \cup {Unlinked}]
  /\ link \in [Group -> Account \cup {Unlinked}]
  /\ member \subseteq Group \X Email \X Kind
  /\ edits \in 0..MaxEdits
  /\ breaks \in 0..MaxBreaks

\* The first sheet is of accounts that are in no group yet.
ImportInit ==
  /\ \E status \in [Account -> {"PAID", "PENDING"}] :
       file = [a \in Account |->
                 [status |-> status[a], group |-> NoGroup, role |-> "none",
                  joined |-> "none",
                  email |-> IF a \in Formula THEN "formula" ELSE "plain"]]
  /\ next = 1
  /\ work = file
  /\ import = NoImport
  /\ owner = {} /\ slots = {} /\ setting = {} /\ member = {} /\ cut = {}
  /\ groups = [g \in Group |-> 0]
  /\ holder = [g \in Group |-> Unlinked]
  /\ link = [g \in Group |-> Unlinked]
  /\ edits = 0
  /\ breaks = 0

-------------------------------------------------------------------------------
(* The operator's sheet, and the pure part of an import *)

At(pc) == import.pc = pc

\* An account pays, is refunded, lapses, or its year passes.
Edit(a) ==
  /\ At("idle")
  /\ edits < MaxEdits
  /\ edits' = edits + 1
  /\ \/ \E status \in {"PAID", "REFUNDED", "PENDING"} \ {file[a].status} :
          file' = [file EXCEPT ![a].status = status]
     \/ file[a].joined = "recent" /\ file' = [file EXCEPT ![a].joined = "old"]
  /\ work' = file'
  /\ UNCHANGED <<next, import, database, cut, breaks>>

\* The POST without preview: parseAndProcess and its export.
Process ==
  LET result == Processed(file, next) IN
  /\ At("idle")
  /\ result.next <= MaxGroups + 1
  /\ work' = Exported(result.sheet)
  /\ next' = result.next
  /\ import' = [pc |-> "processed"]
  /\ UNCHANGED <<file, database, cut, edits, breaks>>

\* The answer reaches the operator, who goes on from its sheet or from the old one.
Answer ==
  /\ At("processed") \/ At("saved")
  /\ file' = work \/ file' = file
  /\ work' = file'
  /\ import' = NoImport
  /\ UNCHANGED <<next, database, cut, edits, breaks>>

-------------------------------------------------------------------------------
(* persistAccounts over the exported sheet *)

\* The rows it writes: neither refunded nor blocked accounts.
Rows(g) == {a \in In(work, g) : work[a].status \notin {"REFUNDED", "BLOCKED_POLICY"}}

\* The first manager, or else the first payer, or else the first row.
ManagerOf(g) ==
  LET managers == {a \in Rows(g) : work[a].role = "MANAGER"}
      payers == {a \in Rows(g) : work[a].status = "PAID"}
  IN Min(IF managers # {} THEN managers ELSE IF payers # {} THEN payers ELSE Rows(g))

\* The groups are written in the order of their first rows.
Turn(rest) ==
  IF rest = {} THEN [pc |-> "snapshot"]
  ELSE LET g == CHOOSE h \in rest : \A k \in rest : Min(Rows(h)) <= Min(Rows(k))
       IN [pc |-> "owner", of |-> g, todo |-> rest \ {g}]

Reach(pc) == import' = [import EXCEPT !.pc = pc]

Persist ==
  /\ At("processed")
  /\ import' = Turn({g \in Groups(work) : Rows(g) # {}})
  /\ UNCHANGED <<file, next, work, database, cut, edits, breaks>>

UpsertOwner ==
  /\ At("owner")
  /\ owner' = owner \cup {EmailOf(ManagerOf(import.of))}
  /\ Reach("lookup")
  /\ UNCHANGED <<file, next, work, groups, holder, slots, link, setting, member, cut, edits, breaks>>

FindLink ==
  /\ At("lookup")
  /\ Reach(IF link[import.of] # Unlinked THEN "regroup" ELSE "group")
  /\ UNCHANGED <<file, next, work, database, cut, edits, breaks>>

UpdateGroup ==
  /\ At("regroup")
  /\ holder' = [holder EXCEPT ![import.of] = ManagerOf(import.of)]
  /\ Reach("relink")
  /\ UNCHANGED <<file, next, work, owner, groups, slots, link, setting, member, cut, edits,
                 breaks>>

ToMembers ==
  import' = [pc |-> "members", of |-> import.of, todo |-> import.todo, left |-> Rows(import.of)]

UpdateLink ==
  /\ At("relink")
  /\ link' = [link EXCEPT ![import.of] = ManagerOf(import.of)]
  /\ ToMembers
  /\ UNCHANGED <<file, next, work, owner, groups, holder, slots, setting, member, cut, edits,
                 breaks>>

CreateGroup ==
  /\ At("group")
  /\ groups' = [groups EXCEPT ![import.of] = @ + 1]
  /\ holder' = [holder EXCEPT ![import.of] = ManagerOf(import.of)]
  /\ slots' = slots \ {import.of}
  /\ Reach("slots")
  /\ UNCHANGED <<file, next, work, owner, link, setting, member, cut, edits, breaks>>

\* Seeded fault: a group made again after a break is thought to have its slots.
CreateSlotsOnce ==
  /\ At("slots")
  /\ slots' = IF groups[import.of] = 1 THEN slots \cup {import.of} ELSE slots
  /\ Reach("link")
  /\ UNCHANGED <<file, next, work, owner, groups, holder, link, setting, member, cut, edits,
                 breaks>>

CreateSlots ==
  /\ At("slots")
  /\ slots' = slots \cup {import.of}
  /\ Reach("link")
  /\ UNCHANGED <<file, next, work, owner, groups, holder, link, setting, member, cut, edits,
                 breaks>>

CreateLink ==
  /\ At("link")
  /\ link' = [link EXCEPT ![import.of] = ManagerOf(import.of)]
  /\ Reach("setting")
  /\ UNCHANGED <<file, next, work, owner, groups, holder, slots, setting, member, cut, edits,
                 breaks>>

UpsertSetting ==
  /\ At("setting")
  /\ setting' = setting \cup {import.of}
  /\ ToMembers
  /\ UNCHANGED <<file, next, work, owner, groups, holder, slots, link, member, cut, edits,
                 breaks>>

\* The rows of the sheet are upserted; nobody's is ever taken away.
UpsertMember ==
  LET a == Min(import.left)
      kind == IF work[a].role = "MANAGER" THEN "ADMIN" ELSE "MEMBER"
      rest == import.left \ {a}
  IN
  /\ At("members")
  /\ member' = member \cup {<<import.of, EmailOf(a), kind>>}
  /\ import' = IF rest = {} THEN Turn(import.todo) ELSE [import EXCEPT !.left = rest]
  /\ UNCHANGED <<file, next, work, owner, groups, holder, slots, link, setting, cut, edits, breaks>>

\* The copy of the sheet in app_settings, which nothing reads back.
SaveSnapshot ==
  /\ At("snapshot")
  /\ import' = [pc |-> "saved"]
  /\ UNCHANGED <<file, next, work, database, cut, edits, breaks>>

\* A statement fails or the process dies: the operator gets no sheet back.
Break ==
  /\ ~At("idle")
  /\ breaks < MaxBreaks
  /\ breaks' = breaks + 1
  /\ cut' = IF import.pc \in {"slots", "link", "setting"} THEN cut \cup {import.of} ELSE cut
  /\ work' = file
  /\ import' = NoImport
  /\ UNCHANGED <<file, next, database, edits>>

ImportNext ==
  \/ \E a \in Account : Edit(a)
  \/ Process \/ Answer \/ Persist
  \/ UpsertOwner \/ FindLink \/ UpdateGroup \/ UpdateLink
  \/ CreateGroup \/ CreateSlots \/ CreateLink \/ UpsertSetting
  \/ UpsertMember \/ SaveSnapshot
  \/ Break

ImportSpec == ImportInit /\ [][ImportNext]_importVars

-------------------------------------------------------------------------------
(* Properties *)

\* Whatever payments, refunds and imports a sheet has been through, working through it
\* serves every payer and moves none, takes out whoever was refunded, leaves each group
\* with one manager and no more members than it may have, founds groups of need only, and
\* comes to rest: parseAndProcess.
ImportSound ==
  At("processed") =>
    /\ PayersServed(file, work)
    /\ GroupsSound(work)
    /\ FoundedOfNeed(file, work)
    /\ Settled(work, next)

\* Once an import is saved every group of its sheet has a link to the manager's account, a
\* group with slots behind it and a JOINED row for everybody in it, even when an earlier
\* import broke off while it created that very group.  Only the automation setting may be
\* missing then, and it stays missing: a group that has its link is not created again.
SavedIsMirrored ==
  At("saved") =>
    \A a \in Account :
      LET g == work[a].group IN
      g # NoGroup /\ a \in Rows(g) =>
        /\ link[g] = ManagerOf(g) /\ holder[g] = link[g] /\ EmailOf(link[g]) \in owner
        /\ g \in slots
        /\ g \in setting \cup cut
        /\ \E kind \in Kind : <<g, EmailOf(a), kind>> \in member
===============================================================================
