--------------------------------- MODULE Site ---------------------------------
(***************************************************************************)
(* The two ways the web application changes User rows.  Accounts has what  *)
(* visitors do, MemberPermissions what operators do statement by           *)
(* statement; Accounts takes in what the second means to the first as one  *)
(* step (Manage), so the two are checked side by side: a behaviour is      *)
(* about one of them, and the other stays as it began.                     *)
(***************************************************************************)
EXTENDS MemberPermissions, Sequences

CONSTANTS Address, Call, Token, MaxAttempts, MaxPasswords, MaxLinks

VARIABLES account, session, link, call, broken, streak, mixed, cut  \* Accounts'

A == INSTANCE Accounts WITH User <- Address, Request <- Call, op <- call, breaks <- broken

ASSUME AttemptsAssumption == MaxAttempts \in Nat \ {0}
ASSUME BoundsAssumption == {MaxPasswords, MaxLinks} \subseteq Nat

accounts == <<account, session, link, call, broken, streak, mixed, cut>>

\* What a behaviour is about.
VARIABLE about

SiteInit ==
  /\ Init /\ A!Init
  /\ \/ about = "operators" /\ \A u \in Address : account[u].exists
     \/ about = "visitors" /\ Admins = User

SiteNext ==
  /\ \/ about = "operators" /\ Next /\ UNCHANGED accounts
     \/ about = "visitors" /\ A!Next /\ UNCHANGED vars
  /\ UNCHANGED about

SiteSpec == SiteInit /\ [][SiteNext]_<<vars, accounts, about>>

\* Nobody is locked out for fewer failed logins than it takes, and the rows have one of
\* the forms the code gives them: the login route.
LockEarned == about = "visitors" => A!LockEarned

\* Changing and resetting a password end the sessions of the password before: both routes.
SessionsEnded == about = "visitors" => A!SessionsEnded

\* A reset link resets a password once: the route for it.
LinkSpent == about = "visitors" => A!LinkSpent
===============================================================================
