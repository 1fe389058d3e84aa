------------------------------ MODULE Deployment ------------------------------
(***************************************************************************)
(* The switches of the family automation, as operators and jobs use them,  *)
(* and the script that seeds them with everything else whenever the stack  *)
(* is started.  The gate has the seeded switches in its first states and   *)
(* the script has operators decide otherwise, so the two are checked side  *)
(* by side: a behaviour is about one of them, and the other stays as it    *)
(* began.                                                                  *)
(***************************************************************************)
EXTENDS FamilyGate

CONSTANTS Run, Decision, MaxStarts

VARIABLES there, place, holder, decided, starts, finished, undone, later  \* Seed's

Script == INSTANCE Seed WITH at <- place

ASSUME DecisionAssumption == Decision \subseteq Script!AnyDecision
ASSUME StartsAssumption == MaxStarts \in Nat

seeded == <<there, place, holder, decided, starts, finished, undone, later>>

\* What a behaviour is about.
VARIABLE about

DeploymentInit ==
  /\ Init /\ Script!Init
  /\ \/ about = "gate"
     \/ about = "seed" /\ setting.exists /\ consent

DeploymentNext ==
  /\ \/ about = "gate" /\ Next /\ UNCHANGED seeded
     \/ about = "seed" /\ Script!Next /\ UNCHANGED vars
  /\ UNCHANGED about

DeploymentSpec == DeploymentInit /\ [][DeploymentNext]_<<vars, seeded, about>>

\* Once a run of the seed has got to its end every scenario is whole, seats included, and
\* at any time what a row refers to is there, however often runs have broken off: main.
ScenariosWhole == about = "seed" => Script!References /\ Script!ScenariosWhole

\* What operators decide is written back by a run exactly where the upserts say so: main.
WrittenBack == about = "seed" => Script!WrittenBack
===============================================================================
