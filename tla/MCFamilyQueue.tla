---------------------------- MODULE MCFamilyQueue -----------------------------
(***************************************************************************)
(* FamilyQueue on three jobs, two of them on the same owner account.       *)
(* Every runner has a worker id of its own.                                *)
(***************************************************************************)
EXTENDS FamilyQueue, TLC

CONSTANTS o1, o2

MCJob == 1..3
MCOwner == {o1, o2}
MCOwnerOf == (1 :> o1) @@ (2 :> o1) @@ (3 :> o2)
MCIdOf == [r \in Runner |-> r]
===============================================================================
