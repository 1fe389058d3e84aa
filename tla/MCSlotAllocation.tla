--------------------------- MODULE MCSlotAllocation ---------------------------
(***************************************************************************)
(* SlotAllocation on two groups, the first with two slots, the second      *)
(* with one.                                                               *)
(***************************************************************************)
EXTENDS SlotAllocation, TLC

CONSTANTS g1, g2

MCSlot == 1..3
MCGroup == {g1, g2}
MCGroupOf == (1 :> g1) @@ (2 :> g1) @@ (3 :> g2)

Symmetry == Permutations(Sub) \cup Permutations(Session) \cup Permutations(Alloc)
===============================================================================
