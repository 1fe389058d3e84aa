----------------------------- MODULE MCFulfilment -----------------------------
(***************************************************************************)
(* Fulfilment on one group of two slots for two payments.                  *)
(***************************************************************************)
EXTENDS Fulfilment, TLC

CONSTANT g1

MCSlot == 1..2
MCGroup == {g1}
MCGroupOf == [k \in MCSlot |-> g1]

Symmetry == Permutations(Sub) \cup Permutations(Payer) \cup Permutations(Worker)
              \cup Permutations(Alloc)
===============================================================================
