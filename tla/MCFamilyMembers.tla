----------------------------- MODULE MCFamilyMembers -----------------------------
(* Customers are interchangeable. *)
EXTENDS FamilyMembers, TLC

Symmetry == Permutations(Customer)
===============================================================================
