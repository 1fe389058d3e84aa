------------------------------- MODULE MCOrders -------------------------------
(***************************************************************************)
(* Orders on small sets.  Nothing orders the rows or the requests.         *)
(***************************************************************************)
EXTENDS Orders, TLC

AllAlike ==
  UNION {Permutations(S) : S \in {Order, Payment, Session, Refund, Member, Operator}}
===============================================================================
