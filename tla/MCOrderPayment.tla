---------------------------- MODULE MCOrderPayment ----------------------------
(***************************************************************************)
(* OrderPayment on small sets; orders, payments and requests are alike.    *)
(***************************************************************************)
EXTENDS OrderPayment, TLC

Symmetry == Permutations(Order) \cup Permutations(Payment) \cup Permutations(Session)
===============================================================================
