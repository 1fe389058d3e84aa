----------------------------- MODULE MCStaticDemo -----------------------------
(***************************************************************************)
(* StaticDemo for TLC.  Nothing orders the tabs.                           *)
(***************************************************************************)
EXTENDS StaticDemo, TLC

TabsAlike == Permutations(Tab)
===============================================================================
