-------------------------------- MODULE MCSite --------------------------------
(***************************************************************************)
(* Site for TLC.  Nothing orders the users, the requests or the tokens.    *)
(***************************************************************************)
EXTENDS Site, TLC

Alike ==
  UNION {Permutations(S) : S \in {User, Request, Call, Token}}
===============================================================================
