------------------------------ MODULE SlotLedger ------------------------------
(***************************************************************************)
(* What slot allocation promises, with no database in sight: a ledger that *)
(* says which subscription holds each slot.  A free slot may be assigned   *)
(* to a subscription that holds none, and a held slot may be released.     *)
(* Nothing else ever changes the ledger; in particular a slot never passes *)
(* from one subscription to another without having been free in between.   *)
(***************************************************************************)

CONSTANTS
  Slot,     \* the slots of one product
  Sub,      \* the subscriptions to that product
  Nobody    \* the holder of a free slot, which is no subscription

VARIABLE holder

LedgerTypeOK == holder \in [Slot -> Sub \cup {Nobody}]

LedgerInit == holder = [k \in Slot |-> Nobody]

HoldsNone(s) == \A k \in Slot : holder[k] # s

Assign(k, s) ==
  /\ holder[k] = Nobody
  /\ HoldsNone(s)
  /\ holder' = [holder EXCEPT ![k] = s]

Release(k) ==
  /\ holder[k] # Nobody
  /\ holder' = [holder EXCEPT ![k] = Nobody]

LedgerNext == \E k \in Slot : Release(k) \/ \E s \in Sub : Assign(k, s)

LedgerSpec == LedgerInit /\ [][LedgerNext]_holder
===============================================================================
