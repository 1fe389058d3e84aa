------------------------------ MODULE FamilyRoster ------------------------------
(***************************************************************************)
(* What family automation promises about a family group: only customers    *)
(* who were given a seat come on the family page, and a seat is given back *)
(* only while its holder is off the page.                                  *)
(***************************************************************************)
CONSTANT Customer

VARIABLES
  known,  \* the customers who were ever given a seat
  held,   \* those of them who hold it
  here    \* the customers on the family page

\* Some may be on the page from the time before the service took the family over.
Init == known = {} /\ held = {} /\ here \subseteq Customer

Hold(c) ==
  /\ known' = known \cup {c}
  /\ held' = held \cup {c}
  /\ UNCHANGED here

Admit(c) ==
  /\ c \in known
  /\ here' = here \cup {c}
  /\ UNCHANGED <<known, held>>

Drop(c) ==
  /\ here' = here \ {c}
  /\ UNCHANGED <<known, held>>

Free(c) ==
  /\ c \notin here
  /\ held' = held \ {c}
  /\ UNCHANGED <<known, here>>

Next == \E c \in Customer : Hold(c) \/ Admit(c) \/ Drop(c) \/ Free(c)

Spec == Init /\ [][Next]_<<known, held, here>>
===============================================================================
