------------------------------ MODULE Delivery ------------------------------
(***************************************************************************)
(* What the outbox and the server promise of a payment, whatever the       *)
(* network does: it is put on record once and stays there; the phone owes  *)
(* those it keeps, and stops owing one only when it is on record, or when  *)
(* it is discarded by hand.                                                *)
(***************************************************************************)
EXTENDS Naturals

CONSTANT Payments

VARIABLES
  made,      \* payments somebody has entered
  recorded,  \* those on the server's record
  entries,   \* how many entries the record has
  owed,      \* those the phone keeps
  discarded

delivery == <<made, recorded, entries, owed, discarded>>

Init == made = {} /\ recorded = {} /\ entries = 0 /\ owed = {} /\ discarded = {}

Records(p) ==
  /\ p \notin recorded
  /\ recorded' = recorded \cup {p}
  /\ entries' = entries + 1

\* It reaches the server at once, or it does not.
Make(p) ==
  /\ p \notin made
  /\ made' = made \cup {p}
  /\ Records(p) \/ UNCHANGED <<recorded, entries>>
  /\ UNCHANGED <<owed, discarded>>

Record(p) ==
  /\ p \in made
  /\ Records(p)
  /\ UNCHANGED <<made, owed, discarded>>

\* For want of an answer, or because it was refused.
Keep(p) ==
  /\ p \in made
  /\ owed' = owed \cup {p}
  /\ UNCHANGED <<made, recorded, entries, discarded>>

Settle(p) ==
  /\ p \in recorded
  /\ owed' = owed \ {p}
  /\ UNCHANGED <<made, recorded, entries, discarded>>

Discard(p) ==
  /\ p \in owed
  /\ owed' = owed \ {p}
  /\ discarded' = discarded \cup {p}
  /\ UNCHANGED <<made, recorded, entries>>

Next == \E p \in Payments : Make(p) \/ Record(p) \/ Keep(p) \/ Settle(p) \/ Discard(p)

Spec == Init /\ [][Next]_delivery
=============================================================================
