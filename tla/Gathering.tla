----------------------------- MODULE Gathering -----------------------------
(***************************************************************************)
(* What gathering a circle promises, with every accept and every start a   *)
(* single step: the organizer's pals are invited while the seats last, an  *)
(* invitation lets its invitee in once or is withdrawn, the circle is      *)
(* never overfilled, and it starts with somebody in it and nobody still    *)
(* invited.                                                                *)
(***************************************************************************)
EXTENDS Naturals, FiniteSets

CONSTANTS Pals, Seats

VARIABLES status, members, pals, invited

gathering == <<status, members, pals, invited>>

\* who is in, the organizer included
Taken == Cardinality(members) + 1

Init ==
  /\ status = "draft"
  /\ members = {} /\ invited = {}
  /\ pals \in SUBSET Pals

Befriend ==
  /\ pals' \in SUBSET Pals
  /\ UNCHANGED <<status, members, invited>>

Invite(people) ==
  /\ status = "draft"
  /\ people \subseteq pals \ (members \cup invited)
  /\ Cardinality(people) + Cardinality(invited) + Taken <= Seats
  /\ invited' = invited \cup people
  /\ UNCHANGED <<status, members, pals>>

Withdraw(u) ==
  /\ u \in invited
  /\ invited' = invited \ {u}
  /\ UNCHANGED <<status, members, pals>>

\* by the invitation, which is used up, or by the code
LetIn(u) ==
  /\ status = "draft" /\ u \in pals \ members /\ Taken < Seats
  /\ members' = members \cup {u}
  /\ \/ u \in invited /\ invited' = invited \ {u}
     \/ UNCHANGED invited
  /\ UNCHANGED <<status, pals>>

Leave(u) ==
  /\ status = "draft" /\ u \in members
  /\ members' = members \ {u}
  /\ UNCHANGED <<status, pals, invited>>

Start ==
  /\ status = "draft" /\ members # {}
  /\ status' = "active"
  /\ invited' = {}
  /\ UNCHANGED <<members, pals>>

Next ==
  \/ Befriend \/ Start
  \/ \E people \in SUBSET Pals : Invite(people)
  \/ \E u \in Pals : Withdraw(u) \/ LetIn(u) \/ Leave(u)

Spec == Init /\ [][Next]_gathering
=============================================================================
