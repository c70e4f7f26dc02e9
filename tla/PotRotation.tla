----------------------------- MODULE PotRotation -----------------------------
(***************************************************************************)
(* What a seettu circle promises: people gather; once it begins nobody     *)
(* joins, each member receives the pot exactly once, and only a member who *)
(* has not received it may still be let go, never leaving fewer than two.  *)
(***************************************************************************)
EXTENDS Naturals, FiniteSets

CONSTANTS Users, Organizer

VARIABLES phase, members, waiting, received

rotation == <<phase, members, waiting, received>>

Init ==
  /\ phase = "draft"
  /\ members = {Organizer}
  /\ waiting = {} /\ received = {}

\* someone joins or leaves while the circle gathers
Gather ==
  /\ phase = "draft"
  /\ \E u \in Users \ {Organizer} : members' \in {members \cup {u}, members \ {u}}
  /\ UNCHANGED <<phase, waiting, received>>

Begin ==
  /\ phase = "draft"
  /\ Cardinality(members) >= 2
  /\ phase' = "active"
  /\ waiting' = members
  /\ UNCHANGED <<members, received>>

PayOut(u) ==
  /\ phase = "active"
  /\ u \in waiting
  /\ waiting' = waiting \ {u}
  /\ received' = received \cup {u}
  /\ phase' = IF waiting = {u} THEN "completed" ELSE "active"
  /\ UNCHANGED members

LetGo(u) ==
  /\ phase = "active"
  /\ u \in waiting \ {Organizer}
  /\ Cardinality(members) > 2
  /\ waiting # {u}
  /\ waiting' = waiting \ {u}
  /\ members' = members \ {u}
  /\ UNCHANGED <<phase, received>>

Next == Gather \/ Begin \/ \E u \in Users : PayOut(u) \/ LetGo(u)

Spec == Init /\ [][Next]_rotation
=============================================================================
