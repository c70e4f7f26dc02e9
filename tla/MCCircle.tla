------------------------------ MODULE MCCircle ------------------------------
(***************************************************************************)
(* Instances of Circle for TLC: an organizer `o` and up to three others.  *)
(***************************************************************************)
EXTENDS Circle, TLC

CONSTANTS o, a, b, c, s1, s2

\* two seeds that put the members in opposite orders
MCRank == (s1 :> (o :> 1 @@ a :> 2 @@ b :> 3 @@ c :> 4)) @@ (s2 :> (o :> 4 @@ a :> 3 @@ b :> 2 @@ c :> 1))

\* no lottery
NoRank == [s \in {} |-> 0]

\* the other members, and the entry ids, are interchangeable under a fixed order
FixedOrderSymmetry == Permutations(Users \ {o}) \cup Permutations(EntryIds)

IdSymmetry == Permutations(EntryIds)
=============================================================================
