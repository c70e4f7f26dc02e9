------------------------------- MODULE MCChat -------------------------------
(***************************************************************************)
(* The instance of Chat for TLC: one message of each person.  No symmetry: *)
(* the run checks liveness properties.                                     *)
(***************************************************************************)
EXTENDS Chat, TLC
CONSTANTS a, b, m1, m2

\* b's phone does not send again
MCTries == (m1 :> {1, 2}) @@ (m2 :> {1})
MCSenderOf == (m1 :> a) @@ (m2 :> b)
=============================================================================
