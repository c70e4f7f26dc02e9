----------------------------- MODULE MCDisputes -----------------------------
(***************************************************************************)
(* The instance of Disputes for TLC: one entry about each of two members   *)
(* and one about nobody (the circle's own).                                *)
(***************************************************************************)
EXTENDS Disputes, FiniteSets, TLC
CONSTANTS org, amaya, bimal, e1, e2, e0

MCPeople == {org, amaya, bimal}
MCEntryLists == {<<e0>>, <<e1>>, <<e1, e2>>}
MCSubjectOf == (e1 :> amaya) @@ (e2 :> bimal) @@ (e0 :> None)
DisputeSymmetry == Permutations(Disputes)
=============================================================================
