------------------------------- MODULE MCPals -------------------------------
(***************************************************************************)
(* The instance of Pals for TLC.  No symmetry: the run checks a liveness   *)
(* property.                                                               *)
(***************************************************************************)
EXTENDS Pals
=============================================================================
