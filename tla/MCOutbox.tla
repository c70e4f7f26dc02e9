------------------------------ MODULE MCOutbox ------------------------------
(***************************************************************************)
(* The instance of Outbox for TLC.  No symmetry: the run checks a liveness *)
(* property.                                                               *)
(***************************************************************************)
EXTENDS Outbox
=============================================================================
