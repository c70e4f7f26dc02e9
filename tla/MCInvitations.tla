---------------------------- MODULE MCInvitations ----------------------------
(***************************************************************************)
(* The instance of Invitations for TLC.  No symmetry: the run checks a     *)
(* liveness property.                                                      *)
(***************************************************************************)
EXTENDS Invitations
=============================================================================
