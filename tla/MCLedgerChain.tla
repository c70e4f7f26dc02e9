---------------------------- MODULE MCLedgerChain ----------------------------
(***************************************************************************)
(* An instance of LedgerChain for TLC: two requests that append, one for a *)
(* statement.                                                              *)
(***************************************************************************)
EXTENDS LedgerChain, TLC

WriterSymmetry == Permutations(Writers)
=============================================================================
