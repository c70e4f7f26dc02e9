----------------------------- MODULE MCAccounts -----------------------------
(***************************************************************************)
(* The instance of Accounts for TLC: two phones and two requests at a      *)
(* time, which are alike.                                                  *)
(***************************************************************************)
EXTENDS Accounts, TLC
CONSTANTS d1, d2, r1, r2, secret
Alike == Permutations({d1, d2}) \cup Permutations({r1, r2})
=============================================================================
