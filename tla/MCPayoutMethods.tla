--------------------------- MODULE MCPayoutMethods ---------------------------
(***************************************************************************)
(* Instances of PayoutMethods for TLC.                                     *)
(***************************************************************************)
EXTENDS PayoutMethods, TLC

MemberSymmetry ==
  Permutations(Methods) \cup Permutations(Circles) \cup Permutations(Requests)
=============================================================================
