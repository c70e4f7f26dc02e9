----------------------------- MODULE OneSession -----------------------------
(***************************************************************************)
(* What the refresh tokens of an account promise: one of those issued is   *)
(* valid, or none; a sign-in replaces it, an exchange spends it, and what  *)
(* was replaced, spent or ended is never valid again.  Which phone has     *)
(* which token stored makes no difference: one that still has a spent one  *)
(* can end the session with it, and nothing else.                          *)
(***************************************************************************)
EXTENDS Naturals

VARIABLES
  issued,  \* how many tokens there have been: the last is number issued
  valid,   \* the valid one, 0 when none is
  spent,   \* those exchanged for the next
  over     \* those that ended otherwise

session == <<issued, valid, spent, over>>

Init ==
  /\ issued = 0 /\ valid = 0
  /\ spent = {} /\ over = {}

Ends == over' = over \cup ({valid} \ {0})

Issues ==
  /\ issued' = issued + 1
  /\ valid' = issued + 1

SignIn ==
  /\ Issues /\ Ends
  /\ UNCHANGED spent

Exchange ==
  /\ valid # 0
  /\ spent' = spent \cup {valid}
  /\ Issues
  /\ UNCHANGED over

End ==
  /\ valid' = 0
  /\ Ends
  /\ UNCHANGED <<issued, spent>>

Next == SignIn \/ Exchange \/ End

Spec == Init /\ [][Next]_session
=============================================================================
