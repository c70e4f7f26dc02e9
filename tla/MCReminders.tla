----------------------------- MODULE MCReminders -----------------------------
(***************************************************************************)
(* An instance of Reminders for TLC: two cycles, due on days 0 and 1.      *)
(***************************************************************************)
EXTENDS Reminders, TLC

TwoCycles == <<0, 1>>
=============================================================================
