------------------------------ MODULE Consent ------------------------------
(***************************************************************************)
(* What a dispute promises the people it concerns, with every answer and   *)
(* every view a single step: who is concerned is settled when it is        *)
(* raised; each of them answers as long as it waits; the last consent      *)
(* opens it and a refusal ends it; only an opened dispute is shown, and    *)
(* everyone concerned is told of each view.                                *)
(***************************************************************************)
EXTENDS Naturals

CONSTANTS People, Disputes

VARIABLES stage, concerned, agreed, told, seen

consent == <<stage, concerned, agreed, told, seen>>

Init ==
  /\ stage = [d \in Disputes |-> "none"]
  /\ concerned = [d \in Disputes |-> {}]
  /\ agreed = [d \in Disputes |-> {}]
  /\ told = [d \in Disputes |-> [p \in People |-> 0]]
  /\ seen = [d \in Disputes |-> 0]

\* where a dispute stands when `who` are concerned and `yes` have agreed
Standing(who, yes) == IF who \subseteq yes THEN "consented" ELSE "awaiting_consent"

Raise(d, p) ==
  /\ stage[d] = "none"
  /\ \E who \in SUBSET People :
       /\ p \in who
       /\ concerned' = [concerned EXCEPT ![d] = who]
       /\ stage' = [stage EXCEPT ![d] = Standing(who, {p})]
  /\ agreed' = [agreed EXCEPT ![d] = {p}]
  /\ UNCHANGED <<told, seen>>

Agree(d, p) ==
  /\ stage[d] = "awaiting_consent" /\ p \in concerned[d]
  /\ agreed' = [agreed EXCEPT ![d] = @ \cup {p}]
  /\ stage' = [stage EXCEPT ![d] = Standing(concerned[d], agreed[d] \cup {p})]
  /\ UNCHANGED <<concerned, told, seen>>

Refuse(d, p) ==
  /\ stage[d] = "awaiting_consent" /\ p \in concerned[d]
  /\ stage' = [stage EXCEPT ![d] = "declined"]
  /\ UNCHANGED <<concerned, agreed, told, seen>>

\* the answer that shows the entries may be lost on its way to the officer
View(d) ==
  /\ stage[d] \in {"consented", "resolved"}
  /\ told' = [told EXCEPT ![d] =
       [p \in People |-> IF p \in concerned[d] THEN @[p] + 1 ELSE @[p]]]
  /\ seen' \in {seen, [seen EXCEPT ![d] = @ + 1]}
  /\ UNCHANGED <<stage, concerned, agreed>>

Resolve(d) ==
  /\ stage[d] = "consented"
  /\ stage' = [stage EXCEPT ![d] = "resolved"]
  /\ UNCHANGED <<concerned, agreed, told, seen>>

Next ==
  \E d \in Disputes :
    \/ \E p \in People : Raise(d, p) \/ Agree(d, p) \/ Refuse(d, p)
    \/ View(d) \/ Resolve(d)

Spec == Init /\ [][Next]_consent
=============================================================================
