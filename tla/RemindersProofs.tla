--------------------------- MODULE RemindersProofs ---------------------------
(***************************************************************************)
(* Proofs about Reminders for every set of members, calendar of due dates  *)
(* and number of jobs at once.  A row of reminder_deliveries is inserted   *)
(* by one job only, and never deleted: so a claimed reminder that is on    *)
(* its way is on its way from one job, and has not been delivered          *)
(* (OneDeliverer); and when a job stops, the one reminder it had claimed   *)
(* joins those nobody will be told of (StopsLoseOneEach).  Liveness        *)
(* (OverdueIsTold) is left to TLC.                                         *)
(***************************************************************************)
EXTENDS Reminders, TLAPS, FiniteSetTheorems

\* What a job has claimed no other job has, and nobody was told of it yet; everything
\* told was claimed, and told once.
OneDeliverer ==
  /\ \A j \in Jobs : sending[j] # None => sending[j] \in claimed /\ Copies(sending[j]) = {}
  /\ \A j, k \in Jobs : sending[j] = sending[k] /\ sending[j] # None => j = k
  /\ \A t \in told : t[1] \in claimed

RemindersInv == TypeOK /\ OneDeliverer /\ RemindedOnce /\ StopsLoseOneEach
-----------------------------------------------------------------------------
(***************************************************************************)
(* The reminders there are.                                                *)
(***************************************************************************)

\* A due date is one of the days looked at.
LEMMA DueDays ==
  /\ LastCycle \in Nat /\ LastDay \in Nat /\ DaysBefore \subseteq Nat
  /\ \A n \in 1..LastCycle : Due[n] \in Days /\ Due[n] \in Nat
BY DaysAssumption DEF LastCycle, Days

\* (run) Who has not paid for the current cycle and is to be reminded gets a
\* reminder of that cycle, dated on the day or on the due date.
LEMMA ReminderForType ==
  ASSUME TypeOK, NEW u \in Unpaid
  PROVE  ReminderFor(u) \in Reminder
<1>1. u \in Members /\ current \in 1..LastCycle /\ today \in Days /\ today \in Int
  BY DEF Unpaid, TypeOK, Days
<1>2. Due[current] \in Days /\ Due[current] \in Nat
  BY <1>1, DueDays
<1>3. CASE today > Due[current]
  BY <1>1, <1>2, <1>3 DEF ReminderFor, Reminder
<1>4. CASE ~(today > Due[current])
  <2>1. Due[current] - today \in Nat
    BY <1>1, <1>2, <1>4
  <2> QED
    BY <1>1, <1>4, <2>1 DEF ReminderFor, Reminder
<1> QED
  BY <1>3, <1>4
-----------------------------------------------------------------------------
(***************************************************************************)
(* The invariant holds at the beginning and is kept by each step.          *)
(***************************************************************************)

\* At first nobody was reminded and no job runs.
LEMMA InitRemindersInv == Init => RemindersInv
<1> SUFFICES ASSUME Init PROVE RemindersInv
  OBVIOUS
<1>1. TypeOK
  BY DueDays, StopsAssumption DEF Init, TypeOK, Days
<1>2. OneDeliverer /\ RemindedOnce
  BY DEF Init, OneDeliverer, RemindedOnce
<1>3. Lost = {} /\ stops = 0
  BY DEF Init, Lost
<1>4. StopsLoseOneEach
  BY <1>3, FS_EmptySet DEF StopsLoseOneEach
<1> QED
  BY <1>1, <1>2, <1>4 DEF RemindersInv

\* While no reminder is lost, or one more each time a job stops, the bound holds.
LEMMA LostFrame ==
  ASSUME StopsLoseOneEach, stops \in Nat, stops' \in Nat, stops' >= stops,
         Lost' \subseteq Lost
  PROVE  StopsLoseOneEach'
<1>1. IsFiniteSet(Lost') /\ Cardinality(Lost') <= Cardinality(Lost)
  BY FS_Subset DEF StopsLoseOneEach
<1>2. Cardinality(Lost) \in Nat /\ Cardinality(Lost') \in Nat
  BY <1>1, FS_CardinalityType DEF StopsLoseOneEach
<1> QED
  BY <1>1, <1>2 DEF StopsLoseOneEach

\* A step that neither claims nor delivers keeps what is said of claims, and loses none.
LEMMA ClaimsFrame ==
  ASSUME RemindersInv, UNCHANGED <<claimed, sending, told>>
  PROVE  OneDeliverer' /\ RemindedOnce' /\ Lost' = Lost
BY DEF RemindersInv, OneDeliverer, RemindedOnce, Copies, Lost

\* A step that neither claims, delivers nor stops a job keeps all but the types.
LEMMA LossesFrame ==
  ASSUME RemindersInv, UNCHANGED <<claimed, sending, told, stops>>
  PROVE  OneDeliverer' /\ RemindedOnce' /\ StopsLoseOneEach'
<1>1. stops \in Nat /\ stops' = stops
  BY StopsAssumption DEF RemindersInv, TypeOK
<1> QED
  BY <1>1, ClaimsFrame, LostFrame DEF RemindersInv

\* (run) The job begins with the reminders of those who are to be reminded now.
LEMMA RunInv == ASSUME RemindersInv, NEW j \in Runs, Run(j) PROVE RemindersInv'
<1> DEFINE batch == {ReminderFor(u) : u \in {v \in Unpaid : ToRemind(v)}}
<1>1. batch \subseteq Reminder
  BY ReminderForType DEF RemindersInv
<1>2. todo' = [todo EXCEPT ![j] = batch] /\ UNCHANGED <<claimed, sending, told, stops>>
  BY DEF Run
<1> HIDE DEF batch
<1>3. TypeOK'
  BY <1>1, <1>2 DEF Run, RemindersInv, TypeOK
<1> QED
  BY <1>2, <1>3, LossesFrame DEF RemindersInv

\* (nudge) The job begins with the nudge of this day.
LEMMA NudgeInv ==
  ASSUME RemindersInv, NEW j \in Nudges, NEW u \in Members, NudgeMember(j, u)
  PROVE  RemindersInv'
<1>1. current \in 1..LastCycle /\ today \in Days
  BY DEF NudgeMember, Unpaid, RemindersInv, TypeOK
<1>2. [cycle |-> current, user |-> u, marker |-> Nudge, on |-> today] \in Reminder
  BY <1>1 DEF Reminder
<1>3. TypeOK'
  BY <1>2 DEF NudgeMember, RemindersInv, TypeOK
<1> QED
  BY <1>3, LossesFrame DEF NudgeMember, RemindersInv

\* (claim) A row that is there already is not delivered again; a new one was in no other
\* job's hands and nobody was told of it.
LEMMA ClaimInv ==
  ASSUME RemindersInv, NEW j \in Jobs, NEW reminder \in todo[j], Claim(j, reminder)
  PROVE  RemindersInv'
<1> USE DEF RemindersInv
<1>1. reminder \in Reminder /\ todo' = [todo EXCEPT ![j] = @ \ {reminder}] /\ told' = told
  BY DEF Claim, TypeOK
<1>2. CASE ~Unclaimed(reminder)
  <2>1. TypeOK'
    BY <1>1, <1>2 DEF Claim, TypeOK
  <2> QED
    BY <1>2, <2>1, LossesFrame DEF Claim
<1>3. CASE Unclaimed(reminder)
  <2>1. /\ claimed' = claimed \cup {reminder} /\ reminder \notin claimed
        /\ sending' = [sending EXCEPT ![j] = reminder]
    BY <1>3 DEF Claim, InsertRow, Unclaimed
  <2>2. \A k \in Jobs : sending'[k] = IF k = j THEN reminder ELSE sending[k]
    BY <2>1 DEF TypeOK
  <2>3. TypeOK'
    BY <1>1, <2>1 DEF Claim, TypeOK
  <2>4. Copies(reminder) = {}
    BY <2>1 DEF OneDeliverer, Copies
  <2>5. \A r : Copies(r)' = Copies(r)
    BY <1>1 DEF Copies
  <2>6. OneDeliverer'
    BY <1>1, <2>1, <2>2, <2>4, <2>5 DEF OneDeliverer
  <2>7. sending[j] = None /\ stops' = stops /\ stops \in Nat
    BY StopsAssumption DEF Claim, TypeOK
  <2>8. None \notin claimed
    BY NoneAssumption DEF TypeOK
  <2>9. Lost' \subseteq Lost
    BY <2>1, <2>2, <2>5, <2>7, <2>8 DEF Lost
  <2>10. StopsLoseOneEach'
    BY <2>7, <2>9, LostFrame
  <2> QED
    BY <1>1, <2>3, <2>6, <2>10 DEF RemindedOnce
<1> QED
  BY <1>2, <1>3

\* (deliver) The message is the first about its reminder, and the job lets go of it.
LEMMA DeliverInv == ASSUME RemindersInv, NEW j \in Jobs, Deliver(j) PROVE RemindersInv'
<1> USE DEF RemindersInv
<1> DEFINE reminder == sending[j]
<1>1. reminder # None /\ reminder \in claimed /\ Copies(reminder) = {}
  BY DEF Deliver, OneDeliverer
<1>2. told' = told \cup {<<reminder, 1>>}
  BY <1>1, FS_EmptySet DEF Deliver
<1>3. \A k \in Jobs : sending'[k] = IF k = j THEN None ELSE sending[k]
  BY DEF Deliver, TypeOK
<1>4. claimed' = claimed
  BY DEF Deliver
<1>5. TypeOK'
  BY <1>1, <1>2, <1>4 DEF Deliver, TypeOK
<1>6. \A r : r # reminder => Copies(r)' = Copies(r)
  BY <1>2 DEF Copies
<1>7. \A k \in Jobs : sending'[k] # None => sending'[k] = sending[k] /\ sending[k] # reminder
  BY <1>1, <1>3 DEF OneDeliverer
<1>8. OneDeliverer'
  BY <1>1, <1>2, <1>3, <1>4, <1>6, <1>7 DEF OneDeliverer
<1>9. RemindedOnce'
  BY <1>2 DEF RemindedOnce
<1> HIDE DEF reminder
<1>10. ASSUME NEW r \in Lost' PROVE r # reminder
  <2>1. ASSUME r = reminder PROVE FALSE
    <3>1. <<r, 1>> \in told' /\ <<r, 1>>[1] = r
      BY <1>2, <2>1
    <3>2. Copies(r)' # {}
      BY <3>1 DEF Copies
    <3> QED
      BY <1>10, <3>2 DEF Lost
  <2> QED
    BY <2>1
<1>11. Lost' \subseteq Lost
  <2> SUFFICES ASSUME NEW r \in Lost' PROVE r \in Lost
    OBVIOUS
  <2>1. r \in claimed /\ r # reminder /\ Copies(r) = {}
    BY <1>4, <1>6, <1>10 DEF Lost
  <2>2. ASSUME NEW k \in Jobs PROVE sending[k] # r
    <3>1. CASE k = j
      BY <2>1, <3>1 DEF reminder
    <3>2. CASE k # j
      BY <1>3, <3>2 DEF Lost
    <3> QED
      BY <3>1, <3>2
  <2> QED
    BY <2>1, <2>2 DEF Lost
<1>12. StopsLoseOneEach'
  BY <1>11, LostFrame, StopsAssumption DEF Deliver, TypeOK
<1> QED
  BY <1>5, <1>8, <1>9, <1>12

\* The server stops: what the job had claimed it never delivers, and nothing else.
LEMMA StopInv == ASSUME RemindersInv, NEW j \in Jobs, Stop(j) PROVE RemindersInv'
<1> USE DEF RemindersInv
<1>1. \A k \in Jobs : sending'[k] = IF k = j THEN None ELSE sending[k]
  BY DEF Stop, TypeOK
<1>2. claimed' = claimed /\ told' = told
  BY DEF Stop
<1>3. TypeOK'
  BY StopsAssumption DEF Stop, TypeOK
<1>4. OneDeliverer' /\ RemindedOnce'
  BY <1>1, <1>2 DEF OneDeliverer, RemindedOnce, Copies
<1>5. Lost' \subseteq Lost \cup {sending[j]}
  BY <1>1, <1>2 DEF Lost, Copies
<1>6. /\ IsFiniteSet(Lost \cup {sending[j]})
      /\ Cardinality(Lost \cup {sending[j]}) <= Cardinality(Lost) + 1
  <2>1. Cardinality(Lost) \in Nat
    BY FS_CardinalityType DEF StopsLoseOneEach
  <2>2. \/ Cardinality(Lost \cup {sending[j]}) = Cardinality(Lost)
        \/ Cardinality(Lost \cup {sending[j]}) = Cardinality(Lost) + 1
    BY FS_AddElement DEF StopsLoseOneEach
  <2> QED
    BY <2>1, <2>2, FS_AddElement DEF StopsLoseOneEach
<1>7. IsFiniteSet(Lost') /\ Cardinality(Lost') <= Cardinality(Lost \cup {sending[j]})
  BY <1>5, <1>6, FS_Subset
<1>8. /\ Cardinality(Lost) \in Nat /\ Cardinality(Lost') \in Nat
      /\ Cardinality(Lost \cup {sending[j]}) \in Nat
  BY <1>6, <1>7, FS_CardinalityType DEF StopsLoseOneEach
<1>9. stops' = stops + 1 /\ stops \in Nat /\ Cardinality(Lost) <= stops
  BY StopsAssumption DEF Stop, TypeOK, StopsLoseOneEach
<1>10. StopsLoseOneEach'
  BY <1>6, <1>7, <1>8, <1>9 DEF StopsLoseOneEach
<1> QED
  BY <1>3, <1>4, <1>10

\* (set, record, correct, closeCycle) What members and organizers do meanwhile, and
\* midnight, touches no delivery.
LEMMA MeanwhileInv ==
  ASSUME RemindersInv,
         \/ \E u \in Members : \/ \E n \in 1..LastCycle : Pay(u, n) \/ Correct(u, n)
                               \/ \E days \in SUBSET DaysBefore : Set(u, days)
         \/ CloseCycle
         \/ Midnight
  PROVE  RemindersInv'
<1> USE DEF RemindersInv
<1>1. UNCHANGED <<claimed, todo, sending, told, stops>>
  BY DEF Pay, Correct, Set, CloseCycle, Midnight
<1>2. CASE \E u \in Members, n \in 1..LastCycle : Pay(u, n) \/ Correct(u, n)
  BY <1>1, <1>2, LossesFrame DEF Pay, Correct, TypeOK
<1>3. CASE \E u \in Members, days \in SUBSET DaysBefore : Set(u, days)
  BY <1>1, <1>3, LossesFrame DEF Set, TypeOK
<1>4. CASE CloseCycle
  BY <1>1, <1>4, LossesFrame, DueDays DEF CloseCycle, TypeOK
<1>5. CASE Midnight
  BY <1>1, <1>5, LossesFrame, DueDays DEF Midnight, TypeOK, Days
<1> QED
  BY <1>2, <1>3, <1>4, <1>5

\* Every statement keeps the invariant.
LEMMA NextRemindersInv == RemindersInv /\ [Next]_vars => RemindersInv'
<1> SUFFICES ASSUME RemindersInv, [Next]_vars PROVE RemindersInv'
  OBVIOUS
<1>1. CASE UNCHANGED vars
  BY <1>1, LossesFrame DEF vars, RemindersInv, TypeOK
<1>2. CASE Next
  BY <1>2, RunInv, NudgeInv, ClaimInv, DeliverInv, StopInv, MeanwhileInv DEF Next
<1> QED
  BY <1>1, <1>2
-----------------------------------------------------------------------------
(***************************************************************************)
(* The theorems.                                                           *)
(***************************************************************************)

\* Claims, deliveries and messages fit together, whatever jobs overlap or stop.
THEOREM RemindersInvariant == Spec => []RemindersInv
<1> QED
  BY InitRemindersInv, NextRemindersInv, PTL DEF Spec

\* A member gets each reminder once, whatever jobs overlap, run again or pass midnight
\* (claim, deliver).
THEOREM MembersRemindedOnce == Spec => []RemindedOnce
<1>1. RemindersInv => RemindedOnce
  BY DEF RemindersInv
<1> QED
  BY <1>1, RemindersInvariant, PTL

\* A gateway outage loses no reminder and a job that is stopped at most the one it
\* had claimed (run, deliver).
THEOREM StopsLoseAtMostOne == Spec => []StopsLoseOneEach
<1>1. RemindersInv => StopsLoseOneEach
  BY DEF RemindersInv
<1> QED
  BY <1>1, RemindersInvariant, PTL
=============================================================================
