--------------------------- MODULE DisputesProofs ---------------------------
(***************************************************************************)
(* Proofs about Disputes for every circle, set of entries, number of       *)
(* disputes and of officers.  What makes the answers safe is the row lock: *)
(* while an answer is between its lock and its commit nobody else answers  *)
(* the same dispute (OneHolder), so the consents it counted are still the  *)
(* consents there are (AnswersStand).                                      *)
(***************************************************************************)
EXTENDS Disputes, TLAPS

Holding(p) == at[p] \in {"locked", "answered"}

\* A dispute that was raised names entries, and whoever raised it is concerned; one
\* that was not has nothing to its name.
RaisedByTheConcerned ==
  \A d \in Disputes :
    IF status[d] = "none"
      THEN entryIds[d] = <<>> /\ log[d] = 0
      ELSE entryIds[d] \in EntryLists /\ raisedBy[d] \in Concerned(d)

\* One transaction at a time holds a dispute.
OneHolder ==
  /\ \A p, q \in People : Holding(p) /\ Holding(q) /\ answer[p].dispute = answer[q].dispute => p = q
  /\ \A p \in People, o \in Officers : Holding(p) => viewing[o] # answer[p].dispute

\* An answer under way is about a dispute still waiting, and what it has counted stands.
AnswersStand ==
  \A p \in People :
    /\ Holding(p) => answer[p].dispute \in Disputes
    /\ \A d \in Disputes : Holding(p) /\ answer[p].dispute = d =>
         /\ status[d] = "awaiting_consent"
         /\ at[p] = "answered" =>
              (answer[p].settles <=> answer[p].granted /\ Concerned(d) \subseteq consents[d] \cup {p})

\* What an officer may read everyone concerned has agreed to, and only that was viewed.
ReadableAgreed ==
  /\ \A d \in Disputes : Readable(d) => Concerned(d) \subseteq consents[d]
  /\ \A o \in Officers : viewing[o] # None => Readable(viewing[o])
  /\ \A d \in Disputes : log[d] > 0 => Readable(d)

\* Every answer that arrived was logged, and everyone concerned told of each view.
EveryViewTold ==
  \A d \in Disputes :
    /\ seen[d] <= log[d]
    /\ \A p \in People : status[d] = "none" => told[d][p] = 0
    /\ \A p \in Concerned(d) : status[d] # "none" => told[d][p] = log[d]

DisputesInv ==
  /\ TypeOK /\ Organizer \in members
  /\ RaisedByTheConcerned /\ OneHolder /\ AnswersStand
  /\ SomebodyLeftToAsk /\ ReadableAgreed /\ EveryViewTold
-----------------------------------------------------------------------------
(***************************************************************************)
(* Who is asked.                                                           *)
(***************************************************************************)

\* An entry list is not the empty list an unused row holds.
LEMMA ListsNameEntries == <<>> \notin EntryLists
<1>1. DOMAIN <<>> = {}
  OBVIOUS
<1> QED
  BY <1>1, EntriesAssumption

\* Whoever raised a dispute about the same entries is concerned by them, so the raisers
\* add nobody to the organizer and the subjects.
LEMMA NeededForList ==
  ASSUME TypeOK, Organizer \in members, RaisedByTheConcerned, NEW list \in EntryLists
  PROVE  NeededConsent(list) = {Organizer} \cup Subjects(list)
<1>1. ASSUME NEW d \in Disputes, entryIds[d] = list
      PROVE  raisedBy[d] \in {Organizer} \cup Subjects(list)
  <2>1. status[d] # "none"
    BY <1>1, ListsNameEntries DEF RaisedByTheConcerned
  <2> QED
    BY <1>1, <2>1 DEF RaisedByTheConcerned, Concerned
<1> QED
  BY <1>1 DEF NeededConsent

\* (neededConsent) Who is asked about a dispute is who its entries are about.
LEMMA NeededIsConcerned ==
  ASSUME DisputesInv, NEW d \in Disputes, status[d] # "none"
  PROVE  NeededConsent(entryIds[d]) = Concerned(d)
<1>1. entryIds[d] \in EntryLists
  BY DEF DisputesInv, RaisedByTheConcerned
<1> QED
  BY <1>1, NeededForList DEF DisputesInv, Concerned
-----------------------------------------------------------------------------
(***************************************************************************)
(* The invariant holds at the beginning and is kept by each step.          *)
(***************************************************************************)

\* At first there is no dispute, no answer and no view.
LEMMA InitDisputesInv == Init => DisputesInv
<1> SUFFICES ASSUME Init PROVE DisputesInv
  OBVIOUS
<1>1. TypeOK
  BY DEF Init, TypeOK, NoAnswer
<1> QED
  BY <1>1, OrganizerAssumption
  DEF Init, DisputesInv, RaisedByTheConcerned, OneHolder, Holding, AnswersStand,
      SomebodyLeftToAsk, ReadableAgreed, Readable, EveryViewTold

\* A step that leaves the disputes alone and takes no row keeps what is said of them.
LEMMA NothingTaken ==
  ASSUME DisputesInv, UNCHANGED <<status, raisedBy, entryIds, consents, viewing, log, told, seen>>,
         \A q \in People : Holding(q)' => /\ Holding(q) /\ answer'[q] = answer[q]
                                          /\ at'[q] = at[q]
  PROVE  /\ RaisedByTheConcerned' /\ OneHolder' /\ AnswersStand'
         /\ SomebodyLeftToAsk' /\ ReadableAgreed' /\ EveryViewTold'
<1> USE DEF DisputesInv
<1>1. \A d : Concerned(d)' = Concerned(d) /\ (Readable(d)' <=> Readable(d))
  BY DEF Concerned, Subjects, Readable
<1>2. RaisedByTheConcerned' /\ SomebodyLeftToAsk'
  BY <1>1 DEF RaisedByTheConcerned, SomebodyLeftToAsk
<1>3. OneHolder'
  BY DEF OneHolder
<1>4. AnswersStand'
  BY <1>1 DEF AnswersStand
<1>5. ReadableAgreed' /\ EveryViewTold'
  BY <1>1 DEF ReadableAgreed, EveryViewTold
<1> QED
  BY <1>2, <1>3, <1>4, <1>5

\* (CircleRoleGuard) An admitted member holds no row yet.
LEMMA EnterInv == ASSUME DisputesInv, NEW p \in People, Enter(p) PROVE DisputesInv'
<1> USE DEF DisputesInv
<1>1. TypeOK' /\ Organizer \in members'
  BY DEF Enter, TypeOK, rows, views
<1>2. \A q \in People : Holding(q)' => Holding(q) /\ answer'[q] = answer[q] /\ at'[q] = at[q]
  BY DEF Enter, TypeOK, Holding
<1> QED
  BY <1>1, <1>2, NothingTaken DEF Enter, rows, views

\* (leave, removeMember) Who leaves is still concerned and still asked.
LEMMA LeaveInv == ASSUME DisputesInv, NEW p \in People, Leave(p) PROVE DisputesInv'
<1> USE DEF DisputesInv
<1>1. TypeOK' /\ Organizer \in members'
  BY DEF Leave, TypeOK, rows, views
<1>2. \A q \in People : Holding(q)' => Holding(q) /\ answer'[q] = answer[q] /\ at'[q] = at[q]
  BY DEF Leave, Holding
<1> QED
  BY <1>1, <1>2, NothingTaken DEF Leave, rows, views

\* An answer that is rolled back leaves no consent and frees its row.
LEMMA RollbackInv == ASSUME DisputesInv, NEW p \in People, Rollback(p) PROVE DisputesInv'
<1> USE DEF DisputesInv
<1>1. TypeOK' /\ Organizer \in members'
  BY DEF Rollback, TypeOK, rows, views, NoAnswer
<1>2. \A q \in People : Holding(q)' => Holding(q) /\ answer'[q] = answer[q] /\ at'[q] = at[q]
  BY DEF Rollback, TypeOK, Holding
<1> QED
  BY <1>1, <1>2, NothingTaken DEF Rollback, rows, views

\* (respond) The row is free when it is locked, and the dispute still waits.
LEMMA LockInv == ASSUME DisputesInv, NEW p \in People, Lock(p) PROVE DisputesInv'
<1> USE DEF DisputesInv
<1>1. PICK d \in Disputes, granted \in BOOLEAN :
        /\ at[p] = "admitted" /\ status[d] # "none" /\ RowFree(d)
        /\ IF p \in NeededConsent(entryIds[d]) /\ StillAwaiting(d)
             THEN /\ answer' = [answer EXCEPT ![p] =
                        [dispute |-> d, granted |-> granted, settles |-> FALSE]]
                  /\ at' = [at EXCEPT ![p] = "locked"]
             ELSE /\ at' = [at EXCEPT ![p] = "idle"]
                  /\ UNCHANGED answer
        /\ UNCHANGED <<members, rows, consents, views>>
  BY DEF Lock
<1>2. TypeOK' /\ Organizer \in members'
  <2>1. [dispute |-> d, granted |-> granted, settles |-> FALSE]
          \in [dispute: Disputes \cup {None}, granted: BOOLEAN, settles: BOOLEAN]
    OBVIOUS
  <2>2. CASE answer' = answer
    BY <1>1, <2>2 DEF TypeOK, rows, views
  <2>3. CASE answer' = [answer EXCEPT ![p] = [dispute |-> d, granted |-> granted, settles |-> FALSE]]
    <3>1. answer' \in [People -> [dispute: Disputes \cup {None}, granted: BOOLEAN, settles: BOOLEAN]]
      BY <2>1, <2>3 DEF TypeOK
    <3>2. at' \in [People -> {"idle", "admitted", "locked", "answered"}]
      BY <1>1 DEF TypeOK
    <3> QED
      BY <1>1, <3>1, <3>2 DEF TypeOK, rows, views
  <2> QED
    BY <1>1, <2>2, <2>3
<1>3. CASE ~(p \in NeededConsent(entryIds[d]) /\ StillAwaiting(d))
  <2>1. \A q \in People : Holding(q)' => Holding(q) /\ answer'[q] = answer[q] /\ at'[q] = at[q]
    BY <1>1, <1>3 DEF TypeOK, Holding
  <2> QED
    BY <1>1, <1>2, <2>1, NothingTaken DEF rows, views
<1>4. CASE p \in NeededConsent(entryIds[d]) /\ StillAwaiting(d)
  <2>1. /\ answer'[p].dispute = d /\ at'[p] = "locked" /\ status[d] = "awaiting_consent"
        /\ \A q \in People : q # p => answer'[q] = answer[q] /\ at'[q] = at[q]
        /\ UNCHANGED <<status, raisedBy, entryIds, consents, viewing, log, told, seen>>
    BY <1>1, <1>4 DEF TypeOK, StillAwaiting, rows, views
  <2>2. \A x : Concerned(x)' = Concerned(x) /\ (Readable(x)' <=> Readable(x))
    BY <2>1 DEF Concerned, Subjects, Readable
  <2>3. RaisedByTheConcerned' /\ SomebodyLeftToAsk'
    BY <2>1, <2>2 DEF RaisedByTheConcerned, SomebodyLeftToAsk
  <2>4. /\ \A q \in People : q # p => (Holding(q)' <=> Holding(q))
        /\ \A q \in People : Holding(q) => answer[q].dispute # d
        /\ \A o \in Officers : viewing[o] # d
    BY <1>1, <2>1 DEF Holding, RowFree
  <2>5. OneHolder'
    BY <2>1, <2>4 DEF OneHolder
  <2>6. AnswersStand'
    BY <2>1, <2>2, <2>4 DEF AnswersStand
  <2>7. ReadableAgreed' /\ EveryViewTold'
    BY <2>1, <2>2 DEF ReadableAgreed, EveryViewTold
  <2> QED
    BY <1>2, <2>3, <2>5, <2>6, <2>7
<1> QED
  BY <1>3, <1>4

\* (grant, settle) The caller counts the committed consents and their own; the row they
\* hold keeps the others away.
LEMMA AnswerInv == ASSUME DisputesInv, NEW p \in People, Answer(p) PROVE DisputesInv'
<1> USE DEF DisputesInv
<1> DEFINE d == answer[p].dispute
<1>1. d \in Disputes /\ status[d] = "awaiting_consent" /\ at[p] = "locked" /\ Holding(p)
  BY DEF Answer, AnswersStand, Holding
<1>2. NeededConsent(entryIds[d]) = Concerned(d)
  BY <1>1, NeededIsConcerned
<1>3. /\ answer'[p].dispute = d /\ answer'[p].granted = answer[p].granted
      /\ answer'[p].settles = (answer[p].granted /\ Concerned(d) \subseteq consents[d] \cup {p})
      /\ at'[p] = "answered"
      /\ \A q \in People : q # p => answer'[q] = answer[q] /\ at'[q] = at[q]
      /\ UNCHANGED <<status, raisedBy, entryIds, consents, viewing, log, told, seen>>
  BY <1>2 DEF Answer, TypeOK, rows, views
<1>4. TypeOK' /\ Organizer \in members'
  <2>1. (answer[p].granted /\ NeededConsent(entryIds[d]) \subseteq consents[d] \cup {p}) \in BOOLEAN
    OBVIOUS
  <2> QED
    BY <2>1 DEF Answer, TypeOK, rows, views
<1>5. \A x : Concerned(x)' = Concerned(x) /\ (Readable(x)' <=> Readable(x))
  BY <1>3 DEF Concerned, Subjects, Readable
<1>6. RaisedByTheConcerned' /\ SomebodyLeftToAsk'
  BY <1>3, <1>5 DEF RaisedByTheConcerned, SomebodyLeftToAsk
<1>7. \A q \in People : (Holding(q)' <=> Holding(q)) /\ answer'[q].dispute = answer[q].dispute
  BY <1>1, <1>3 DEF Holding
<1>8. OneHolder'
  BY <1>3, <1>7 DEF OneHolder
<1>9. AnswersStand'
  <2> SUFFICES ASSUME NEW q \in People, Holding(q)
               PROVE  /\ answer[q].dispute \in Disputes
                      /\ \A e \in Disputes : answer[q].dispute = e =>
                           /\ status[e] = "awaiting_consent"
                           /\ at'[q] = "answered" =>
                                (answer'[q].settles <=>
                                   answer'[q].granted /\ Concerned(e) \subseteq consents[e] \cup {q})
    BY <1>3, <1>5, <1>7 DEF AnswersStand
  <2>1. CASE q = p
    BY <1>1, <1>3, <2>1
  <2>2. CASE q # p
    BY <1>3, <2>2 DEF AnswersStand
  <2> QED
    BY <2>1, <2>2
<1>10. ReadableAgreed' /\ EveryViewTold'
  BY <1>3, <1>5 DEF ReadableAgreed, EveryViewTold
<1> QED
  BY <1>4, <1>6, <1>8, <1>9, <1>10

\* (raise) A dispute begins with the consent of its raiser, and waits only if somebody
\* else is concerned.
LEMMA RaiseInv == ASSUME DisputesInv, NEW p \in People, Raise(p) PROVE DisputesInv'
<1> USE DEF DisputesInv
<1>1. PICK d \in Disputes, list \in EntryLists :
        /\ at[p] = "admitted" /\ status[d] = "none"
        /\ p # Organizer => \A i \in DOMAIN list : SubjectOf[list[i]] = p
        /\ raisedBy' = [raisedBy EXCEPT ![d] = p]
        /\ entryIds' = [entryIds EXCEPT ![d] = list]
        /\ consents' = [consents EXCEPT ![d] = {p}]
        /\ status' = [status EXCEPT ![d] =
             IF NeededConsent(list) \subseteq {p} THEN "consented" ELSE "awaiting_consent"]
        /\ at' = [at EXCEPT ![p] = "idle"]
        /\ UNCHANGED <<members, answer, views>>
  BY DEF Raise
<1>2. TypeOK' /\ Organizer \in members'
  BY <1>1 DEF TypeOK, views
<1>3. /\ NeededConsent(list) = {Organizer} \cup Subjects(list)
      /\ p \in {Organizer} \cup Subjects(list)
  <2>1. p # Organizer => p \in Subjects(list)
    BY <1>1, EntriesAssumption, NoneAssumption DEF Subjects
  <2> QED
    BY <2>1, NeededForList
<1>4. /\ entryIds'[d] = list /\ raisedBy'[d] = p /\ consents'[d] = {p}
      /\ status'[d] \in {"consented", "awaiting_consent"}
      /\ status'[d] = "consented" <=> {Organizer} \cup Subjects(list) \subseteq {p}
      /\ \A e \in Disputes : e # d =>
           /\ status'[e] = status[e] /\ entryIds'[e] = entryIds[e]
           /\ raisedBy'[e] = raisedBy[e] /\ consents'[e] = consents[e]
      /\ UNCHANGED <<answer, viewing, log, told, seen>>
  BY <1>1, <1>3 DEF TypeOK, views
<1>5. /\ Concerned(d)' = {Organizer} \cup Subjects(list)
      /\ \A e \in Disputes : e # d => /\ Concerned(e)' = Concerned(e)
                                      /\ Readable(e)' <=> Readable(e)
      /\ ~Readable(d)
  BY <1>1, <1>4 DEF Concerned, Subjects, Readable
<1>6. \A q \in People : Holding(q)' => Holding(q) /\ at'[q] = at[q]
  BY <1>1 DEF TypeOK, Holding
<1>7. RaisedByTheConcerned'
  BY <1>3, <1>4, <1>5 DEF RaisedByTheConcerned
<1>8. OneHolder'
  BY <1>4, <1>6 DEF OneHolder
<1>9. AnswersStand'
  <2>1. \A q \in People : Holding(q)' => answer[q].dispute # d
    BY <1>1, <1>6 DEF AnswersStand
  <2> QED
    BY <1>4, <1>5, <1>6, <2>1 DEF AnswersStand
<1>10. SomebodyLeftToAsk'
  BY <1>4, <1>5 DEF SomebodyLeftToAsk
<1>11. ReadableAgreed'
  <2>1. \A o \in Officers : viewing[o] # None => viewing[o] # d /\ viewing[o] \in Disputes
    BY <1>5 DEF ReadableAgreed, TypeOK
  <2>2. Readable(d)' => Concerned(d)' \subseteq consents'[d]
    BY <1>4, <1>5 DEF Readable
  <2>3. ~(log[d] > 0)
    BY <1>5 DEF ReadableAgreed
  <2> QED
    BY <1>4, <1>5, <2>1, <2>2, <2>3 DEF ReadableAgreed
<1>12. EveryViewTold'
  <2>1. \A q \in Concerned(d)' : told[d][q] = log[d]
    <3>1. Concerned(d)' \subseteq People
      BY <1>5, OrganizerAssumption, EntriesAssumption DEF Subjects
    <3>2. log[d] = 0
      BY <1>1 DEF RaisedByTheConcerned
    <3> QED
      BY <1>1, <3>1, <3>2 DEF EveryViewTold
  <2> QED
    BY <1>4, <1>5, <2>1 DEF EveryViewTold
<1> QED
  BY <1>2, <1>7, <1>8, <1>9, <1>10, <1>11, <1>12

\* (respond) The answer that completes the consents ends the wait, a refusal ends it
\* too, and any other leaves somebody to ask.
LEMMA CommitInv == ASSUME DisputesInv, NEW p \in People, Commit(p) PROVE DisputesInv'
<1> USE DEF DisputesInv
<1>1. PICK d : d = answer[p].dispute
  OBVIOUS
<1>2. /\ at[p] = "answered" /\ Holding(p) /\ d \in Disputes /\ status[d] = "awaiting_consent"
      /\ answer[p].settles <=> answer[p].granted /\ Concerned(d) \subseteq consents[d] \cup {p}
  BY <1>1 DEF Commit, Holding, AnswersStand
<1>3. /\ consents' = [consents EXCEPT ![d] = IF answer[p].granted THEN @ \cup {p} ELSE @]
      /\ status' = [status EXCEPT ![d] =
           CASE ~answer[p].granted -> "declined"
             [] answer[p].settles /\ @ = "awaiting_consent" -> "consented"
             [] OTHER -> @]
      /\ at' = [at EXCEPT ![p] = "idle"]
      /\ answer' = [answer EXCEPT ![p] = NoAnswer]
      /\ UNCHANGED <<members, raisedBy, entryIds, viewing, log, told, seen>>
  BY <1>1 DEF Commit, views
<1>4. /\ status'[d] \in {"declined", "consented", "awaiting_consent"}
      /\ status'[d] = "consented" => Concerned(d) \subseteq consents'[d]
      /\ status'[d] = "awaiting_consent" => ~(Concerned(d) \subseteq consents'[d])
      /\ \A e \in Disputes : e # d => status'[e] = status[e] /\ consents'[e] = consents[e]
  BY <1>2, <1>3 DEF TypeOK
<1>5. TypeOK' /\ Organizer \in members'
  <2>1. consents' \in [Disputes -> SUBSET People]
    BY <1>2, <1>3 DEF TypeOK
  <2>2. status' \in [Disputes -> {"none", "awaiting_consent", "consented", "resolved", "declined"}]
    BY <1>2, <1>3, <1>4 DEF TypeOK
  <2> QED
    BY <1>3, <2>1, <2>2 DEF TypeOK, NoAnswer
<1>6. \A e : Concerned(e)' = Concerned(e)
  BY <1>3 DEF Concerned, Subjects
<1>7. /\ ~Readable(d) /\ \A e \in Disputes : e # d => (Readable(e)' <=> Readable(e))
      /\ Readable(d)' => status'[d] = "consented"
  BY <1>2, <1>4 DEF Readable
<1>8. \A q \in People : Holding(q)' =>
        q # p /\ Holding(q) /\ at'[q] = at[q] /\ answer'[q] = answer[q]
  BY <1>3 DEF TypeOK, Holding
<1>9. RaisedByTheConcerned'
  BY <1>2, <1>3, <1>4, <1>6 DEF RaisedByTheConcerned
<1>10. OneHolder'
  BY <1>3, <1>8 DEF OneHolder
<1>11. AnswersStand'
  <2>1. \A q \in People : Holding(q)' => answer[q].dispute # d
    BY <1>1, <1>2, <1>8 DEF OneHolder
  <2> QED
    BY <1>4, <1>6, <1>8, <2>1 DEF AnswersStand
<1>12. SomebodyLeftToAsk'
  BY <1>4, <1>6 DEF SomebodyLeftToAsk
<1>13. ReadableAgreed'
  <2>1. \A o \in Officers : viewing[o] # None => viewing[o] # d /\ viewing[o] \in Disputes
    BY <1>7 DEF ReadableAgreed, TypeOK
  <2>2. ~(log[d] > 0)
    BY <1>2, <1>7 DEF ReadableAgreed
  <2> QED
    BY <1>3, <1>4, <1>6, <1>7, <2>1, <2>2 DEF ReadableAgreed
<1>14. EveryViewTold'
  BY <1>2, <1>3, <1>4, <1>6 DEF EveryViewTold
<1> QED
  BY <1>5, <1>9, <1>10, <1>11, <1>12, <1>13, <1>14

\* (resolve) A resolved dispute was consented and stays readable.
LEMMA ResolveInv == ASSUME DisputesInv, NEW d \in Disputes, Resolve(d) PROVE DisputesInv'
<1> USE DEF DisputesInv
<1>1. TypeOK' /\ Organizer \in members'
  BY DEF Resolve, TypeOK, views
<1>2. /\ status[d] = "consented" /\ status'[d] = "resolved"
      /\ \A e \in Disputes : e # d => status'[e] = status[e]
      /\ UNCHANGED <<raisedBy, entryIds, consents, at, answer, viewing, log, told, seen>>
  BY DEF Resolve, TypeOK, views
<1>3. /\ \A e : Concerned(e)' = Concerned(e) /\ \A q : Holding(q)' <=> Holding(q)
      /\ \A e \in Disputes : Readable(e)' <=> Readable(e)
  BY <1>2 DEF Concerned, Subjects, Readable, Holding
<1>4. RaisedByTheConcerned' /\ SomebodyLeftToAsk' /\ OneHolder'
  BY <1>2, <1>3 DEF RaisedByTheConcerned, SomebodyLeftToAsk, OneHolder
<1>5. AnswersStand'
  BY <1>2, <1>3 DEF AnswersStand
<1>6. ReadableAgreed'
  BY <1>2, <1>3 DEF ReadableAgreed, TypeOK
<1>7. EveryViewTold'
  BY <1>2, <1>3 DEF EveryViewTold
<1> QED
  BY <1>1, <1>4, <1>5, <1>6, <1>7

\* What a view leaves alone, whoever reads what.
LEMMA ViewFrame ==
  ASSUME DisputesInv, UNCHANGED <<status, raisedBy, entryIds, consents, at, answer>>
  PROVE  /\ \A e : Concerned(e)' = Concerned(e) /\ (Readable(e)' <=> Readable(e))
         /\ \A q : Holding(q)' <=> Holding(q)
         /\ AnswersStand' /\ SomebodyLeftToAsk'
<1> USE DEF DisputesInv
<1>1. \A e : Concerned(e)' = Concerned(e) /\ (Readable(e)' <=> Readable(e))
  BY DEF Concerned, Subjects, Readable
<1>2. \A q : Holding(q)' <=> Holding(q)
  BY DEF Holding
<1>3. AnswersStand' /\ SomebodyLeftToAsk'
  BY <1>1, <1>2 DEF AnswersStand, SomebodyLeftToAsk
<1> QED
  BY <1>1, <1>2, <1>3

\* (evidence) The dispute viewed is readable and nobody answers it meanwhile.
LEMMA OpenInv == ASSUME DisputesInv, NEW o \in Officers, Open(o) PROVE DisputesInv'
<1> USE DEF DisputesInv
<1>1. PICK d \in Disputes :
        /\ viewing[o] = None /\ Readable(d) /\ RowFree(d)
        /\ viewing' = [viewing EXCEPT ![o] = d]
        /\ UNCHANGED <<members, rows, consents, at, answer, log, told, seen>>
  BY DEF Open
<1>2. TypeOK' /\ Organizer \in members'
  BY <1>1 DEF TypeOK, rows
<1>3. UNCHANGED <<status, raisedBy, entryIds, consents, at, answer>>
  BY <1>1 DEF rows
<1>4. RaisedByTheConcerned' /\ EveryViewTold'
  BY <1>1, <1>3, ViewFrame DEF RaisedByTheConcerned, EveryViewTold
<1>5. OneHolder'
  <2>1. \A p \in People : Holding(p) => answer[p].dispute # d
    BY <1>1 DEF RowFree, Holding
  <2>2. \A x \in Officers : viewing'[x] = IF x = o THEN d ELSE viewing[x]
    BY <1>1 DEF TypeOK
  <2> QED
    BY <1>3, <2>1, <2>2, ViewFrame DEF OneHolder
<1>6. ReadableAgreed'
  <2>1. \A x \in Officers : viewing'[x] = IF x = o THEN d ELSE viewing[x]
    BY <1>1 DEF TypeOK
  <2> QED
    BY <1>1, <1>3, <2>1, ViewFrame DEF ReadableAgreed
<1> QED
  BY <1>2, <1>3, <1>4, <1>5, <1>6, ViewFrame

\* (evidence) A view that fails is neither logged nor told.
LEMMA ShowFailsInv == ASSUME DisputesInv, NEW o \in Officers, ShowFails(o) PROVE DisputesInv'
<1> USE DEF DisputesInv
<1>1. TypeOK' /\ Organizer \in members'
  BY DEF ShowFails, TypeOK, rows
<1>2. /\ UNCHANGED <<status, raisedBy, entryIds, consents, at, answer, log, told, seen>>
      /\ \A x \in Officers : viewing'[x] = IF x = o THEN None ELSE viewing[x]
  BY DEF ShowFails, rows, TypeOK
<1>3. RaisedByTheConcerned' /\ EveryViewTold'
  BY <1>2, ViewFrame DEF RaisedByTheConcerned, EveryViewTold
<1>4. \A p \in People : Holding(p) => answer[p].dispute # None
  BY NoneAssumption DEF AnswersStand
<1>5. OneHolder'
  BY <1>2, <1>4, ViewFrame DEF OneHolder
<1>6. ReadableAgreed'
  BY <1>2, ViewFrame DEF ReadableAgreed
<1> QED
  BY <1>1, <1>2, <1>3, <1>5, <1>6, ViewFrame

\* (evidence) A view is logged and everyone concerned told of it at once; the answer
\* may still be lost.
LEMMA ShowInv == ASSUME DisputesInv, NEW o \in Officers, Show(o) PROVE DisputesInv'
<1> USE DEF DisputesInv
<1>1. PICK d : d = viewing[o]
  OBVIOUS
<1>2. d \in Disputes /\ Readable(d) /\ status[d] # "none"
  BY <1>1 DEF Show, ReadableAgreed, TypeOK, Readable
<1>3. /\ log' = [log EXCEPT ![d] = @ + 1]
      /\ told' = [told EXCEPT ![d] =
                    [p \in People |-> IF p \in Affected(d) THEN @[p] + 1 ELSE @[p]]]
      /\ seen' \in {seen, [seen EXCEPT ![d] = @ + 1]}
      /\ viewing' = [viewing EXCEPT ![o] = None]
      /\ UNCHANGED <<members, status, raisedBy, entryIds, consents, at, answer>>
  BY <1>1 DEF Show, rows
<1>4. Affected(d) = Concerned(d)
  BY <1>2, NeededIsConcerned DEF Affected
<1>5. /\ log'[d] = log[d] + 1 /\ \A e \in Disputes : e # d => log'[e] = log[e]
      /\ \A p \in People : told'[d][p] = IF p \in Concerned(d) THEN told[d][p] + 1 ELSE told[d][p]
      /\ \A e \in Disputes : e # d => told'[e] = told[e]
      /\ seen'[d] \in {seen[d], seen[d] + 1} /\ \A e \in Disputes : e # d => seen'[e] = seen[e]
  BY <1>2, <1>3, <1>4 DEF TypeOK
<1>6. TypeOK' /\ Organizer \in members'
  <2>1. [p \in People |-> IF p \in Affected(d) THEN told[d][p] + 1 ELSE told[d][p]] \in [People -> Nat]
    BY <1>2 DEF TypeOK
  <2>2. told' \in [Disputes -> [People -> Nat]]
    BY <1>2, <1>3, <2>1 DEF TypeOK
  <2>3. log' \in [Disputes -> Nat]
    BY <1>2, <1>3 DEF TypeOK
  <2>4. seen' \in [Disputes -> Nat]
    <3>1. [seen EXCEPT ![d] = @ + 1] \in [Disputes -> Nat]
      BY <1>2 DEF TypeOK
    <3> QED
      BY <1>3, <3>1 DEF TypeOK
  <2> QED
    BY <1>3, <2>2, <2>3, <2>4 DEF TypeOK
<1>7. \A x \in Officers : viewing'[x] = IF x = o THEN None ELSE viewing[x]
  BY <1>3 DEF TypeOK
<1>8. RaisedByTheConcerned'
  BY <1>2, <1>3, <1>5, ViewFrame DEF RaisedByTheConcerned
<1>9. EveryViewTold'
  <2>1. log[d] \in Nat /\ seen[d] \in Nat /\ \A p \in Concerned(d) : told[d][p] = log[d]
    BY <1>2 DEF TypeOK, EveryViewTold
  <2>2. Concerned(d) \subseteq People
    BY <1>2, OrganizerAssumption, EntriesAssumption DEF Concerned, Subjects, RaisedByTheConcerned
  <2>3. seen'[d] <= log'[d] /\ \A p \in Concerned(d) : told'[d][p] = log'[d]
    BY <1>2, <1>5, <2>1, <2>2 DEF EveryViewTold
  <2>4. ASSUME NEW e \in Disputes, e # d
        PROVE  /\ seen'[e] <= log'[e]
               /\ \A p \in People : status'[e] = "none" => told'[e][p] = 0
               /\ \A p \in Concerned(e)' : status'[e] # "none" => told'[e][p] = log'[e]
    <3>1. Concerned(e)' = Concerned(e)
      BY <1>3, ViewFrame
    <3> QED
      BY <1>3, <1>5, <2>4, <3>1 DEF EveryViewTold
  <2>5. Concerned(d)' = Concerned(d) /\ status'[d] # "none"
    BY <1>2, <1>3, ViewFrame
  <2> QED
    BY <2>3, <2>4, <2>5 DEF EveryViewTold
<1>10. OneHolder'
  <2>1. \A p \in People : Holding(p) => answer[p].dispute # None
    BY NoneAssumption DEF AnswersStand
  <2> QED
    BY <1>3, <1>7, <2>1, ViewFrame DEF OneHolder
<1>11. ReadableAgreed'
  BY <1>2, <1>3, <1>5, <1>7, ViewFrame DEF ReadableAgreed
<1> QED
  BY <1>3, <1>6, <1>8, <1>9, <1>10, <1>11, ViewFrame

\* Every statement keeps the invariant.
LEMMA NextDisputesInv == DisputesInv /\ [Next]_vars => DisputesInv'
<1> SUFFICES ASSUME DisputesInv, [Next]_vars PROVE DisputesInv'
  OBVIOUS
<1>1. CASE UNCHANGED vars
  <2>1. TypeOK' /\ Organizer \in members'
    BY <1>1 DEF vars, rows, views, DisputesInv, TypeOK
  <2>2. \A q \in People : Holding(q)' => Holding(q) /\ answer'[q] = answer[q] /\ at'[q] = at[q]
    BY <1>1 DEF vars, Holding
  <2> QED
    BY <1>1, <2>1, <2>2, NothingTaken DEF vars, rows, views, DisputesInv
<1> QED
  BY <1>1, EnterInv, RaiseInv, LockInv, AnswerInv, CommitInv, RollbackInv, LeaveInv,
     OpenInv, ShowInv, ShowFailsInv, ResolveInv DEF Next
-----------------------------------------------------------------------------
(***************************************************************************)
(* The theorems.                                                           *)
(***************************************************************************)

\* Disputes, consents, row locks and views stay consistent, for every circle.
THEOREM DisputesInvariant == Spec => []DisputesInv
<1> QED
  BY InitDisputesInv, NextDisputesInv, PTL DEF Spec

\* An open request always has somebody left to ask: two last answers given at once never
\* leave it waiting for nobody (respond, settle).
THEOREM DisputesSomebodyLeftToAsk == Spec => []SomebodyLeftToAsk
<1>1. DisputesInv => SomebodyLeftToAsk
  BY DEF DisputesInv
<1> QED
  BY <1>1, DisputesInvariant, PTL

\* An officer sees evidence only with the consent of everyone concerned; each view that
\* arrived is logged and everyone concerned was told of it (evidence).
THEOREM DisputesEvidenceByConsent == Spec => []EvidenceByConsent
<1>1. DisputesInv => EvidenceByConsent
  <2> SUFFICES ASSUME DisputesInv PROVE EvidenceByConsent
    OBVIOUS
  <2>1. ASSUME NEW d \in Disputes, seen[d] > 0
        PROVE  Concerned(d) \subseteq consents[d] /\ Readable(d)
    <3>1. log[d] > 0
      BY <2>1 DEF DisputesInv, EveryViewTold, TypeOK
    <3> QED
      BY <3>1 DEF DisputesInv, ReadableAgreed
  <2>2. SeenOnlyWithConsent
    BY <2>1 DEF SeenOnlyWithConsent, Readable
  <2>3. ViewsLoggedAndTold
    BY DEF ViewsLoggedAndTold, DisputesInv, ReadableAgreed, Readable, EveryViewTold
  <2> QED
    BY <2>2, <2>3 DEF EvidenceByConsent
<1> QED
  BY <1>1, DisputesInvariant, PTL

\* Whatever answers race, a dispute leaves awaiting_consent once, a refused one stays
\* refused and a consented one is only ever resolved (respond, resolve).
THEOREM DisputesAnswerIsFinal == Spec => AnswerIsFinal
<1>1. DisputesInv /\ [Next]_vars =>
        [\A d \in Disputes : status[d] # "none" /\ status'[d] # status[d] =>
           <<status[d], status'[d]>> \in {<<"awaiting_consent", "consented">>,
             <<"awaiting_consent", "declined">>, <<"consented", "resolved">>}]_vars
  <2> SUFFICES ASSUME DisputesInv, Next, NEW d \in Disputes,
                      status[d] # "none", status'[d] # status[d]
               PROVE  <<status[d], status'[d]>> \in {<<"awaiting_consent", "consented">>,
                        <<"awaiting_consent", "declined">>, <<"consented", "resolved">>}
    OBVIOUS
  <2>1. CASE \E p \in People : Commit(p)
    <3>1. PICK p \in People : Commit(p)
      BY <2>1
    <3>2. PICK e \in Disputes : e = answer[p].dispute /\ status[e] = "awaiting_consent"
      BY <3>1 DEF Commit, Holding, DisputesInv, AnswersStand
    <3>3. status' = [status EXCEPT ![e] =
            CASE ~answer[p].granted -> "declined"
              [] answer[p].settles /\ @ = "awaiting_consent" -> "consented"
              [] OTHER -> @]
      BY <3>1, <3>2 DEF Commit
    <3>4. e = d /\ status'[d] \in {"declined", "consented", "awaiting_consent"}
      BY <3>2, <3>3 DEF DisputesInv, TypeOK
    <3> QED
      BY <3>2, <3>4
  <2>2. CASE \E e \in Disputes : Resolve(e)
    BY <2>2 DEF Resolve, DisputesInv, TypeOK
  <2>3. CASE \E p \in People : Raise(p)
    BY <2>3 DEF Raise, DisputesInv, TypeOK
  <2>4. CASE UNCHANGED status
    BY <2>4
  <2> QED
    BY <2>1, <2>2, <2>3, <2>4
    DEF Next, Enter, Lock, Answer, Rollback, Leave, Open, Show, ShowFails, rows
<1> QED
  BY <1>1, DisputesInvariant, PTL DEF Spec, AnswerIsFinal
-----------------------------------------------------------------------------
(***************************************************************************)
(* The disputes implement Consent.                                         *)
(***************************************************************************)

\* Whoever holds a dispute to answer it is concerned by it, from the lock to the commit.
AnswererConcerned ==
  \A p \in People : \A d \in Disputes :
    Holding(p) /\ answer[p].dispute = d => p \in Concerned(d)

\* Only who was asked gets the row (respond, neededConsent), and what a dispute is about
\* does not change while it waits.
LEMMA NextAnswererConcerned ==
  DisputesInv /\ AnswererConcerned /\ [Next]_vars => AnswererConcerned'
<1> SUFFICES ASSUME DisputesInv, AnswererConcerned, [Next]_vars,
                    NEW q \in People, NEW e \in Disputes,
                    Holding(q)', answer'[q].dispute = e
             PROVE  q \in Concerned(e)'
  BY DEF AnswererConcerned
<1> USE DEF DisputesInv
<1>1. ASSUME NEW p \in People, Lock(p) PROVE q \in Concerned(e)'
  <2>1. PICK d \in Disputes, granted \in BOOLEAN :
          /\ status[d] # "none"
          /\ IF p \in NeededConsent(entryIds[d]) /\ StillAwaiting(d)
               THEN /\ answer' = [answer EXCEPT ![p] =
                          [dispute |-> d, granted |-> granted, settles |-> FALSE]]
                    /\ at' = [at EXCEPT ![p] = "locked"]
               ELSE /\ at' = [at EXCEPT ![p] = "idle"]
                    /\ UNCHANGED answer
          /\ entryIds' = entryIds
    BY <1>1 DEF Lock, rows
  <2>2. Concerned(e)' = Concerned(e) /\ NeededConsent(entryIds[d]) = Concerned(d)
    BY <2>1, NeededIsConcerned DEF Concerned, Subjects
  <2>3. CASE q = p
    BY <2>1, <2>2, <2>3 DEF Holding, TypeOK
  <2>4. CASE q # p
    <3>1. answer'[q] = answer[q] /\ at'[q] = at[q]
      BY <2>1, <2>4 DEF TypeOK
    <3> QED
      BY <2>2, <3>1 DEF Holding, AnswererConcerned
  <2> QED
    BY <2>3, <2>4
<1>2. ASSUME NEW p \in People, Raise(p) PROVE q \in Concerned(e)'
  <2>1. PICK d \in Disputes, list \in EntryLists :
          /\ status[d] = "none" /\ answer' = answer
          /\ entryIds' = [entryIds EXCEPT ![d] = list]
          /\ at' = [at EXCEPT ![p] = "idle"]
    BY <1>2 DEF Raise
  <2>2. Holding(q)
    BY <2>1 DEF Holding, TypeOK
  <2>3. status[e] = "awaiting_consent"
    BY <2>1, <2>2 DEF AnswersStand
  <2>4. Concerned(e)' = Concerned(e)
    BY <2>1, <2>3 DEF Concerned, Subjects, TypeOK
  <2> QED
    BY <2>1, <2>2, <2>4 DEF AnswererConcerned
<1>3. ASSUME NEW p \in People, Answer(p) PROVE q \in Concerned(e)'
  <2>1. entryIds' = entryIds /\ answer'[q].dispute = answer[q].dispute /\ Holding(q)
    BY <1>3 DEF Answer, rows, TypeOK, Holding
  <2> QED
    BY <2>1 DEF AnswererConcerned, Concerned, Subjects
<1>4. CASE /\ entryIds' = entryIds
           /\ Holding(q) /\ answer'[q] = answer[q]
  BY <1>4 DEF AnswererConcerned, Concerned, Subjects
<1>5. ASSUME NEW p \in People, Enter(p) \/ Commit(p) \/ Rollback(p) \/ Leave(p)
      PROVE  entryIds' = entryIds /\ Holding(q) /\ answer'[q] = answer[q]
  <2>1. entryIds' = entryIds
    BY <1>5 DEF Enter, Commit, Rollback, Leave, rows
  <2>2. CASE Leave(p)
    BY <2>1, <2>2 DEF Leave, Holding
  <2>3. CASE Enter(p)
    BY <2>1, <2>3 DEF Enter, TypeOK, Holding
  <2>4. CASE Commit(p) \/ Rollback(p)
    <3>1. q # p
      BY <2>4 DEF Commit, Rollback, TypeOK, Holding
    <3> QED
      BY <2>1, <2>4, <3>1 DEF Commit, Rollback, TypeOK, Holding
  <2> QED
    BY <1>5, <2>1, <2>2, <2>3, <2>4
<1>6. CASE \/ \E o \in Officers : Open(o) \/ Show(o) \/ ShowFails(o)
           \/ \E d \in Disputes : Resolve(d)
           \/ UNCHANGED vars
  <2>1. entryIds' = entryIds /\ at' = at /\ answer' = answer
    BY <1>6 DEF Open, Show, ShowFails, Resolve, vars, rows
  <2> QED
    BY <2>1, <1>4 DEF Holding
<1> QED
  BY <1>1, <1>2, <1>3, <1>4, <1>5, <1>6 DEF Next

\* What leaves the disputes, consents and views alone is nothing to Consent.
LEMMA ConsentFrame ==
  ASSUME UNCHANGED <<status, entryIds, consents, told, seen>>
  PROVE  UNCHANGED Promise!consent
BY DEF Promise!consent, AskedAbout, Concerned, Subjects

\* (raise) The entries settle who is concerned, the raiser among them.
LEMMA RaiseStep ==
  ASSUME DisputesInv, NEW p \in People, Raise(p)
  PROVE  \E d \in Disputes : Promise!Raise(d, p)
<1> USE DEF DisputesInv
<1>1. PICK d \in Disputes, list \in EntryLists :
        /\ status[d] = "none"
        /\ p # Organizer => \A i \in DOMAIN list : SubjectOf[list[i]] = p
        /\ entryIds' = [entryIds EXCEPT ![d] = list]
        /\ consents' = [consents EXCEPT ![d] = {p}]
        /\ status' = [status EXCEPT ![d] =
             IF NeededConsent(list) \subseteq {p} THEN "consented" ELSE "awaiting_consent"]
        /\ told' = told /\ seen' = seen
  BY DEF Raise, views
<1> DEFINE who == {Organizer} \cup Subjects(list)
<1>2. NeededConsent(list) = who
  BY NeededForList
<1>3. p \in who /\ who \in SUBSET People
  BY <1>1, OrganizerAssumption, EntriesAssumption, NoneAssumption DEF Subjects
<1>4. Concerned(d)' = who /\ \A e \in Disputes : e # d => Concerned(e)' = Concerned(e)
  BY <1>1 DEF Concerned, Subjects, TypeOK
<1> HIDE DEF who
<1>5. status'[d] # "none" /\ \A e \in Disputes : e # d => status'[e] = status[e]
  BY <1>1 DEF TypeOK
<1>6. AskedAbout' = [AskedAbout EXCEPT ![d] = who]
  BY <1>4, <1>5 DEF AskedAbout
<1>7. status' = [status EXCEPT ![d] = Promise!Standing(who, {p})]
  BY <1>1, <1>2 DEF Promise!Standing
<1> QED
  BY <1>1, <1>3, <1>6, <1>7 DEF Promise!Raise

\* (respond) The answer counted under the lock is the one Consent takes at the commit; who
\* answers again what they answered before changes nothing.
LEMMA CommitStep ==
  ASSUME DisputesInv, AnswererConcerned, NEW p \in People, Commit(p)
  PROVE  \E d \in Disputes : Promise!Agree(d, p) \/ Promise!Refuse(d, p)
<1> USE DEF DisputesInv
<1>1. PICK d : d = answer[p].dispute
  OBVIOUS
<1>2. /\ d \in Disputes /\ status[d] = "awaiting_consent" /\ p \in Concerned(d)
      /\ answer[p].settles <=> answer[p].granted /\ Concerned(d) \subseteq consents[d] \cup {p}
  BY <1>1 DEF Commit, Holding, AnswersStand, AnswererConcerned
<1>3. /\ consents' = [consents EXCEPT ![d] = IF answer[p].granted THEN @ \cup {p} ELSE @]
      /\ status' = [status EXCEPT ![d] =
           CASE ~answer[p].granted -> "declined"
             [] answer[p].settles /\ @ = "awaiting_consent" -> "consented"
             [] OTHER -> @]
      /\ entryIds' = entryIds /\ told' = told /\ seen' = seen
  BY <1>1 DEF Commit, views
<1>4. AskedAbout[d] = Concerned(d)
  BY <1>2 DEF AskedAbout
<1>5. AskedAbout' = AskedAbout
  <2>1. \A e \in Disputes : Concerned(e)' = Concerned(e) /\ (status'[e] = "none" <=> status[e] = "none")
    BY <1>2, <1>3 DEF Concerned, Subjects, TypeOK
  <2> QED
    BY <2>1 DEF AskedAbout
<1>6. CASE answer[p].granted
  <2>1. status' = [status EXCEPT ![d] = Promise!Standing(AskedAbout[d], consents[d] \cup {p})]
    BY <1>2, <1>3, <1>4, <1>6 DEF Promise!Standing, TypeOK
  <2>2. Promise!Agree(d, p)
    BY <1>2, <1>3, <1>4, <1>5, <1>6, <2>1 DEF Promise!Agree
  <2> QED
    BY <1>2, <2>2
<1>7. CASE ~answer[p].granted
  <2>1. consents' = consents /\ status' = [status EXCEPT ![d] = "declined"]
    BY <1>2, <1>3, <1>7 DEF TypeOK
  <2>2. Promise!Refuse(d, p)
    BY <1>2, <1>3, <1>4, <1>5, <2>1 DEF Promise!Refuse
  <2> QED
    BY <1>2, <2>2
<1> QED
  BY <1>6, <1>7

\* (evidence) What is shown is still readable, and who is told is everyone concerned.
LEMMA ViewStep ==
  ASSUME DisputesInv, NEW o \in Officers, Show(o)
  PROVE  \E d \in Disputes : Promise!View(d)
<1> USE DEF DisputesInv
<1>1. PICK d : d = viewing[o]
  OBVIOUS
<1>2. d \in Disputes /\ Readable(d) /\ status[d] # "none"
  BY <1>1 DEF Show, ReadableAgreed, TypeOK, Readable
<1>3. Affected(d) = AskedAbout[d]
  BY <1>2, NeededIsConcerned DEF Affected, AskedAbout
<1>4. /\ told' = [told EXCEPT ![d] =
                    [p \in People |-> IF p \in Affected(d) THEN @[p] + 1 ELSE @[p]]]
      /\ seen' \in {seen, [seen EXCEPT ![d] = @ + 1]}
      /\ UNCHANGED <<status, entryIds, consents>>
  BY <1>1 DEF Show, rows
<1>5. AskedAbout' = AskedAbout
  BY <1>4 DEF AskedAbout, Concerned, Subjects
<1> QED
  BY <1>2, <1>3, <1>4, <1>5 DEF Promise!View, Readable

\* (resolve) An opened dispute is closed.
LEMMA ResolveStep ==
  ASSUME DisputesInv, NEW d \in Disputes, Resolve(d)
  PROVE  Promise!Resolve(d)
<1>1. /\ status[d] = "consented" /\ status' = [status EXCEPT ![d] = "resolved"]
      /\ UNCHANGED <<entryIds, consents, told, seen>>
  BY DEF Resolve, views
<1>2. AskedAbout' = AskedAbout
  <2>1. \A e \in Disputes : Concerned(e)' = Concerned(e) /\ (status'[e] = "none" <=> status[e] = "none")
    BY <1>1 DEF Concerned, Subjects, DisputesInv, TypeOK
  <2> QED
    BY <2>1 DEF AskedAbout
<1> QED
  BY <1>1, <1>2 DEF Promise!Resolve

\* Each statement is a step of Consent or a stutter.
LEMMA ConsentStep ==
  DisputesInv /\ AnswererConcerned /\ [Next]_vars => [Promise!Next]_Promise!consent
<1> SUFFICES ASSUME DisputesInv, AnswererConcerned, [Next]_vars
             PROVE  Promise!Next \/ UNCHANGED Promise!consent
  OBVIOUS
<1>1. CASE \E p \in People : Raise(p)
  BY <1>1, RaiseStep DEF Promise!Next
<1>2. CASE \E p \in People : Commit(p)
  BY <1>2, CommitStep DEF Promise!Next
<1>3. CASE \E o \in Officers : Show(o)
  BY <1>3, ViewStep DEF Promise!Next
<1>4. CASE \E d \in Disputes : Resolve(d)
  BY <1>4, ResolveStep DEF Promise!Next
<1>5. CASE \/ \E p \in People : Enter(p) \/ Lock(p) \/ Answer(p) \/ Rollback(p) \/ Leave(p)
           \/ \E o \in Officers : Open(o) \/ ShowFails(o)
           \/ UNCHANGED vars
  <2>1. UNCHANGED <<status, entryIds, consents, told, seen>>
    BY <1>5 DEF Enter, Lock, Answer, Rollback, Leave, Open, ShowFails, vars, rows, views
  <2> QED
    BY <2>1, ConsentFrame
<1> QED
  BY <1>1, <1>2, <1>3, <1>4, <1>5 DEF Next

\* respond and evidence, statement by statement under their row lock and against answers,
\* departures and views at the same time, are the single steps of Consent, in every circle.
THEOREM DisputesImplementConsent == Spec => ImplementsConsent
<1>1. Init => Promise!Init /\ AnswererConcerned
  BY DEF Init, Promise!Init, AskedAbout, AnswererConcerned, Holding
<1>2. DisputesInv /\ AnswererConcerned /\ [Next]_vars => AnswererConcerned'
  BY NextAnswererConcerned
<1> QED
  BY <1>1, <1>2, ConsentStep, DisputesInvariant, PTL DEF Spec, ImplementsConsent, Promise!Spec
=============================================================================
