---------------------------- MODULE CircleProofs ----------------------------
(***************************************************************************)
(* Proofs about Circle for every set of users, number of seats and set of  *)
(* entry ids.  The four invariants below need each other: the type of a    *)
(* payout position rests on the seats, the seats left after a removal on   *)
(* the numbering of the cycles, and the numbering on closing in order.     *)
(* From them: the circle implements PotRotation, step by step; it pays in  *)
(* the order drawn; and a payment keeps its recipient.                     *)
(* The second half is about the ledger: nothing is recorded or paid out    *)
(* twice, and a closed cycle stays what it was.                            *)
(***************************************************************************)
EXTENDS Circle, TLAPS, FiniteSetTheorems

CircleInv == TypeOK /\ TurnsWellFormed /\ ClosedInOrder /\ SeatsRespected

\* the variables TurnsWellFormed, ClosedInOrder and SeatsRespected speak of
turnVars == <<status, planned, rows, left, position, cycles>>

\* An entry built by the helper is an entry.
LEMMA EntryOfType ==
  ASSUME NEW type \in EntryTypes, NEW id \in EntryIds \cup {None},
         NEW cycle \in Numbers \cup {0}, NEW subject \in Users \cup {None},
         NEW actor \in Users
  PROVE  EntryOf(type, id, cycle, subject, actor) \in Entry
  BY DEF EntryOf, Entry

\* Adding entries that are not contributions keeps the ledger's type and the
\* contributions.
LEMMA AppendType ==
  ASSUME ledger \in SUBSET Entry, ContributionsTyped,
         NEW E \in SUBSET Entry, Append(E),
         \A e \in E : e.type # "contribution_recorded"
  PROVE  /\ ledger' \in SUBSET Entry
         /\ Recorded' = Recorded
         /\ ContributionsTyped'
<1>1. ledger' \in SUBSET Entry
  BY DEF Append
<1>2. Recorded' = Recorded
  BY DEF Append, Recorded
<1> QED
  BY <1>1, <1>2 DEF ContributionsTyped

\* A notification sent by Notify keeps the inbox's type.
LEMMA NotifyType ==
  ASSUME inbox \in SUBSET Message, NEW S \in SUBSET Users, NEW kind \in Kinds,
         NEW about \in EntryIds \cup Numbers \cup {None}, Notify(S, kind, about)
  PROVE  inbox' \in SUBSET Message
  BY DEF Notify, Message

\* The members are finitely many.
LEMMA MembersFinite ==
  ASSUME rows \in SUBSET Users
  PROVE  /\ Members \in SUBSET Users
         /\ IsFiniteSet(Members)
         /\ Cardinality(Members) \in Nat
  BY UsersAssumption, FS_Subset, FS_CardinalityType DEF Members

\* A step that leaves the turns and the membership alone keeps what is said of
\* them.
LEMMA TurnsFrame ==
  ASSUME TurnsWellFormed, ClosedInOrder, SeatsRespected, UNCHANGED turnVars
  PROVE  TurnsWellFormed' /\ ClosedInOrder' /\ SeatsRespected'
  BY DEF TurnsWellFormed, ClosedInOrder, SeatsRespected, turnVars, Members, Open

\* A circle just created satisfies the invariant.
LEMMA InitCircleInv == Init => CircleInv
<1> SUFFICES ASSUME Init PROVE CircleInv
  OBVIOUS
<1>1. /\ MemberEntry("member_added", Organizer, Organizer) \in Entry
      /\ Recorded = {}
  BY EntryOfType, UsersAssumption
  DEF MemberEntry, EntryOf, EntryTypes, Recorded, Init
<1>2. TypeOK
  BY <1>1, UsersAssumption, SeatsAssumption
  DEF Init, TypeOK, ContributionsTyped, Numbers, CycleRow
<1>3. TurnsWellFormed /\ ClosedInOrder
  BY DEF Init, TurnsWellFormed, ClosedInOrder, Open
<1>4. SeatsRespected
  <2>1. Members = {Organizer}
    BY UsersAssumption DEF Init, Members
  <2>2. Cardinality({Organizer}) = 1
    BY FS_Singleton
  <2> QED
    BY <2>1, <2>2, SeatsAssumption DEF SeatsRespected, Init
<1> QED
  BY <1>2, <1>3, <1>4 DEF CircleInv

\* Joining takes a free seat of a draft.
LEMMA JoinInv ==
  ASSUME CircleInv, NEW u \in Users, Join(u)
  PROVE  CircleInv'
<1> USE DEF CircleInv
<1>1. /\ MemberEntry("member_added", u, u) \in Entry
      /\ MemberEntry("member_added", u, u).type # "contribution_recorded"
  BY EntryOfType DEF MemberEntry, EntryOf, EntryTypes
<1>2. ledger' \in SUBSET Entry /\ ContributionsTyped'
  BY <1>1, AppendType DEF Join, TypeOK
<1>3. inbox' \in SUBSET Message
  <2>1. {Organizer} \in SUBSET Users /\ "member_joined" \in Kinds
    BY UsersAssumption DEF Kinds
  <2> QED
    BY <2>1, NotifyType DEF Join, TypeOK
<1>4. TypeOK'
  BY <1>2, <1>3 DEF Join, TypeOK, SyncCommunityConsent
<1>5. TurnsWellFormed' /\ ClosedInOrder'
  BY DEF Join, TurnsWellFormed, ClosedInOrder, Open
<1>6. SeatsRespected'
  <2>1. Members' = Members \cup {u}
    BY DEF Join, Members, TypeOK
  <2>2. Cardinality(Members') = Cardinality(Members) + 1
    BY <2>1, MembersFinite, FS_AddElement DEF Join, TypeOK
  <2> QED
    BY <2>2, MembersFinite DEF Join, SeatFree, SeatsRespected, TypeOK
<1> QED
  BY <1>4, <1>5, <1>6

\* Leaving a draft, by oneself or removed, only frees a seat.
LEMMA DraftDepartureInv ==
  ASSUME CircleInv, NEW u \in Users, NEW actor \in Users, status = "draft",
         RemoveFromDraft(u, actor), inbox' \in SUBSET Message
  PROVE  CircleInv'
<1> USE DEF CircleInv
<1>1. /\ MemberEntry("member_removed", u, actor) \in Entry
      /\ MemberEntry("member_removed", u, actor).type # "contribution_recorded"
  BY EntryOfType DEF MemberEntry, EntryOf, EntryTypes
<1>2. ledger' \in SUBSET Entry /\ ContributionsTyped'
  BY <1>1, AppendType DEF RemoveFromDraft, TypeOK
<1>3. 1 \in Numbers
  BY SeatsAssumption DEF Numbers
<1>4. TypeOK'
  BY <1>2, <1>3 DEF RemoveFromDraft, TypeOK, SyncCommunityConsent
<1>5. TurnsWellFormed' /\ ClosedInOrder'
  BY DEF RemoveFromDraft, TurnsWellFormed, ClosedInOrder, Open
<1>6. SeatsRespected'
  <2>1. Members' \in SUBSET Members
    BY DEF RemoveFromDraft, Members, TypeOK
  <2>2. Cardinality(Members') <= Cardinality(Members)
    BY <2>1, MembersFinite, FS_Subset DEF TypeOK
  <2>3. Cardinality(Members') \in Nat
    BY <1>4, MembersFinite, <2>1, FS_Subset, FS_CardinalityType DEF TypeOK
  <2> QED
    BY <2>2, <2>3, MembersFinite DEF RemoveFromDraft, SeatsRespected, TypeOK
<1> QED
  BY <1>4, <1>5, <1>6

\* Leaving and being removed from a draft are such departures.
LEMMA LeaveInv ==
  ASSUME CircleInv, NEW u \in Users, Leave(u) \/ RemoveDraftMember(u)
  PROVE  CircleInv'
<1>1. "member_removed" \in Kinds /\ {Organizer} \in SUBSET Users /\ {u} \in SUBSET Users
  BY UsersAssumption DEF Kinds
<1>2. inbox' \in SUBSET Message
  BY <1>1, NotifyType DEF Leave, RemoveDraftMember, CircleInv, TypeOK
<1> QED
  BY <1>2, UsersAssumption, DraftDepartureInv DEF Leave, RemoveDraftMember

\* Starting gives every member one turn, in whatever order was chosen.
LEMMA StartInv ==
  ASSUME CircleInv, Start
  PROVE  CircleInv'
<1> USE DEF CircleInv
<1> DEFINE K == Cardinality(Members)
<1>1. PICK order \in Orderings(Members) :
        /\ planned' = K
        /\ position' = [u \in Users |->
             IF u \in Members THEN CHOOSE i \in DOMAIN order : order[i] = u
                              ELSE position[u]]
        /\ cycles' = [n \in DOMAIN order |-> [open |-> TRUE, payee |-> order[n]]]
  BY DEF Start
<1>2. /\ order \in [1..K -> Members]
      /\ \A i, j \in 1..K : order[i] = order[j] => i = j
      /\ \A u \in Members : \E i \in 1..K : order[i] = u
  BY DEF Orderings
<1>3. K \in Nat /\ K >= 2 /\ K <= Seats /\ Members \in SUBSET Users
  BY MembersFinite, SeatsAssumption DEF Start, SeatsRespected, TurnsWellFormed, TypeOK
<1>4. DOMAIN order = 1..K /\ 1..K \subseteq Numbers
  BY <1>2, <1>3, SeatsAssumption DEF Numbers
<1>5. /\ DOMAIN cycles' = 1..K
      /\ \A n \in 1..K : cycles'[n] = [open |-> TRUE, payee |-> order[n]]
  BY <1>1, <1>4
<1>6. \A u \in Members : position'[u] \in 1..K /\ order[position'[u]] = u
  BY <1>1, <1>2, <1>3, <1>4
<1>7. \A u \in Users \ Members : position'[u] = position[u]
  BY <1>1
<1>8. Members' = Members
  BY DEF Start, Members
<1>9. TypeOK'
  <2>1. /\ EntryOf("turn_order_set", None, 0, None, Organizer) \in Entry
        /\ EntryOf("turn_order_set", None, 0, None, Organizer).type
             # "contribution_recorded"
    BY EntryOfType, UsersAssumption DEF EntryOf, EntryTypes
  <2>2. ledger' \in SUBSET Entry /\ ContributionsTyped'
    BY <2>1, AppendType DEF Start, TypeOK
  <2>3. "circle_started" \in Kinds /\ Members \ {Organizer} \in SUBSET Users
    BY <1>3 DEF Kinds
  <2>4. inbox' \in SUBSET Message
    BY <2>3, NotifyType DEF Start, TypeOK
  <2>5. position' \in [Users -> Numbers \cup {0}]
    <3>1. position' = [u \in Users |-> position'[u]]
      BY <1>1
    <3>2. \A u \in Users : position'[u] \in Numbers \cup {0}
      BY <1>4, <1>6, <1>7 DEF TypeOK
    <3> QED
      BY <3>1, <3>2
  <2>6. cycles' \in [DOMAIN cycles' -> CycleRow]
    BY <1>1, <1>2, <1>3, <1>4 DEF CycleRow
  <2> QED
    BY <1>1, <1>3, <1>4, <1>5, <2>2, <2>4, <2>5, <2>6 DEF Start, TypeOK
<1>10. TurnsWellFormed'
  <2>1. \A n \in 1..K : order[n] \in Members /\ position'[order[n]] = n
    BY <1>2, <1>6
  <2>2. \A n \in 1..K : cycles'[n].payee = order[n]
    BY <1>5
  <2>3. \A n \in 1..K : cycles'[n].payee \in Members /\ position'[cycles'[n].payee] = n
    BY <2>1, <2>2
  <2>4. \A u \in Members : position'[u] \in 1..K /\ cycles'[position'[u]].payee = u
    BY <1>6, <2>2
  <2>5. status' = "active" /\ planned' = K
    BY <1>1 DEF Start
  <2> QED
    BY <1>5, <1>8, <2>3, <2>4, <2>5 DEF TurnsWellFormed
<1>11. ClosedInOrder'
  BY <1>3, <1>5 DEF ClosedInOrder, Open, Start
<1>12. SeatsRespected'
  BY DEF SeatsRespected, Start
<1> QED
  BY <1>9, <1>10, <1>11, <1>12

\* Recording and settling leave the turns alone.
LEMMA RecordInv ==
  ASSUME CircleInv, NEW m \in Users, NEW u \in Users, NEW n \in Numbers,
         NEW id \in EntryIds, Record(m, u, n, id)
  PROVE  CircleInv'
<1> USE DEF CircleInv
<1>1. EntryOf("contribution_recorded", id, n, u, m) \in Entry
  BY EntryOfType DEF EntryTypes
<1>2. ledger' \in SUBSET Entry
  BY <1>1 DEF Record, Append, TypeOK
<1>6. ContributionsTyped'
  BY DEF Record, Append, EntryOf, ContributionsTyped, Recorded, TypeOK
<1>3. inbox' \in SUBSET Message
  <2>1. /\ {Organizer} \ {m} \in SUBSET Users /\ {u} \in SUBSET Users
        /\ "payment_recorded" \in Kinds /\ "payment_recorded_for_you" \in Kinds
    BY UsersAssumption DEF Kinds
  <2>2. CASE m = u
    BY <2>1, <2>2, NotifyType DEF Record, TypeOK
  <2>3. CASE m # u
    BY <2>1, <2>3, NotifyType DEF Record, TypeOK
  <2> QED
    BY <2>2, <2>3
<1>4. TypeOK'
  BY <1>2, <1>3, <1>6 DEF Record, TypeOK
<1> QED
  BY <1>4, TurnsFrame DEF Record, turnVars

\* Verifying, rejecting and reversing append an entry and nothing else.
LEMMA SettleInv ==
  ASSUME CircleInv, NEW e \in Recorded,
         NEW type \in EntryTypes \ {"contribution_recorded"}, NEW kind \in Kinds, Settle(e, type, kind)
  PROVE  CircleInv'
<1> USE DEF CircleInv
<1>1. e.id \in EntryIds /\ e.cycle \in Numbers /\ e.subject \in Users
  BY DEF TypeOK, ContributionsTyped
<1>2. /\ EntryOf(type, e.id, e.cycle, e.subject, Organizer) \in Entry
      /\ EntryOf(type, e.id, e.cycle, e.subject, Organizer).type
           # "contribution_recorded"
  BY <1>1, EntryOfType, UsersAssumption DEF EntryOf
<1>3. ledger' \in SUBSET Entry /\ ContributionsTyped'
  BY <1>2, AppendType DEF Settle, TypeOK
<1>4. inbox' \in SUBSET Message
  BY <1>1 DEF Settle, Notify, Message, TypeOK
<1>5. TypeOK'
  BY <1>3, <1>4 DEF Settle, TypeOK
<1> QED
  BY <1>5, TurnsFrame DEF Settle, turnVars

\* Closing the lowest open cycle keeps the closed ones a prefix; the circle
\* completes with the last.
LEMMA CloseCycleInv ==
  ASSUME CircleInv, NEW n \in Numbers, NEW k, CloseCycle(n, k)
  PROVE  CircleInv'
<1> USE DEF CircleInv
<1> DEFINE payee == cycles[n].payee
           paid == [EntryOf("payout", None, n, payee, Organizer)
                      EXCEPT !.parts = VerifiedIds(n)]
           closed == [EntryOf("cycle_closed", None, n, None, Organizer)
                        EXCEPT !.parts = VerifiedIds(n), !.unpaid = UnpaidUsers(n)]
<1>1. n \in Open /\ (\A m \in Open : n <= m) /\ n \in DOMAIN cycles /\ payee \in Users
  BY DEF CloseCycle, IsCurrent, Open, TypeOK, CycleRow
<1>2. VerifiedIds(n) \in SUBSET EntryIds /\ UnpaidUsers(n) \in SUBSET Users
  BY DEF VerifiedIds, VerifiedOf, Live, UnpaidUsers, InCycle, TypeOK, ContributionsTyped
<1>3. /\ paid \in Entry /\ paid.type # "contribution_recorded"
      /\ closed \in Entry /\ closed.type # "contribution_recorded"
  BY <1>1, <1>2, UsersAssumption DEF EntryOf, Entry, EntryTypes
<1>4. ledger' \in SUBSET Entry /\ ContributionsTyped'
  <2>1. Append({paid, closed})
    BY DEF CloseCycle
  <2> QED
    BY <1>3, <2>1, AppendType DEF TypeOK
<1>5. inbox' \in SUBSET Message
  BY <1>1 DEF CloseCycle, TypeOK, Message, Kinds, Members
<1>6. /\ DOMAIN cycles' = DOMAIN cycles
      /\ \A m \in DOMAIN cycles :
           /\ cycles'[m].payee = cycles[m].payee
           /\ cycles'[m].open = IF m = n THEN FALSE ELSE cycles[m].open
      /\ cycles' \in [DOMAIN cycles -> CycleRow]
  BY <1>1 DEF CloseCycle, TypeOK, CycleRow
<1>7. Open' = Open \ {n} /\ Members' = Members
  BY <1>6 DEF Open, CloseCycle, Members
<1>8. status' = IF Open = {n} THEN "completed" ELSE "active"
  BY DEF CloseCycle
<1>9. TypeOK'
  BY <1>4, <1>5, <1>6, <1>8 DEF CloseCycle, TypeOK
<1>10. TurnsWellFormed'
  BY <1>6, <1>7, <1>8 DEF TurnsWellFormed, CloseCycle
<1>11. ClosedInOrder'
  <2>1. ASSUME NEW i \in DOMAIN cycles, NEW j \in DOMAIN cycles, i < j, j \notin Open'
        PROVE  i \notin Open'
    BY <1>1, <1>7, <2>1 DEF ClosedInOrder, TypeOK, Numbers
  <2> QED
    BY <1>1, <1>6, <1>7, <1>8, <2>1 DEF ClosedInOrder
<1>12. SeatsRespected'
  BY <1>8 DEF SeatsRespected
<1> QED
  BY <1>9, <1>10, <1>11, <1>12

\* What a removal does to the turns: the last open cycle goes, the member's turn
\* and those after it, all open, are received by whoever came next.
LEMMA RemovalShape ==
  ASSUME CircleInv, NEW u \in Users, NEW current \in Numbers,
         NEW turn \in Numbers, NEW last \in Numbers,
         RemoveActiveMember(u, current, turn, last)
  PROVE  /\ status = "active" /\ status' = "active"
         /\ planned \in Nat /\ planned >= 2 /\ planned' = planned - 1
         /\ 1..planned \subseteq Numbers
         /\ DOMAIN cycles = 1..planned /\ DOMAIN cycles' = 1..planned'
         /\ turn \in 1..planned /\ cycles[turn].payee = u
         /\ current \in Open /\ current \in 1..planned' /\ \A m \in Open : current <= m
         /\ \A n \in 1..planned : n >= turn => n \in Open
         /\ \A n \in 1..planned' :
              cycles'[n] = IF n >= turn THEN [open |-> TRUE, payee |-> cycles[n + 1].payee]
                                        ELSE cycles[n]
         /\ \A n \in 1..planned' : n \in Open' <=> n \in Open
         /\ u \in Members \ {Organizer} /\ Members' = Members \ {u}
<1> USE DEF CircleInv
<1>1. /\ status = "active" /\ u \in Members \ {Organizer}
      /\ current \in Open /\ turn \in Open /\ last \in Open
      /\ cycles[turn].payee = u
      /\ \A m \in Open : current <= m /\ m <= last
      /\ current # last
  BY DEF RemoveActiveMember, IsCurrent, StillToReceive, IsLastOpen, ForeignKeyHolds
<1>2. /\ DOMAIN cycles = 1..planned /\ planned \in Nat
      /\ 1..planned \subseteq Numbers
  BY <1>1 DEF TurnsWellFormed, TypeOK
<1>3. last = planned /\ planned >= 2 /\ current \in 1..(planned - 1)
  <2>1. current \in 1..planned /\ last \in 1..planned /\ current < last
    BY <1>1, <1>2 DEF Open
  <2>2. planned \in Open
    BY <1>1, <1>2, <2>1 DEF ClosedInOrder, Open
  <2> QED
    BY <1>1, <1>2, <2>1, <2>2
<1>4. \A n \in 1..planned : n >= turn => n \in Open
  BY <1>1, <1>2 DEF ClosedInOrder, Open
<1>5. /\ planned' = planned - 1
      /\ DOMAIN cycles' = 1..planned'
      /\ \A n \in 1..planned' :
           cycles'[n] = IF n >= turn THEN [open |-> TRUE, payee |-> cycles[n + 1].payee]
                                     ELSE cycles[n]
  <2>1. MoveUp(turn, last)
    BY DEF RemoveActiveMember
  <2>2. 1..planned \ {last} = 1..(planned - 1)
    BY <1>2, <1>3
  <2> QED
    BY <1>2, <1>3, <1>4, <2>1, <2>2 DEF MoveUp
<1>6. Members' = Members \ {u}
  BY <1>1 DEF RemoveActiveMember, Members, TypeOK, Numbers
<1>7. turn \in 1..planned
  BY <1>1, <1>2 DEF Open
<1>8. \A n \in 1..planned' : n \in Open' <=> n \in Open
  BY <1>2, <1>4, <1>5 DEF Open
<1> QED
  BY <1>1, <1>2, <1>3, <1>4, <1>5, <1>6, <1>7, <1>8 DEF RemoveActiveMember

\* Removing a member whose turn is still to come: the turns after it move up,
\* and cycles, members and positions still name each other.
LEMMA RemoveActiveInv ==
  ASSUME CircleInv, NEW u \in Users, NEW current \in Numbers,
         NEW turn \in Numbers, NEW last \in Numbers,
         RemoveActiveMember(u, current, turn, last)
  PROVE  CircleInv'
<1> USE DEF CircleInv
<1>1. /\ status = "active" /\ u \in Members /\ cycles[turn].payee = u
      /\ current \in 1..planned' /\ current \in Open
  BY RemovalShape
<1>2. /\ DOMAIN cycles = 1..planned /\ planned \in Nat
      /\ 1..planned \subseteq Numbers
  BY RemovalShape
<1>3. planned >= 2
  BY RemovalShape
<1>4. \A n \in 1..planned' : n \in Open' <=> n \in Open
  BY RemovalShape
<1>5. \A n \in 1..planned : cycles[n].payee \in Members /\ position[cycles[n].payee] = n
  BY <1>1, <1>2 DEF TurnsWellFormed
<1>6. \A v \in Members : position[v] \in 1..planned /\ cycles[position[v]].payee = v
  BY <1>1, <1>2 DEF TurnsWellFormed
<1>7. /\ planned' = planned - 1
      /\ DOMAIN cycles' = 1..planned'
      /\ \A n \in 1..planned' :
           cycles'[n] = IF n >= turn THEN [open |-> TRUE, payee |-> cycles[n + 1].payee]
                                     ELSE cycles[n]
  BY RemovalShape
<1>8. \A v \in Users : position'[v] = IF position[v] = turn THEN 0
                              ELSE IF position[v] > turn THEN position[v] - 1
                              ELSE position[v]
  BY DEF RemoveActiveMember, MoveUp, TypeOK, Numbers
<1>9. position' \in [Users -> Numbers \cup {0}]
  <2>1. position' = [v \in Users |-> position'[v]]
    BY DEF RemoveActiveMember, MoveUp
  <2>2. \A v \in Users : position'[v] \in Numbers \cup {0}
    <3>1. \A v \in Users : position[v] \in 0..Seats
      BY SeatsAssumption DEF TypeOK, Numbers
    <3> QED
      BY <1>8, <3>1, SeatsAssumption DEF Numbers
  <2> QED
    BY <2>1, <2>2
<1>10. Members' = Members \ {u}
  BY RemovalShape
<1>11. turn \in 1..planned /\ position[u] = turn
  BY <1>1, <1>5, RemovalShape
<1>moved. \A v \in Users, k \in 1..planned : position[v] = k =>
          /\ k > turn => position'[v] = k - 1
          /\ k < turn => position'[v] = k
  BY <1>8, <1>11, <1>2
<1>12. TypeOK'
  <2> DEFINE gone == [EntryOf("member_removed", None, current, u, Organizer)
                        EXCEPT !.parts = PaidInBy(u)]
  <2>1. PaidInBy(u) \in SUBSET EntryIds
    BY DEF PaidInBy, VerifiedOf, Live, TypeOK, ContributionsTyped
  <2>2. gone \in Entry /\ gone.type # "contribution_recorded"
    BY <2>1, UsersAssumption DEF EntryOf, Entry, EntryTypes
  <2>3. Append({gone})
    BY DEF RemoveActiveMember
  <2>4. ledger' \in SUBSET Entry /\ ContributionsTyped'
    BY <2>2, <2>3, AppendType DEF TypeOK
  <2>5. inbox' \in SUBSET Message
    <3>1. {u} \in SUBSET Users /\ "member_removed" \in Kinds
      BY DEF Kinds
    <3> QED
      BY <3>1, NotifyType DEF RemoveActiveMember, TypeOK
  <2>6. cycles' \in [DOMAIN cycles' -> CycleRow]
    <3>1. cycles' = [n \in 1..planned' |-> cycles'[n]]
      BY <1>7 DEF RemoveActiveMember, MoveUp
    <3>2. \A n \in 1..planned' : cycles'[n] \in CycleRow
      <4>1. \A n \in 1..planned : cycles[n] \in CycleRow
        BY <1>2 DEF TypeOK
      <4>2. \A n \in 1..planned' : n \in 1..planned /\ n + 1 \in 1..planned
        BY <1>2, <1>7
      <4>3. ASSUME NEW n \in 1..planned' PROVE cycles'[n] \in CycleRow
        <5>1. cycles[n] \in CycleRow /\ cycles[n + 1] \in CycleRow
          BY <4>1, <4>2
        <5>2. [open |-> TRUE, payee |-> cycles[n + 1].payee] \in CycleRow
          BY <5>1 DEF CycleRow
        <5> QED
          BY <1>7, <5>1, <5>2
      <4> QED
        BY <4>3
    <3> QED
      BY <3>1, <3>2, <1>7
  <2>7. planned' \in Nat /\ DOMAIN cycles' \subseteq Numbers
    BY <1>2, <1>3, <1>7 DEF Numbers
  <2> QED
    BY <1>9, <2>4, <2>5, <2>6, <2>7
    DEF RemoveActiveMember, TypeOK, SyncCommunityConsent
<1>13. TurnsWellFormed'
  <2>1. ASSUME NEW n \in 1..planned'
        PROVE  cycles'[n].payee \in Members' /\ position'[cycles'[n].payee] = n
    <3>1. CASE n >= turn
      <4>1. n + 1 \in 1..planned /\ cycles'[n].payee = cycles[n + 1].payee
        BY <1>2, <1>7, <2>1, <3>1
      <4>2. cycles[n + 1].payee \in Members /\ position[cycles[n + 1].payee] = n + 1
        BY <1>5, <4>1
      <4>3. cycles[n + 1].payee # u /\ cycles[n + 1].payee \in Users
        BY <1>11, <3>1, <4>2, <2>1, <1>2, <1>7 DEF Members, TypeOK
      <4>4. position'[cycles[n + 1].payee] = (n + 1) - 1
        <5>1. n + 1 > turn
          BY <1>2, <1>7, <1>11, <2>1, <3>1
        <5> QED
          BY <1>moved, <4>1, <4>2, <4>3, <5>1
      <4>5. (n + 1) - 1 = n
        BY <2>1, <1>2, <1>7
      <4>6. cycles[n + 1].payee \in Members'
        BY <1>10, <4>2, <4>3
      <4> QED
        BY <4>1, <4>4, <4>5, <4>6
    <3>2. CASE n < turn
      <4>1. n \in 1..planned /\ cycles'[n].payee = cycles[n].payee
        BY <1>2, <1>7, <2>1, <3>2, <1>11
      <4>2. cycles[n].payee \in Members /\ position[cycles[n].payee] = n
        BY <1>5, <4>1
      <4>3. cycles[n].payee # u /\ cycles[n].payee \in Users
        BY <1>11, <3>2, <4>2, <4>1, <1>2 DEF Members, TypeOK
      <4>4. position'[cycles[n].payee] = n
        BY <1>moved, <3>2, <4>1, <4>2, <4>3
      <4>5. cycles[n].payee \in Members'
        BY <1>10, <4>2, <4>3
      <4> QED
        BY <4>1, <4>4, <4>5
    <3> QED
      BY <3>1, <3>2, <2>1, <1>7, <1>2, <1>11
  <2>2. ASSUME NEW v \in Members'
        PROVE  position'[v] \in 1..planned' /\ cycles'[position'[v]].payee = v
    <3>1. v \in Members /\ v # u /\ v \in Users
      BY <1>10, <2>2 DEF Members, TypeOK
    <3>2. position[v] \in 1..planned /\ cycles[position[v]].payee = v
      BY <1>6, <3>1
    <3>3. position[v] # turn
      BY <1>1, <3>1, <3>2
    <3>4. CASE position[v] > turn
      BY <1>2, <1>3, <1>7, <1>8, <1>11, <3>1, <3>2, <3>4
    <3>5. CASE position[v] < turn
      BY <1>2, <1>3, <1>7, <1>8, <1>11, <3>1, <3>2, <3>5
    <3> QED
      BY <3>2, <3>3, <3>4, <3>5, <1>11, <1>2
  <2>3. status' # "draft"
    BY <1>1 DEF RemoveActiveMember
  <2> QED
    BY <1>7, <2>1, <2>2, <2>3 DEF TurnsWellFormed
<1>14. ClosedInOrder'
  <2>1. Open' # {} /\ status' = "active"
    BY <1>1, <1>4, RemovalShape
  <2>2. \A i, j \in 1..planned' : i < j /\ j \notin Open' => i \notin Open'
    BY <1>4, <1>2, <1>7 DEF ClosedInOrder
  <2> QED
    BY <1>7, <2>1, <2>2 DEF ClosedInOrder
<1>15. SeatsRespected'
  BY <1>1 DEF RemoveActiveMember, SeatsRespected
<1> QED
  BY <1>12, <1>13, <1>14, <1>15

\* Every handler of the circle keeps the invariant.
LEMMA NextCircleInv == CircleInv /\ [Next]_vars => CircleInv'
<1> SUFFICES ASSUME CircleInv, [Next]_vars PROVE CircleInv'
  OBVIOUS
<1>1. CASE \E u \in Users : Join(u)
  BY <1>1, JoinInv
<1>2. CASE \E u \in Leaving : Leave(u) \/ RemoveDraftMember(u)
  <2>1. PICK u \in Leaving : Leave(u) \/ RemoveDraftMember(u)
    BY <1>2
  <2>2. u \in Users
    BY <2>1 DEF Leave, RemoveDraftMember, Members, CircleInv, TypeOK
  <2> QED
    BY <2>1, <2>2, LeaveInv
<1>3. CASE \E s \in Seeds : CommitLottery(s)
  <2>1. TypeOK'
    BY <1>3 DEF CommitLottery, CircleInv, TypeOK, ContributionsTyped, Recorded
  <2> QED
    BY <1>3, <2>1, TurnsFrame DEF CommitLottery, turnVars, CircleInv
<1>4. CASE Start
  BY <1>4, StartInv
<1>5. CASE \E m, u \in Users, n \in Numbers, id \in EntryIds : Record(m, u, n, id)
  BY <1>5, RecordInv
<1>6. CASE \E e \in Recorded : Verify(e) \/ Reject(e) \/ Reverse(e)
  <2>1. /\ "contribution_verified" \in EntryTypes \ {"contribution_recorded"}
        /\ "correction" \in EntryTypes \ {"contribution_recorded"}
        /\ "payment_verified" \in Kinds /\ "payment_rejected" \in Kinds
    BY DEF EntryTypes, Kinds
  <2> QED
    BY <1>6, <2>1, SettleInv DEF Verify, Reject, Reverse
<1>7. CASE \E n \in Numbers, k \in 0..Cardinality(Users) : CloseCycle(n, k)
  BY <1>7, CloseCycleInv
<1>8. CASE \E u \in Users, current, turn, last \in Numbers :
             RemoveActiveMember(u, current, turn, last)
  BY <1>8, RemoveActiveInv
<1>9. CASE \E u \in Users : SharePayout(u)
  <2>1. TypeOK'
    BY <1>9 DEF SharePayout, CircleInv, TypeOK, ContributionsTyped, Recorded
  <2> QED
    BY <1>9, <2>1, TurnsFrame DEF SharePayout, turnVars, CircleInv
<1>10. CASE \E u \in Consenting, granted \in BOOLEAN : SetConsent(u, granted)
  <2>1. TypeOK'
    BY <1>10 DEF SetConsent, SyncCommunityConsent, CircleInv, TypeOK,
                 ContributionsTyped, Recorded
  <2> QED
    BY <1>10, <2>1, TurnsFrame DEF SetConsent, turnVars, CircleInv
<1>11. CASE UNCHANGED vars
  <2>1. TypeOK'
    BY <1>11 DEF vars, CircleInv, TypeOK, ContributionsTyped, Recorded
  <2> QED
    BY <1>11, <2>1, TurnsFrame DEF vars, turnVars, CircleInv
<1> QED
  BY <1>1, <1>2, <1>3, <1>4, <1>5, <1>6, <1>7, <1>8, <1>9, <1>10, <1>11 DEF Next

\* A draft never holds more members than seats; in a running circle every
\* member has exactly one turn and every turn one member, through any
\* removals; cycles close in order and an active circle always has one open.
THEOREM CircleInvariant == Spec => []CircleInv
<1>1. Init => CircleInv
  BY InitCircleInv
<1>2. CircleInv /\ [Next]_vars => CircleInv'
  BY NextCircleInv
<1> QED
  BY <1>1, <1>2, PTL DEF Spec

\* The columns of the circle's tables keep their types whatever handlers run;
\* a payout_position never leaves 1..planned_cycles (activate, removeFromActive).
THEOREM CircleTypeCorrect == Spec => []TypeOK
<1>1. CircleInv => TypeOK
  BY DEF CircleInv
<1> QED
  BY <1>1, CircleInvariant, PTL

\* Once started, the cycles are numbered 1..planned_cycles and recipients,
\* members and payout positions name each other (activate, removeFromActive).
THEOREM CircleTurns == Spec => []TurnsWellFormed
<1>1. CircleInv => TurnsWellFormed
  BY DEF CircleInv
<1> QED
  BY <1>1, CircleInvariant, PTL

\* Cycles close in order and a circle is active exactly while one is open
\* (closeCycle, completeIfNoOpenCycles, the reference that keeps removeFromActive
\* from deleting the last open cycle once it has entries).
THEOREM CircleClosesInOrder == Spec => []ClosedInOrder
<1>1. CircleInv => ClosedInOrder
  BY DEF CircleInv
<1> QED
  BY <1>1, CircleInvariant, PTL

\* A draft never holds more members than planned_cycles (CIRCLE_FULL in join).
THEOREM CircleSeats == Spec => []SeatsRespected
<1>1. CircleInv => SeatsRespected
  BY DEF CircleInv
<1> QED
  BY <1>1, CircleInvariant, PTL
-----------------------------------------------------------------------------
(***************************************************************************)
(* The circle implements PotRotation.                                      *)
(***************************************************************************)

\* Nobody may remove the organizer, and the organizer may not leave.
OrganizerStays == Organizer \in Members

\* No handler takes the organizer out.
LEMMA OrganizerStep == CircleInv /\ OrganizerStays /\ [Next]_vars => OrganizerStays'
<1> SUFFICES ASSUME CircleInv, OrganizerStays, [Next]_vars PROVE OrganizerStays'
  OBVIOUS
<1>1. CASE \E u \in Users : Join(u)
  BY <1>1 DEF Join, OrganizerStays, Members, CircleInv, TypeOK
<1>2. CASE \E u \in Leaving : Leave(u) \/ RemoveDraftMember(u)
  BY <1>2 DEF Leave, RemoveDraftMember, RemoveFromDraft, OrganizerStays, Members, CircleInv, TypeOK
<1>3. CASE \E u \in Users, current, turn, last \in Numbers :
             RemoveActiveMember(u, current, turn, last)
  BY <1>3, RemovalShape DEF OrganizerStays
<1>4. CASE UNCHANGED <<rows, left>>
  BY <1>4 DEF OrganizerStays, Members
<1> QED
  BY <1>1, <1>2, <1>3, <1>4
  DEF Next, vars, CommitLottery, Start, Record, Verify, Reject, Reverse, Settle,
      CloseCycle, SharePayout, SetConsent

\* Two cycles of a circle that has started are received by different members.
LEMMA PayeesDistinct ==
  ASSUME CircleInv, status # "draft", NEW m \in DOMAIN cycles, NEW n \in DOMAIN cycles,
         cycles[m].payee = cycles[n].payee
  PROVE  m = n
  BY DEF CircleInv, TurnsWellFormed

\* Both modules count alike.
LEMMA SameCardinality == \A S : Rotation!Cardinality(S) = Cardinality(S)
  BY DEF Rotation!Cardinality, Cardinality

\* Joining, leaving and being removed are gathering.
LEMMA GatherStep ==
  ASSUME CircleInv, OrganizerStays, NEW u \in Users,
         Join(u) \/ Leave(u) \/ RemoveDraftMember(u)
  PROVE  Rotation!Gather
<1>1. status = "draft" /\ status' = "draft" /\ cycles' = cycles
  BY DEF Join, Leave, RemoveDraftMember, RemoveFromDraft
<1>2. u # Organizer /\ Members' \in {Members \cup {u}, Members \ {u}}
  BY DEF Join, Leave, RemoveDraftMember, RemoveFromDraft, OrganizerStays, Members,
         CircleInv, TypeOK
<1>3. Open' = Open
  BY <1>1 DEF Open
<1> QED
  BY <1>1, <1>2, <1>3 DEF Rotation!Gather, Payees

\* Starting lets every member wait for the pot.
LEMMA BeginStep ==
  ASSUME CircleInv, Start
  PROVE  Rotation!Begin
<1>1. PICK order \in Orderings(Members) :
        cycles' = [n \in DOMAIN order |-> [open |-> TRUE, payee |-> order[n]]]
  BY DEF Start
<1>2. /\ status = "draft" /\ status' = "active" /\ Cardinality(Members) >= 2
      /\ Members' = Members /\ DOMAIN cycles = {} /\ Open = {}
  BY DEF Start, Members, CircleInv, TurnsWellFormed, Open
<1>3. {order[n] : n \in DOMAIN order} = Members
  BY <1>1 DEF Orderings
<1>4. Open' = DOMAIN order /\ DOMAIN cycles' = DOMAIN order
  BY <1>1 DEF Open
<1>5. Payees(Open)' = Members
  BY <1>1, <1>3, <1>4 DEF Payees
<1>6. Payees(DOMAIN cycles \ Open)' = Payees(DOMAIN cycles \ Open)
  BY <1>2, <1>4 DEF Payees
<1> QED
  <2>1. UNCHANGED <<Members, Payees(DOMAIN cycles \ Open)>>
    BY <1>2, <1>6
  <2> QED
    BY <1>2, <1>5, <2>1, SameCardinality DEF Rotation!Begin

\* Closing a cycle pays the pot out to its recipient.
LEMMA PayOutStep ==
  ASSUME CircleInv, NEW n \in Numbers, NEW k, CloseCycle(n, k)
  PROVE  \E u \in Users : Rotation!PayOut(u)
<1> DEFINE u == cycles[n].payee
<1>1. /\ status = "active" /\ n \in Open /\ n \in DOMAIN cycles /\ u \in Users
      /\ Members' = Members
  BY DEF CloseCycle, IsCurrent, Open, CircleInv, TypeOK, CycleRow, Members
<1>2. /\ DOMAIN cycles' = DOMAIN cycles
      /\ \A m \in DOMAIN cycles :
           /\ cycles'[m].payee = cycles[m].payee
           /\ cycles'[m].open = IF m = n THEN FALSE ELSE cycles[m].open
  BY <1>1 DEF CloseCycle, CircleInv, TypeOK, CycleRow
<1>3. Open' = Open \ {n} /\ Open \subseteq DOMAIN cycles
  BY <1>2 DEF Open
<1>4. \A m \in DOMAIN cycles : cycles[m].payee = u => m = n
  BY <1>1, PayeesDistinct
<1>5. Payees(Open)' = Payees(Open) \ {u} /\ u \in Payees(Open)
  BY <1>1, <1>2, <1>3, <1>4 DEF Payees
<1>6. Payees(DOMAIN cycles \ Open)' = Payees(DOMAIN cycles \ Open) \cup {u}
  BY <1>1, <1>2, <1>3 DEF Payees
<1>7. Payees(Open) = {u} <=> Open = {n}
  BY <1>1, <1>3, <1>4 DEF Payees
<1>8. status' = IF Payees(Open) = {u} THEN "completed" ELSE "active"
  BY <1>1, <1>7 DEF CloseCycle
<1> QED
  BY <1>1, <1>5, <1>6, <1>8 DEF Rotation!PayOut

\* Removing a member of a running circle lets go one who still waits.
LEMMA LetGoStep ==
  ASSUME CircleInv, NEW u \in Users, NEW current \in Numbers,
         NEW turn \in Numbers, NEW last \in Numbers,
         RemoveActiveMember(u, current, turn, last)
  PROVE  Rotation!LetGo(u)
<1>1. /\ status = "active" /\ status' = "active"
      /\ planned \in Nat /\ planned' = planned - 1 /\ planned >= 2
      /\ DOMAIN cycles = 1..planned /\ DOMAIN cycles' = 1..planned'
      /\ turn \in 1..planned /\ cycles[turn].payee = u
      /\ current \in Open /\ current \in 1..planned'
      /\ \A n \in 1..planned : n >= turn => n \in Open
      /\ u \in Members \ {Organizer} /\ Members' = Members \ {u}
  BY RemovalShape
<1>2. \A n \in 1..planned' :
        /\ n < turn => cycles'[n].payee = cycles[n].payee
        /\ n >= turn => cycles'[n].payee = cycles[n + 1].payee
        /\ n \in Open' <=> n \in Open
  BY <1>1, RemovalShape
<1>3. \A n \in 1..planned : cycles[n].payee = u => n = turn
  BY <1>1, PayeesDistinct
<1>4. Cardinality(Members) > 2
  BY DEF RemoveActiveMember, EnoughMembers
<1>5. Open \subseteq 1..planned /\ Open' \subseteq 1..planned'
  BY <1>1 DEF Open
<1>6. turn \in Open
  BY <1>1
<1>7. Payees(Open)' = Payees(Open) \ {u}
  <2>1. ASSUME NEW n \in Open'
        PROVE  cycles'[n].payee \in Payees(Open) \ {u}
    <3>1. n \in 1..planned' /\ n \in 1..planned /\ n + 1 \in 1..planned /\ n \in Open
      BY <1>1, <1>2, <1>5
    <3>2. CASE n < turn
      BY <1>1, <1>2, <1>3, <3>1, <3>2 DEF Payees
    <3>3. CASE n >= turn
      <4>1. n + 1 \in Open /\ n + 1 # turn
        BY <1>1, <3>1, <3>3
      <4> QED
        BY <1>2, <1>3, <3>1, <3>3, <4>1 DEF Payees
    <3> QED
      BY <3>1, <3>2, <3>3, <1>1
  <2>2. ASSUME NEW n \in Open, cycles[n].payee # u
        PROVE  \E m \in Open' : cycles'[m].payee = cycles[n].payee
    <3>1. n \in 1..planned /\ n # turn
      BY <1>1, <1>5, <2>2
    <3>2. CASE n < turn
      <4>1. n \in 1..planned'
        BY <1>1, <3>1, <3>2
      <4> QED
        BY <1>2, <3>2, <4>1
    <3>3. CASE n > turn
      <4>1. n - 1 \in 1..planned' /\ n - 1 >= turn /\ (n - 1) + 1 = n /\ n - 1 \in Open
        BY <1>1, <3>1, <3>3
      <4> QED
        BY <1>2, <4>1
    <3> QED
      BY <1>1, <3>1, <3>2, <3>3
  <2> QED
    BY <2>1, <2>2 DEF Payees
<1>8. Payees(DOMAIN cycles \ Open)' = Payees(DOMAIN cycles \ Open)
  <2>1. \A n \in 1..planned \ Open : n < turn /\ n \in 1..planned'
    BY <1>1
  <2>2. \A n \in 1..planned' : n \notin Open' => n \in 1..planned \ Open
    BY <1>1, <1>2
  <2>3. DOMAIN cycles' \ Open' = DOMAIN cycles \ Open
    BY <1>1, <1>2, <2>1, <2>2
  <2>4. \A n \in DOMAIN cycles \ Open : cycles'[n].payee = cycles[n].payee
    BY <1>1, <1>2, <2>1
  <2> QED
    BY <2>3, <2>4 DEF Payees
<1>9. u \in Payees(Open) \ {Organizer}
  BY <1>1, <1>6 DEF Payees
<1>10. Payees(Open) # {u}
  <2>1. Open' # {}
    BY <1>1, <1>2
  <2>2. Payees(Open)' # {}
    BY <2>1 DEF Payees
  <2> QED
    BY <1>7, <2>2
<1> QED
  <2>1. UNCHANGED <<status, Payees(DOMAIN cycles \ Open)>>
    BY <1>1, <1>8
  <2> QED
    BY <1>1, <1>4, <1>7, <2>1, <1>9, <1>10, SameCardinality DEF Rotation!LetGo

\* Every other handler leaves the rotation as it is.
LEMMA RotationFrame ==
  ASSUME UNCHANGED <<status, rows, left, cycles>>
  PROVE  UNCHANGED Rotation!rotation
  BY DEF Rotation!rotation, Members, Open, Payees

\* Each step of the circle is a step of the rotation, or changes nothing in it.
LEMMA RotationStep ==
  CircleInv /\ OrganizerStays /\ [Next]_vars => [Rotation!Next]_Rotation!rotation
<1> SUFFICES ASSUME CircleInv, OrganizerStays, [Next]_vars
             PROVE  Rotation!Next \/ UNCHANGED Rotation!rotation
  OBVIOUS
<1>1. CASE \E u \in Users : Join(u)
  BY <1>1, GatherStep DEF Rotation!Next
<1>2. CASE \E u \in Leaving : Leave(u) \/ RemoveDraftMember(u)
  <2>1. PICK u \in Leaving : Leave(u) \/ RemoveDraftMember(u)
    BY <1>2
  <2>2. u \in Users
    BY <2>1 DEF Leave, RemoveDraftMember, Members, CircleInv, TypeOK
  <2> QED
    BY <2>1, <2>2, GatherStep DEF Rotation!Next
<1>3. CASE Start
  BY <1>3, BeginStep DEF Rotation!Next
<1>4. CASE \E n \in Numbers, k \in 0..Cardinality(Users) : CloseCycle(n, k)
  BY <1>4, PayOutStep DEF Rotation!Next
<1>5. CASE \E u \in Users, current, turn, last \in Numbers :
             RemoveActiveMember(u, current, turn, last)
  BY <1>5, LetGoStep DEF Rotation!Next
<1>6. CASE UNCHANGED <<status, rows, left, cycles>>
  BY <1>6, RotationFrame
<1> QED
  BY <1>1, <1>2, <1>3, <1>4, <1>5, <1>6
  DEF Next, vars, CommitLottery, Record, Verify, Reject, Reverse, Settle, SharePayout, SetConsent

\* A circle keeps what PotRotation promises, through joins, closes and removals in
\* any order (start, closeCycle, removeMember): once it runs nobody joins, each
\* member receives the pot once, and only who has not received it is let go.
THEOREM CircleImplementsRotation == Spec => ImplementsRotation
<1>1. Init => Rotation!Init /\ OrganizerStays
  <2> SUFFICES ASSUME Init PROVE Rotation!Init /\ OrganizerStays
    OBVIOUS
  <2>1. Members = {Organizer}
    BY UsersAssumption DEF Init, Members
  <2>2. Payees(Open) = {} /\ Payees(DOMAIN cycles \ Open) = {}
    BY DEF Init, Open, Payees
  <2> QED
    BY <2>1, <2>2 DEF Init, Rotation!Init, OrganizerStays
<1>2. Spec => []OrganizerStays
  BY <1>1, OrganizerStep, CircleInvariant, PTL DEF Spec
<1> QED
  BY <1>1, <1>2, RotationStep, CircleInvariant, PTL DEF Spec, ImplementsRotation, Rotation!Spec
-----------------------------------------------------------------------------
(***************************************************************************)
(* The order of the turns and the recipient of a payment.                  *)
(***************************************************************************)

\* The order drawn is kept: a start takes it, a removal moves every later turn by
\* one, and no seed is committed once it is in use.
LEMMA LotteryStep == CircleInv /\ LotteryHonoured /\ [Next]_vars => LotteryHonoured'
<1> SUFFICES ASSUME CircleInv, LotteryHonoured, [Next]_vars, TurnRule = "lottery",
                    NEW m \in DOMAIN cycles', NEW n \in DOMAIN cycles', m < n
             PROVE  Rank[seed'][cycles'[m].payee] < Rank[seed'][cycles'[n].payee]
  BY DEF LotteryHonoured
<1>1. CASE Start
  <2>1. PICK order \in Orderings(Members) :
          /\ IsLotteryOrder(order)
          /\ cycles' = [i \in DOMAIN order |-> [open |-> TRUE, payee |-> order[i]]]
    BY <1>1 DEF Start
  <2> QED
    BY <1>1, <2>1 DEF Start, IsLotteryOrder
<1>2. CASE \E n_1 \in Numbers, k \in 0..Cardinality(Users) : CloseCycle(n_1, k)
  <2>1. PICK n_1 \in Numbers, k \in 0..Cardinality(Users) : CloseCycle(n_1, k)
    BY <1>2
  <2>2. /\ DOMAIN cycles' = DOMAIN cycles /\ seed' = seed
        /\ \A i \in DOMAIN cycles : cycles'[i].payee = cycles[i].payee
    BY <2>1 DEF CloseCycle, CircleInv, TypeOK, CycleRow
  <2> QED
    BY <2>2 DEF LotteryHonoured
<1>3. CASE \E u \in Users, current, turn, last \in Numbers :
             RemoveActiveMember(u, current, turn, last)
  <2>1. PICK u \in Users, current \in Numbers, turn \in Numbers, last \in Numbers :
          RemoveActiveMember(u, current, turn, last)
    BY <1>3
  <2>2. /\ planned \in Nat /\ planned' = planned - 1 /\ turn \in 1..planned
        /\ DOMAIN cycles = 1..planned /\ DOMAIN cycles' = 1..planned'
        /\ \A i \in 1..planned' :
             /\ i >= turn => cycles'[i].payee = cycles[i + 1].payee
             /\ ~(i >= turn) => cycles'[i].payee = cycles[i].payee
    <3>1. /\ planned \in Nat /\ planned' = planned - 1 /\ turn \in 1..planned
          /\ DOMAIN cycles = 1..planned /\ DOMAIN cycles' = 1..planned'
          /\ \A i \in 1..planned' :
               cycles'[i] = IF i >= turn THEN [open |-> TRUE, payee |-> cycles[i + 1].payee]
                                         ELSE cycles[i]
      BY <2>1, RemovalShape
    <3> QED
      BY <3>1
  <2>3. /\ m \in 1..planned /\ n \in 1..planned
        /\ m + 1 \in 1..planned /\ n + 1 \in 1..planned
    BY <2>2
  <2>4. seed' = seed
    BY <2>1 DEF RemoveActiveMember
  <2>5. CASE m >= turn
    <3>1. n >= turn /\ m + 1 < n + 1
      BY <2>2, <2>3, <2>5
    <3>2. cycles'[m].payee = cycles[m + 1].payee /\ cycles'[n].payee = cycles[n + 1].payee
      BY <2>2, <2>5, <3>1
    <3>3. Rank[seed][cycles[m + 1].payee] < Rank[seed][cycles[n + 1].payee]
      BY <2>2, <2>3, <3>1 DEF LotteryHonoured
    <3> QED
      BY <2>4, <3>2, <3>3
  <2>6. CASE m < turn /\ n >= turn
    <3>1. m < n + 1
      BY <2>3
    <3>2. cycles'[m].payee = cycles[m].payee /\ cycles'[n].payee = cycles[n + 1].payee
      BY <2>2, <2>3, <2>6
    <3>3. Rank[seed][cycles[m].payee] < Rank[seed][cycles[n + 1].payee]
      BY <2>2, <2>3, <3>1 DEF LotteryHonoured
    <3> QED
      BY <2>4, <3>2, <3>3
  <2>7. CASE m < turn /\ n < turn
    <3>1. cycles'[m].payee = cycles[m].payee /\ cycles'[n].payee = cycles[n].payee
      BY <2>2, <2>3, <2>7
    <3>2. Rank[seed][cycles[m].payee] < Rank[seed][cycles[n].payee]
      BY <2>2, <2>3 DEF LotteryHonoured
    <3> QED
      BY <2>4, <3>1, <3>2
  <2> QED
    BY <2>2, <2>3, <2>5, <2>6, <2>7
<1>4. CASE status = "draft" /\ cycles' = cycles
  BY <1>4 DEF CircleInv, TurnsWellFormed
<1>5. CASE UNCHANGED <<seed, cycles>>
  BY <1>5 DEF LotteryHonoured
<1> QED
  BY <1>1, <1>2, <1>3, <1>4, <1>5
  DEF Next, vars, Join, Leave, RemoveDraftMember, RemoveFromDraft, CommitLottery, Record,
      Verify, Reject, Reverse, Settle, SharePayout, SetConsent

\* A lottery circle pays in the order its published seed gives, whoever is removed
\* before or after their turn (commitLottery, start, removeFromActive).
THEOREM CircleHonoursLottery == Spec => []LotteryHonoured
<1>1. Init => LotteryHonoured
  BY DEF Init, LotteryHonoured
<1> QED
  BY <1>1, LotteryStep, CircleInvariant, PTL DEF Spec

\* A payment that counts towards the running cycle stays with the recipient it was
\* made to: only a removal changes a recipient, never of the running cycle unless
\* nobody has paid it (removeMember, CYCLE_HAS_PAYMENTS).
THEOREM CirclePaymentsKeepRecipient == Spec => PaymentsKeepRecipient
<1>1. CircleInv /\ [Next]_vars =>
        [\A n \in DOMAIN cycles : IsCurrent(n) =>
           \A i \in VerifiedIds(n) \cup AwaitingIds(n) :
             n \in DOMAIN cycles' /\ cycles'[n].payee = cycles[n].payee]_vars
  <2> SUFFICES ASSUME CircleInv, Next, NEW n \in DOMAIN cycles, IsCurrent(n),
                      NEW i \in VerifiedIds(n) \cup AwaitingIds(n)
               PROVE  n \in DOMAIN cycles' /\ cycles'[n].payee = cycles[n].payee
    OBVIOUS
  <2>1. status # "draft"
    BY DEF CircleInv, TurnsWellFormed
  <2>2. CASE \E m \in Numbers, k \in 0..Cardinality(Users) : CloseCycle(m, k)
    BY <2>2 DEF CloseCycle, CircleInv, TypeOK, CycleRow
  <2>3. CASE \E u \in Users, current, turn, last \in Numbers :
               RemoveActiveMember(u, current, turn, last)
    <3>1. PICK u \in Users, current \in Numbers, turn \in Numbers, last \in Numbers :
            RemoveActiveMember(u, current, turn, last)
      BY <2>3
    <3>2. /\ planned \in Nat /\ planned' = planned - 1 /\ turn \in 1..planned
          /\ DOMAIN cycles = 1..planned /\ DOMAIN cycles' = 1..planned'
          /\ cycles[turn].payee = u /\ turn \in Open
          /\ current \in 1..planned' /\ current \in Open /\ \A m \in Open : current <= m
          /\ \A m \in 1..planned' : m < turn => cycles'[m] = cycles[m]
      <4>1. /\ planned \in Nat /\ planned' = planned - 1 /\ turn \in 1..planned
            /\ DOMAIN cycles = 1..planned /\ DOMAIN cycles' = 1..planned'
            /\ cycles[turn].payee = u
            /\ current \in 1..planned' /\ current \in Open /\ \A m \in Open : current <= m
            /\ \A m \in 1..planned : m >= turn => m \in Open
            /\ \A m \in 1..planned' :
                 cycles'[m] = IF m >= turn THEN [open |-> TRUE, payee |-> cycles[m + 1].payee]
                                           ELSE cycles[m]
        BY <3>1, RemovalShape
      <4> QED
        BY <4>1
    <3>3. n = current
      BY <3>2 DEF IsCurrent, Open
    <3>4. cycles[current].payee # u
      BY <3>1, <3>3 DEF RemoveActiveMember, NobodyPaidYet
    <3>5. current < turn
      BY <3>2, <3>4
    <3> QED
      BY <3>2, <3>3, <3>5
  <2>4. CASE UNCHANGED cycles
    BY <2>4
  <2> QED
    BY <2>1, <2>2, <2>3, <2>4
    DEF Next, Join, Leave, RemoveDraftMember, RemoveFromDraft, CommitLottery, Start, Record,
        Verify, Reject, Reverse, Settle, SharePayout, SetConsent
<1> QED
  BY <1>1, CircleInvariant, PTL DEF Spec, PaymentsKeepRecipient
-----------------------------------------------------------------------------
(***************************************************************************)
(* The ledger: contributions, payouts and the accounts a close or a        *)
(* removal leaves behind.  The heart of it is that a closed cycle stays    *)
(* what it was for everybody who was in it (ClosedCycleStays): its         *)
(* payments cannot be settled any more, because none of theirs waits and a *)
(* verified one is reversed only while its cycle is open.  The payment of  *)
(* somebody removed before the close may still be settled, and counts      *)
(* nowhere.                                                                *)
(***************************************************************************)
Settlements == {"contribution_verified", "correction"}

Closed == DOMAIN cycles \ Open

\* OneLiveContribution without counting.
LiveAtMostOne == \A n \in Numbers, u \in Users : \A e, f \in Live(n, u) : e = f

\* Only what is on record is verified, rejected or reversed.
SettlesRecorded ==
  \A s \in ledger : s.type \in Settlements => \E e \in Recorded : e.id = s.id

\* Before the start the ledger is about members coming and going.
QuietDraft ==
  status = "draft" =>
    \A e \in ledger : e.type \in {"member_added", "member_removed"} /\ e.cycle = 0

\* Nobody is paid out of turn.
PayoutsAreClosed == \A p \in ledger : p.type = "payout" => p.cycle \in Closed

\* Who was removed from the running circle was there until the cycle the entry names,
\* and has paid in what it lists.
RemovalsPast ==
  \A r \in ledger : r.type = "member_removed" /\ r.cycle # 0 =>
    /\ r.subject \in rows /\ left[r.subject] = r.cycle
    /\ \A n \in Open : r.cycle <= n
    /\ r.parts \subseteq {e.id : e \in Recorded}

LedgerInv ==
  /\ EntryIdsUnique /\ LiveAtMostOne /\ SettlesRecorded
  /\ QuietDraft /\ PayoutsAreClosed /\ RemovalsPast
  /\ PayoutBacked /\ EveryoneAccounted /\ RemovalAccounted
-----------------------------------------------------------------------------
(***************************************************************************)
(* What an appended entry does to the contributions that count.            *)
(***************************************************************************)

\* What counts towards a cycle depends on the contributions and on which of them
\* are verified and corrected, and on nothing else.
LEMMA CountsFrame ==
  ASSUME Recorded' = Recorded,
         \A id : (Verified(id)' <=> Verified(id)) /\ (Corrected(id)' <=> Corrected(id))
  PROVE  \A n, u : Live(n, u)' = Live(n, u) /\ VerifiedOf(n, u)' = VerifiedOf(n, u)
<1>1. \A n, u : Live(n, u)' = Live(n, u)
  BY DEF Live
<1> QED
  BY <1>1 DEF VerifiedOf

\* Entries that neither record nor settle change no count.
LEMMA AppendOther ==
  ASSUME NEW E, Append(E),
         \A e \in E : e.type \notin Settlements \cup {"contribution_recorded"}
  PROVE  /\ Recorded' = Recorded
         /\ \A id : (Verified(id)' <=> Verified(id)) /\ (Corrected(id)' <=> Corrected(id))
         /\ \A n, u : Live(n, u)' = Live(n, u) /\ VerifiedOf(n, u)' = VerifiedOf(n, u)
<1>1. Recorded' = Recorded
  BY DEF Append, Recorded, Settlements
<1>2. \A id : (Verified(id)' <=> Verified(id)) /\ (Corrected(id)' <=> Corrected(id))
  BY DEF Append, Verified, Corrected, Settlements
<1> QED
  BY <1>1, <1>2, CountsFrame

\* A contribution just recorded is the member's only one for the cycle, and not
\* verified; every other count is as before.
LEMMA RecordCounts ==
  ASSUME CircleInv, LedgerInv, NEW m \in Users, NEW u \in Users, NEW n \in Numbers,
         NEW id \in EntryIds, Record(m, u, n, id)
  PROVE  LET new == EntryOf("contribution_recorded", id, n, u, m) IN
         /\ Recorded' = Recorded \cup {new} /\ \A e \in Recorded : e.id # id
         /\ \A i : (Verified(i)' <=> Verified(i)) /\ (Corrected(i)' <=> Corrected(i))
         /\ Live(n, u)' = {new} /\ Live(n, u) = {}
         /\ \A k, w : k # n \/ w # u => Live(k, w)' = Live(k, w)
         /\ \A k, w : VerifiedOf(k, w)' = VerifiedOf(k, w)
<1> DEFINE new == EntryOf("contribution_recorded", id, n, u, m)
<1>1. new.type = "contribution_recorded" /\ new.id = id /\ new.cycle = n /\ new.subject = u
  BY DEF EntryOf
<1>2. ledger' = ledger \cup {new} /\ Live(n, u) = {} /\ \A e \in Recorded : e.id # id
  BY DEF Record, Append, Unused, NotYetRecorded
<1>3. Recorded' = Recorded \cup {new}
  BY <1>1, <1>2 DEF Recorded
<1>4. \A i : (Verified(i)' <=> Verified(i)) /\ (Corrected(i)' <=> Corrected(i))
  BY <1>1, <1>2 DEF Verified, Corrected
<1>5. ~Verified(id) /\ ~Corrected(id)
  BY <1>2 DEF LedgerInv, SettlesRecorded, Settlements, Verified, Corrected
<1>6. Live(n, u)' = {new} /\ \A k, w : k # n \/ w # u => Live(k, w)' = Live(k, w)
  <2>1. \A k, w : Live(k, w)' = {e \in Recorded' : e.cycle = k /\ e.subject = w /\ ~Corrected(e.id)}
    BY <1>4 DEF Live
  <2>2. \A k, w : Live(k, w) = {e \in Recorded : e.cycle = k /\ e.subject = w /\ ~Corrected(e.id)}
    BY DEF Live
  <2> QED
    BY <1>1, <1>2, <1>3, <1>5, <2>1, <2>2
<1>7. \A k, w : VerifiedOf(k, w)' = VerifiedOf(k, w)
  <2>1. \A k, w : VerifiedOf(k, w)' = {e.id : e \in {x \in Live(k, w)' : Verified(x.id)}}
    BY <1>4 DEF VerifiedOf
  <2>2. \A k, w : VerifiedOf(k, w) = {e.id : e \in {x \in Live(k, w) : Verified(x.id)}}
    BY DEF VerifiedOf
  <2>3. {x \in Live(n, u)' : Verified(x.id)} = {x \in Live(n, u) : Verified(x.id)}
    BY <1>1, <1>2, <1>5, <1>6
  <2> QED
    BY <1>6, <2>1, <2>2, <2>3
<1> QED
  BY <1>2, <1>3, <1>4, <1>6, <1>7

\* Settling a contribution that does not count for a member in a cycle changes
\* nothing that does.
LEMMA SettleElsewhere ==
  ASSUME LedgerInv, NEW e \in Recorded, NEW type \in Settlements, NEW kind,
         Settle(e, type, kind), NEW n, NEW u, e \notin Live(n, u)
  PROVE  Live(n, u)' = Live(n, u) /\ VerifiedOf(n, u)' = VerifiedOf(n, u)
<1>1. /\ ledger' = ledger \cup {EntryOf(type, e.id, e.cycle, e.subject, Organizer)}
      /\ EntryOf(type, e.id, e.cycle, e.subject, Organizer).type = type
      /\ EntryOf(type, e.id, e.cycle, e.subject, Organizer).id = e.id
  BY DEF Settle, Append, EntryOf
<1>2. Recorded' = Recorded
  BY <1>1 DEF Recorded, Settlements
<1>3. \A x \in Live(n, u) : x.id # e.id
  BY DEF LedgerInv, EntryIdsUnique, Live
<1>4. \A i : i # e.id => (Verified(i)' <=> Verified(i)) /\ (Corrected(i)' <=> Corrected(i))
  BY <1>1 DEF Verified, Corrected
<1>5. Corrected(e.id) => Corrected(e.id)'
  BY <1>1 DEF Corrected
<1>6. Live(n, u)' = Live(n, u)
  <2>1. Live(n, u)' = {x \in Recorded : x.cycle = n /\ x.subject = u /\ ~Corrected(x.id)'}
    BY <1>2 DEF Live
  <2>2. ASSUME NEW x \in Recorded, x.cycle = n, x.subject = u
        PROVE  Corrected(x.id)' <=> Corrected(x.id)
    <3>1. CASE x.id # e.id
      BY <1>4, <3>1
    <3>2. CASE x.id = e.id
      <4>1. x = e
        BY <3>2 DEF LedgerInv, EntryIdsUnique
      <4>2. Corrected(e.id)
        BY <2>2, <4>1 DEF Live
      <4> QED
        BY <1>5, <4>1, <4>2
    <3> QED
      BY <3>1, <3>2
  <2> QED
    BY <2>1, <2>2 DEF Live
<1>7. \A x \in Live(n, u) : Verified(x.id)' <=> Verified(x.id)
  BY <1>3, <1>4
<1> QED
  BY <1>6, <1>7 DEF VerifiedOf

\* The handlers that neither record nor settle a contribution.
OtherHandler ==
  \/ \E u \in Users : Join(u)
  \/ \E u \in Users : Leave(u) \/ RemoveDraftMember(u)
  \/ \E s \in Seeds : CommitLottery(s)
  \/ Start
  \/ \E n \in Numbers, k \in 0..Cardinality(Users) : CloseCycle(n, k)
  \/ \E u \in Users, current, turn, last \in Numbers :
       RemoveActiveMember(u, current, turn, last)
  \/ \E u \in Users : SharePayout(u)
  \/ \E u \in Consenting, granted \in BOOLEAN : SetConsent(u, granted)

Recording ==
  \E m, u \in Users, n \in Numbers, id \in EntryIds : Record(m, u, n, id)

\* e is verified while it waits, or corrected; a verified one only in an open cycle.
Settling(e, type, kind) ==
  /\ Settle(e, type, kind)
  /\ ~Corrected(e.id)
  /\ Verified(e.id) => e.cycle \in Open /\ type = "correction"

\* Every step records, settles, does neither, or changes nothing.
LEMMA StepKinds ==
  ASSUME CircleInv, [Next]_vars
  PROVE  \/ Recording
         \/ \E e \in Recorded, type \in Settlements, kind \in Kinds : Settling(e, type, kind)
         \/ OtherHandler
         \/ UNCHANGED vars
<1>1. \A e \in Recorded : Verify(e) \/ Reject(e) \/ Reverse(e) =>
        \E type \in Settlements, kind \in Kinds : Settling(e, type, kind)
  BY DEF Verify, Reject, Reverse, Pending, Settling, Settlements, Kinds
<1>2. \A u \in Leaving : Leave(u) \/ RemoveDraftMember(u) => u \in Users
  BY DEF Leave, RemoveDraftMember, Members, CircleInv, TypeOK
<1> QED
  BY <1>1, <1>2 DEF Next, Recording, OtherHandler

\* The entries of a close and of a removal from the running circle.
PaidOut(n) == [EntryOf("payout", None, n, cycles[n].payee, Organizer)
                 EXCEPT !.parts = VerifiedIds(n)]
ClosedBooks(n) == [EntryOf("cycle_closed", None, n, None, Organizer)
                     EXCEPT !.parts = VerifiedIds(n), !.unpaid = UnpaidUsers(n)]
Departure(u, n) == [EntryOf("member_removed", None, n, u, Organizer)
                      EXCEPT !.parts = PaidInBy(u)]

\* (closeCycle) A close appends the payout of what is verified and the unpaid members.
LEMMA CloseAppends ==
  ASSUME NEW n, NEW k, CloseCycle(n, k)
  PROVE  /\ Append({PaidOut(n), ClosedBooks(n)})
         /\ PaidOut(n).type = "payout" /\ PaidOut(n).cycle = n
         /\ PaidOut(n).subject = cycles[n].payee /\ PaidOut(n).parts = VerifiedIds(n)
         /\ ClosedBooks(n).type = "cycle_closed" /\ ClosedBooks(n).cycle = n
         /\ ClosedBooks(n).unpaid = UnpaidUsers(n)
  BY DEF CloseCycle, PaidOut, ClosedBooks, EntryOf

\* (removeFromActive) A removal appends what the member has paid in so far.
LEMMA RemovalAppends ==
  ASSUME NEW u, NEW current, NEW turn, NEW last, RemoveActiveMember(u, current, turn, last)
  PROVE  /\ Append({Departure(u, current)})
         /\ Departure(u, current).type = "member_removed"
         /\ Departure(u, current).cycle = current
         /\ Departure(u, current).subject = u
         /\ Departure(u, current).parts = PaidInBy(u)
  BY DEF RemoveActiveMember, Departure, EntryOf

\* The other handlers leave the contributions and their settlements alone.
LEMMA OtherCounts ==
  ASSUME OtherHandler
  PROVE  /\ Recorded' = Recorded
         /\ \A id : (Verified(id)' <=> Verified(id)) /\ (Corrected(id)' <=> Corrected(id))
         /\ \A n, u : Live(n, u)' = Live(n, u) /\ VerifiedOf(n, u)' = VerifiedOf(n, u)
         /\ \A s \in ledger' \ ledger : s.type \notin Settlements
<1> DEFINE Other(E) == \A e \in E : e.type \notin Settlements \cup {"contribution_recorded"}
<1>1. ASSUME NEW u, NEW actor PROVE Other({MemberEntry("member_added", u, actor)})
                                 /\ Other({MemberEntry("member_removed", u, actor)})
  BY DEF MemberEntry, EntryOf, Settlements
<1>2. Other({EntryOf("turn_order_set", None, 0, None, Organizer)})
  BY DEF EntryOf, Settlements
<1>3. ASSUME NEW n, NEW payee, NEW parts, NEW unpaid
      PROVE  Other({[EntryOf("payout", None, n, payee, Organizer) EXCEPT !.parts = parts],
                    [EntryOf("cycle_closed", None, n, None, Organizer)
                       EXCEPT !.parts = parts, !.unpaid = unpaid]})
  BY DEF EntryOf, Settlements
<1>4. ASSUME NEW n, NEW u, NEW parts
      PROVE  Other({[EntryOf("member_removed", None, n, u, Organizer) EXCEPT !.parts = parts]})
  BY DEF EntryOf, Settlements
<1>5. \E E : Append(E) /\ Other(E)
  <2>1. Append({}) <=> UNCHANGED ledger
    BY DEF Append
  <2>2. Other({})
    OBVIOUS
  <2>3. CASE UNCHANGED ledger
    BY <2>1, <2>2, <2>3
  <2>4. CASE \E u \in Users : Join(u) \/ Leave(u) \/ RemoveDraftMember(u)
    BY <1>1, <2>4 DEF Join, Leave, RemoveDraftMember, RemoveFromDraft
  <2>5. CASE Start
    BY <1>2, <2>5 DEF Start
  <2>6. CASE \E n \in Numbers, k \in 0..Cardinality(Users) : CloseCycle(n, k)
    <3>1. PICK n \in Numbers, k \in 0..Cardinality(Users) : CloseCycle(n, k)
      BY <2>6
    <3> DEFINE E == {PaidOut(n), ClosedBooks(n)}
    <3>2. Append(E)
      BY <3>1, CloseAppends
    <3>3. Other(E)
      BY <1>3 DEF PaidOut, ClosedBooks
    <3> QED
      BY <3>2, <3>3
  <2>7. CASE \E u \in Users, current, turn, last \in Numbers :
               RemoveActiveMember(u, current, turn, last)
    <3>1. PICK u \in Users, current \in Numbers, turn \in Numbers, last \in Numbers :
            RemoveActiveMember(u, current, turn, last)
      BY <2>7
    <3>2. Append({Departure(u, current)})
      BY <3>1, RemovalAppends
    <3>3. Other({Departure(u, current)})
      BY <1>4 DEF Departure
    <3> QED
      BY <3>2, <3>3
  <2> QED
    BY <2>3, <2>4, <2>5, <2>6, <2>7 DEF OtherHandler, CommitLottery, SharePayout, SetConsent
<1>6. \A E : Append(E) => ledger' \ ledger \subseteq E
  BY DEF Append
<1> QED
  BY <1>5, <1>6, AppendOther
-----------------------------------------------------------------------------
(***************************************************************************)
(* A closed cycle stays what it was.                                       *)
(***************************************************************************)

\* Recording and settling touch nothing but the ledger and the inbox.
LEMMA LedgerOnly ==
  ASSUME Recording \/ \E e \in Recorded, type \in Settlements, kind \in Kinds : Settling(e, type, kind)
  PROVE  UNCHANGED turnVars
  BY DEF Recording, Record, Settling, Settle, turnVars

\* No contribution of a member to a closed cycle they were in can be settled.
LEMMA NothingLeftToSettle ==
  ASSUME CircleInv, LedgerInv, NEW n \in Closed, NEW u \in InCycle(n),
         NEW e \in Recorded, NEW type \in Settlements, NEW kind, Settling(e, type, kind)
  PROVE  e \notin Live(n, u)
<1> SUFFICES ASSUME e \in Live(n, u) PROVE FALSE
  OBVIOUS
<1>1. e.cycle = n /\ n \notin Open /\ ~Verified(e.id)
  BY DEF Live, Settling, Closed
<1>2. AwaitingIds(n) = {}
  BY DEF LedgerInv, EveryoneAccounted, Closed
<1>3. e.id \in {x.id : x \in Live(n, u)}
  OBVIOUS
<1>4. e.id \in VerifiedIds(n)
  BY <1>2, <1>3 DEF AwaitingIds
<1> QED
  BY <1>1, <1>4 DEF VerifiedIds, VerifiedOf

\* Who was in a closed cycle, what they paid to it, what of it is verified, and who
\* received it, stay.
LEMMA ClosedCycleStays ==
  ASSUME CircleInv, LedgerInv, [Next]_vars, NEW n \in Closed
  PROVE  /\ n \in Closed' /\ cycles'[n].payee = cycles[n].payee
         /\ InCycle(n)' = InCycle(n)
         /\ \A u \in InCycle(n) : Live(n, u)' = Live(n, u) /\ VerifiedOf(n, u)' = VerifiedOf(n, u)
<1>1. status # "draft" /\ n \in DOMAIN cycles /\ ~cycles[n].open
  BY DEF CircleInv, TurnsWellFormed, Closed, Open
<1>2. CASE UNCHANGED <<rows, left, cycles>>
  <2>1. Closed' = Closed /\ InCycle(n)' = InCycle(n)
    BY <1>2 DEF Closed, Open, InCycle
  <2>2. CASE Recording
    <3>1. PICK m \in Users, u \in Users, k \in Numbers, id \in EntryIds : Record(m, u, k, id)
      BY <2>2 DEF Recording
    <3>2. k # n
      BY <3>1 DEF Record, Closed
    <3> QED
      BY <1>2, <2>1, <3>1, <3>2, RecordCounts
  <2>3. CASE \E e \in Recorded, type \in Settlements, kind \in Kinds : Settling(e, type, kind)
    <3>1. PICK e \in Recorded, type \in Settlements, kind \in Kinds : Settling(e, type, kind)
      BY <2>3
    <3>2. Settle(e, type, kind)
      BY <3>1 DEF Settling
    <3> QED
      BY <1>2, <2>1, <3>1, <3>2, NothingLeftToSettle, SettleElsewhere
  <2>4. CASE OtherHandler
    BY <1>2, <2>1, <2>4, OtherCounts
  <2>5. CASE UNCHANGED vars
    <3>1. \A u : Live(n, u)' = Live(n, u) /\ VerifiedOf(n, u)' = VerifiedOf(n, u)
      BY <2>5 DEF vars, Live, VerifiedOf, Recorded, Verified, Corrected
    <3> QED
      BY <1>2, <2>1, <3>1
  <2> QED
    BY <2>2, <2>3, <2>4, <2>5, StepKinds
<1>3. CASE \E m \in Numbers, k \in 0..Cardinality(Users) : CloseCycle(m, k)
  <2>1. PICK m \in Numbers, k \in 0..Cardinality(Users) : CloseCycle(m, k)
    BY <1>3
  <2>2. /\ DOMAIN cycles' = DOMAIN cycles /\ cycles'[n] = cycles[n]
        /\ InCycle(n)' = InCycle(n)
    BY <1>1, <2>1 DEF CloseCycle, IsCurrent, Open, InCycle, CircleInv, TypeOK
  <2>3. OtherHandler
    BY <1>3 DEF OtherHandler
  <2> QED
    BY <1>1, <2>2, <2>3, OtherCounts DEF Closed, Open
<1>4. CASE \E u \in Users, current, turn, last \in Numbers :
             RemoveActiveMember(u, current, turn, last)
  <2>1. PICK u \in Users, current \in Numbers, turn \in Numbers, last \in Numbers :
          RemoveActiveMember(u, current, turn, last)
    BY <1>4
  <2>2. /\ planned \in Nat /\ planned' = planned - 1 /\ turn \in 1..planned
        /\ DOMAIN cycles = 1..planned /\ DOMAIN cycles' = 1..planned'
        /\ current \in Open /\ current \in 1..planned'
        /\ \A i \in 1..planned : i >= turn => i \in Open
        /\ \A i \in 1..planned' :
             cycles'[i] = IF i >= turn THEN [open |-> TRUE, payee |-> cycles[i + 1].payee]
                                       ELSE cycles[i]
        /\ u \in Members
    BY <2>1, RemovalShape
  <2>3. n < current
    <3>1. ~(current < n)
      BY <1>1, <2>2 DEF CircleInv, ClosedInOrder, Open
    <3>2. current # n
      BY <1>1, <2>2 DEF Open
    <3> QED
      BY <1>1, <2>2, <3>1, <3>2
  <2>4. n < turn /\ n \in 1..planned'
    BY <1>1, <2>2, <2>3 DEF Open
  <2>5. cycles'[n] = cycles[n]
    BY <2>2, <2>4
  <2>6. InCycle(n)' = InCycle(n)
    BY <2>1, <2>2, <2>3 DEF RemoveActiveMember, InCycle, Members, CircleInv, TypeOK
  <2>7. OtherHandler
    BY <1>4 DEF OtherHandler
  <2> QED
    BY <1>1, <2>2, <2>4, <2>5, <2>6, <2>7, OtherCounts DEF Closed, Open
<1> QED
  BY <1>1, <1>2, <1>3, <1>4
  DEF Next, vars, Join, Leave, RemoveDraftMember, RemoveFromDraft, CommitLottery, Start, Record,
      Verify, Reject, Reverse, Settle, SharePayout, SetConsent
-----------------------------------------------------------------------------
(***************************************************************************)
(* What a step appends, and what it closes.                                *)
(***************************************************************************)

\* The ledger only grows; a payout is appended by a close, and the removal of a
\* member of the running circle by that removal.
LEMMA NewEntries ==
  ASSUME CircleInv, [Next]_vars
  PROVE  /\ ledger \subseteq ledger' /\ Recorded \subseteq Recorded'
         /\ \A x \in ledger' \ ledger :
              /\ x.type = "payout" =>
                   \E n \in Numbers, k \in 0..Cardinality(Users) : CloseCycle(n, k) /\ x = PaidOut(n)
              /\ x.type = "member_removed" /\ x.cycle # 0 =>
                   \E u \in Users, current, turn, last \in Numbers :
                     RemoveActiveMember(u, current, turn, last) /\ x = Departure(u, current)
<1> DEFINE
  Closing == \E n \in Numbers, k \in 0..Cardinality(Users) : CloseCycle(n, k)
  Removing == \E u \in Users, current, turn, last \in Numbers :
                RemoveActiveMember(u, current, turn, last)
  Drafting == \E u : Join(u) \/ Leave(u) \/ RemoveDraftMember(u)
  Judging == \E e \in Recorded : Verify(e) \/ Reject(e) \/ Reverse(e)
<1>1. CASE Closing
  <2>1. PICK n \in Numbers, k \in 0..Cardinality(Users) : CloseCycle(n, k)
    BY <1>1
  <2>2. /\ ledger' = ledger \cup {PaidOut(n), ClosedBooks(n)}
        /\ PaidOut(n).type = "payout" /\ ClosedBooks(n).type = "cycle_closed"
    BY <2>1, CloseAppends DEF Append
  <2>3. ledger \subseteq ledger' /\ Recorded \subseteq Recorded'
    BY <2>2 DEF Recorded
  <2>4. \A x \in ledger' \ ledger : x = PaidOut(n) \/ x.type = "cycle_closed"
    BY <2>2
  <2> QED
    BY <2>1, <2>2, <2>3, <2>4
<1>2. CASE Removing
  <2>1. PICK u \in Users, current \in Numbers, turn \in Numbers, last \in Numbers :
          RemoveActiveMember(u, current, turn, last)
    BY <1>2
  <2>2. ledger' = ledger \cup {Departure(u, current)} /\ Departure(u, current).type = "member_removed"
    BY <2>1, RemovalAppends DEF Append
  <2> QED
    BY <2>1, <2>2 DEF Recorded
<1>3. CASE Drafting
  BY <1>3 DEF Join, Leave, RemoveDraftMember, RemoveFromDraft, Append, MemberEntry, EntryOf, Recorded
<1>4. CASE Start
  BY <1>4 DEF Start, Append, EntryOf, Recorded
<1>5. CASE Recording
  BY <1>5 DEF Recording, Record, Append, EntryOf, Recorded
<1>6. CASE Judging
  <2>1. PICK e \in Recorded, type \in Settlements, kind \in Kinds : Settle(e, type, kind)
    BY <1>6 DEF Verify, Reject, Reverse, Settlements, Kinds
  <2>2. /\ ledger \subseteq ledger'
        /\ \A x \in ledger' \ ledger : x.type = type
    BY <2>1 DEF Settle, Append, EntryOf
  <2> QED
    BY <2>1, <2>2 DEF Settlements, Recorded
<1>7. CASE UNCHANGED ledger
  BY <1>7 DEF Recorded
<1>8. \/ Closing \/ Removing \/ Drafting \/ Start \/ Recording \/ Judging
      \/ UNCHANGED ledger
  BY DEF Next, vars, Recording, CommitLottery, SharePayout, SetConsent
<1> HIDE DEF Closing, Removing, Drafting, Judging
<1> QED
  BY <1>1, <1>2, <1>3, <1>4, <1>5, <1>6, <1>7, <1>8

\* A cycle becomes closed only by being closed.
LEMMA NewlyClosed ==
  ASSUME CircleInv, [Next]_vars, NEW n \in Closed', n \notin Closed
  PROVE  n \in Open /\ n \in Numbers /\ \E k \in 0..Cardinality(Users) : CloseCycle(n, k)
<1>1. CASE \E m \in Numbers, k \in 0..Cardinality(Users) : CloseCycle(m, k)
  <2>1. PICK m \in Numbers, k \in 0..Cardinality(Users) : CloseCycle(m, k)
    BY <1>1
  <2>2. DOMAIN cycles' = DOMAIN cycles /\ \A i \in DOMAIN cycles : i # m => cycles'[i] = cycles[i]
    BY <2>1 DEF CloseCycle
  <2>3. n = m
    BY <2>2 DEF Closed, Open
  <2> QED
    BY <2>1, <2>3 DEF CloseCycle, IsCurrent
<1>2. CASE \E u \in Users, current, turn, last \in Numbers :
             RemoveActiveMember(u, current, turn, last)
  <2>1. PICK u \in Users, current \in Numbers, turn \in Numbers, last \in Numbers :
          RemoveActiveMember(u, current, turn, last)
    BY <1>2
  <2>2. /\ planned \in Nat /\ planned' = planned - 1
        /\ DOMAIN cycles = 1..planned /\ DOMAIN cycles' = 1..planned'
        /\ \A i \in 1..planned' : i \in Open' <=> i \in Open
    BY <2>1, RemovalShape
  <2> QED
    BY <2>2 DEF Closed
<1>3. CASE Start
  BY <1>3 DEF Start, Orderings, Closed, Open
<1>4. CASE UNCHANGED cycles
  BY <1>4 DEF Closed, Open
<1> QED
  BY <1>1, <1>2, <1>3, <1>4
  DEF Next, vars, Join, Leave, RemoveDraftMember, RemoveFromDraft, CommitLottery, Record,
      Verify, Reject, Reverse, Settle, SharePayout, SetConsent

\* Once the circle runs no member comes and no cycle is added or reopened; who was
\* removed stays removed.
LEMMA NobodyComesBack ==
  ASSUME CircleInv, [Next]_vars, status # "draft"
  PROVE  /\ status' # "draft"
         /\ Members' \subseteq Members /\ rows \subseteq rows' /\ Open' \subseteq Open
         /\ \A u \in rows : left[u] # 0 => left'[u] = left[u]
<1>1. CASE \E n \in Numbers, k \in 0..Cardinality(Users) : CloseCycle(n, k)
  <2>1. PICK n \in Numbers, k \in 0..Cardinality(Users) : CloseCycle(n, k)
    BY <1>1
  <2>2. DOMAIN cycles' = DOMAIN cycles /\ \A i \in DOMAIN cycles : i # n => cycles'[i] = cycles[i]
    BY <2>1 DEF CloseCycle
  <2>3. n \in Open /\ UNCHANGED <<rows, left>> /\ status' # "draft"
    BY <2>1 DEF CloseCycle, IsCurrent
  <2> QED
    BY <2>2, <2>3 DEF Members, Open
<1>2. CASE \E u \in Users, current, turn, last \in Numbers :
             RemoveActiveMember(u, current, turn, last)
  <2>1. PICK u \in Users, current \in Numbers, turn \in Numbers, last \in Numbers :
          RemoveActiveMember(u, current, turn, last)
    BY <1>2
  <2>2. /\ status' = "active" /\ Members' = Members \ {u} /\ u \in Members
        /\ DOMAIN cycles' = 1..planned' /\ \A i \in 1..planned' : i \in Open' <=> i \in Open
    BY <2>1, RemovalShape
  <2>3. rows' = rows /\ \A w \in rows : left[w] # 0 => left'[w] = left[w]
    BY <2>1, <2>2 DEF RemoveActiveMember, Members, CircleInv, TypeOK
  <2> QED
    BY <2>2, <2>3 DEF Open
<1>3. CASE UNCHANGED <<status, rows, left, cycles>>
  BY <1>3 DEF Members, Open
<1> QED
  BY <1>1, <1>2, <1>3
  DEF Next, vars, Join, Leave, RemoveDraftMember, CommitLottery, Start, Record,
      Verify, Reject, Reverse, Settle, SharePayout, SetConsent

\* A settled contribution stays on record, and the counts only shrink.
LEMMA SettleShrinks ==
  ASSUME NEW e \in Recorded, NEW type \in Settlements, NEW kind, Settle(e, type, kind)
  PROVE  /\ Recorded' = Recorded
         /\ \A n, u : Live(n, u)' \subseteq Live(n, u)
<1>1. /\ ledger' = ledger \cup {EntryOf(type, e.id, e.cycle, e.subject, Organizer)}
      /\ EntryOf(type, e.id, e.cycle, e.subject, Organizer).type = type
  BY DEF Settle, Append, EntryOf
<1>2. Recorded' = Recorded
  BY <1>1 DEF Recorded, Settlements
<1>3. \A i : Corrected(i) => Corrected(i)'
  BY <1>1 DEF Corrected
<1> QED
  BY <1>2, <1>3 DEF Live
-----------------------------------------------------------------------------
(***************************************************************************)
(* The parts of LedgerInv, one after the other.                            *)
(***************************************************************************)

\* (record, reject, reverse) A second contribution to a cycle is recorded only after
\* the first was corrected, and an id is never recorded again.
LEMMA OneLiveStep ==
  ASSUME CircleInv, LedgerInv, [Next]_vars
  PROVE  EntryIdsUnique' /\ LiveAtMostOne'
<1>1. CASE Recording
  <2>1. PICK m \in Users, u \in Users, n \in Numbers, id \in EntryIds : Record(m, u, n, id)
    BY <1>1 DEF Recording
  <2> DEFINE new == EntryOf("contribution_recorded", id, n, u, m)
  <2>2. /\ Recorded' = Recorded \cup {new} /\ \A e \in Recorded : e.id # id
        /\ Live(n, u)' = {new}
        /\ \A k, w : k # n \/ w # u => Live(k, w)' = Live(k, w)
    BY <2>1, RecordCounts
  <2>3. new.id = id
    BY DEF EntryOf
  <2>4. EntryIdsUnique'
    BY <2>2, <2>3 DEF LedgerInv, EntryIdsUnique
  <2>5. LiveAtMostOne'
    <3> SUFFICES ASSUME NEW k \in Numbers, NEW w \in Users, NEW e \in Live(k, w)', NEW f \in Live(k, w)'
                 PROVE  e = f
      BY DEF LiveAtMostOne
    <3>1. CASE k = n /\ w = u
      BY <2>2, <3>1
    <3>2. CASE k # n \/ w # u
      BY <2>2, <3>2 DEF LedgerInv, LiveAtMostOne
    <3> QED
      BY <3>1, <3>2
  <2> QED
    BY <2>4, <2>5
<1>2. CASE \E e \in Recorded, type \in Settlements, kind \in Kinds : Settling(e, type, kind)
  <2>1. Recorded' = Recorded /\ \A n, u : Live(n, u)' \subseteq Live(n, u)
    BY <1>2, SettleShrinks DEF Settling
  <2> QED
    BY <2>1 DEF LedgerInv, EntryIdsUnique, LiveAtMostOne
<1>3. CASE OtherHandler
  <2>1. Recorded' = Recorded /\ \A n, u : Live(n, u)' = Live(n, u)
    BY <1>3, OtherCounts
  <2> QED
    BY <2>1 DEF LedgerInv, EntryIdsUnique, LiveAtMostOne
<1>4. CASE UNCHANGED vars
  BY <1>4 DEF vars, LedgerInv, EntryIdsUnique, LiveAtMostOne, Live, Recorded, Corrected
<1> QED
  BY <1>1, <1>2, <1>3, <1>4, StepKinds

\* (pending, reverse) Only a contribution on record is settled, and no row is deleted.
LEMMA SettlesRecordedStep ==
  ASSUME CircleInv, LedgerInv, [Next]_vars
  PROVE  SettlesRecorded'
<1> SUFFICES ASSUME NEW s \in ledger', s.type \in Settlements
             PROVE  \E e \in Recorded' : e.id = s.id
  BY DEF SettlesRecorded
<1>1. Recorded \subseteq Recorded'
  BY NewEntries
<1>2. CASE s \in ledger
  BY <1>1, <1>2 DEF LedgerInv, SettlesRecorded
<1>3. CASE s \notin ledger /\ Recording
  BY <1>3 DEF Recording, Record, Append, EntryOf, Settlements
<1>4. CASE s \notin ledger /\ \E e \in Recorded, type \in Settlements, kind \in Kinds : Settling(e, type, kind)
  BY <1>1, <1>4 DEF Settling, Settle, Append, EntryOf
<1>5. CASE s \notin ledger /\ OtherHandler
  BY <1>5, OtherCounts
<1> QED
  BY <1>2, <1>3, <1>4, <1>5, StepKinds DEF vars

\* (start) No money moves in a draft, and a circle never becomes a draft again.
LEMMA QuietDraftStep ==
  ASSUME CircleInv, LedgerInv, [Next]_vars
  PROVE  QuietDraft'
<1> SUFFICES ASSUME status' = "draft"
             PROVE  \A e \in ledger' : e.type \in {"member_added", "member_removed"} /\ e.cycle = 0
  BY DEF QuietDraft
<1>1. status = "draft"
  BY NobodyComesBack
<1>2. \A e \in ledger : e.type \in {"member_added", "member_removed"} /\ e.cycle = 0
  BY <1>1 DEF LedgerInv, QuietDraft
<1>3. Recorded = {}
  BY <1>2 DEF Recorded
<1>4. CASE \E u : Join(u) \/ Leave(u) \/ RemoveDraftMember(u)
  BY <1>2, <1>4
  DEF Join, Leave, RemoveDraftMember, RemoveFromDraft, Append, MemberEntry, EntryOf
<1>5. CASE UNCHANGED ledger
  BY <1>2, <1>5
<1> QED
  BY <1>1, <1>3, <1>4, <1>5
  DEF Next, vars, Start, Record, CloseCycle, RemoveActiveMember, CommitLottery, SharePayout, SetConsent

\* (closeCycle) The payout and the end of the cycle commit together.
LEMMA PayoutsAreClosedStep ==
  ASSUME CircleInv, LedgerInv, [Next]_vars
  PROVE  PayoutsAreClosed'
<1> SUFFICES ASSUME NEW p \in ledger', p.type = "payout"
             PROVE  p.cycle \in Closed'
  BY DEF PayoutsAreClosed
<1>1. CASE p \in ledger
  <2>1. p.cycle \in Closed
    BY <1>1 DEF LedgerInv, PayoutsAreClosed
  <2> QED
    BY <2>1, ClosedCycleStays
<1>2. CASE p \notin ledger
  <2>1. PICK n \in Numbers, k \in 0..Cardinality(Users) : CloseCycle(n, k) /\ p = PaidOut(n)
    BY <1>2, NewEntries
  <2>2. p.cycle = n
    BY <2>1, CloseAppends
  <2>3. /\ n \in DOMAIN cycles /\ cycles \in [DOMAIN cycles -> CycleRow]
        /\ cycles' = [cycles EXCEPT ![n].open = FALSE]
    BY <2>1 DEF CloseCycle, IsCurrent, Open, CircleInv, TypeOK
  <2> QED
    BY <2>2, <2>3 DEF Closed, Open, CycleRow
<1> QED
  BY <1>1, <1>2

\* (removeFromActive) The entry of a removal names the cycle then running, the
\* departure stays what it was and cycles only close.
LEMMA RemovalsPastStep ==
  ASSUME CircleInv, LedgerInv, [Next]_vars
  PROVE  RemovalsPast'
<1> DEFINE Past(r) == /\ r.subject \in rows /\ left[r.subject] = r.cycle
                      /\ \A n \in Open : r.cycle <= n
                      /\ r.parts \subseteq {e.id : e \in Recorded}
<1> SUFFICES ASSUME NEW r \in ledger', r.type = "member_removed", r.cycle # 0
             PROVE  Past(r)'
  BY DEF RemovalsPast
<1>1. CASE r \in ledger
  <2>1. Past(r)
    BY <1>1 DEF LedgerInv, RemovalsPast
  <2>2. status # "draft"
    BY <1>1 DEF LedgerInv, QuietDraft
  <2>3. /\ rows \subseteq rows' /\ Open' \subseteq Open
        /\ \A u \in rows : left[u] # 0 => left'[u] = left[u]
    BY <2>2, NobodyComesBack
  <2>4. Recorded \subseteq Recorded'
    BY NewEntries
  <2> QED
    BY <2>1, <2>3, <2>4
<1>2. CASE r \notin ledger
  <2>1. PICK u \in Users, current \in Numbers, turn \in Numbers, last \in Numbers :
          RemoveActiveMember(u, current, turn, last) /\ r = Departure(u, current)
    BY <1>2, NewEntries
  <2>2. r.subject = u /\ r.cycle = current /\ r.parts = PaidInBy(u)
    BY <2>1, RemovalAppends
  <2>3. /\ u \in rows /\ rows' = rows /\ left' = [left EXCEPT ![u] = current]
        /\ left \in [Users -> Numbers \cup {0}]
    BY <2>1 DEF RemoveActiveMember, Members, CircleInv, TypeOK
  <2>4. \A n \in Open' : current <= n
    <3>1. \A n \in Open : current <= n
      BY <2>1 DEF RemoveActiveMember, IsCurrent
    <3>2. Open' \subseteq Open
      BY <2>1, NobodyComesBack DEF RemoveActiveMember
    <3> QED
      BY <3>1, <3>2
  <2>5. PaidInBy(u) \subseteq {e.id : e \in Recorded}
    BY DEF PaidInBy, VerifiedOf, Live
  <2>6. Recorded \subseteq Recorded'
    BY NewEntries
  <2> QED
    BY <2>2, <2>3, <2>4, <2>5, <2>6
<1> QED
  BY <1>1, <1>2

\* (closeCycle, reverse) The payout of a new close is what was verified then; that of
\* an earlier one is as it was, because a closed cycle stays.
LEMMA PayoutBackedStep ==
  ASSUME CircleInv, LedgerInv, [Next]_vars
  PROVE  PayoutBacked'
<1> DEFINE Payouts(n) == {e \in ledger : e.type = "payout" /\ e.cycle = n}
           Backed(n) == \E p \in Payouts(n) : /\ Payouts(n) = {p}
                                             /\ p.subject = cycles[n].payee
                                             /\ p.parts = VerifiedIds(n)
<1>1. \A n \in Open' : Payouts(n)' = {}
  BY PayoutsAreClosedStep DEF PayoutsAreClosed, Closed
<1>2. ASSUME NEW n \in Closed', n \in Closed PROVE Backed(n)'
  <2>1. PICK p \in Payouts(n) : /\ Payouts(n) = {p}
                                /\ p.subject = cycles[n].payee
                                /\ p.parts = VerifiedIds(n)
    BY <1>2 DEF LedgerInv, PayoutBacked, Closed
  <2>2. /\ cycles'[n].payee = cycles[n].payee
        /\ InCycle(n)' = InCycle(n)
        /\ \A u \in InCycle(n) : VerifiedOf(n, u)' = VerifiedOf(n, u)
    BY <1>2, ClosedCycleStays
  <2>3. VerifiedIds(n)' = VerifiedIds(n)
    BY <2>2 DEF VerifiedIds
  <2>4. Payouts(n)' = Payouts(n)
    <3>1. ledger \subseteq ledger'
      BY NewEntries
    <3>2. ASSUME NEW q \in ledger' \ ledger, q.type = "payout" PROVE q.cycle # n
      <4>1. PICK m \in Numbers, k \in 0..Cardinality(Users) : CloseCycle(m, k) /\ q = PaidOut(m)
        BY <3>2, NewEntries
      <4>2. q.cycle = m
        BY <4>1, CloseAppends
      <4>3. m \in Open
        BY <4>1 DEF CloseCycle, IsCurrent
      <4> QED
        BY <1>2, <4>2, <4>3 DEF Closed
    <3> QED
      BY <3>1, <3>2
  <2> QED
    BY <2>1, <2>2, <2>3, <2>4
<1>3. ASSUME NEW n \in Closed', n \notin Closed PROVE Backed(n)'
  <2>1. PICK k \in 0..Cardinality(Users) : CloseCycle(n, k)
    BY <1>3, NewlyClosed
  <2>2. n \in Open /\ n \in DOMAIN cycles
    BY <1>3, NewlyClosed DEF Open
  <2>3. Payouts(n) = {}
    BY <2>2 DEF LedgerInv, PayoutBacked
  <2>4. Payouts(n)' = {PaidOut(n)}
    <3>1. /\ ledger' = ledger \cup {PaidOut(n), ClosedBooks(n)}
          /\ PaidOut(n).type = "payout" /\ PaidOut(n).cycle = n
          /\ ClosedBooks(n).type # "payout"
      BY <2>1, CloseAppends DEF Append
    <3> QED
      BY <2>3, <3>1
  <2>5. PaidOut(n).subject = cycles'[n].payee
    <3>1. PaidOut(n).subject = cycles[n].payee
      BY <2>1, CloseAppends
    <3>2. cycles' = [cycles EXCEPT ![n].open = FALSE] /\ cycles \in [DOMAIN cycles -> CycleRow]
      BY <2>1 DEF CloseCycle, CircleInv, TypeOK
    <3> QED
      BY <2>2, <3>1, <3>2 DEF CycleRow
  <2>6. VerifiedIds(n)' = VerifiedIds(n)
    <3>1. InCycle(n)' = InCycle(n)
      BY <2>1 DEF CloseCycle, InCycle
    <3>2. \A u : VerifiedOf(n, u)' = VerifiedOf(n, u)
      BY <1>3, <2>1, NewlyClosed, OtherCounts DEF OtherHandler
    <3> QED
      BY <3>1, <3>2 DEF VerifiedIds
  <2>7. PaidOut(n).parts = VerifiedIds(n)
    BY <2>1, CloseAppends
  <2> QED
    BY <2>4, <2>5, <2>6, <2>7
<1> QED
  BY <1>1, <1>2, <1>3 DEF PayoutBacked, Closed

\* (closeCycle) A close is refused while a contribution waits or an unpaid member is
\* not acknowledged; afterwards nothing of it changes.
LEMMA EveryoneAccountedStep ==
  ASSUME CircleInv, LedgerInv, [Next]_vars
  PROVE  EveryoneAccounted'
<1> DEFINE Account(c, n) ==
      /\ c.type = "cycle_closed" /\ c.cycle = n
      /\ \A u \in Members \ {cycles[n].payee} :
           IF u \in c.unpaid THEN Live(n, u) = {}
                             ELSE Cardinality(VerifiedOf(n, u)) = 1
<1> SUFFICES ASSUME NEW n \in Closed'
             PROVE  AwaitingIds(n)' = {} /\ \E c \in ledger' : Account(c, n)'
  BY DEF EveryoneAccounted, Closed
<1>1. ledger \subseteq ledger'
  BY NewEntries
<1>2. CASE n \in Closed
  <2>1. AwaitingIds(n) = {} /\ \E c \in ledger : Account(c, n)
    BY <1>2 DEF LedgerInv, EveryoneAccounted, Closed
  <2>2. /\ cycles'[n].payee = cycles[n].payee
        /\ InCycle(n)' = InCycle(n)
        /\ \A u \in InCycle(n) : Live(n, u)' = Live(n, u) /\ VerifiedOf(n, u)' = VerifiedOf(n, u)
    BY <1>2, ClosedCycleStays
  <2>3. AwaitingIds(n)' = AwaitingIds(n)
    BY <2>2 DEF AwaitingIds, VerifiedIds
  <2>4. Members' \subseteq Members
    BY <1>2, NobodyComesBack DEF Closed, CircleInv, TurnsWellFormed
  <2>5. Members \subseteq InCycle(n)
    BY DEF Members, InCycle
  <2> QED
    BY <1>1, <2>1, <2>2, <2>3, <2>4, <2>5
<1>3. CASE n \notin Closed
  <2>1. PICK k \in 0..Cardinality(Users) : CloseCycle(n, k)
    BY <1>3, NewlyClosed
  <2>2. n \in Numbers /\ n \in Open /\ n \in DOMAIN cycles
    BY <1>3, NewlyClosed DEF Open
  <2>3. /\ InCycle(n)' = InCycle(n) /\ Members' = Members
        /\ cycles'[n].payee = cycles[n].payee
    <3>1. /\ UNCHANGED <<rows, left>> /\ cycles' = [cycles EXCEPT ![n].open = FALSE]
          /\ cycles \in [DOMAIN cycles -> CycleRow]
      BY <2>1 DEF CloseCycle, CircleInv, TypeOK
    <3> QED
      BY <2>2, <3>1 DEF InCycle, Members, CycleRow
  <2>4. \A u : Live(n, u)' = Live(n, u) /\ VerifiedOf(n, u)' = VerifiedOf(n, u)
    BY <2>1, <2>2, OtherCounts DEF OtherHandler
  <2>5. AwaitingIds(n) = {} /\ AwaitingIds(n)' = {}
    <3>1. AwaitingIds(n) = {}
      BY <2>1 DEF CloseCycle, NothingWaiting
    <3> QED
      BY <2>3, <2>4, <3>1 DEF AwaitingIds, VerifiedIds
  <2>6. PICK c \in ledger' :
          c.type = "cycle_closed" /\ c.cycle = n /\ c.unpaid = UnpaidUsers(n)
    BY <2>1, CloseAppends DEF Append
  <2>7. ASSUME NEW u \in Members, u # cycles[n].payee, u \notin UnpaidUsers(n)
        PROVE  Cardinality(VerifiedOf(n, u)) = 1
    <3>1. u \in InCycle(n) /\ u \in Users
      BY DEF Members, InCycle, CircleInv, TypeOK
    <3>2. PICK e : e \in Live(n, u)
      BY <2>7, <3>1 DEF UnpaidUsers
    <3>3. \A f \in Live(n, u) : f = e
      BY <2>2, <3>1, <3>2 DEF LedgerInv, LiveAtMostOne
    <3>4. Live(n, u) = {e}
      BY <3>2, <3>3
    <3>5. e.id \in VerifiedIds(n)
      <4>1. e.id \in {x.id : x \in Live(n, u)}
        BY <3>2
      <4> QED
        BY <2>5, <3>1, <4>1 DEF AwaitingIds
    <3>6. Verified(e.id)
      BY <3>5 DEF VerifiedIds, VerifiedOf
    <3>7. VerifiedOf(n, u) = {e.id}
      BY <3>4, <3>6 DEF VerifiedOf
    <3> QED
      BY <3>7, FS_Singleton
  <2>8. \A u \in Members \ {cycles[n].payee} :
          IF u \in UnpaidUsers(n) THEN Live(n, u) = {} ELSE Cardinality(VerifiedOf(n, u)) = 1
    BY <2>7 DEF UnpaidUsers
  <2>9. \A u \in Members' \ {cycles'[n].payee} :
          IF u \in c.unpaid THEN Live(n, u)' = {} ELSE Cardinality(VerifiedOf(n, u)') = 1
    BY <2>3, <2>4, <2>6, <2>8
  <2>10. Account(c, n)'
    BY <2>6, <2>9
  <2> QED
    BY <2>5, <2>6, <2>10
<1> QED
  BY <1>2, <1>3

\* (removeFromActive) What a removal counts of the cycles before it is settled: those
\* are closed, and stay as they were.
LEMMA RemovalAccountedStep ==
  ASSUME CircleInv, LedgerInv, [Next]_vars
  PROVE  RemovalAccounted'
<1> DEFINE Listed(r) == {e.id : e \in {x \in Recorded : x.id \in r.parts /\ x.cycle < r.cycle}}
           Before(r) == {m \in DOMAIN cycles : m < r.cycle}
           Counted(r) == UNION {VerifiedOf(n, r.subject) : n \in Before(r)}
<1> SUFFICES ASSUME NEW r \in ledger', r.type = "member_removed", r.cycle # 0
             PROVE  Listed(r)' = Counted(r)'
  BY DEF RemovalAccounted
<1>1. CASE r \in ledger
  <2>1. /\ Listed(r) = Counted(r) /\ r.subject \in rows /\ left[r.subject] = r.cycle
        /\ \A n \in Open : r.cycle <= n
        /\ r.parts \subseteq {e.id : e \in Recorded}
    BY <1>1 DEF LedgerInv, RemovalAccounted, RemovalsPast
  <2>2. \A n \in Open' : r.cycle <= n
    BY RemovalsPastStep DEF RemovalsPast
  <2>3. left[r.subject] \in Nat /\ DOMAIN cycles \subseteq Nat /\ DOMAIN cycles' \subseteq Nat
    BY <2>1, NextCircleInv DEF CircleInv, TypeOK, Numbers
  <2>4. \A n \in Before(r) : n \in Closed /\ r.subject \in InCycle(n)
    BY <2>1, <2>3 DEF Closed, InCycle
  <2>5. \A n \in Before(r) : n \in Closed' /\ VerifiedOf(n, r.subject)' = VerifiedOf(n, r.subject)
    BY <2>4, ClosedCycleStays
  <2>6. Before(r)' = Before(r)
    <3>1. Before(r) \subseteq Before(r)'
      BY <2>5 DEF Closed
    <3>2. ASSUME NEW n \in Before(r)' PROVE n \in Before(r)
      <4>1. n \in Closed'
        BY <2>1, <2>2, <2>3 DEF Closed
      <4>2. n \in Closed
        BY <2>1, <2>3, <4>1, NewlyClosed
      <4> QED
        BY <4>2 DEF Closed
    <3> QED
      BY <3>1, <3>2
  <2>7. Counted(r)' = Counted(r)
    BY <2>5, <2>6
  <2>8. Listed(r)' = Listed(r)
    <3>1. \A e \in Recorded' : e.id \in r.parts => e \in Recorded
      <4>1. CASE Recording
        <5>1. PICK m \in Users, u \in Users, n \in Numbers, id \in EntryIds : Record(m, u, n, id)
          BY <4>1 DEF Recording
        <5> DEFINE new == EntryOf("contribution_recorded", id, n, u, m)
        <5>2. Recorded' = Recorded \cup {new} /\ \A e \in Recorded : e.id # id
          BY <5>1, RecordCounts
        <5>3. new.id = id
          BY DEF EntryOf
        <5> QED
          BY <2>1, <5>2, <5>3
      <4>2. CASE \E e \in Recorded, type \in Settlements, kind \in Kinds : Settling(e, type, kind)
        BY <4>2, SettleShrinks DEF Settling
      <4>3. CASE OtherHandler
        BY <4>3, OtherCounts
      <4>4. CASE UNCHANGED vars
        BY <4>4 DEF vars, Recorded
      <4> QED
        BY <4>1, <4>2, <4>3, <4>4, StepKinds
    <3>2. Recorded \subseteq Recorded'
      BY NewEntries
    <3> QED
      BY <3>1, <3>2
  <2> QED
    BY <2>1, <2>7, <2>8
<1>2. CASE r \notin ledger
  <2>1. PICK u \in Users, current \in Numbers, turn \in Numbers, last \in Numbers :
          RemoveActiveMember(u, current, turn, last) /\ r = Departure(u, current)
    BY <1>2, NewEntries
  <2>2. r.subject = u /\ r.cycle = current /\ r.parts = PaidInBy(u)
    BY <2>1, RemovalAppends
  <2>3. Recorded' = Recorded /\ \A n, w : VerifiedOf(n, w)' = VerifiedOf(n, w)
    BY <2>1, OtherCounts DEF OtherHandler
  <2>4. Before(r)' = Before(r)
    <3>1. /\ planned \in Nat /\ planned' = planned - 1 /\ current \in 1..planned'
          /\ DOMAIN cycles = 1..planned /\ DOMAIN cycles' = 1..planned'
      BY <2>1, RemovalShape
    <3> QED
      BY <2>2, <3>1
  <2>5. \A n : u \in InCycle(n)
    BY <2>1 DEF RemoveActiveMember, Members, InCycle
  <2>6. PaidInBy(u) = UNION {VerifiedOf(n, u) : n \in DOMAIN cycles}
    BY <2>5 DEF PaidInBy
  <2>7. ASSUME NEW x \in Recorded, x.id \in r.parts, x.cycle < r.cycle
        PROVE  x.id \in Counted(r)
    <3>1. PICK n \in DOMAIN cycles : x.id \in VerifiedOf(n, u)
      BY <2>2, <2>6, <2>7
    <3>2. PICK y \in Live(n, u) : y.id = x.id
      BY <3>1 DEF VerifiedOf
    <3>3. x.cycle = n
      BY <3>2 DEF Live, LedgerInv, EntryIdsUnique
    <3> QED
      BY <2>2, <2>7, <3>1, <3>3
  <2>8. ASSUME NEW n \in Before(r), NEW i \in VerifiedOf(n, u)
        PROVE  i \in Listed(r)
    <3>1. PICK y \in Live(n, u) : y.id = i
      BY DEF VerifiedOf
    <3>2. i \in r.parts
      BY <2>2, <2>6, <2>8
    <3> QED
      BY <3>1, <3>2 DEF Live
  <2>9. Listed(r) = Counted(r)
    <3>1. Listed(r) \subseteq Counted(r)
      BY <2>7
    <3>2. Counted(r) \subseteq Listed(r)
      BY <2>2, <2>8
    <3> QED
      BY <3>1, <3>2
  <2> QED
    BY <2>3, <2>4, <2>9
<1> QED
  BY <1>1, <1>2

\* Every handler keeps the accounts of the ledger.
LEMMA LedgerInvStep == CircleInv /\ LedgerInv /\ [Next]_vars => LedgerInv'
  BY OneLiveStep, SettlesRecordedStep, QuietDraftStep, PayoutsAreClosedStep, RemovalsPastStep,
     PayoutBackedStep, EveryoneAccountedStep, RemovalAccountedStep
  DEF LedgerInv

\* The circle begins with the entry of its organizer.
LEMMA InitLedgerInv == Init => LedgerInv
<1> SUFFICES ASSUME Init PROVE LedgerInv
  OBVIOUS
<1>1. /\ status = "draft" /\ DOMAIN cycles = {}
      /\ \A e \in ledger : e.type = "member_added" /\ e.cycle = 0
  BY DEF Init, MemberEntry, EntryOf
<1>2. Recorded = {} /\ \A n, u : Live(n, u) = {}
  BY <1>1 DEF Recorded, Live
<1> QED
  BY <1>1, <1>2
  DEF LedgerInv, EntryIdsUnique, LiveAtMostOne, SettlesRecorded, Settlements, QuietDraft,
      PayoutsAreClosed, RemovalsPast, PayoutBacked, EveryoneAccounted, RemovalAccounted
-----------------------------------------------------------------------------
(***************************************************************************)
(* The theorems.                                                           *)
(***************************************************************************)

\* The ledger of a circle keeps its accounts, for every set of users, number of seats
\* and set of entry ids.
THEOREM LedgerInvariant == Spec => []LedgerInv
<1> QED
  BY InitLedgerInv, LedgerInvStep, CircleInvariant, PTL DEF Spec

\* A member has at most one uncorrected contribution to a cycle, and an id records one
\* contribution, however requests are retried, rejected and repeated (record).
THEOREM CircleRecordsOnce == Spec => []OneRecordEach
<1>1. LedgerInv => OneRecordEach
  <2> SUFFICES ASSUME LedgerInv, NEW n \in Numbers, NEW u \in Users
               PROVE  Cardinality(Live(n, u)) <= 1
    BY DEF OneRecordEach, OneLiveContribution, LedgerInv
  <2>1. CASE Live(n, u) = {}
    BY <2>1, FS_EmptySet
  <2>2. CASE Live(n, u) # {}
    <3>1. PICK e : e \in Live(n, u)
      BY <2>2
    <3>2. Live(n, u) = {e}
      BY <3>1 DEF LedgerInv, LiveAtMostOne
    <3>3. Cardinality({e}) = 1
      BY FS_Singleton
    <3> QED
      BY <3>2, <3>3
  <2> QED
    BY <2>1, <2>2
<1> QED
  BY <1>1, LedgerInvariant, PTL

\* A payout is backed for ever by exactly the contributions verified in its cycle
\* (closeCycle, pending).
THEOREM CirclePayoutsBacked == Spec => []PayoutBacked
<1>1. LedgerInv => PayoutBacked
  BY DEF LedgerInv
<1> QED
  BY <1>1, LedgerInvariant, PTL

\* A close accounts for every member: paid and verified, or acknowledged as unpaid
\* (closeCycle).
THEOREM CircleAccountsForEveryone == Spec => []EveryoneAccounted
<1>1. LedgerInv => EveryoneAccounted
  BY DEF LedgerInv
<1> QED
  BY <1>1, LedgerInvariant, PTL

\* What a removal records as paid in stays true of the closed cycles (removeMember).
THEOREM CircleAccountsForTheRemoved == Spec => []RemovalAccounted
<1>1. LedgerInv => RemovalAccounted
  BY DEF LedgerInv
<1> QED
  BY <1>1, LedgerInvariant, PTL

\* Nobody receives the pot twice, and in a completed circle everybody has.
THEOREM CirclePaysOnce == Spec => []PotOnce
<1>1. CircleInv /\ LedgerInv => PotOnce
  <2> SUFFICES ASSUME CircleInv, LedgerInv PROVE PotOnce
    OBVIOUS
  <2> DEFINE payouts == {e \in ledger : e.type = "payout"}
  <2>1. ASSUME NEW n \in Closed
        PROVE  \E p \in payouts : /\ p.subject = cycles[n].payee
                                 /\ \A q \in payouts : q.cycle = n => q = p
    BY DEF LedgerInv, PayoutBacked, Closed
  <2>2. ASSUME NEW p \in payouts
        PROVE  /\ p.cycle \in Closed /\ p.subject = cycles[p.cycle].payee
               /\ p.subject \in Members /\ position[p.subject] = p.cycle
               /\ \A q \in payouts : q.cycle = p.cycle => q = p
    <3>1. p.cycle \in Closed
      BY DEF LedgerInv, PayoutsAreClosed
    <3>2. p.subject = cycles[p.cycle].payee /\ \A q \in payouts : q.cycle = p.cycle => q = p
      BY <2>1, <3>1
    <3> QED
      BY <3>1, <3>2 DEF CircleInv, TurnsWellFormed, Closed
  <2>3. \A p, q \in payouts : p.subject = q.subject => p = q
    BY <2>2
  <2>4. ASSUME status = "completed" PROVE {p.subject : p \in payouts} = Members
    <3>1. Closed = DOMAIN cycles
      BY <2>4 DEF CircleInv, ClosedInOrder, Closed
    <3>2. \A u \in Members : position[u] \in Closed /\ cycles[position[u]].payee = u
      BY <2>4, <3>1 DEF CircleInv, TurnsWellFormed
    <3>3. \A u \in Members : \E p \in payouts : p.subject = u
      BY <2>1, <3>2
    <3> QED
      BY <2>2, <3>3
  <2> QED
    BY <2>3, <2>4 DEF PotOnce
<1> QED
  BY <1>1, CircleInvariant, LedgerInvariant, PTL

\* What a closed cycle counts is final: its recipient, who was in it and their verified
\* contributions.  A payment of somebody who has gone may still be settled after the
\* close (ClosedRecordsFinal does not hold) and changes none of this.
ClosedCountsFinal ==
  [][\A n \in Closed : /\ n \in Closed' /\ cycles'[n].payee = cycles[n].payee
                       /\ InCycle(n)' = InCycle(n)
                       /\ VerifiedIds(n)' = VerifiedIds(n)]_vars

\* (closeCycle, removeMember, reverse) No handler changes what a closed cycle counts.
THEOREM CircleClosedCountsFinal == Spec => ClosedCountsFinal
<1>1. CircleInv /\ LedgerInv /\ [Next]_vars =>
        [\A n \in Closed : /\ n \in Closed' /\ cycles'[n].payee = cycles[n].payee
                           /\ InCycle(n)' = InCycle(n)
                           /\ VerifiedIds(n)' = VerifiedIds(n)]_vars
  <2> SUFFICES ASSUME CircleInv, LedgerInv, [Next]_vars, NEW n \in Closed
               PROVE  /\ n \in Closed' /\ cycles'[n].payee = cycles[n].payee
                      /\ InCycle(n)' = InCycle(n)
                      /\ VerifiedIds(n)' = VerifiedIds(n)
    OBVIOUS
  <2>1. /\ n \in Closed' /\ cycles'[n].payee = cycles[n].payee
        /\ InCycle(n)' = InCycle(n)
        /\ \A u \in InCycle(n) : VerifiedOf(n, u)' = VerifiedOf(n, u)
    BY ClosedCycleStays
  <2> QED
    BY <2>1 DEF VerifiedIds
<1> QED
  BY <1>1, CircleInvariant, LedgerInvariant, PTL DEF Spec, ClosedCountsFinal
-----------------------------------------------------------------------------
(***************************************************************************)
(* Two promises that need no help from the accounts.                       *)
(***************************************************************************)

\* The circle is shared with the community tier exactly while every current member
\* agrees: each handler that changes the members or a consent ends in
\* syncCommunityConsent, after both have changed.
THEOREM CircleConsentHonest == Spec => []CommunityConsentHonest
<1>1. Init => CommunityConsentHonest
  <2> SUFFICES ASSUME Init PROVE CommunityConsentHonest
    OBVIOUS
  <2>1. Organizer \in Members /\ Organizer \notin consented /\ communityConsent = FALSE
    BY UsersAssumption DEF Init, Members
  <2> QED
    BY <2>1 DEF CommunityConsentHonest
<1>2. CommunityConsentHonest /\ [Next]_vars => CommunityConsentHonest'
  <2> SUFFICES ASSUME CommunityConsentHonest, [Next]_vars PROVE CommunityConsentHonest'
    OBVIOUS
  <2>1. CASE SyncCommunityConsent
    BY <2>1 DEF SyncCommunityConsent, CommunityConsentHonest
  <2>2. CASE UNCHANGED <<rows, left, consented, communityConsent>>
    BY <2>2 DEF CommunityConsentHonest, Members
  <2> QED
    BY <2>1, <2>2
    DEF Next, vars, Join, Leave, RemoveDraftMember, RemoveFromDraft, CommitLottery, Start, Record,
        Verify, Reject, Reverse, Settle, CloseCycle, RemoveActiveMember, SharePayout, SetConsent
<1> QED
  BY <1>1, <1>2, PTL DEF Spec

\* The message an entry calls for has reached its subject.
Told(e) ==
  \E msg \in inbox :
    /\ msg.to = e.subject
    /\ CASE e.type = "contribution_recorded" ->
              msg.kind = "payment_recorded_for_you" /\ msg.about = e.id
         [] e.type = "contribution_verified" ->
              msg.kind = "payment_verified" /\ msg.about = e.id
         [] e.type = "correction" ->
              msg.kind = "payment_rejected" /\ msg.about = e.id
         [] e.type = "payout" ->
              msg.kind = "payout_due_to_you" /\ msg.about = e.cycle
         [] e.type = "member_removed" -> msg.kind = "member_removed"
         [] OTHER -> FALSE

\* An entry somebody else made about you.
AboutAnother(e) == e.subject \notin {None, e.actor}

\* Whom Notify is told to reach has the message.
LEMMA NotifyReaches ==
  ASSUME NEW S, NEW kind, NEW about, Notify(S, kind, about)
  PROVE  /\ inbox \subseteq inbox'
         /\ \A u \in S : \E msg \in inbox' : msg.to = u /\ msg.kind = kind /\ msg.about = about
<1>1. \A u \in S : [to |-> u, kind |-> kind, about |-> about] \in [to: S, kind: {kind}, about: {about}]
  OBVIOUS
<1> QED
  BY <1>1 DEF Notify

\* An entry of a settled contribution tells its member.
LEMMA SettleTells ==
  ASSUME CircleInv, NEW e \in Recorded, NEW type, NEW kind, Settle(e, type, kind),
         \/ type = "contribution_verified" /\ kind = "payment_verified"
         \/ type = "correction" /\ kind = "payment_rejected"
  PROVE  inbox \subseteq inbox' /\ \A x \in ledger' \ ledger : AboutAnother(x) => Told(x)'
<1>1. Notify({e.subject} \ {Organizer}, kind, e.id)
  BY DEF Settle
<1>2. inbox \subseteq inbox'
  BY <1>1, NotifyReaches
<1> SUFFICES ASSUME NEW x \in ledger' \ ledger, AboutAnother(x) PROVE Told(x)'
  BY <1>2
<1>3. x.type = type /\ x.id = e.id /\ x.subject = e.subject /\ x.actor = Organizer
  BY DEF Settle, Append, EntryOf
<1>4. e.subject \in {e.subject} \ {Organizer}
  BY <1>3 DEF AboutAnother
<1>5. PICK msg \in inbox' : msg.to = e.subject /\ msg.kind = kind /\ msg.about = e.id
  BY <1>1, <1>4, NotifyReaches
<1>6. CASE type = "contribution_verified" /\ kind = "payment_verified"
  BY <1>3, <1>5, <1>6 DEF Told
<1>7. CASE type = "correction" /\ kind = "payment_rejected"
  BY <1>3, <1>5, <1>7 DEF Told
<1> QED
  BY <1>6, <1>7

\* Every step keeps the messages sent and sends those its entries call for.
LEMMA StepTells ==
  ASSUME CircleInv, [Next]_vars
  PROVE  inbox \subseteq inbox' /\ \A x \in ledger' \ ledger : AboutAnother(x) => Told(x)'
<1>1. CASE \E u : Join(u) \/ Leave(u)
  <2>1. inbox \subseteq inbox'
    BY <1>1 DEF Join, Leave, Notify
  <2>2. \A x \in ledger' \ ledger : ~AboutAnother(x)
    BY <1>1 DEF Join, Leave, RemoveFromDraft, Append, MemberEntry, EntryOf, AboutAnother
  <2> QED
    BY <2>1, <2>2
<1>2. CASE \E u : RemoveDraftMember(u)
  <2>1. PICK u : RemoveDraftMember(u)
    BY <1>2
  <2>2. Notify({u}, "member_removed", None)
    BY <2>1 DEF RemoveDraftMember
  <2>3. \A x \in ledger' \ ledger : x.type = "member_removed" /\ x.subject = u
    BY <2>1 DEF RemoveDraftMember, RemoveFromDraft, Append, MemberEntry, EntryOf
  <2>4. \E msg \in inbox' : msg.to = u /\ msg.kind = "member_removed"
    BY <2>2, NotifyReaches
  <2> QED
    BY <2>2, <2>3, <2>4, NotifyReaches DEF Told
<1>3. CASE Start
  <2>1. inbox \subseteq inbox'
    BY <1>3 DEF Start, Notify
  <2>2. \A x \in ledger' \ ledger : ~AboutAnother(x)
    BY <1>3 DEF Start, Append, EntryOf, AboutAnother
  <2> QED
    BY <2>1, <2>2
<1>4. CASE Recording
  <2>1. PICK m \in Users, u \in Users, n \in Numbers, id \in EntryIds : Record(m, u, n, id)
    BY <1>4 DEF Recording
  <2>2. inbox \subseteq inbox'
    BY <2>1 DEF Record, Notify
  <2>3. \A x \in ledger' \ ledger :
          x.type = "contribution_recorded" /\ x.id = id /\ x.subject = u /\ x.actor = m
    BY <2>1 DEF Record, Append, EntryOf
  <2>4. CASE m = u
    BY <2>2, <2>3, <2>4 DEF AboutAnother
  <2>5. CASE m # u
    <3>1. Notify({u}, "payment_recorded_for_you", id)
      BY <2>1, <2>5 DEF Record
    <3>2. \E msg \in inbox' : msg.to = u /\ msg.kind = "payment_recorded_for_you" /\ msg.about = id
      BY <3>1, NotifyReaches
    <3> QED
      BY <2>2, <2>3, <3>2 DEF Told
  <2> QED
    BY <2>4, <2>5
<1>5. CASE \E e \in Recorded : Verify(e) \/ Reject(e) \/ Reverse(e)
  BY <1>5, SettleTells DEF Verify, Reject, Reverse
<1>6. CASE \E n \in Numbers, k \in 0..Cardinality(Users) : CloseCycle(n, k)
  <2>1. PICK n \in Numbers, k \in 0..Cardinality(Users) : CloseCycle(n, k)
    BY <1>6
  <2> DEFINE payee == cycles[n].payee
  <2>2. inbox' = inbox
          \cup [to: {payee} \ {Organizer}, kind: {"payout_due_to_you"}, about: {n}]
          \cup [to: Members \ {payee, Organizer}, kind: {"cycle_closed"}, about: {n}]
    BY <2>1 DEF CloseCycle
  <2>3. ASSUME NEW x \in ledger' \ ledger, AboutAnother(x) PROVE Told(x)'
    <3>1. /\ ledger' = ledger \cup {PaidOut(n), ClosedBooks(n)}
          /\ PaidOut(n).type = "payout" /\ PaidOut(n).cycle = n
          /\ PaidOut(n).subject = payee
      BY <2>1, CloseAppends DEF Append
    <3>2. ClosedBooks(n).subject = None /\ PaidOut(n).actor = Organizer
      BY DEF ClosedBooks, PaidOut, EntryOf
    <3>3. x.type = "payout" /\ x.cycle = n /\ x.subject = payee /\ payee # Organizer
      BY <2>3, <3>1, <3>2 DEF AboutAnother
    <3>4. [to |-> payee, kind |-> "payout_due_to_you", about |-> n] \in inbox'
      BY <2>2, <3>3
    <3> QED
      BY <3>3, <3>4 DEF Told
  <2> QED
    BY <2>2, <2>3
<1>7. CASE \E u \in Users, current, turn, last \in Numbers :
             RemoveActiveMember(u, current, turn, last)
  <2>1. PICK u \in Users, current \in Numbers, turn \in Numbers, last \in Numbers :
          RemoveActiveMember(u, current, turn, last)
    BY <1>7
  <2>2. Notify({u}, "member_removed", None)
    BY <2>1 DEF RemoveActiveMember
  <2>3. \A x \in ledger' \ ledger : x.type = "member_removed" /\ x.subject = u
    BY <2>1, RemovalAppends DEF Append
  <2>4. \E msg \in inbox' : msg.to = u /\ msg.kind = "member_removed"
    BY <2>2, NotifyReaches
  <2> QED
    BY <2>2, <2>3, <2>4, NotifyReaches DEF Told
<1>8. CASE UNCHANGED <<ledger, inbox>>
  BY <1>8
<1> QED
  BY <1>1, <1>2, <1>3, <1>4, <1>5, <1>6, <1>7, <1>8
  DEF Next, vars, Recording, CommitLottery, SharePayout, SetConsent

\* Every entry about you that somebody else made has reached your inbox (tell, record,
\* closeCycle, removeMember).
THEOREM CircleTellsItsMembers == Spec => []InboxComplete
<1>1. InboxComplete <=> \A e \in ledger : AboutAnother(e) => Told(e)
  BY DEF InboxComplete, AboutAnother, Told
<1>2. Init => InboxComplete
  <2>1. Init => \A e \in ledger : ~AboutAnother(e)
    BY DEF Init, MemberEntry, EntryOf, AboutAnother
  <2> QED
    BY <1>1, <2>1
<1>3. CircleInv /\ InboxComplete /\ [Next]_vars => InboxComplete'
  <2> SUFFICES ASSUME CircleInv, InboxComplete, [Next]_vars, NEW e \in ledger', AboutAnother(e)
               PROVE  Told(e)'
    BY DEF InboxComplete, AboutAnother, Told
  <2>1. CASE e \in ledger
    <3>1. Told(e)
      BY <1>1, <2>1
    <3>2. inbox \subseteq inbox'
      BY StepTells
    <3> QED
      BY <3>1, <3>2 DEF Told
  <2>2. CASE e \notin ledger
    BY <2>2, StepTells
  <2> QED
    BY <2>1, <2>2
<1> QED
  BY <1>2, <1>3, CircleInvariant, PTL DEF Spec
=============================================================================
