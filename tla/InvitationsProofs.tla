-------------------------- MODULE InvitationsProofs --------------------------
(***************************************************************************)
(* Proofs about Invitations for every set of people, number of seats and   *)
(* number of requests at once.  An accept that waits for the circle relies *)
(* on the invitation it has locked: nobody else settles it meanwhile, and  *)
(* a start passes it by until it is free (LocksKept).                      *)
(***************************************************************************)
EXTENDS Invitations, TLAPS, FiniteSetTheorems

\* A row an accept holds is pending and its own; a row start has cancelled is pending
\* until the start commits.
LocksKept ==
  /\ \A r \in Accepting : accepting[r] # None =>
       state[accepting[r]] = "pending" /\ accepting[r] \notin cancelling
  /\ \A r, s \in Accepting : accepting[r] = accepting[s] /\ accepting[r] # None => r = s
  /\ cancelling \subseteq Pending

InvitationsInv ==
  /\ TypeOK /\ IsFiniteSet(members)
  /\ LocksKept /\ SeatsRespected /\ InvitationUsedOnce /\ NoStrayInvitation
-----------------------------------------------------------------------------
\* At first nobody is invited and nobody has joined.
LEMMA InitInvitationsInv == Init => InvitationsInv
<1> SUFFICES ASSUME Init PROVE InvitationsInv
  OBVIOUS
<1>1. TypeOK
  <2>1. joins \in [Invitations -> 0..MaxJoins]
    BY MaxJoinsAssumption DEF Init
  <2>2. /\ invitee \in [Invitations -> Pals \cup {None}]
        /\ accepting \in [Accepting -> Invitations \cup {None}]
        /\ state \in [Invitations -> {"none", "pending", "accepted", "declined", "cancelled"}]
        /\ \A i \in Invitations : state[i] = "none" /\ invitee[i] = None
    BY DEF Init
  <2> QED
    BY <2>1, <2>2 DEF Init, TypeOK
<1>2. IsFiniteSet(members) /\ SeatsRespected
  BY FS_EmptySet, SeatsAssumption DEF Init, SeatsRespected
<1>3. Pending = {}
  BY DEF Init, Pending
<1> QED
  BY <1>1, <1>2, <1>3
  DEF Init, InvitationsInv, LocksKept, InvitationUsedOnce, NoStrayInvitation,
      OneInvitationEach, NothingPendingAfterStart

\* One more member where a seat is free, and nobody counted twice.
LEMMA SeatTaken ==
  ASSUME IsFiniteSet(members), NEW u, MayJoin(u), members' = members \cup {u}
  PROVE  IsFiniteSet(members') /\ SeatsRespected'
<1>1. /\ IsFiniteSet(members \cup {u}) /\ Cardinality(members) \in Nat
      /\ Cardinality(members \cup {u}) = Cardinality(members) + 1
  BY FS_AddElement, FS_CardinalityType DEF MayJoin
<1> QED
  BY <1>1, SeatsAssumption DEF MayJoin, SeatFree, SeatsRespected

\* What the rows promise depends on the rows, the requests that hold them and whether
\* the circle runs.
LEMMA RowsFrame ==
  ASSUME InvitationsInv, UNCHANGED <<status, invitee, state, accepting, cancelling, joins>>
  PROVE  LocksKept' /\ InvitationUsedOnce' /\ NoStrayInvitation'
  BY DEF InvitationsInv, LocksKept, InvitationUsedOnce, NoStrayInvitation, OneInvitationEach,
         NothingPendingAfterStart, Pending

\* (join) A join takes a free seat and touches no invitation.
LEMMA JoinByCodeInv ==
  ASSUME InvitationsInv, NEW u \in Pals, JoinByCode(u) PROVE InvitationsInv'
<1>1. TypeOK'
  BY DEF InvitationsInv, TypeOK, JoinByCode
<1> QED
  BY <1>1, SeatTaken, RowsFrame DEF JoinByCode, InvitationsInv

\* (leave) A member who leaves frees a seat.
LEMMA LeaveInv ==
  ASSUME InvitationsInv, NEW u \in Pals, Leave(u) PROVE InvitationsInv'
<1>1. TypeOK'
  BY DEF InvitationsInv, TypeOK, Leave
<1>2. IsFiniteSet(members') /\ SeatsRespected'
  <2>1. /\ IsFiniteSet(members \ {u}) /\ Cardinality(members) \in Nat
        /\ Cardinality(members \ {u}) = Cardinality(members) - 1
    BY FS_RemoveElement, FS_CardinalityType DEF InvitationsInv, Leave
  <2> QED
    BY <2>1, SeatsAssumption DEF InvitationsInv, Leave, SeatsRespected
<1> QED
  BY <1>1, <1>2, RowsFrame DEF Leave, InvitationsInv

\* (insertMany) Each new row is pending for whom it was made, and no other row changes.
LEMMA RowsInserted ==
  ASSUME NEW ids \in SUBSET Pals, NEW row \in [Fresh(ids) -> Unused],
         \A u, v \in Fresh(ids) : row[u] = row[v] => u = v,
         invitee' = [i \in Invitations |->
            IF \E u \in Fresh(ids) : row[u] = i
              THEN CHOOSE u \in Fresh(ids) : row[u] = i ELSE invitee[i]],
         state' = [i \in Invitations |->
            IF \E u \in Fresh(ids) : row[u] = i THEN "pending" ELSE state[i]]
  PROVE  /\ \A u \in Fresh(ids) :
              /\ row[u] \in Invitations /\ state[row[u]] = "none" /\ u \in Pals
              /\ state'[row[u]] = "pending" /\ invitee'[row[u]] = u
         /\ \A i \in Invitations : (\A u \in Fresh(ids) : row[u] # i) =>
              state'[i] = state[i] /\ invitee'[i] = invitee[i]
<1>1. \A u \in Fresh(ids) : row[u] \in Invitations /\ state[row[u]] = "none" /\ u \in Pals
  BY DEF Unused, Fresh
<1>2. ASSUME NEW u \in Fresh(ids)
      PROVE  state'[row[u]] = "pending" /\ invitee'[row[u]] = u
  <2>1. state'[row[u]] = "pending" /\ invitee'[row[u]] = CHOOSE v \in Fresh(ids) : row[v] = row[u]
    BY <1>1
  <2>2. (CHOOSE v \in Fresh(ids) : row[v] = row[u]) = u
    OBVIOUS
  <2> QED
    BY <2>1, <2>2
<1>3. ASSUME NEW i \in Invitations, \A u \in Fresh(ids) : row[u] # i
      PROVE  state'[i] = state[i] /\ invitee'[i] = invitee[i]
  BY <1>3
<1> QED
  BY <1>1, <1>2, <1>3

\* (invite) Each new row is for somebody without a pending one, in a draft.
LEMMA InviteInv ==
  ASSUME InvitationsInv, NEW ids \in SUBSET Pals, Invite(ids) PROVE InvitationsInv'
<1> USE DEF InvitationsInv
<1>1. PICK row \in [Fresh(ids) -> Unused] :
        /\ \A u, v \in Fresh(ids) : row[u] = row[v] => u = v
        /\ invitee' = [i \in Invitations |->
             IF \E u \in Fresh(ids) : row[u] = i
               THEN CHOOSE u \in Fresh(ids) : row[u] = i ELSE invitee[i]]
        /\ state' = [i \in Invitations |->
             IF \E u \in Fresh(ids) : row[u] = i THEN "pending" ELSE state[i]]
  BY DEF Invite
<1>2. /\ status = "draft" /\ UNCHANGED <<status, members, pals, accepting, starting, cancelling, joins>>
  BY DEF Invite
<1>3. \A u \in Fresh(ids) : row[u] \in Invitations /\ state[row[u]] = "none" /\ u \in Pals
  BY <1>1, RowsInserted
<1>4. \A u \in Fresh(ids) : state'[row[u]] = "pending" /\ invitee'[row[u]] = u
  BY <1>1, RowsInserted
<1>5. \A i \in Invitations : (\A u \in Fresh(ids) : row[u] # i) =>
        state'[i] = state[i] /\ invitee'[i] = invitee[i]
  BY <1>1, RowsInserted
<1>6. TypeOK'
  <2>1. \A i \in Invitations : /\ state'[i] \in {"none", "pending", "accepted", "declined", "cancelled"}
                               /\ invitee'[i] \in Pals \cup {None}
                               /\ state'[i] # "none" <=> invitee'[i] # None
    BY <1>3, <1>4, <1>5, NoneAssumption DEF TypeOK
  <2>2. DOMAIN state' = Invitations /\ DOMAIN invitee' = Invitations
    BY <1>1
  <2>3. /\ state' \in [Invitations -> {"none", "pending", "accepted", "declined", "cancelled"}]
        /\ invitee' \in [Invitations -> Pals \cup {None}]
    BY <1>1, <2>1, <2>2
  <2> QED
    BY <1>2, <2>1, <2>3 DEF TypeOK
<1>7. \A i \in Pending : i \in Pending' /\ invitee'[i] = invitee[i]
  BY <1>3, <1>5 DEF Pending
<1>8. LocksKept'
  BY <1>2, <1>7 DEF LocksKept, Pending, TypeOK
<1>9. InvitationUsedOnce'
  <2> SUFFICES ASSUME NEW i \in Invitations
               PROVE  joins[i] = IF state'[i] = "accepted" THEN 1 ELSE 0
    BY <1>2 DEF InvitationUsedOnce
  <2>1. CASE \E u \in Fresh(ids) : row[u] = i
    BY <1>3, <1>4, <2>1 DEF InvitationUsedOnce
  <2>2. CASE \A u \in Fresh(ids) : row[u] # i
    BY <1>5, <2>2 DEF InvitationUsedOnce
  <2> QED
    BY <2>1, <2>2
<1>10. OneInvitationEach'
  <2> SUFFICES ASSUME NEW i \in Pending', NEW j \in Pending', invitee'[i] = invitee'[j]
               PROVE  i = j
    BY DEF OneInvitationEach
  <2>1. ASSUME NEW k \in Pending'
        PROVE  \/ k \in Pending /\ invitee'[k] = invitee[k] /\ invitee'[k] \in Invited
               \/ \E u \in Fresh(ids) : row[u] = k /\ invitee'[k] = u /\ u \notin Invited
    BY <1>4, <1>5 DEF Pending, Invited, Fresh
  <2> QED
    BY <2>1, <1>1 DEF NoStrayInvitation, OneInvitationEach
<1> QED
  BY <1>2, <1>6, <1>8, <1>9, <1>10
  DEF NoStrayInvitation, NothingPendingAfterStart, SeatsRespected

\* (decline, cancel) The row answered is nobody else's: neither an accept nor a start
\* holds it.
LEMMA AnswerInv ==
  ASSUME InvitationsInv, NEW i \in Invitations, NEW answer \in {"declined", "cancelled"},
         Answer(i, answer)
  PROVE  InvitationsInv'
<1> USE DEF InvitationsInv
<1>1. /\ state[i] = "pending" /\ state'[i] = answer
      /\ \A j \in Invitations : j # i => state'[j] = state[j]
      /\ UNCHANGED <<status, members, pals, invitee, accepting, starting, cancelling, joins>>
      /\ i \notin cancelling /\ \A r \in Accepting : accepting[r] # i
  BY DEF Answer, RowFree, TypeOK
<1>2. TypeOK'
  BY <1>1 DEF Answer, TypeOK
<1>3. Pending' = Pending \ {i}
  BY <1>1 DEF Pending
<1>4. LocksKept'
  BY <1>1, <1>3 DEF LocksKept, TypeOK
<1>5. InvitationUsedOnce'
  BY <1>1 DEF InvitationUsedOnce
<1>6. NoStrayInvitation'
  BY <1>1, <1>3 DEF NoStrayInvitation, OneInvitationEach, NothingPendingAfterStart
<1> QED
  BY <1>1, <1>2, <1>4, <1>5, <1>6 DEF SeatsRespected

\* (accept) The row locked is pending and no other request holds it.
LEMMA AcceptLocksInv ==
  ASSUME InvitationsInv, NEW r \in Accepting, NEW i \in Invitations, AcceptLocks(r, i)
  PROVE  InvitationsInv'
<1> USE DEF InvitationsInv
<1>1. TypeOK'
  BY DEF AcceptLocks, TypeOK
<1>2. /\ state[i] = "pending" /\ i \notin cancelling /\ \A s \in Accepting : accepting[s] # i
      /\ \A s \in Accepting : accepting'[s] = IF s = r THEN i ELSE accepting[s]
      /\ UNCHANGED <<status, members, invitee, state, cancelling, joins>>
  BY DEF AcceptLocks, RowFree, TypeOK
<1>3. LocksKept'
  BY <1>2 DEF LocksKept, Pending
<1> QED
  BY <1>1, <1>2, <1>3
  DEF SeatsRespected, InvitationUsedOnce, NoStrayInvitation, OneInvitationEach,
      NothingPendingAfterStart, Pending

\* (accept, join) The row held is still pending, so its invitee joins by it only now.
LEMMA AcceptJoinsInv ==
  ASSUME InvitationsInv, NEW r \in Accepting, AcceptJoins(r) PROVE InvitationsInv'
<1> USE DEF InvitationsInv
<1>1. PICK i : i = accepting[r]
  OBVIOUS
<1>2. /\ i \in Invitations /\ i # None /\ state[i] = "pending" /\ i \notin cancelling
      /\ joins[i] = 0 /\ invitee[i] \in Pals
      /\ \A s \in Accepting : s # r => accepting[s] # i
  BY <1>1 DEF AcceptJoins, TypeOK, LocksKept, InvitationUsedOnce
<1>3. /\ MayJoin(invitee[i]) /\ members' = members \cup {invitee[i]}
      /\ state' = [state EXCEPT ![i] = "accepted"]
      /\ joins' = [joins EXCEPT ![i] = @ + 1] /\ joins[i] < MaxJoins
      /\ accepting' = [accepting EXCEPT ![r] = None]
      /\ UNCHANGED <<status, pals, invitee, starting, cancelling>>
  BY <1>1 DEF AcceptJoins
<1>4. /\ state'[i] = "accepted" /\ joins'[i] = 1
      /\ \A j \in Invitations : j # i => state'[j] = state[j] /\ joins'[j] = joins[j]
      /\ \A s \in Accepting : accepting'[s] = IF s = r THEN None ELSE accepting[s]
  BY <1>2, <1>3 DEF TypeOK
<1>5. TypeOK'
  <2>1. joins' \in [Invitations -> 0..MaxJoins]
    BY <1>2, <1>3, MaxJoinsAssumption DEF TypeOK
  <2>2. state' \in [Invitations -> {"none", "pending", "accepted", "declined", "cancelled"}]
    BY <1>3 DEF TypeOK
  <2>3. \A j \in Invitations : state'[j] # "none" <=> invitee'[j] # None
    BY <1>2, <1>3, <1>4 DEF TypeOK
  <2>4. accepting' \in [Accepting -> Invitations \cup {None}]
    BY <1>3 DEF TypeOK
  <2> QED
    BY <1>2, <1>3, <2>1, <2>2, <2>3, <2>4 DEF TypeOK
<1>6. Pending' = Pending \ {i}
  BY <1>4 DEF Pending
<1>7. LocksKept'
  BY <1>2, <1>3, <1>4, <1>6 DEF LocksKept, TypeOK
<1>8. InvitationUsedOnce'
  BY <1>4 DEF InvitationUsedOnce
<1>9. NoStrayInvitation'
  BY <1>3, <1>6 DEF NoStrayInvitation, OneInvitationEach, NothingPendingAfterStart
<1> QED
  BY <1>3, <1>5, <1>7, <1>8, <1>9, SeatTaken

\* An accept that ends without joining lets go of its row.
LEMMA GivesUpInv ==
  ASSUME InvitationsInv, NEW r \in Accepting, GivesUp(r),
         UNCHANGED <<status, members, pals, invitee, state, starting, cancelling, joins>>
  PROVE  InvitationsInv'
<1> USE DEF InvitationsInv
<1>1. TypeOK'
  BY DEF GivesUp, TypeOK
<1>2. \A s \in Accepting : accepting'[s] = IF s = r THEN None ELSE accepting[s]
  BY DEF GivesUp, TypeOK
<1>3. LocksKept'
  BY <1>2 DEF LocksKept, Pending
<1> QED
  BY <1>1, <1>3
  DEF SeatsRespected, InvitationUsedOnce, NoStrayInvitation, OneInvitationEach,
      NothingPendingAfterStart, Pending

\* A start that ends without starting takes its cancellations back.
LEMMA StartGivesUpInv ==
  ASSUME InvitationsInv, StartGivesUp,
         UNCHANGED <<status, members, pals, invitee, state, accepting, joins>>
  PROVE  InvitationsInv'
<1> USE DEF InvitationsInv
<1>1. TypeOK'
  BY DEF StartGivesUp, TypeOK
<1>2. LocksKept'
  BY DEF StartGivesUp, LocksKept, Pending
<1> QED
  BY <1>1, <1>2
  DEF SeatsRespected, InvitationUsedOnce, NoStrayInvitation, OneInvitationEach,
      NothingPendingAfterStart, Pending

\* (cancelPending) The start locks a pending row that no accept holds.
LEMMA StartCancelsInv ==
  ASSUME InvitationsInv, NEW i \in Invitations, StartCancels(i) PROVE InvitationsInv'
<1> USE DEF InvitationsInv
<1>1. TypeOK'
  BY DEF StartCancels, TypeOK
<1>2. LocksKept'
  BY DEF StartCancels, ToCancel, RowFree, LocksKept, Pending
<1> QED
  BY <1>1, <1>2
  DEF StartCancels, SeatsRespected, InvitationUsedOnce, NoStrayInvitation, OneInvitationEach,
      NothingPendingAfterStart, Pending

\* (start) The start commits when it has cancelled every pending row.
LEMMA StartActivatesInv ==
  ASSUME InvitationsInv, StartActivates PROVE InvitationsInv'
<1> USE DEF InvitationsInv
<1>1. /\ \A i \in Invitations : state'[i] = IF i \in cancelling THEN "cancelled" ELSE state[i]
      /\ Pending \subseteq cancelling /\ cancelling \subseteq Pending /\ cancelling' = {}
      /\ UNCHANGED <<members, pals, invitee, accepting, joins>>
  BY DEF StartActivates, ToCancel, LocksKept
<1>2. TypeOK'
  <2>1. state' \in [Invitations -> {"none", "pending", "accepted", "declined", "cancelled"}]
    BY DEF StartActivates, TypeOK
  <2>2. \A i \in Invitations : state'[i] # "none" <=> invitee'[i] # None
    BY <1>1 DEF TypeOK, Pending
  <2> QED
    BY <1>1, <2>1, <2>2 DEF StartActivates, TypeOK
<1>3. Pending' = {}
  BY <1>1 DEF Pending
<1>4. \A r \in Accepting : accepting[r] = None
  BY <1>1 DEF LocksKept, TypeOK, Pending
<1>5. LocksKept'
  BY <1>1, <1>4 DEF LocksKept
<1>6. InvitationUsedOnce'
  BY <1>1 DEF InvitationUsedOnce, Pending
<1> QED
  BY <1>1, <1>2, <1>3, <1>5, <1>6
  DEF SeatsRespected, NoStrayInvitation, OneInvitationEach, NothingPendingAfterStart

\* Every statement keeps the invariant.
LEMMA NextInvitationsInv == InvitationsInv /\ [Next]_vars => InvitationsInv'
<1> SUFFICES ASSUME InvitationsInv, [Next]_vars PROVE InvitationsInv'
  OBVIOUS
<1>1. CASE StartLocks
  <2>1. TypeOK'
    BY <1>1 DEF StartLocks, InvitationsInv, TypeOK
  <2> QED
    BY <1>1, <2>1, RowsFrame DEF StartLocks, InvitationsInv, SeatsRespected
<1>2. CASE \E u \in Changing : PalsChange(u)
  <2>1. TypeOK'
    BY <1>2, ChangingAssumption DEF PalsChange, InvitationsInv, TypeOK
  <2> QED
    BY <1>2, <2>1, RowsFrame DEF PalsChange, InvitationsInv, SeatsRespected
<1>3. CASE UNCHANGED vars
  <2>1. TypeOK'
    BY <1>3 DEF vars, InvitationsInv, TypeOK
  <2> QED
    BY <1>3, <2>1, RowsFrame DEF vars, InvitationsInv, SeatsRespected
<1>4. ASSUME NEW i \in Invitations, Cancel(i) \/ Decline(i) PROVE InvitationsInv'
  BY <1>4, AnswerInv DEF Cancel, Decline
<1>5. ASSUME NEW r \in Accepting, AcceptRefused(r) \/ DeadlockBroken(r) PROVE InvitationsInv'
  BY <1>5, GivesUpInv, StartGivesUpInv DEF AcceptRefused, DeadlockBroken
<1> QED
  BY <1>1, <1>2, <1>3, <1>4, <1>5, InviteInv, AcceptLocksInv, AcceptJoinsInv, JoinByCodeInv,
     LeaveInv, StartCancelsInv, StartActivatesInv DEF Next
-----------------------------------------------------------------------------
(***************************************************************************)
(* The theorems.  Liveness (RequestsEnd) is left to TLC.                   *)
(***************************************************************************)

\* Rows, requests and the two row locks stay consistent, however accepts, answers and a
\* start interleave.
THEOREM InvitationsInvariant == Spec => []InvitationsInv
<1> QED
  BY InitInvitationsInv, NextInvitationsInv, PTL DEF Spec

\* Rows and requests have their types; a request has locked a row that exists.
THEOREM InvitationsTypeCorrect == Spec => []TypeOK
<1>1. InvitationsInv => TypeOK
  BY DEF InvitationsInv
<1> QED
  BY <1>1, InvitationsInvariant, PTL

\* Join codes and invitations together never overfill the circle (join, accept).
THEOREM InvitationsRespectSeats == Spec => []SeatsRespected
<1>1. InvitationsInv => SeatsRespected
  BY DEF InvitationsInv
<1> QED
  BY <1>1, InvitationsInvariant, PTL

\* An invitation lets its invitee in exactly once when accepted and never otherwise,
\* however many accepts run at once (accept).
THEOREM InvitationsUsedOnce == Spec => []InvitationUsedOnce
<1>1. InvitationsInv => InvitationUsedOnce
  BY DEF InvitationsInv
<1> QED
  BY <1>1, InvitationsInvariant, PTL

\* Nobody has two invitations to answer, and none is left to a circle that runs (invite,
\* start).
THEOREM InvitationsNeverStray == Spec => []NoStrayInvitation
<1>1. InvitationsInv => NoStrayInvitation
  BY DEF InvitationsInv
<1> QED
  BY <1>1, InvitationsInvariant, PTL
-----------------------------------------------------------------------------
(***************************************************************************)
(* The invitations implement Gathering.                                    *)
(***************************************************************************)

\* What start has found of the circle it has locked still holds when it commits.
StartHolds == starting => status = "draft" /\ members # {}

\* (start, lock) Nobody joins, leaves or starts it meanwhile.
LEMMA NextStartHolds == StartHolds /\ [Next]_vars => StartHolds'
<1> SUFFICES ASSUME StartHolds, [Next]_vars PROVE StartHolds'
  OBVIOUS
<1> USE DEF StartHolds, CircleFree, GivesUp, StartGivesUp
<1>1. CASE \/ \E ids \in SUBSET Pals : Invite(ids)
           \/ \E i \in Invitations : Cancel(i) \/ Decline(i) \/ StartCancels(i)
           \/ \E u \in Pals : JoinByCode(u) \/ Leave(u)
           \/ \E u \in Changing : PalsChange(u)
  BY <1>1 DEF Invite, Cancel, Decline, Answer, StartCancels, JoinByCode, Leave, PalsChange
<1>2. CASE \E r \in Accepting :
             \/ \E i \in Invitations : AcceptLocks(r, i)
             \/ AcceptJoins(r) \/ AcceptRefused(r) \/ DeadlockBroken(r)
  BY <1>2 DEF AcceptLocks, AcceptJoins, AcceptRefused, DeadlockBroken
<1>3. CASE StartLocks \/ StartActivates \/ UNCHANGED vars
  BY <1>3 DEF StartLocks, StartActivates, vars
<1> QED
  BY <1>1, <1>2, <1>3 DEF Next

\* Gathering counts people as the circle does.
LEMMA SameCardinality == \A S : Gathers!Cardinality(S) = Cardinality(S)
BY DEF Gathers!Cardinality, Cardinality

\* No more people are invited than there are pending rows.
LEMMA InvitedCounted ==
  /\ IsFiniteSet(Invited) /\ IsFiniteSet(Pending)
  /\ Cardinality(Invited) <= Cardinality(Pending)
<1> DEFINE who == [i \in Pending |-> invitee[i]]
<1>1. IsFiniteSet(Pending)
  BY FS_Subset, InvitationsAssumption DEF Pending
<1>2. who \in Surjection(Pending, Invited)
  BY DEF Surjection, Invited
<1> QED
  BY <1>1, <1>2, FS_Surjection

\* What leaves circle, pals and pending rows alone is nothing to Gathering.
LEMMA GatheringFrame ==
  ASSUME UNCHANGED <<status, members, pals, invitee, state>>
  PROVE  UNCHANGED Gathers!gathering
BY DEF Gathers!gathering, Invited, Pending

\* A row that is settled is the only one its invitee had.
LEMMA RowSettled ==
  ASSUME InvitationsInv, NEW i \in Pending, invitee' = invitee, Pending' = Pending \ {i}
  PROVE  Invited' = Invited \ {invitee[i]}
BY DEF Invited, InvitationsInv, NoStrayInvitation, OneInvitationEach

\* (invite) There is a seat for everyone invited and everyone in.
LEMMA InviteStep ==
  ASSUME InvitationsInv, NEW ids \in SUBSET Pals, Invite(ids)
  PROVE  Gathers!Invite(Fresh(ids))
<1> USE DEF InvitationsInv
<1>1. PICK row \in [Fresh(ids) -> Unused] :
        /\ \A u, v \in Fresh(ids) : row[u] = row[v] => u = v
        /\ invitee' = [i \in Invitations |->
             IF \E u \in Fresh(ids) : row[u] = i
               THEN CHOOSE u \in Fresh(ids) : row[u] = i ELSE invitee[i]]
        /\ state' = [i \in Invitations |->
             IF \E u \in Fresh(ids) : row[u] = i THEN "pending" ELSE state[i]]
  BY DEF Invite
<1>2. /\ \A u \in Fresh(ids) :
           /\ row[u] \in Invitations /\ state[row[u]] = "none" /\ u \in Pals
           /\ state'[row[u]] = "pending" /\ invitee'[row[u]] = u
      /\ \A i \in Invitations : (\A u \in Fresh(ids) : row[u] # i) =>
           state'[i] = state[i] /\ invitee'[i] = invitee[i]
  BY <1>1, RowsInserted
<1>3. Invited' = Invited \cup Fresh(ids)
  <2>1. \A u \in Fresh(ids) : u \in Invited'
    BY <1>2 DEF Invited, Pending
  <2>2. \A i \in Pending : invitee[i] \in Invited'
    BY <1>2 DEF Invited, Pending
  <2>3. \A i \in Pending' : invitee'[i] \in Invited \cup Fresh(ids)
    BY <1>2 DEF Invited, Pending
  <2>4. Invited \subseteq Invited'
    BY <2>2 DEF Invited
  <2>5. Invited' \subseteq Invited \cup Fresh(ids)
    BY <2>3 DEF Invited
  <2> QED
    BY <2>1, <2>4, <2>5
<1>4. IsFiniteSet(Fresh(ids))
  <2>1. IsFiniteSet(Unused)
    BY FS_Subset, InvitationsAssumption DEF Unused
  <2>2. row \in Injection(Fresh(ids), Unused)
    BY <1>1 DEF Injection, IsInjective
  <2> QED
    BY <2>1, <2>2, FS_Injection
<1>5. /\ Cardinality(Fresh(ids)) + Cardinality(members) + 1 + Cardinality(Pending) <= Seats
      /\ status = "draft" /\ ids \subseteq pals /\ ids \cap members = {}
      /\ UNCHANGED <<status, members, pals>>
  BY DEF Invite
<1>6. /\ Cardinality(Fresh(ids)) \in Nat /\ Cardinality(members) \in Nat
      /\ Cardinality(Pending) \in Nat /\ Cardinality(Invited) \in Nat
      /\ Cardinality(Invited) <= Cardinality(Pending)
  BY <1>4, InvitedCounted, FS_CardinalityType
<1>7. Cardinality(Fresh(ids)) + Cardinality(Invited) + (Cardinality(members) + 1) <= Seats
  BY <1>5, <1>6, SeatsAssumption
<1> QED
  BY <1>3, <1>5, <1>7, SameCardinality DEF Gathers!Invite, Gathers!Taken, Fresh

\* (cancel, decline) The one invitation somebody has is taken back.
LEMMA AnswerStep ==
  ASSUME InvitationsInv, NEW i \in Invitations, Cancel(i) \/ Decline(i)
  PROVE  \E u \in Pals : Gathers!Withdraw(u)
<1>1. /\ i \in Pending /\ Pending' = Pending \ {i} /\ invitee[i] \in Pals
      /\ UNCHANGED <<status, members, pals, invitee>>
  BY DEF InvitationsInv, TypeOK, Cancel, Decline, Answer, Pending
<1>2. Invited' = Invited \ {invitee[i]} /\ invitee[i] \in Invited
  BY <1>1, RowSettled DEF Invited
<1> QED
  BY <1>1, <1>2 DEF Gathers!Withdraw

\* (accept) The row locked lets its invitee in and is used up, in one step.
LEMMA AcceptStep ==
  ASSUME InvitationsInv, NEW r \in Accepting, AcceptJoins(r)
  PROVE  \E u \in Pals : Gathers!LetIn(u)
<1>1. PICK i : i = accepting[r]
  OBVIOUS
<1>2. /\ i \in Pending /\ Pending' = Pending \ {i} /\ invitee[i] \in Pals
      /\ invitee' = invitee
  BY <1>1 DEF InvitationsInv, TypeOK, LocksKept, AcceptJoins, Pending
<1>3. Invited' = Invited \ {invitee[i]} /\ invitee[i] \in Invited
  BY <1>2, RowSettled DEF Invited
<1>4. /\ MayJoin(invitee[i]) /\ invitee[i] \in pals /\ members' = members \cup {invitee[i]}
      /\ UNCHANGED <<status, pals>>
  BY <1>1 DEF AcceptJoins
<1> QED
  BY <1>2, <1>3, <1>4, SameCardinality DEF Gathers!LetIn, Gathers!Taken, MayJoin, SeatFree

\* (join) The code lets somebody in and leaves the invitations as they are.
LEMMA JoinStep ==
  ASSUME NEW u \in Pals, JoinByCode(u)
  PROVE  Gathers!LetIn(u)
<1>1. Invited' = Invited
  BY DEF JoinByCode, Invited, Pending
<1> QED
  BY <1>1, SameCardinality DEF JoinByCode, Gathers!LetIn, Gathers!Taken, MayJoin, SeatFree

\* (start) What it found when it locked the circle holds when it commits, and every
\* pending row is cancelled by then.
LEMMA StartStep ==
  ASSUME InvitationsInv, StartHolds, StartActivates
  PROVE  Gathers!Start
<1>1. Pending' = {}
  BY DEF InvitationsInv, LocksKept, StartActivates, ToCancel, Pending
<1> QED
  BY <1>1 DEF StartActivates, StartHolds, Gathers!Start, Invited

\* Each statement is a step of Gathering or a stutter.
LEMMA GatheringStep ==
  InvitationsInv /\ StartHolds /\ [Next]_vars => [Gathers!Next]_Gathers!gathering
<1> SUFFICES ASSUME InvitationsInv, StartHolds, [Next]_vars
             PROVE  Gathers!Next \/ UNCHANGED Gathers!gathering
  OBVIOUS
<1>1. CASE \E ids \in SUBSET Pals : Invite(ids)
  <2>1. PICK ids \in SUBSET Pals : Invite(ids)
    BY <1>1
  <2>2. Fresh(ids) \in SUBSET Pals
    BY DEF Fresh
  <2> QED
    BY <2>1, <2>2, InviteStep DEF Gathers!Next
<1>2. CASE \E i \in Invitations : Cancel(i) \/ Decline(i)
  BY <1>2, AnswerStep DEF Gathers!Next
<1>3. CASE \E r \in Accepting : AcceptJoins(r)
  BY <1>3, AcceptStep DEF Gathers!Next
<1>4. CASE \E u \in Pals : JoinByCode(u)
  BY <1>4, JoinStep DEF Gathers!Next
<1>5. CASE \E u \in Pals : Leave(u)
  <2>1. Invited' = Invited
    BY <1>5 DEF Leave, Invited, Pending
  <2> QED
    BY <1>5, <2>1 DEF Leave, Gathers!Leave, Gathers!Next
<1>6. CASE \E u \in Changing : PalsChange(u)
  <2>1. Invited' = Invited /\ pals' \in SUBSET Pals
    BY <1>6, ChangingAssumption DEF PalsChange, Invited, Pending, InvitationsInv, TypeOK
  <2> QED
    BY <1>6, <2>1 DEF PalsChange, Gathers!Befriend, Gathers!Next
<1>7. CASE StartActivates
  BY <1>7, StartStep DEF Gathers!Next
<1>8. CASE \/ \E r \in Accepting : \/ \E i \in Invitations : AcceptLocks(r, i)
                                   \/ AcceptRefused(r) \/ DeadlockBroken(r)
           \/ StartLocks \/ \E i \in Invitations : StartCancels(i)
           \/ UNCHANGED vars
  BY <1>8, GatheringFrame
  DEF AcceptLocks, AcceptRefused, DeadlockBroken, StartLocks, StartCancels, vars
<1> QED
  BY <1>1, <1>2, <1>3, <1>4, <1>5, <1>6, <1>7, <1>8 DEF Next

\* accept and start, each with its two locks and whichever of them a deadlock ends, are the
\* single steps of Gathering, for any number of people, seats and requests at once.
THEOREM InvitationsImplementGathering == Spec => ImplementsGathering
<1>1. Init => Gathers!Init /\ StartHolds
  BY DEF Init, Gathers!Init, StartHolds, Invited, Pending
<1>2. StartHolds /\ [Next]_vars => StartHolds'
  BY NextStartHolds
<1> QED
  BY <1>1, <1>2, GatheringStep, InvitationsInvariant, PTL
  DEF Spec, ImplementsGathering, Gathers!Spec
=============================================================================
