----------------------------- MODULE Invitations -----------------------------
(***************************************************************************)
(* Inviting pals into a draft circle, and the two row locks involved.      *)
(*                                                                         *)
(* accept locks the invitation and then the circle; start locks the circle *)
(* and then, through cancelPending, every pending invitation.  Each is two *)
(* steps here, with the row it holds in between; PostgreSQL ends the       *)
(* circular wait this allows.  Every other handler waits for one row only  *)
(* and is one action.                                                      *)
(*                                                                         *)
(* What joining does to the ledger and the shares is Circle.tla's subject; *)
(* `joins` counts the member_added entries made via an invitation.         *)
(***************************************************************************)
EXTENDS Naturals, FiniteSets

CONSTANTS
  Pals,         \* people the organizer may be pals with
  Changing,     \* bound: those who may become pals, or end it, meanwhile
  Seats,        \* planned_cycles; the organizer has one
  Invitations,  \* bound: the circle_invitations rows there may ever be
  Accepting,    \* accept requests that may run at once
  MaxJoins,     \* bound: entries counted per invitation
  None

ASSUME SeatsAssumption == Seats \in Nat \ {0}
ASSUME MaxJoinsAssumption == MaxJoins \in Nat
ASSUME InvitationsAssumption == IsFiniteSet(Invitations)
ASSUME ChangingAssumption == Changing \subseteq Pals
ASSUME NoneAssumption == None \notin Pals /\ None \notin Invitations

VARIABLES
  status,     \* circles.status
  members,    \* members other than the organizer
  pals,       \* the organizer's pals
  invitee,    \* invitee_id of each row, None before it is inserted
  state,      \* status of each row
  accepting,  \* the invitation an accept request has locked
  starting,   \* start has locked the circle
  cancelling, \* rows start has cancelled and not yet committed
  joins       \* member_added entries via each invitation

vars == <<status, members, pals, invitee, state, accepting, starting, cancelling,
          joins>>

Init ==
  /\ status = "draft"
  /\ members = {}
  /\ pals \in {S \in SUBSET Pals : Pals \ Changing \subseteq S}
  /\ invitee = [i \in Invitations |-> None]
  /\ state = [i \in Invitations |-> "none"]
  /\ accepting = [r \in Accepting |-> None]
  /\ starting = FALSE /\ cancelling = {}
  /\ joins = [i \in Invitations |-> 0]

Pending == {i \in Invitations : state[i] = "pending"}
Invited == {invitee[i] : i \in Pending}

\* Fault: the circle changes under a start.
CircleNotLocked == TRUE

\* nobody else holds FOR UPDATE on the row
CircleFree == ~starting

\* Fault: the invitation is read without a lock.
RowNotLocked(i) == TRUE

RowFree(i) == i \notin cancelling /\ \A r \in Accepting : accepting[r] # i

\* the organizer and the members have not filled the circle
SeatFree == Cardinality(members) + 1 < Seats

\* what join and accept ask once they hold the circle
MayJoin(u) == status = "draft" /\ u \notin members /\ SeatFree

(***************************************************************************)
(* invite, cancel, decline                                                 *)
(***************************************************************************)

\* Fault: everybody asked for is invited, also those who are.
EverybodyAsked(ids) == ids

Fresh(ids) == ids \ Invited

Unused == {i \in Invitations : state[i] = "none"}

\* NOT_ENOUGH_SEATS counts the pending invitations
Invite(ids) ==
  /\ CircleFree
  /\ status = "draft"
  /\ ids \subseteq pals /\ ids \cap members = {}
  /\ Cardinality(Fresh(ids)) + Cardinality(members) + 1 + Cardinality(Pending) <= Seats
  /\ \E row \in [Fresh(ids) -> Unused] :
       /\ \A u, v \in Fresh(ids) : row[u] = row[v] => u = v
       /\ invitee' = [i \in Invitations |->
            IF \E u \in Fresh(ids) : row[u] = i
              THEN CHOOSE u \in Fresh(ids) : row[u] = i ELSE invitee[i]]
       /\ state' = [i \in Invitations |->
            IF \E u \in Fresh(ids) : row[u] = i THEN "pending" ELSE state[i]]
  /\ UNCHANGED <<status, members, pals, accepting, starting, cancelling, joins>>

Answer(i, answer) ==
  /\ RowFree(i)
  /\ state[i] = "pending"
  /\ state' = [state EXCEPT ![i] = answer]
  /\ UNCHANGED <<status, members, pals, invitee, accepting, starting, cancelling, joins>>

Cancel(i) == Answer(i, "cancelled")
Decline(i) == Answer(i, "declined")

(***************************************************************************)
(* accept                                                                  *)
(***************************************************************************)
AcceptLocks(r, i) ==
  /\ accepting[r] = None
  /\ RowFree(i)
  /\ state[i] = "pending"
  /\ accepting' = [accepting EXCEPT ![r] = i]
  /\ UNCHANGED <<status, members, pals, invitee, state, starting, cancelling, joins>>

AcceptJoins(r) ==
  LET i == accepting[r] IN
    /\ i # None
    /\ CircleFree
    /\ MayJoin(invitee[i]) /\ invitee[i] \in pals
    /\ joins[i] < MaxJoins
    /\ members' = members \cup {invitee[i]}
    /\ state' = [state EXCEPT ![i] = "accepted"]
    /\ joins' = [joins EXCEPT ![i] = @ + 1]
    /\ accepting' = [accepting EXCEPT ![r] = None]
    /\ UNCHANGED <<status, pals, invitee, starting, cancelling>>

\* Fault: the transaction is not rolled back.
StaysOpen(r) == UNCHANGED accepting

\* the transaction is rolled back
GivesUp(r) == accepting' = [accepting EXCEPT ![r] = None]

\* no longer a pal, no seat, or (whenever PayoutMethods makes it so) the methods
\* to share are not the invitee's
AcceptRefused(r) ==
  /\ accepting[r] # None
  /\ CircleFree
  /\ GivesUp(r)
  /\ UNCHANGED <<status, members, pals, invitee, state, starting, cancelling, joins>>

(***************************************************************************)
(* join by code, leave and remove                                          *)
(***************************************************************************)
JoinByCode(u) ==
  /\ CircleFree
  /\ MayJoin(u) /\ u \in pals
  /\ members' = members \cup {u}
  /\ UNCHANGED <<status, pals, invitee, state, accepting, starting, cancelling, joins>>

Leave(u) ==
  /\ CircleFree
  /\ status = "draft" /\ u \in members
  /\ members' = members \ {u}
  /\ UNCHANGED <<status, pals, invitee, state, accepting, starting, cancelling, joins>>

\* becoming pals, and ending it: invitations stay
PalsChange(u) ==
  /\ pals' = IF u \in pals THEN pals \ {u} ELSE pals \cup {u}
  /\ UNCHANGED <<status, members, invitee, state, accepting, starting, cancelling, joins>>

(***************************************************************************)
(* start                                                                   *)
(***************************************************************************)
StartLocks ==
  /\ CircleFree
  /\ status = "draft" /\ members # {}
  /\ starting' = TRUE
  /\ UNCHANGED <<status, members, pals, invitee, state, accepting, cancelling, joins>>

\* Fault: an invitation being answered is skipped.
NotBeingAnswered == {i \in Pending : \A r \in Accepting : accepting[r] # i}

ToCancel == Pending

\* cancelPending comes to one of its rows
StartCancels(i) ==
  /\ starting
  /\ i \in ToCancel /\ RowFree(i)
  /\ cancelling' = cancelling \cup {i}
  /\ UNCHANGED <<status, members, pals, invitee, state, accepting, starting, joins>>

StartActivates ==
  /\ starting
  /\ ToCancel \subseteq cancelling
  /\ status' = "active"
  /\ state' = [i \in Invitations |-> IF i \in cancelling THEN "cancelled" ELSE state[i]]
  /\ starting' = FALSE /\ cancelling' = {}
  /\ UNCHANGED <<members, pals, invitee, accepting, joins>>

\* Fault: the rows it has cancelled stay locked.
StartKeepsRows == starting' = FALSE /\ UNCHANGED cancelling

StartGivesUp == starting' = FALSE /\ cancelling' = {}

\* deadlock_timeout: when start waits for the invitation that r is accepting,
\* and r for the circle, one of the two fails
DeadlockBroken(r) ==
  /\ starting /\ accepting[r] \in Pending
  /\ \/ StartGivesUp /\ UNCHANGED accepting
     \/ GivesUp(r) /\ UNCHANGED <<starting, cancelling>>
  /\ UNCHANGED <<status, members, pals, invitee, state, joins>>

Next ==
  \/ \E ids \in SUBSET Pals : Invite(ids)
  \/ \E i \in Invitations : Cancel(i) \/ Decline(i)
  \/ \E r \in Accepting :
       \/ \E i \in Invitations : AcceptLocks(r, i)
       \/ AcceptJoins(r) \/ AcceptRefused(r) \/ DeadlockBroken(r)
  \/ \E u \in Pals : JoinByCode(u) \/ Leave(u)
  \/ \E u \in Changing : PalsChange(u)
  \/ StartLocks \/ StartActivates \/ \E i \in Invitations : StartCancels(i)

Spec == Init /\ [][Next]_vars

\* requests run, whoever waits for a row has its turn (the queue of a lock), and
\* whoever waits for deadlock_timeout looks for a circle
Fairness ==
  /\ WF_vars(StartActivates)
  /\ \A i \in Invitations : SF_vars(StartCancels(i))
  /\ \A r \in Accepting :
       /\ SF_vars(AcceptJoins(r) \/ AcceptRefused(r))
       /\ WF_vars(DeadlockBroken(r))

FairSpec == Spec /\ Fairness
-----------------------------------------------------------------------------
(***************************************************************************)
(* Properties.                                                             *)
(***************************************************************************)

\* Rows and requests have their types; a request has locked a row that exists.
TypeOK ==
  /\ status \in {"draft", "active"}
  /\ members \subseteq Pals /\ pals \subseteq Pals
  /\ invitee \in [Invitations -> Pals \cup {None}]
  /\ state \in [Invitations -> {"none", "pending", "accepted", "declined", "cancelled"}]
  /\ \A i \in Invitations : state[i] # "none" <=> invitee[i] # None
  /\ accepting \in [Accepting -> Invitations \cup {None}]
  /\ starting \in BOOLEAN /\ cancelling \subseteq Invitations
  /\ cancelling # {} => starting
  /\ joins \in [Invitations -> 0..MaxJoins]

\* Join codes and invitations together never overfill the circle: an invitation
\* is a promise, and accept counts the seats again.
SeatsRespected == Cardinality(members) + 1 <= Seats

\* An invitation lets somebody in once, when it is accepted, and not at all
\* when it is declined or cancelled; however often accept is sent, and also
\* when the invitee has left the draft in between.
InvitationUsedOnce ==
  \A i \in Invitations : joins[i] = IF state[i] = "accepted" THEN 1 ELSE 0

OneInvitationEach == \A i, j \in Pending : invitee[i] = invitee[j] => i = j

NothingPendingAfterStart == status = "active" => Pending = {}

\* Nobody has two invitations to the circle to answer (invite), and none is left to
\* a circle that runs (start), though others are being answered meanwhile.
NoStrayInvitation == OneInvitationEach /\ NothingPendingAfterStart

\* Whatever an accept or a start waits for, it ends.
RequestsEnd ==
  /\ starting ~> ~starting
  /\ \A r \in Accepting : accepting[r] # None ~> accepting[r] = None

(***************************************************************************)
(* What gathering a circle promises, abstractly (Gathering.tla).           *)
(***************************************************************************)
Gathers == INSTANCE Gathering WITH invited <- Invited

\* An accept and a start take two rows in two orders, and one of them may be ended
\* by a deadlock; each is one step of Gathering when it commits, and nothing before:
\* no row of either is answered, nobody leaves and no seat goes in between.
ImplementsGathering == Gathers!Spec

(***************************************************************************)
(* Said by the repository and not kept by the code (README.md, section 5). *)
(***************************************************************************)

\* circle-members.e2e-spec.ts: seats are held by pending invitations.
PendingHoldsASeat ==
  Cardinality(members) + 1 + Cardinality(Pending) <= Seats
=============================================================================
