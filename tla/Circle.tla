------------------------------- MODULE Circle -------------------------------
(***************************************************************************)
(* One Pay&Save circle (a seettu, or ROSCA): its membership, its turns,    *)
(* the contribution records of each cycle, and the ledger behind them.     *)
(*                                                                         *)
(* Every handler below runs in one database transaction that first takes   *)
(* FOR UPDATE on the row of the circle, so each is one action here;        *)
(* LedgerChain.tla models what that row lock is for.  The only read made   *)
(* before the lock is the membership that CircleRoleGuard looks up, and it *)
(* may be out of date when the handler runs: an action whose request       *)
(* passed the guard asks only that the user was once a member (`rows`).    *)
(*                                                                         *)
(* The ledger is a set of entries: the order and the hashes of its rows    *)
(* are LedgerChain's subject.  A contribution is identified by its         *)
(* client_entry_id; a membership entry carries no identity, so a second    *)
(* identical one is not told apart from the first.  An amount is always    *)
(* the circle's fixed contribution, so a total is a number of entries.     *)
(***************************************************************************)
EXTENDS Naturals, FiniteSets

CONSTANTS
  Users,        \* the people who may ever be in this circle
  Organizer,    \* the one who creates it
  Seats,        \* planned_cycles as chosen on creation
  EntryIds,     \* bound: the client_entry_id values devices may send
  Leaving,      \* bound: the users who may leave a draft circle
  Consenting,   \* bound: the users whose community consent is explored
  TurnRule,     \* "fixed" (also "need_based") or "lottery"
  Seeds,        \* the lottery seeds that may be drawn
  Rank,         \* Rank[s][u]: place of sha256(s, u) in lotteryOrder
  None          \* SQL NULL

ASSUME UsersAssumption == IsFiniteSet(Users) /\ Organizer \in Users
ASSUME SeatsAssumption == Seats \in Nat /\ Seats >= 2
ASSUME NoneAssumption == None \notin Users /\ None \notin EntryIds /\ None \notin Seeds

VARIABLES
  status,           \* circles.status
  planned,          \* circles.planned_cycles
  seed,             \* circles.lottery_seed
  rows,             \* users with a circle_members row
  left,             \* circle_members.left_cycle, 0 for NULL
  position,         \* circle_members.payout_position, 0 for NULL
  cycles,           \* cycles rows by number: is it open, who receives it
  ledger,           \* ledger_entries rows
  payable,          \* users with a shared, unarchived payout method
  consented,        \* users with an active community_aggregates consent
  communityConsent, \* circles.community_consent
  inbox             \* notifications rows

vars == <<status, planned, seed, rows, left, position, cycles, ledger,
          payable, consented, communityConsent, inbox>>

Numbers == 1..Seats

EntryTypes == {"contribution_recorded", "contribution_verified", "correction",
               "payout", "member_added", "member_removed", "turn_order_set",
               "cycle_closed"}

\* `id` is the contribution an entry records or targets; `parts` the entry
\* ids its total is made of; `unpaid` the members a close acknowledges.
Entry == [type: EntryTypes, id: EntryIds \cup {None}, cycle: Numbers \cup {0},
          subject: Users \cup {None}, actor: Users,
          parts: SUBSET EntryIds, unpaid: SUBSET Users]

Kinds == {"member_joined", "member_removed", "circle_started",
          "payment_recorded", "payment_recorded_for_you", "payment_verified",
          "payment_rejected", "payout_due_to_you", "cycle_closed"}

Message == [to: Users, kind: Kinds, about: EntryIds \cup Numbers \cup {None}]

CycleRow == [open: BOOLEAN, payee: Users]

(***************************************************************************)
(* Reads of the repository and of the view v_cycle_member_status.          *)
(***************************************************************************)
Members == {u \in rows : left[u] = 0}

Open == {n \in DOMAIN cycles : cycles[n].open}

IsCurrent(n) == n \in Open /\ \A m \in Open : n <= m
IsLastOpen(n) == n \in Open /\ \A m \in Open : m <= n

Recorded == {e \in ledger : e.type = "contribution_recorded"}
Verified(id) == \E v \in ledger : v.type = "contribution_verified" /\ v.id = id
Corrected(id) == \E c \in ledger : c.type = "correction" /\ c.id = id

\* contrib: the uncorrected contributions of u to cycle n
Live(n, u) == {e \in Recorded : /\ e.cycle = n
                                /\ e.subject = u
                                /\ ~Corrected(e.id)}

InCycle(n) == {u \in rows : left[u] = 0 \/ left[u] > n}
VerifiedOf(n, u) == {e.id : e \in {x \in Live(n, u) : Verified(x.id)}}
VerifiedIds(n) == UNION {VerifiedOf(n, u) : u \in InCycle(n)}
AwaitingIds(n) == (UNION {{e.id : e \in Live(n, u)} : u \in InCycle(n)})
                    \ VerifiedIds(n)
UnpaidUsers(n) == {u \in InCycle(n) : u # cycles[n].payee /\ Live(n, u) = {}}

\* Fault: the open cycles only, as if a close settled what was paid before it.
PaidInOpenCycles(u) == UNION {VerifiedOf(n, u) :
                                n \in {m \in Open : u \in InCycle(m)}}

\* verifiedByMember
PaidInBy(u) == UNION {VerifiedOf(n, u) :
                        n \in {m \in DOMAIN cycles : u \in InCycle(m)}}

(***************************************************************************)
(* Writes shared by several handlers.                                      *)
(***************************************************************************)
EntryOf(type, id, cycle, subject, actor) ==
  [type |-> type, id |-> id, cycle |-> cycle, subject |-> subject,
   actor |-> actor, parts |-> {}, unpaid |-> {}]

MemberEntry(type, u, actor) == EntryOf(type, None, 0, u, actor)

Append(entries) == ledger' = ledger \cup entries

Notify(users, kind, about) ==
  inbox' = inbox \cup [to: users, kind: {kind}, about: {about}]

\* Fault: re-checked when somebody's consent changes, not when somebody joins.
SyncOnConsentChange ==
  communityConsent' = IF consented' = consented
                        THEN communityConsent ELSE Members' \subseteq consented'

\* syncCommunityConsent, after the membership and the consents have changed
SyncCommunityConsent == communityConsent' = (Members' \subseteq consented')

(***************************************************************************)
(* POST /circles: create.  The creator's default method, if there is one,  *)
(* is shared.                                                              *)
(***************************************************************************)
Init ==
  /\ status = "draft"
  /\ planned = Seats
  /\ seed = None
  /\ rows = {Organizer}
  /\ left = [u \in Users |-> 0]
  /\ position = [u \in Users |-> 0]
  /\ cycles = [n \in {} |-> [open |-> TRUE, payee |-> Organizer]]
  /\ ledger = {MemberEntry("member_added", Organizer, Organizer)}
  /\ payable \in SUBSET {Organizer}
  /\ consented = {}
  /\ communityConsent = FALSE
  /\ inbox = {}

(***************************************************************************)
(* Draft circle: joining, leaving, the lottery commitment, starting.       *)
(***************************************************************************)

SeatFree == Cardinality(Members) < planned

\* join by code, and what accepting an invitation does to the circle; any
\* user may be the organizer's pal
Join(u) ==
  /\ status = "draft"
  /\ u \notin Members
  /\ SeatFree
  /\ rows' = rows \cup {u}
  /\ left' = [left EXCEPT ![u] = 0]
  /\ payable' \in {payable, payable \cup {u}}
  /\ UNCHANGED consented
  /\ SyncCommunityConsent
  /\ Append({MemberEntry("member_added", u, u)})
  /\ Notify({Organizer}, "member_joined", None)
  /\ UNCHANGED <<status, planned, seed, position, cycles>>

\* removeFromDraft and the member_removed entry
RemoveFromDraft(u, actor) ==
  /\ left' = [left EXCEPT ![u] = 1]
  /\ payable' = payable \ {u}
  /\ consented' = consented \ {u}
  /\ UNCHANGED rows
  /\ SyncCommunityConsent
  /\ Append({MemberEntry("member_removed", u, actor)})
  /\ UNCHANGED <<status, planned, seed, position, cycles>>

\* the request passed the guard while u was a member; u may have gone since
Leave(u) ==
  /\ u \in rows \ {Organizer}
  /\ status = "draft"
  /\ RemoveFromDraft(u, u)
  /\ Notify({Organizer}, "member_removed", None)

RemoveDraftMember(u) ==
  /\ u \in Members \ {Organizer}
  /\ status = "draft"
  /\ RemoveFromDraft(u, Organizer)
  /\ Notify({u}, "member_removed", None)

\* Fault: a commitment is accepted after the start.
CommitLotteryAnyTime(s) ==
  /\ TurnRule = "lottery"
  /\ seed' = s
  /\ UNCHANGED <<status, planned, rows, left, position, cycles, ledger,
                 payable, consented, communityConsent, inbox>>

CommitLottery(s) ==
  /\ status = "draft"
  /\ TurnRule = "lottery"
  /\ seed' = s
  /\ UNCHANGED <<status, planned, rows, left, position, cycles, ledger,
                 payable, consented, communityConsent, inbox>>

Orderings(S) ==
  {f \in [1..Cardinality(S) -> S] :
     /\ \A i, j \in 1..Cardinality(S) : f[i] = f[j] => i = j
     /\ \A u \in S : \E i \in 1..Cardinality(S) : f[i] = u}

\* lotteryOrder: sorted by a hash of the seed and the user
IsLotteryOrder(f) ==
  \A i, j \in DOMAIN f : i < j => Rank[seed][f[i]] < Rank[seed][f[j]]

Start ==
  /\ status = "draft"
  /\ Cardinality(Members) >= 2
  /\ Members \subseteq payable
  /\ TurnRule = "lottery" => seed # None
  /\ \E order \in Orderings(Members) :
       /\ TurnRule = "lottery" => IsLotteryOrder(order)
       /\ planned' = Cardinality(Members)
       /\ position' = [u \in Users |->
            IF u \in Members THEN CHOOSE i \in DOMAIN order : order[i] = u
                             ELSE position[u]]
       /\ cycles' = [n \in DOMAIN order |-> [open |-> TRUE, payee |-> order[n]]]
  /\ status' = "active"
  /\ Append({EntryOf("turn_order_set", None, 0, None, Organizer)})
  /\ Notify(Members \ {Organizer}, "circle_started", None)
  /\ UNCHANGED <<seed, rows, left, payable, consented, communityConsent>>

(***************************************************************************)
(* Running circle: contributions.                                          *)
(***************************************************************************)

\* Fault: only a verified contribution stands in the way of another.
NotYetVerified(n, u) == VerifiedOf(n, u) = {}

\* ALREADY_RECORDED for this cycle
NotYetRecorded(n, u) == Live(n, u) = {}

\* Fault: the id of a rejected entry may be used again.
UnusedOrRejected(id) == \A e \in Recorded : e.id = id => Corrected(id)

\* findByClientEntryId finds nothing
Unused(id) == \A e \in Recorded : e.id # id

\* m records a payment by u for cycle n under a new client_entry_id; a
\* replayed id returns the entry it recorded and changes nothing
Record(m, u, n, id) ==
  /\ m \in rows
  /\ m = u \/ m = Organizer
  /\ Unused(id)
  /\ u \in Members
  /\ status = "active"
  /\ n \in Open
  /\ cycles[n].payee # u
  /\ NotYetRecorded(n, u)
  /\ Append({EntryOf("contribution_recorded", id, n, u, m)})
  /\ IF m = u THEN Notify({Organizer} \ {m}, "payment_recorded", id)
              ELSE Notify({u}, "payment_recorded_for_you", id)
  /\ UNCHANGED <<status, planned, seed, rows, left, position, cycles,
                 payable, consented, communityConsent>>

\* Fault: the cycle of a verified entry is not looked at.
PendingAnyCycle(e, verified) ==
  /\ ~Corrected(e.id)
  /\ Verified(e.id) = verified

\* the entry e has not been corrected, and is unverified (verify, reject) or
\* verified in a cycle still open (reverse): `pending`
Pending(e, verified) ==
  /\ ~Corrected(e.id)
  /\ Verified(e.id) = verified
  /\ verified => e.cycle \in Open

\* Fault: tells whoever recorded the payment, not whose payment it is.
SettleTellingRecorder(e, type, kind) ==
  /\ Append({EntryOf(type, e.id, e.cycle, e.subject, Organizer)})
  /\ Notify({e.actor} \ {Organizer}, kind, e.id)
  /\ UNCHANGED <<status, planned, seed, rows, left, position, cycles,
                 payable, consented, communityConsent>>

\* the organizer's verify, reject or reverse appends an entry about e
Settle(e, type, kind) ==
  /\ Append({EntryOf(type, e.id, e.cycle, e.subject, Organizer)})
  /\ Notify({e.subject} \ {Organizer}, kind, e.id)
  /\ UNCHANGED <<status, planned, seed, rows, left, position, cycles,
                 payable, consented, communityConsent>>

Verify(e) ==
  /\ Pending(e, FALSE)
  /\ Settle(e, "contribution_verified", "payment_verified")

Reject(e) ==
  /\ Pending(e, FALSE)
  /\ Settle(e, "correction", "payment_rejected")

Reverse(e) ==
  /\ Pending(e, TRUE)
  /\ Settle(e, "correction", "payment_rejected")

(***************************************************************************)
(* Running circle: closing a cycle and removing a member.                  *)
(***************************************************************************)

\* Fault: closes over payments that wait for verification.
WaitingOrNot(n) == TRUE

\* PENDING_VERIFICATIONS
NothingWaiting(n) == AwaitingIds(n) = {}

\* acknowledgeUnpaid is the caller's input and must equal the count
CloseCycle(n, acknowledgeUnpaid) ==
  /\ status = "active"
  /\ IsCurrent(n)
  /\ NothingWaiting(n)
  /\ acknowledgeUnpaid = Cardinality(UnpaidUsers(n))
  /\ LET payee == cycles[n].payee IN
       /\ Append({[EntryOf("payout", None, n, payee, Organizer)
                     EXCEPT !.parts = VerifiedIds(n)],
                  [EntryOf("cycle_closed", None, n, None, Organizer)
                     EXCEPT !.parts = VerifiedIds(n), !.unpaid = UnpaidUsers(n)]})
       /\ inbox' = inbox
            \cup [to: {payee} \ {Organizer}, kind: {"payout_due_to_you"}, about: {n}]
            \cup [to: Members \ {payee, Organizer}, kind: {"cycle_closed"}, about: {n}]
  /\ cycles' = [cycles EXCEPT ![n].open = FALSE]
  /\ status' = IF Open = {n} THEN "completed" ELSE status
  /\ UNCHANGED <<planned, seed, rows, left, position, payable, consented,
                 communityConsent>>

\* Fault: the reference is not enforced.
NoForeignKey(current, deleted) == TRUE

\* ledger_entries.cycle_id REFERENCES cycles: a cycle with entries cannot be
\* deleted, nor an entry appended to a deleted one; either fails the request
ForeignKeyHolds(current, deleted) ==
  /\ \A e \in ledger : e.cycle # deleted
  /\ current # deleted

\* Fault: the cycles move up and the payout positions stay.
MoveUpCyclesOnly(turn, last) ==
  /\ cycles' = [n \in DOMAIN cycles \ {last} |->
       IF n \in Open /\ n >= turn
         THEN [open |-> TRUE, payee |-> cycles[n + 1].payee]
         ELSE cycles[n]]
  /\ position' = [u \in Users |-> IF position[u] = turn THEN 0 ELSE position[u]]
  /\ planned' = planned - 1

\* the last open cycle goes and the turns after u's move up by one
MoveUp(turn, last) ==
  /\ cycles' = [n \in DOMAIN cycles \ {last} |->
       IF n \in Open /\ n >= turn
         THEN [open |-> TRUE, payee |-> cycles[n + 1].payee]
         ELSE cycles[n]]
  /\ position' = [u \in Users |->
       CASE position[u] = turn -> 0
         [] position[u] > turn -> position[u] - 1
         [] OTHER -> position[u]]
  /\ planned' = planned - 1

\* Fault: whether the turn is past is not looked at.
HasTurn(u, turn) == turn \in DOMAIN cycles /\ cycles[turn].payee = u

\* MEMBER_ALREADY_PAID_OUT
StillToReceive(u, turn) == turn \in Open /\ cycles[turn].payee = u

\* Fault: counts the member about to go.
TwoMembers == Cardinality(Members) >= 2

\* NOT_ENOUGH_MEMBERS, counted with the member about to go
EnoughMembers == Cardinality(Members) > 2

\* Fault: asked of verified payments only.
NobodyVerifiedYet(u, current) ==
  cycles[current].payee = u => VerifiedIds(current) = {}

\* the current recipient may go only before anybody paid them
NobodyPaidYet(u, current) ==
  cycles[current].payee = u =>
    VerifiedIds(current) = {} /\ AwaitingIds(current) = {}

RemoveActiveMember(u, current, turn, last) ==
  /\ status = "active"
  /\ u \in Members \ {Organizer}
  /\ IsCurrent(current)
  /\ StillToReceive(u, turn)
  /\ EnoughMembers
  /\ NobodyPaidYet(u, current)
  /\ Live(current, u) = {}
  /\ IsLastOpen(last) /\ ForeignKeyHolds(current, last)
  /\ MoveUp(turn, last)
  /\ left' = [left EXCEPT ![u] = current]
  /\ consented' = consented \ {u}
  /\ UNCHANGED rows
  /\ SyncCommunityConsent
  /\ Append({[EntryOf("member_removed", None, current, u, Organizer)
                EXCEPT !.parts = PaidInBy(u)]})
  /\ Notify({u}, "member_removed", None)
  /\ UNCHANGED <<status, seed, payable>>

(***************************************************************************)
(* Any time: payout methods shared with the circle, community consent.     *)
(***************************************************************************)

\* a member who has left is refused by `detail`, which rolls the share back
SharePayout(u) ==
  /\ u \in Members
  /\ status # "completed"
  /\ payable' = payable \cup {u}
  /\ UNCHANGED <<status, planned, seed, rows, left, position, cycles, ledger,
                 consented, communityConsent, inbox>>

\* nothing after the guard looks at the membership again
SetConsent(u, granted) ==
  /\ u \in rows
  /\ consented' = IF granted THEN consented \cup {u} ELSE consented \ {u}
  /\ UNCHANGED <<rows, left>>
  /\ SyncCommunityConsent
  /\ UNCHANGED <<status, planned, seed, position, cycles, ledger, payable, inbox>>

Next ==
  \/ \E u \in Users : Join(u)
  \/ \E u \in Leaving : Leave(u)
  \/ \E u \in Leaving : RemoveDraftMember(u)
  \/ \E s \in Seeds : CommitLottery(s)
  \/ Start
  \/ \E m, u \in Users, n \in Numbers, id \in EntryIds : Record(m, u, n, id)
  \/ \E e \in Recorded : Verify(e)
  \/ \E e \in Recorded : Reject(e)
  \/ \E e \in Recorded : Reverse(e)
  \/ \E n \in Numbers, k \in 0..Cardinality(Users) : CloseCycle(n, k)
  \/ \E u \in Users, current, turn, last \in Numbers :
       RemoveActiveMember(u, current, turn, last)
  \/ \E u \in Users : SharePayout(u)
  \/ \E u \in Consenting, granted \in BOOLEAN : SetConsent(u, granted)

Spec == Init /\ [][Next]_vars
-----------------------------------------------------------------------------
(***************************************************************************)
(* Properties.                                                             *)
(***************************************************************************)

\* A contribution is about a member, a cycle and its own id.
ContributionsTyped ==
  \A e \in Recorded : e.id \in EntryIds /\ e.cycle \in Numbers /\ e.subject \in Users

\* The columns, rows and sets of the model have their types.
TypeOK ==
  /\ status \in {"draft", "active", "completed"}
  /\ planned \in Nat
  /\ seed \in Seeds \cup {None}
  /\ rows \in SUBSET Users
  /\ left \in [Users -> Numbers \cup {0}]
  /\ position \in [Users -> Numbers \cup {0}]
  /\ DOMAIN cycles \subseteq Numbers
  /\ cycles \in [DOMAIN cycles -> CycleRow]
  /\ ledger \in SUBSET Entry /\ ContributionsTyped
  /\ payable \in SUBSET Users
  /\ consented \in SUBSET Users
  /\ communityConsent \in BOOLEAN
  /\ inbox \in SUBSET Message

\* Once started, cycles are numbered 1 to planned_cycles, every cycle is
\* received by one current member, every current member receives one cycle,
\* and payout_position names it; removeFromActive must keep the three equal.
TurnsWellFormed ==
  IF status = "draft"
    THEN DOMAIN cycles = {} /\ planned = Seats
    ELSE /\ DOMAIN cycles = 1..planned
         /\ \A n \in DOMAIN cycles :
              cycles[n].payee \in Members /\ position[cycles[n].payee] = n
         /\ \A u \in Members :
              position[u] \in DOMAIN cycles /\ cycles[position[u]].payee = u

\* Cycles close in order, and the circle runs exactly while one is open: a
\* removal never takes the last open cycle away from an active circle.
ClosedInOrder ==
  /\ \A m, n \in DOMAIN cycles : m < n /\ n \notin Open => m \notin Open
  /\ status = "active" => Open # {}
  /\ status = "completed" => Open = {}

\* A draft never holds more members than it has seats (CIRCLE_FULL).
SeatsRespected == status = "draft" => Cardinality(Members) <= planned

\* Each closed cycle has one payout, to its recipient, made of exactly the
\* contributions that count as verified in it now: nothing later changes what
\* a payout was calculated from.  An open cycle has none.
PayoutBacked ==
  \A n \in DOMAIN cycles :
    LET payouts == {e \in ledger : e.type = "payout" /\ e.cycle = n} IN
      IF n \in Open
        THEN payouts = {}
        ELSE \E p \in payouts : /\ payouts = {p}
                               /\ p.subject = cycles[n].payee
                               /\ p.parts = VerifiedIds(n)

\* After a close every other current member either has one verified
\* contribution to the cycle or is on its acknowledged unpaid list, and no
\* contribution to it that counts is still waiting.
EveryoneAccounted ==
  \A n \in DOMAIN cycles \ Open :
    /\ AwaitingIds(n) = {}
    /\ \E c \in ledger :
         /\ c.type = "cycle_closed" /\ c.cycle = n
         /\ \A u \in Members \ {cycles[n].payee} :
              IF u \in c.unpaid THEN Live(n, u) = {}
                               ELSE Cardinality(VerifiedOf(n, u)) = 1

OneLiveContribution ==
  \A n \in Numbers, u \in Users : Cardinality(Live(n, u)) <= 1

EntryIdsUnique == \A e, f \in Recorded : e.id = f.id => e = f

\* A member has at most one uncorrected contribution to a cycle, however often
\* they or the organizer record, retry, reject and record again, and one
\* client_entry_id never records two contributions (a device that retries).
OneRecordEach == OneLiveContribution /\ EntryIdsUnique

\* Nobody receives the pot twice, and when the circle completes the members
\* who received it are the members it has.
PotOnce ==
  LET payouts == {e \in ledger : e.type = "payout"} IN
    /\ \A p, q \in payouts : p.subject = q.subject => p = q
    /\ status = "completed" => {p.subject : p \in payouts} = Members

\* A payment that counts towards the running cycle stays with the recipient it
\* was made to: whoever else is removed or removes, and also when the running
\* cycle's own recipient goes (CYCLE_HAS_PAYMENTS).
PaymentsKeepRecipient ==
  [][\A n \in DOMAIN cycles : IsCurrent(n) =>
       \A i \in VerifiedIds(n) \cup AwaitingIds(n) :
         n \in DOMAIN cycles' /\ cycles'[n].payee = cycles[n].payee]_vars

\* What a removal records as paid in stays true of the closed cycles: later
\* corrections and closes leave those contributions of the member as they were.
RemovalAccounted ==
  \A r \in ledger : r.type = "member_removed" /\ r.cycle # 0 =>
    {e.id : e \in {x \in Recorded : x.id \in r.parts /\ x.cycle < r.cycle}}
      = UNION {VerifiedOf(n, r.subject) : n \in {m \in DOMAIN cycles : m < r.cycle}}

\* The circle is shared with the community tier exactly while every current
\* member agrees, through joins, departures, removals and requests of people
\* who left after passing the guard.
CommunityConsentHonest == communityConsent = (Members \subseteq consented)

\* Every entry about you that someone else made reaches your inbox (tell,
\* record, closeCycle, removeMember).
InboxComplete ==
  \A e \in ledger : e.subject \notin {None, e.actor} =>
    \E msg \in inbox :
      /\ msg.to = e.subject
      /\ CASE e.type = "contribution_recorded" ->
                msg.kind = "payment_recorded_for_you" /\ msg.about = e.id
           [] e.type = "contribution_verified" ->
                msg.kind = "payment_verified" /\ msg.about = e.id
           [] e.type = "correction" ->
                msg.kind = "payment_rejected" /\ msg.about = e.id
           [] e.type = "payout" ->
                msg.kind = "payout_due_to_you" /\ msg.about = e.cycle
           [] e.type = "member_removed" -> msg.kind = "member_removed"
           [] OTHER -> FALSE

\* The turns follow the order drawn from the published seed, also after members
\* are removed, and the seed cannot be drawn again once it has been used.
LotteryHonoured ==
  TurnRule = "lottery" =>
    \A m, n \in DOMAIN cycles :
      m < n => Rank[seed][cycles[m].payee] < Rank[seed][cycles[n].payee]

(***************************************************************************)
(* Said by the repository and not kept by the code (README.md, section 5). *)
(***************************************************************************)

\* Migration 0009: the member who receives a cycle's payout does not
\* contribute in that cycle, nobody pays themself.  A payment made ahead can
\* break this when a removal moves the turns up.
NobodyPaysThemself ==
  \A n \in DOMAIN cycles : Live(n, cycles[n].payee) = {}

\* `pending`: a closed cycle's records can no longer change.  The code checks
\* the cycle only of a verified entry; one waiting when its member was removed
\* can be settled after the close.
ClosedRecordsFinal ==
  [][\A e \in Recorded : e.cycle \in DOMAIN cycles \ Open =>
       /\ Verified(e.id)' = Verified(e.id)
       /\ Corrected(e.id)' = Corrected(e.id)]_vars

(***************************************************************************)
(* What a circle promises, abstractly (PotRotation.tla).                   *)
(***************************************************************************)
Payees(S) == {cycles[n].payee : n \in S}

Rotation == INSTANCE PotRotation
  WITH phase <- status, members <- Members,
       waiting <- Payees(Open), received <- Payees(DOMAIN cycles \ Open)

\* Each step of the circle is a step of the rotation or changes nothing in it.
ImplementsRotation == Rotation!Spec
=============================================================================
