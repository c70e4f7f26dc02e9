---------------------------- MODULE OutboxProofs ----------------------------
(***************************************************************************)
(* Proofs about Outbox for every set of payments and accounts, through     *)
(* lost answers, restarts and changes of account.  A row leaves the phone  *)
(* only for an answer that its payment is on record (OkIsOnRecord), or by  *)
(* hand; the server's record only grows.                                   *)
(***************************************************************************)
EXTENDS Outbox, TLAPS

\* What the loop waits for is an answer about a payment, and a good answer is true.
OkIsOnRecord ==
  /\ sent = Nothing \/ sent.payment \in Payments
  /\ sent.answer = "ok" => OnRecord(sent.payment)

OutboxInv == TypeOK /\ OkIsOnRecord /\ RecordedOnce /\ KeptIsNotLost
-----------------------------------------------------------------------------
(***************************************************************************)
(* The server.                                                             *)
(***************************************************************************)

\* Whatever happens to a request, the record keeps its type, holds each payment once and
\* loses none; an answer "ok" says the payment is on it.
LEMMA ExchangeKeepsRecord ==
  ASSUME server \in Seq([payment: Payments, account: Accounts]), RecordedOnce,
         NEW p \in Payments, NEW u \in Accounts \cup {None}, NEW answer \in Answers,
         Exchange(p, u, answer)
  PROVE  /\ server' \in Seq([payment: Payments, account: Accounts])
         /\ RecordedOnce'
         /\ \A q : OnRecord(q) => OnRecord(q)'
         /\ answer = "ok" => OnRecord(p)'
<1>1. CASE UNCHANGED server
  <2>1. RecordedOnce' /\ \A q : OnRecord(q)' <=> OnRecord(q)
    BY <1>1 DEF RecordedOnce, OnRecord
  <2>2. answer = "ok" => OnRecord(p)
    <3>1. answer = "ok" => AppendOnce(p, u)
      BY DEF Exchange
    <3>2. ~OnRecord(p) /\ AppendOnce(p, u) => Len(server') = Len(server) + 1
      BY DEF AppendOnce
    <3> QED
      BY <1>1, <3>1, <3>2
  <2> QED
    BY <1>1, <2>1, <2>2
<1>2. CASE server' # server
  <2>1. /\ u \in Accounts /\ ~OnRecord(p)
        /\ server' = Append(server, EntryOf(p, u))
    BY <1>2 DEF Exchange, AppendOnce
  <2>2. EntryOf(p, u) \in [payment: Payments, account: Accounts] /\ EntryOf(p, u).payment = p
    BY <2>1 DEF EntryOf
  <2>3. /\ Len(server') = Len(server) + 1 /\ DOMAIN server' = 1..Len(server')
        /\ DOMAIN server = 1..Len(server) /\ Len(server) \in Nat
        /\ server'[Len(server) + 1] = EntryOf(p, u)
        /\ \A i \in 1..Len(server) : server'[i] = server[i]
    BY <2>1, <2>2
  <2>4. server' \in Seq([payment: Payments, account: Accounts])
    BY <2>1, <2>2
  <2>5. OnRecord(p)' /\ \A q : OnRecord(q) => OnRecord(q)'
    BY <2>2, <2>3 DEF OnRecord
  <2>6. RecordedOnce'
    <3> SUFFICES ASSUME NEW i \in DOMAIN server', NEW j \in DOMAIN server',
                        server'[i].payment = server'[j].payment
                 PROVE  i = j
      BY DEF RecordedOnce
    <3>1. \A k \in 1..Len(server) : server'[k].payment # p
      BY <2>1, <2>3 DEF OnRecord
    <3>2. CASE i \in 1..Len(server) /\ j \in 1..Len(server)
      BY <2>3, <3>2 DEF RecordedOnce
    <3>3. CASE i = Len(server) + 1 \/ j = Len(server) + 1
      BY <2>2, <2>3, <3>1, <3>3
    <3> QED
      BY <2>3, <3>2, <3>3
  <2> QED
    BY <2>4, <2>5, <2>6
<1> QED
  BY <1>1, <1>2

\* The record is as it was.
LEMMA RecordFrame ==
  ASSUME UNCHANGED server
  PROVE  (RecordedOnce <=> RecordedOnce') /\ \A p : OnRecord(p)' <=> OnRecord(p)
  BY DEF RecordedOnce, OnRecord
-----------------------------------------------------------------------------
\* The phone and the record begin empty.
LEMMA InitOutboxInv == Init => OutboxInv
<1> SUFFICES ASSUME Init PROVE OutboxInv
  OBVIOUS
<1>1. server \in Seq([payment: Payments, account: Accounts]) /\ DOMAIN server = {}
  BY DEF Init
<1>2. TypeOK
  BY <1>1 DEF Init, TypeOK, Nothing, Answers
<1> QED
  BY <1>1, <1>2 DEF Init, OutboxInv, OkIsOnRecord, RecordedOnce, KeptIsNotLost, Nothing

\* A sync that starts has work to do; one that returns at once changes nothing.
LEMMA StartSyncType ==
  ASSUME TypeOK, NEW pending \in SUBSET Payments, StartSync(pending), UNCHANGED sent
  PROVE  /\ todo' \subseteq Payments /\ syncing' \in BOOLEAN
         /\ syncing' <=> todo' # {} \/ sent' # Nothing
  BY DEF TypeOK, StartSync

\* What a step keeps that sends nothing and removes no row.
LEMMA RowsFrame ==
  ASSUME OutboxInv, TypeOK', UNCHANGED <<direct, store, sent, server, discarded>>
  PROVE  OutboxInv'
  BY RecordFrame DEF OutboxInv, OkIsOnRecord, KeptIsNotLost

\* (build) Signing in rebuilds the controller and removes no row.
LEMMA SignInInv == ASSUME OutboxInv, NEW u \in Accounts, SignIn(u) PROVE OutboxInv'
<1>1. TypeOK'
  BY DEF OutboxInv, TypeOK, SignIn, Rebuild
<1> QED
  BY <1>1, RowsFrame DEF SignIn

\* (build) Signing out forgets what is shown, not the rows.
LEMMA SignOutInv == ASSUME OutboxInv, SignOut PROVE OutboxInv'
<1>1. TypeOK'
  BY DEF OutboxInv, TypeOK, SignOut, Rebuild
<1> QED
  BY <1>1, RowsFrame DEF SignOut

\* (build) A change of the profile rebuilds the controller for the same account.
LEMMA ProfileChangedInv == ASSUME OutboxInv, ProfileChanged PROVE OutboxInv'
<1>1. TypeOK'
  BY DEF OutboxInv, TypeOK, ProfileChanged, Rebuild
<1> QED
  BY <1>1, RowsFrame DEF ProfileChanged

\* A restart loses the calls under way; the rows are in the database.
LEMMA RestartInv == ASSUME OutboxInv, Restart PROVE OutboxInv'
<1>1. TypeOK'
  BY DEF OutboxInv, TypeOK, Restart, RowsSurvive, Nothing, Answers
<1>2. OkIsOnRecord'
  BY DEF Restart, OkIsOnRecord, Nothing
<1>3. KeptIsNotLost'
  BY RecordFrame DEF OutboxInv, Restart, RowsSurvive, KeptIsNotLost
<1> QED
  BY <1>1, <1>2, <1>3, RecordFrame DEF OutboxInv, Restart

\* (sync, _schedule) Send now and the timer start a sync and send nothing themselves.
LEMMA SendInv == ASSUME OutboxInv, SendNow \/ TimerFires PROVE OutboxInv'
<1>1. shown \ failed \in SUBSET Payments
  BY DEF OutboxInv, TypeOK
<1>2. StartSync(shown \ failed) /\ UNCHANGED sent
  BY DEF SendNow, TimerFires
<1>3. TypeOK'
  BY <1>1, <1>2, StartSyncType DEF OutboxInv, TypeOK, SendNow, TimerFires, TimerAfterStart
<1> QED
  BY <1>3, RowsFrame DEF SendNow, TimerFires

\* (_load) The rows loaded are rows of the phone; the sync they start is not a second
\* one.
LEMMA LoadedInv == ASSUME OutboxInv, NEW u \in Accounts, Loaded(u) PROVE OutboxInv'
<1>1. RowsOf(u) \subseteq store /\ RowsOf(u) \ failed \in SUBSET Payments
  BY DEF RowsOf, OutboxInv, TypeOK
<1>2. /\ todo' \subseteq Payments /\ syncing' \in BOOLEAN /\ timer' \in BOOLEAN
      /\ syncing' <=> todo' # {} \/ sent' # Nothing
  <2>1. CASE RowsOf(u) \subseteq failed
    BY <2>1 DEF Loaded, OutboxInv, TypeOK
  <2>2. CASE ~(RowsOf(u) \subseteq failed)
    BY <1>1, <2>2, StartSyncType DEF Loaded, OutboxInv, TypeOK, TimerAfterStart
  <2> QED
    BY <2>1, <2>2
<1>3. TypeOK'
  BY <1>1, <1>2 DEF OutboxInv, TypeOK, Loaded
<1> QED
  BY <1>3, RowsFrame DEF Loaded

\* (sync) A payment sent from the store, perhaps once more, is on the record once.
LEMMA SyncSendInv ==
  ASSUME OutboxInv, NEW p \in Payments, NEW answer \in Answers, SyncSend(p, answer)
  PROVE  OutboxInv'
<1>1. /\ server' \in Seq([payment: Payments, account: Accounts]) /\ RecordedOnce'
      /\ \A q : OnRecord(q) => OnRecord(q)'
      /\ answer = "ok" => OnRecord(p)'
  BY ExchangeKeepsRecord DEF SyncSend, OutboxInv, TypeOK
<1>2. /\ sent' = [payment |-> p, answer |-> answer] /\ sent' # Nothing
      /\ sent'.payment = p /\ sent'.answer = answer
      /\ sent' \in [payment: Payments \cup {None}, answer: Answers]
  BY OutboxAssumption DEF SyncSend, Nothing
<1>3. TypeOK'
  BY <1>1, <1>2 DEF OutboxInv, TypeOK, SyncSend
<1>4. OkIsOnRecord'
  BY <1>1, <1>2 DEF OkIsOnRecord
<1>5. KeptIsNotLost'
  BY <1>1 DEF OutboxInv, KeptIsNotLost, SyncSend
<1> QED
  BY <1>1, <1>3, <1>4, <1>5 DEF OutboxInv

\* (sync) A row is removed for the answer ok, and then the payment is on record.
LEMMA SyncAnsweredInv == ASSUME OutboxInv, SyncAnswered PROVE OutboxInv'
<1> USE DEF OutboxInv
<1>1. /\ sent # Nothing /\ sent' = Nothing /\ UNCHANGED <<by, direct, server, discarded>>
      /\ sent.payment \in Payments
  BY DEF SyncAnswered, OkIsOnRecord
<1>2. Nothing \in [payment: Payments \cup {None}, answer: Answers] /\ Nothing.answer = "network"
  BY DEF Nothing, Answers
<1>3. OkIsOnRecord' /\ RecordedOnce'
  BY <1>1, <1>2, RecordFrame DEF OkIsOnRecord
<1>4. CASE SyncRecorded
  <2>1. TypeOK'
    BY <1>1, <1>2, <1>4 DEF SyncRecorded, EndSync, TypeOK
  <2>2. OnRecord(sent.payment)
    BY <1>4 DEF SyncRecorded, OkIsOnRecord
  <2>3. KeptIsNotLost'
    BY <1>1, <1>4, <2>2, RecordFrame DEF SyncRecorded, KeptIsNotLost
  <2> QED
    BY <1>3, <2>1, <2>3
<1>5. CASE SyncRefused
  <2>1. TypeOK'
    BY <1>1, <1>2, <1>5 DEF SyncRefused, RefusedIsKept, EndSync, Rebuild, TypeOK
  <2>2. KeptIsNotLost'
    BY <1>1, <1>5, RecordFrame DEF SyncRefused, RefusedIsKept, KeptIsNotLost
  <2> QED
    BY <1>3, <2>1, <2>2
<1>6. CASE SyncOffline
  <2>1. TypeOK'
    BY <1>1, <1>2, <1>6 DEF SyncOffline, TryLater, TypeOK
  <2>2. KeptIsNotLost'
    BY <1>1, <1>6, RecordFrame DEF SyncOffline, KeptIsNotLost
  <2> QED
    BY <1>3, <2>1, <2>2
<1> QED
  BY <1>4, <1>5, <1>6 DEF SyncAnswered

\* (record) A payment sent at once is not on the phone yet, and nobody was told it is
\* saved.
LEMMA RecordInv ==
  ASSUME OutboxInv, NEW p \in Payments, NEW answer \in Answers, Record(p, answer)
  PROVE  OutboxInv'
<1>1. /\ server' \in Seq([payment: Payments, account: Accounts]) /\ RecordedOnce'
      /\ \A q : OnRecord(q) => OnRecord(q)'
  BY ExchangeKeepsRecord DEF Record, OutboxInv, TypeOK
<1>2. TypeOK'
  BY <1>1 DEF OutboxInv, TypeOK, Record
<1>3. OkIsOnRecord'
  BY <1>1 DEF OutboxInv, OkIsOnRecord, Record
<1>4. KeptIsNotLost'
  BY <1>1 DEF OutboxInv, TypeOK, KeptIsNotLost, Record, Answers
<1> QED
  BY <1>1, <1>2, <1>3, <1>4 DEF OutboxInv

\* (record, store.put) A payment the network kept back becomes a row.
LEMMA RecordKeptInv == ASSUME OutboxInv, NEW p \in Payments, RecordKept(p) PROVE OutboxInv'
<1>1. TypeOK'
  BY DEF OutboxInv, TypeOK, RecordKept
<1>2. KeptIsNotLost'
  BY RecordFrame DEF OutboxInv, TypeOK, KeptIsNotLost, RecordKept
<1> QED
  BY <1>1, <1>2, RecordFrame DEF OutboxInv, OkIsOnRecord, RecordKept

\* (record) The caller hears the answer; no row and no entry changes.
LEMMA RecordAnsweredInv == ASSUME OutboxInv, NEW p \in Payments, RecordAnswered(p) PROVE OutboxInv'
<1>1. TypeOK'
  BY DEF OutboxInv, TypeOK, RecordAnswered, Rebuild
<1>2. KeptIsNotLost'
  BY RecordFrame DEF OutboxInv, TypeOK, KeptIsNotLost, RecordAnswered
<1> QED
  BY <1>1, <1>2, RecordFrame DEF OutboxInv, OkIsOnRecord, RecordAnswered

\* (discard) A row removed by hand counts as removed by hand.
LEMMA DiscardInv == ASSUME OutboxInv, NEW p \in Payments, Discard(p) PROVE OutboxInv'
<1>1. TypeOK'
  BY DEF OutboxInv, TypeOK, Discard
<1>2. KeptIsNotLost'
  BY RecordFrame DEF OutboxInv, KeptIsNotLost, Discard
<1> QED
  BY <1>1, <1>2, RecordFrame DEF OutboxInv, OkIsOnRecord, Discard

\* Every step of the app keeps the invariant.
LEMMA NextOutboxInv == OutboxInv /\ [Next]_vars => OutboxInv'
<1>1. OutboxInv /\ UNCHANGED vars => OutboxInv'
  <2> SUFFICES ASSUME OutboxInv, UNCHANGED vars PROVE OutboxInv'
    OBVIOUS
  <2>1. TypeOK'
    BY DEF vars, OutboxInv, TypeOK
  <2> QED
    BY <2>1, RowsFrame DEF vars
<1> QED
  BY <1>1, SignInInv, LoadedInv, SignOutInv, ProfileChangedInv, RestartInv, SendInv, SyncSendInv,
     RecordInv, SyncAnsweredInv, RecordKeptInv, RecordAnsweredInv, DiscardInv DEF Next
-----------------------------------------------------------------------------
(***************************************************************************)
(* The theorems.  Liveness (TakenUpIsAnswered) is left to TLC.             *)
(***************************************************************************)

\* The phone's rows, the loop and the record stay consistent.
THEOREM OutboxInvariant == Spec => []OutboxInv
<1> QED
  BY InitOutboxInv, NextOutboxInv, PTL DEF Spec

\* However often a payment is sent, the server records it once (ContributionsService.record).
THEOREM OutboxRecordsOnce == Spec => []RecordedOnce
<1>1. OutboxInv => RecordedOnce
  BY DEF OutboxInv
<1> QED
  BY <1>1, OutboxInvariant, PTL

\* A payment the member was told is saved is on the phone, on record or removed by hand,
\* through restarts, refusals and changes of account (OutboxController).
THEOREM OutboxLosesNothing == Spec => []KeptIsNotLost
<1>1. OutboxInv => KeptIsNotLost
  BY DEF OutboxInv
<1> QED
  BY <1>1, OutboxInvariant, PTL
-----------------------------------------------------------------------------
(***************************************************************************)
(* The outbox and the server implement Delivery.                           *)
(***************************************************************************)

\* What is kept, waits to be sent or is being sent was recorded by somebody.
PaymentsWereMade ==
  /\ \A p \in Payments : direct[p] = "new" <=> by[p] = None
  /\ store \subseteq Made /\ todo \subseteq Made
  /\ sent = Nothing \/ sent.payment \in Made

\* The loop takes up rows of the table.
LEMMA StartSyncTakesRows ==
  ASSUME OutboxInv, PaymentsWereMade, NEW pending \in SUBSET store, StartSync(pending)
  PROVE  todo' \subseteq Made
BY DEF StartSync, PaymentsWereMade

\* Every step keeps it: only record() makes a payment.
LEMMA NextPaymentsWereMade ==
  OutboxInv /\ PaymentsWereMade /\ [Next]_vars => PaymentsWereMade'
<1> SUFFICES ASSUME OutboxInv, PaymentsWereMade, [Next]_vars PROVE PaymentsWereMade'
  OBVIOUS
<1> USE DEF PaymentsWereMade
<1>0. shown \subseteq store
  BY DEF OutboxInv, TypeOK
<1>1. ASSUME by' = by, UNCHANGED sent, todo' \subseteq Made, store' \subseteq Made,
             \A p \in Payments : direct'[p] = "new" <=> direct[p] = "new"
      PROVE  PaymentsWereMade'
  BY <1>1 DEF Made
<1>2. ASSUME NEW u \in Accounts, SignIn(u) PROVE PaymentsWereMade'
  BY <1>1, <1>2 DEF SignIn
<1>3. CASE SignOut \/ ProfileChanged
  BY <1>1, <1>3 DEF SignOut, ProfileChanged
<1>4. ASSUME NEW u \in Accounts, Loaded(u) PROVE PaymentsWereMade'
  <2>1. RowsOf(u) \ failed \in SUBSET store
    BY DEF RowsOf
  <2>2. todo' \subseteq Made
    BY <1>4, <2>1, StartSyncTakesRows DEF Loaded
  <2> QED
    BY <1>1, <1>4, <2>2 DEF Loaded
<1>5. CASE Restart
  <2>1. \A p \in Payments : direct'[p] = "new" <=> direct[p] = "new"
    BY <1>5 DEF Restart
  <2> QED
    BY <1>5, <2>1 DEF Restart, RowsSurvive, Made
<1>6. CASE SendNow \/ TimerFires
  <2>1. todo' \subseteq Made
    BY <1>0, <1>6, StartSyncTakesRows DEF SendNow, TimerFires
  <2> QED
    BY <1>1, <1>6, <2>1 DEF SendNow, TimerFires
<1>7. ASSUME NEW p \in Payments, NEW answer \in Answers, SyncSend(p, answer) PROVE PaymentsWereMade'
  <2>1. by' = by /\ direct' = direct /\ store' = store /\ todo' \subseteq Made /\ sent'.payment \in Made
    BY <1>7 DEF SyncSend
  <2> QED
    BY <2>1 DEF Made
<1>8. ASSUME NEW p \in Payments, NEW answer \in Answers, Record(p, answer) PROVE PaymentsWereMade'
  <2>1. /\ direct \in [Payments -> {"new", "kept", "over"} \cup Answers]
        /\ by \in [Payments -> Accounts \cup {None}] /\ account \in Accounts /\ account # None
    BY <1>8, OutboxAssumption DEF OutboxInv, TypeOK, Record
  <2>2. /\ by' = [by EXCEPT ![p] = account] /\ direct' = [direct EXCEPT ![p] = answer] /\ answer # "new"
        /\ store' = store /\ todo' = todo /\ sent' = sent
    BY <1>8 DEF Record, Answers
  <2>3. \A q \in Payments : direct'[q] = "new" <=> by'[q] = None
    BY <2>1, <2>2
  <2>4. Made \subseteq Made'
    BY <2>1, <2>2 DEF Made
  <2> QED
    BY <2>2, <2>3, <2>4
<1>9. CASE SyncAnswered
  <2>1. sent' = Nothing /\ by' = by /\ direct' = direct /\ sent.payment \in Made
    BY <1>9 DEF SyncAnswered
  <2>2. store' \subseteq Made /\ todo' \subseteq Made
    BY <1>9, <2>1 DEF SyncAnswered, SyncRecorded, SyncRefused, RefusedIsKept, SyncOffline, EndSync
  <2> QED
    BY <2>1, <2>2 DEF Made
<1>10. ASSUME NEW p \in Payments, RecordKept(p) \/ RecordAnswered(p) PROVE PaymentsWereMade'
  <2>1. /\ direct[p] # "new" /\ by' = by /\ sent' = sent /\ todo' = todo
        /\ store' \subseteq store \cup {p}
        /\ direct' = [direct EXCEPT ![p] = "kept"] \/ direct' = [direct EXCEPT ![p] = "over"]
    BY <1>10 DEF RecordKept, RecordAnswered
  <2>2. p \in Made
    BY <2>1 DEF Made
  <2>3. \A q \in Payments : direct'[q] = "new" <=> direct[q] = "new"
    BY <2>1 DEF OutboxInv, TypeOK
  <2> QED
    BY <1>1, <2>1, <2>2, <2>3
<1>11. ASSUME NEW p \in Payments, Discard(p) PROVE PaymentsWereMade'
  BY <1>1, <1>11 DEF Discard
<1>12. CASE UNCHANGED vars
  BY <1>1, <1>12 DEF vars
<1> QED
  BY <1>2, <1>3, <1>4, <1>5, <1>6, <1>7, <1>8, <1>9, <1>10, <1>11, <1>12 DEF Next

\* A request records its payment, or changes nothing on the record.
LEMMA ExchangeRecords ==
  ASSUME OutboxInv, NEW p \in Payments, NEW u, NEW answer, Exchange(p, u, answer)
  PROVE  Promise!Records(p) \/ UNCHANGED <<Recorded, Len(server)>>
<1>1. CASE server' = server
  BY <1>1 DEF Recorded, OnRecord
<1>2. CASE server' # server
  <2>1. ~OnRecord(p) /\ server' = Append(server, EntryOf(p, u)) /\ u # None
    BY <1>2 DEF Exchange, AppendOnce
  <2>2. server \in Seq([payment: Payments, account: Accounts]) /\ EntryOf(p, u).payment = p
    BY DEF OutboxInv, TypeOK, EntryOf
  <2>3. /\ Len(server') = Len(server) + 1 /\ DOMAIN server' = (DOMAIN server) \cup {Len(server) + 1}
        /\ server'[Len(server) + 1].payment = p
        /\ \A i \in DOMAIN server : server'[i] = server[i]
    BY <2>1, <2>2
  <2>4. \A q : OnRecord(q)' <=> OnRecord(q) \/ q = p
    BY <2>3 DEF OnRecord
  <2>5. Recorded' = Recorded \cup {p} /\ p \notin Recorded
    BY <2>1, <2>4 DEF Recorded
  <2> QED
    BY <2>3, <2>5 DEF Promise!Records
<1> QED
  BY <1>1, <1>2

\* What leaves the record and the rows alone is no step of Delivery.
LEMMA NoDeliveryStep ==
  ASSUME UNCHANGED <<by, store, server, discarded>>
  PROVE  UNCHANGED Promise!delivery
BY DEF Promise!delivery, Made, Recorded, OnRecord

\* Every step of the app is one of Delivery or none.
LEMMA DeliveryStep ==
  OutboxInv /\ PaymentsWereMade /\ [Next]_vars => [Promise!Next]_Promise!delivery
<1> SUFFICES ASSUME OutboxInv, PaymentsWereMade, [Next]_vars
             PROVE  [Promise!Next]_Promise!delivery
  OBVIOUS
<1>0. shown \subseteq store /\ store \subseteq Payments
  BY DEF OutboxInv, TypeOK
<1>1. ASSUME NEW u \in Accounts, SignIn(u) \/ Loaded(u) PROVE UNCHANGED Promise!delivery
  BY <1>1, NoDeliveryStep DEF SignIn, Loaded
<1>2. CASE SignOut \/ ProfileChanged \/ Restart \/ SendNow \/ TimerFires \/ UNCHANGED vars
  BY <1>2, NoDeliveryStep DEF SignOut, ProfileChanged, Restart, RowsSurvive, SendNow, TimerFires, vars
<1>3. ASSUME NEW p \in Payments, NEW answer \in Answers, SyncSend(p, answer)
      PROVE  [Promise!Next]_Promise!delivery
  <2>1. p \in Made /\ UNCHANGED <<by, store, discarded>> /\ Exchange(p, account, answer)
    BY <1>3 DEF SyncSend, PaymentsWereMade
  <2>2. Promise!Records(p) \/ UNCHANGED <<Recorded, Len(server)>>
    BY <2>1, ExchangeRecords
  <2>3. Made' = Made
    BY <2>1 DEF Made
  <2>4. CASE Promise!Records(p)
    BY <2>1, <2>3, <2>4 DEF Promise!Record, Promise!Next
  <2>5. CASE UNCHANGED <<Recorded, Len(server)>>
    BY <2>1, <2>3, <2>5 DEF Promise!delivery
  <2> QED
    BY <2>2, <2>4, <2>5
<1>4. ASSUME NEW p \in Payments, NEW answer \in Answers, Record(p, answer)
      PROVE  Promise!Make(p)
  <2>1. /\ by \in [Payments -> Accounts \cup {None}] /\ account # None /\ direct[p] = "new"
        /\ by' = [by EXCEPT ![p] = account] /\ UNCHANGED <<store, discarded>>
        /\ Exchange(p, account, answer)
    BY <1>4 DEF OutboxInv, TypeOK, Record
  <2>2. Promise!Records(p) \/ UNCHANGED <<Recorded, Len(server)>>
    BY <2>1, ExchangeRecords
  <2>3. p \notin Made
    BY <2>1 DEF Made, PaymentsWereMade
  <2>4. Made' = Made \cup {p}
    BY <2>1 DEF Made
  <2> QED
    BY <2>1, <2>2, <2>3, <2>4 DEF Promise!Make
<1>5. CASE SyncAnswered
  <2> DEFINE p == sent.payment
  <2>1. /\ p \in Made /\ p \in Payments /\ UNCHANGED <<by, server, discarded>>
        /\ sent.answer = "ok" => OnRecord(p)
    BY <1>5 DEF SyncAnswered, PaymentsWereMade, OutboxInv, OkIsOnRecord
  <2>2. Made' = Made /\ Recorded' = Recorded
    BY <2>1 DEF Made, Recorded, OnRecord
  <2>3. CASE SyncRecorded
    <3>1. store' = store \ {p} /\ p \in Recorded
      BY <2>1, <2>3 DEF SyncRecorded, Recorded
    <3>2. Promise!Settle(p)
      BY <2>1, <2>2, <3>1 DEF Promise!Settle
    <3> QED
      BY <2>1, <3>2 DEF Promise!Next
  <2>4. CASE SyncRefused
    <3>1. Promise!Keep(p)
      BY <2>1, <2>2, <2>4 DEF SyncRefused, RefusedIsKept, Promise!Keep
    <3> QED
      BY <2>1, <3>1 DEF Promise!Next
  <2>5. CASE SyncOffline
    BY <2>1, <2>5, NoDeliveryStep DEF SyncOffline
  <2> QED
    BY <1>5, <2>3, <2>4, <2>5 DEF SyncAnswered
<1>6. ASSUME NEW p \in Payments, RecordKept(p) PROVE Promise!Keep(p)
  <2>1. p \in Made
    BY <1>6 DEF RecordKept, PaymentsWereMade, Made
  <2> QED
    BY <1>6, <2>1 DEF RecordKept, Promise!Keep, Made, Recorded, OnRecord
<1>7. ASSUME NEW p \in Payments, RecordAnswered(p) PROVE UNCHANGED Promise!delivery
  BY <1>7, NoDeliveryStep DEF RecordAnswered
<1>8. ASSUME NEW p \in Payments, Discard(p) PROVE Promise!Discard(p)
  BY <1>0, <1>8 DEF Discard, Promise!Discard, Made, Recorded, OnRecord
<1> QED
  BY <1>1, <1>2, <1>3, <1>4, <1>5, <1>6, <1>7, <1>8 DEF Next, Promise!Next

\* (OutboxController, ContributionsService.record) For any number of payments and accounts, and
\* whatever is lost, refused or killed on the way: a payment is put on record once and stays,
\* and the phone gives up a row only for a payment that is on record, or when told to.
THEOREM OutboxImplementsDelivery == Spec => ImplementsDelivery
<1>1. Init => Promise!Init /\ PaymentsWereMade
  <2> SUFFICES ASSUME Init PROVE Promise!Init /\ PaymentsWereMade
    OBVIOUS
  <2>1. Made = {} /\ Recorded = {} /\ Len(server) = 0
    BY DEF Init, Made, Recorded, OnRecord
  <2> QED
    BY <2>1 DEF Init, Promise!Init, PaymentsWereMade
<1> QED
  BY <1>1, OutboxInvariant, NextPaymentsWereMade, DeliveryStep, PTL
  DEF Spec, ImplementsDelivery, Promise!Spec
=============================================================================
