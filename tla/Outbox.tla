------------------------------- MODULE Outbox -------------------------------
(***************************************************************************)
(* The outbox of one phone: payments recorded without signal, kept in      *)
(* SQLite and sent again under the same client_entry_id, and the server's  *)
(* idempotent record they end in.  Everything an async function does       *)
(* between two awaits is one action; what it awaits (the server, the       *)
(* database) lets other actions in.                                        *)
(*                                                                         *)
(* A payment is its client_entry_id.  The controller's `state` and the     *)
(* table are sets of payments, and `failed` says which rows of the table   *)
(* carry a refusal.  A request reaches the server, or is lost, when it is  *)
(* sent, under the account signed in at that moment; its answer arrives    *)
(* later.  The retry delay (5 s doubling to 1 min) is left out: the timer  *)
(* may fire at any time.  The phone build is modelled; the browser's       *)
(* MemoryOutboxStore forgets its rows when the page is closed.             *)
(***************************************************************************)
EXTENDS Naturals, Sequences

CONSTANTS
  Accounts,   \* the people who sign in on this phone
  Payments,   \* bound: the client_entry_id values it may generate
  None

ASSUME OutboxAssumption == None \notin Accounts /\ None \notin Payments

VARIABLES
  account,    \* who is signed in (AuthLoggedIn), None otherwise
  loading,    \* the account whose rows a _load is reading, or None
  by,         \* PendingContribution.userId, None before it is recorded
  direct,     \* how far the record() call of each payment is
  store,      \* rows of the table outbox
  failed,     \* rows of it with a failure code
  shown,      \* the controller's state
  syncing,    \* _syncing
  todo,       \* what the loop of sync() has still to send
  sent,       \* the payment it is sending and the answer on its way
  timer,      \* _timer is set
  server,     \* the contributions on record, in order: payment and account
  discarded   \* payments removed by hand

vars == <<account, loading, by, direct, store, failed, shown, syncing, todo,
          sent, timer, server, discarded>>

\* "network" is no answer at all; "refused" any error the server answers with:
\* a closed cycle, a member removed since, 429, 5xx; "expired" a 401 whose
\* token refresh fails too
Answers == {"ok", "refused", "network", "expired"}

Nothing == [payment |-> None, answer |-> "network"]

Waiting == store \ failed

Init ==
  /\ account = None /\ loading = None
  /\ by = [p \in Payments |-> None]
  /\ direct = [p \in Payments |-> "new"]
  /\ store = {} /\ failed = {} /\ shown = {}
  /\ syncing = FALSE /\ todo = {} /\ sent = Nothing /\ timer = FALSE
  /\ server = <<>>
  /\ discarded = {}

(***************************************************************************)
(* The server (ContributionsService.record): one entry per id, and a       *)
(* replay by the one who recorded it is answered as the first time.        *)
(***************************************************************************)

EntryOf(p, u) == [payment |-> p, account |-> u]

OnRecord(p) == \E i \in DOMAIN server : server[i].payment = p

AppendOnce(p, u) ==
  server' = IF OnRecord(p) THEN server ELSE Append(server, EntryOf(p, u))

\* p is sent with the token of u: it is lost or refused, or the server takes it
\* and its answer arrives or is lost
Exchange(p, u, answer) ==
  \/ /\ answer = "network" \/ answer = "expired" \/ (answer = "refused" /\ u # None)
     /\ UNCHANGED server
  \/ /\ answer \in {"ok", "network"}
     /\ u # None
     /\ OnRecord(p) => \E i \in DOMAIN server : server[i] = EntryOf(p, u)
     /\ AppendOnce(p, u)

(***************************************************************************)
(* Signing in and out; every change of the auth state rebuilds the         *)
(* controller, which cancels the timer and loads again.                    *)
(***************************************************************************)
Rebuild(u) ==
  /\ account' = u
  /\ shown' = {}
  /\ timer' = FALSE
  /\ loading' = IF u = None THEN loading ELSE u

\* only the network keeps anything waiting as long as it takes to sign in
Settled == loading = None /\ (syncing => sent # Nothing)

\* login, or _restore of a saved session
SignIn(u) ==
  /\ account = None
  /\ Settled
  /\ Rebuild(u)
  /\ UNCHANGED <<by, direct, store, failed, syncing, todo, sent, server, discarded>>

SignOut ==
  /\ account # None
  /\ Rebuild(None)
  /\ UNCHANGED <<by, direct, store, failed, syncing, todo, sent, server, discarded>>

\* refreshProfile, setUser, markEmailVerified
ProfileChanged ==
  /\ account # None
  /\ Rebuild(account)
  /\ UNCHANGED <<by, direct, store, failed, syncing, todo, sent, server, discarded>>

\* Fault: the rows are kept in memory.
RowsForgotten == store' = {} /\ failed' = {}

\* the table outlives the app
RowsSurvive == UNCHANGED <<store, failed>>

\* the app is closed or killed, and opened again: a call under way is over, and a
\* payment the member was told is kept is still owed
Restart ==
  /\ account' = None /\ loading' = None
  /\ direct' = [p \in Payments |-> IF direct[p] \in {"new", "kept"} THEN direct[p] ELSE "over"]
  /\ shown' = {} /\ syncing' = FALSE /\ todo' = {} /\ sent' = Nothing
  /\ timer' = FALSE
  /\ RowsSurvive
  /\ UNCHANGED <<by, server, discarded>>

(***************************************************************************)
(* sync: it returns at once when it is already running, and has nothing to *)
(* await when no payment waits.                                            *)
(***************************************************************************)
StartSync(pending) ==
  IF syncing \/ pending = {}
    THEN UNCHANGED <<syncing, todo>>
    ELSE syncing' = TRUE /\ todo' = pending

\* sync cancels the timer unless it returned at once
TimerAfterStart == syncing /\ timer

\* Send now
SendNow ==
  /\ account # None
  /\ shown \cap Waiting # {}
  /\ StartSync(shown \ failed)
  /\ timer' = TimerAfterStart
  /\ UNCHANGED <<account, loading, by, direct, store, failed, shown, sent, server,
                 discarded>>

TimerFires ==
  /\ timer
  /\ timer' = FALSE
  /\ StartSync(shown \ failed)
  /\ UNCHANGED <<account, loading, by, direct, store, failed, shown, sent, server,
                 discarded>>

RowsOf(u) == {p \in store : by[p] = u}

\* _load: the rows of the account it was started for
Loaded(u) ==
  /\ loading = u
  /\ loading' = None
  /\ shown' = RowsOf(u)
  /\ IF RowsOf(u) \subseteq failed
       THEN UNCHANGED <<syncing, todo, timer>>
       ELSE StartSync(RowsOf(u) \ failed) /\ timer' = TimerAfterStart
  /\ UNCHANGED <<account, by, direct, store, failed, sent, server, discarded>>

\* the loop sends its next payment
SyncSend(p, answer) ==
  /\ syncing /\ sent = Nothing
  /\ p \in todo
  /\ todo' = todo \ {p}
  /\ Exchange(p, account, answer)
  /\ sent' = [payment |-> p, answer |-> answer]
  /\ UNCHANGED <<account, loading, by, direct, store, failed, shown, syncing, timer,
                 discarded>>

\* Fault: _syncing is not reset.
LoopNeverEnds == UNCHANGED <<syncing, todo>>

\* the loop is over when nothing is left
EndSync == syncing' = (todo # {}) /\ UNCHANGED todo

\* _drop
SyncRecorded ==
  /\ sent.answer = "ok"
  /\ store' = store \ {sent.payment}
  /\ failed' = failed \ {sent.payment}
  /\ shown' = shown \ {sent.payment}
  /\ EndSync
  /\ UNCHANGED <<account, loading, timer>>

\* Fault: a refused payment is dropped.
RefusedIsDropped ==
  /\ store' = store \ {sent.payment}
  /\ failed' = failed \ {sent.payment}

\* put(failed)
RefusedIsKept ==
  /\ store' = store \cup {sent.payment}
  /\ failed' = failed \cup {sent.payment}

\* the server answered with an error; an expired session also signs out
SyncRefused ==
  /\ sent.answer \in {"refused", "expired"}
  /\ RefusedIsKept
  /\ EndSync
  /\ IF sent.answer = "expired" THEN Rebuild(None)
                                ELSE UNCHANGED <<account, shown, timer, loading>>

\* Fault: an unanswered sync is not tried again.
GiveUp == UNCHANGED timer

\* _schedule
TryLater == timer' = TRUE

SyncOffline ==
  /\ sent.answer = "network"
  /\ syncing' = FALSE /\ todo' = {}
  /\ TryLater
  /\ UNCHANGED <<account, loading, store, failed, shown>>

SyncAnswered ==
  /\ sent # Nothing
  /\ SyncRecorded \/ SyncRefused \/ SyncOffline
  /\ sent' = Nothing
  /\ UNCHANGED <<by, direct, server, discarded>>

(***************************************************************************)
(* Recording a payment, and removing a refused one by hand.                *)
(***************************************************************************)
Record(p, answer) ==
  /\ account # None
  /\ direct[p] = "new"
  /\ by' = [by EXCEPT ![p] = account]
  /\ Exchange(p, account, answer)
  /\ direct' = [direct EXCEPT ![p] = answer]
  /\ UNCHANGED <<account, loading, store, failed, shown, syncing, todo, sent, timer,
                 discarded>>

\* no answer: put, show, _schedule; the database serves a read before a later
\* write
RecordKept(p) ==
  /\ direct[p] = "network" /\ loading = None
  /\ direct' = [direct EXCEPT ![p] = "kept"]
  /\ store' = store \cup {p}
  /\ shown' = shown \cup {p}
  /\ timer' = TRUE
  /\ UNCHANGED <<account, loading, by, failed, syncing, todo, sent, server, discarded>>

\* the answer is returned or thrown to the sheet
RecordAnswered(p) ==
  /\ direct[p] \in {"ok", "refused", "expired"}
  /\ direct' = [direct EXCEPT ![p] = "over"]
  /\ IF direct[p] = "expired" THEN Rebuild(None)
                              ELSE UNCHANGED <<account, shown, timer, loading>>
  /\ UNCHANGED <<by, store, failed, syncing, todo, sent, server, discarded>>

\* Remove from this phone, offered for a refused payment
Discard(p) ==
  /\ account # None
  /\ p \in shown \cap failed
  /\ store' = store \ {p}
  /\ failed' = failed \ {p}
  /\ shown' = shown \ {p}
  /\ discarded' = discarded \cup {p}
  /\ UNCHANGED <<account, loading, by, direct, syncing, todo, sent, timer, server>>

Next ==
  \/ \E u \in Accounts : SignIn(u) \/ Loaded(u)
  \/ SignOut \/ ProfileChanged \/ Restart
  \/ SendNow \/ TimerFires
  \/ \E p \in Payments, answer \in Answers : SyncSend(p, answer) \/ Record(p, answer)
  \/ SyncAnswered
  \/ \E p \in Payments : RecordKept(p) \/ RecordAnswered(p) \/ Discard(p)

Spec == Init /\ [][Next]_vars

\* the event loop runs what is ready, and a payment sent over and over is
\* answered some day; nobody has to sign in, restart or press a button
Fairness ==
  /\ WF_vars(TimerFires)
  /\ WF_vars(SyncAnswered)
  /\ \A u \in Accounts : WF_vars(Loaded(u))
  /\ \A p \in Payments :
       /\ WF_vars(RecordKept(p)) /\ WF_vars(RecordAnswered(p))
       /\ WF_vars(\E answer \in Answers : SyncSend(p, answer))
       /\ SF_vars(SyncSend(p, "ok") \/ SyncSend(p, "refused"))

FairSpec == Spec /\ Fairness
-----------------------------------------------------------------------------
(***************************************************************************)
(* Properties.                                                             *)
(***************************************************************************)

\* The fields, rows and sets have their types; the loop has work or an answer
\* to wait for exactly while _syncing is set.
TypeOK ==
  /\ account \in Accounts \cup {None}
  /\ loading \in Accounts \cup {None}
  /\ by \in [Payments -> Accounts \cup {None}]
  /\ direct \in [Payments -> {"new", "kept", "over"} \cup Answers]
  /\ store \subseteq Payments /\ failed \subseteq store /\ shown \subseteq store
  /\ todo \subseteq Payments
  /\ sent \in [payment: Payments \cup {None}, answer: Answers]
  /\ timer \in BOOLEAN /\ syncing \in BOOLEAN
  /\ syncing <=> todo # {} \/ sent # Nothing
  /\ server \in Seq([payment: Payments, account: Accounts])
  /\ discarded \subseteq Payments

\* However often a payment is sent, after lost answers and restarts, the server
\* records it once (NFR-03).
RecordedOnce ==
  \A i, j \in DOMAIN server : server[i].payment = server[j].payment => i = j

\* A payment the member was told is saved on the phone is never lost: through
\* restarts, refusals and changes of account it is on the phone or on record,
\* unless somebody removed it by hand.
KeptIsNotLost ==
  \A p \in Payments : direct[p] = "kept" =>
    p \in store \cup discarded \/ OnRecord(p)

\* A payment that a sync has taken up is sent until the server answers, for as long
\* as its owner stays signed in (sync, _schedule).
TakenUpIsAnswered ==
  \A p \in Payments : p \in todo /\ account = by[p]
                        ~> p \notin Waiting \/ account # by[p]

(***************************************************************************)
(* What is promised of a payment, abstractly (Delivery.tla).               *)
(***************************************************************************)

\* those somebody has recorded on this phone
Made == {p \in Payments : by[p] # None}

Recorded == {p \in Payments : OnRecord(p)}

Promise == INSTANCE Delivery
  WITH made <- Made, recorded <- Recorded, entries <- Len(server), owed <- store

\* Through lost requests and answers, refusals, restarts and changes of account: the record
\* only grows, by payments that were made and are not on it, and a row leaves the phone only
\* when its payment is on record or by hand (OutboxController, ContributionsService.record).
ImplementsDelivery == Promise!Spec

(***************************************************************************)
(* Said by the repository and not kept by the code (README.md, section 5). *)
(***************************************************************************)

\* outbox_store.dart: another account never sees or sends it.
SentByItsOwner ==
  \A i \in DOMAIN server : by[server[i].payment] = server[i].account

\* The class comment of OutboxController: what waits is sent until the server
\* answers.  A payment kept during a sync is not in that sync, and the timer set for
\* it may fire before the sync ends: it then waits for the next start.
SentUntilAnswered ==
  \A p \in Payments : p \in Waiting /\ account = by[p]
                        ~> p \notin Waiting \/ account # by[p]

\* sync: a payment kept as refused is not on the record.
FailedIsNotOnRecord == \A p \in failed : ~OnRecord(p)
=============================================================================
