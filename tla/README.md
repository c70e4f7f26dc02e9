# A verification project for Pay&Save

Pay&Save runs *seettu* circles (rotating savings): a group pays a fixed
contribution in every cycle, and in each cycle one member receives the pot. The
server never moves money. It keeps an append-only ledger of what people say they
paid, what the organizer verified, and who was to be paid. So the program is
correct when its records are: nobody's turn is lost or given twice, a payment is
on record once, a closed cycle stays as it was, and the hash chain can be checked
by anybody later.

Paths below are relative to `src/backend/src/` unless they start with
`frontend/` or `db/` (`src/frontend/`, `src/backend/db/`).

## 1. Inventory

| Component | State | Operations | Model |
|---|---|---|---|
| circles (`circles/circles.service.ts`, `circles.repository.ts`, `circle-role.guard.ts`, `domain/lottery.ts`) | `circles`, `circle_members`, `cycles` | create, join, leave, remove, commit lottery, start, close a cycle, share a payout method | `Circle`, `PotRotation` |
| contributions (`contributions/`) | `ledger_entries` | record (by the member or the organizer), verify, reject, reverse | `Circle` |
| ledger (`ledger/`, triggers in `db/migrations`, `database/transaction.ts`) | `ledger_entries`, identity sequence, row and advisory locks | append, chain trigger, commit, rollback, verification | `LedgerChain` |
| statements (`statements/`) | `statements` | issue (check, pin, render), verify | `LedgerChain` (check and pin) |
| circle invitations (`circles/circle-invitations.*`) | `circle_invitations` | invite, cancel, accept, decline | `Invitations`, `Gathering` |
| payouts (`payouts/`) | `payout_methods`, `circle_payout_shares` | add, make default, remove, share, share the default | `PayoutMethods` |
| reminders (`reminders/`) | `reminder_deliveries`, `reminder_preferences` | hourly job, organizer's nudge, preferences | `Reminders` |
| outbox on the phone (`frontend/lib/core/outbox`, `core/auth`) | SQLite table `outbox`, the controller's fields, the session | record, sync, load, timer, discard, sign in and out | `Outbox`, `Delivery` |
| notifications (`notifications/`) | `notifications` | notify; list, mark read | `notify` is in `Circle` |
| community (`community/`) | `consents`, `disputes`, `circles.community_consent` | consent; raise, respond, evidence, resolve | `Circle` (consent), `Disputes`, `Consent` |
| auth, users (`auth/`, `users/`) | password and refresh hash, failed logins, lock, profile | register, log in, refresh, log out, reset, change password and phone | `Accounts`, `OneSession`, but for the profile and the phone |
| one-time codes (`otp/`) | `otp_challenges` | issue, verify | `Accounts` |
| pals (`social/`) | `pals`, `pal_requests`, `user_follows`, `user_blocks` | ask, accept, ignore, end, follow, block | `Pals`; a set that changes at will in `Invitations` |
| chats (`social/`, `frontend/lib/features/chats`) | `conversations`, `messages`, the thread screen's list | send, take back, mark as read, clear, poll | `Chat`, but for reactions, stars and pins |
| dates, join codes (`circles/domain/`) | none | pure functions | not modelled, see 8 |
| messaging, crypto, configuration, health, insights service, screens, deployment | none of their own | | not modelled, see 8 |

**How they interact.** Handlers of circles, contributions, statements and consents
open a transaction and take `FOR UPDATE` on the circle's row; inside it they call
the ledger and notifications directly. `CircleRoleGuard` reads the membership
*before* that lock. Invitations lock their own row first and the circle second;
`start` locks the circle first and the invitations second. Payouts lock nothing but
what they write. The job of reminders, accounts and one-time codes work without a
transaction, one statement at a time. Disputes lock their own row, pals the requests
between two people, chats nothing. The phone talks to the server over HTTP, and may
lose the request or the answer; `client_entry_id` makes a repeated record the same
record.

**What is hard here.** State read by the guard and used under the lock;
transactions whose checks are each true and whose effects are not (payouts);
two row locks taken in two orders; the order of sequence numbers against the
order of locks; a removal that moves every later turn, under payments made
ahead; lost answers and retries; an account that changes while the phone awaits;
a server that stops between two statements; jobs that overlap; messages whose
order of commit is not the order of their numbers; tokens that are rotated while
another sign-in is under way, by an app that is killed before it hears of it.
`PROJECT.json` lists each of them at its line.

**What makes each component correct.** Circles: turns, cycles and members stay
matched, everybody receives once, seats are respected. Contributions: one
uncorrected record per member and cycle, and a payout made of exactly what is
verified. Ledger: one chain, growing at its head. Statements: verifiable for
ever. Invitations: used once, over when the circle starts. Payouts: one default,
and a running circle can pay its members. Reminders: each one once, and the
overdue one certainly,
and a stopped job loses one at most. Outbox: recorded once, never lost, sent by its owner,
sent until it is answered. Disputes: evidence is seen only by consent, each view
logged and told, an answer final. Pals: by consent of both, over with a block.
Chats: stored once, shown to whoever watches, gone when taken back. Accounts: a
code works once, a token is exchanged once, a session ended stays ended.

## 2. Modules

| Module | About |
|---|---|
| `Circle` | one circle, one action per handler |
| `PotRotation` | abstract: what a circle promises; `Circle` implements it |
| `LedgerChain` | the same transactions one level down: statements, triggers, locks |
| `Invitations` | the two row locks of accept and start |
| `Gathering` | abstract: what inviting, joining and starting promise; `Invitations` implements it |
| `PayoutMethods` | one member's methods, statement by statement |
| `Reminders` | claims and deliveries of overlapping jobs |
| `Outbox` | one phone, its store and the server's idempotent record |
| `Delivery` | abstract: what phone and server promise of a payment; `Outbox` implements it |
| `Disputes` | who has to consent to a dispute, and what an officer sees |
| `Consent` | abstract: what a dispute promises whom it concerns; `Disputes` implements it |
| `Pals` | two people's requests, pals, follows and blocks, statement by statement |
| `Chat` | one conversation, the order of commits, and the screens that poll it |
| `Accounts` | one number's codes, password and session, and the phones using them |
| `OneSession` | abstract: what the refresh tokens of an account promise; `Accounts` implements it |
| `MC...` | instances for TLC: symmetry sets and constants that are no model values |
| `CircleProofs`, `LedgerChainProofs`, `InvitationsProofs`, `PayoutMethodsProofs`, `RemindersProofs`, `OutboxProofs`, `DisputesProofs`, `AccountsProofs` | theorems about the module each is named for |

`PROJECT.json` maps each definition to the lines it translates. Definitions
preceded by `\* Fault:` are *not* part of the model: each is a plausible mistake
in the definition below it, and shows that a property would notice it.

### Circle

Variables are the columns of the tables, `0` and `None` standing for `NULL`.
A handler is one action since it runs under the circle's row lock; what that
rests on is `LedgerChain`'s subject. The stale read of the guard is kept: an
action that does not look at the membership again under the lock is enabled for
everybody who ever had a row (`rows`). That is how `Leave` of somebody who is
gone, `Record` by somebody removed and `SetConsent` after leaving come about.

Abstractions: the ledger is a set, and a membership entry has no identity; an
amount is the circle's fixed contribution, so totals are sets of entries; a
record replayed under its `client_entry_id` changes nothing and is a stuttering
step; dates, collection mode, `payTo`, names and settings are left out, and so
are the pals a join by code asks for (`Invitations` has them). The foreign key
from `ledger_entries` to `cycles` is part of `RemoveActiveMember`: in the
program it is what refuses to delete a cycle somebody already paid into.

### PotRotation

Four variables: the phase, the members, who waits for the pot, who has received
it. `Circle` implements it under the mapping at the end of `Circle.tla`: members
are those who have not left, `waiting` the recipients of the open cycles,
`received` those of the closed ones. A close is `PayOut`, a removal `LetGo`.

### LedgerChain

Each request is a transaction with a program counter. `INSERT` draws `seq`
(`DrawSeq`) before the trigger takes the advisory lock and links the row (`Link`).
A row's hash is represented by its `seq`, as sha256 is taken to be injective and
rows never change. Rolled-back transactions and other circles leave gaps.

### Invitations

`accept` and `start` are two steps each, with the row they hold in between;
`DeadlockBroken` is PostgreSQL's `deadlock_timeout`, the one definition that
models code outside the repository. `joins` counts the ledger entries made
through each invitation.

`Gathering` is the same without locks: an accept and a start are one step each.
The mapping at the end of `Invitations.tla` takes an accept to happen at its
commit and a start at its commit, so the cancellations of a start that is still
open are not seen yet. That two row locks taken in two orders, with deadlocks
broken in between, amount to that is what `ImplementsGathering` says; seats are a
guard of `Gathering`.

### PayoutMethods

Every statement of `add`, `makeDefault`, `remove` and `share` is an action. A
transaction sees what is committed and what it wrote (`written`), waits for rows
others have written, and either commits all of it or rolls back at any moment.
The partial unique index `payout_methods_one_default` is `IndexAllows`.

### Reminders

A run reads its batch once (`Run`), then claims and delivers reminder by
reminder; `Stop` is a server that goes away in between. Payments, corrections,
closes, changed preferences and midnight happen at any time. The reminder is the
in-app message; SMS and email follow it and change nothing.

### Outbox

What an async function does between two awaits is one action. A request is sent
with the token of the account signed in at that moment, and its answer arrives
in a later action, so that sign-ins, restarts, loads and timers come between. A
restart ends the calls under way; a payment the member was told is kept stays owed
through it (`direct`), as its row is read again.
The retry delay is left out (the timer may fire at any time), and the browser's
in-memory store is not modelled.

`Delivery` knows no network, timers or accounts, only which payments were made,
which are on record and how many entries the record has, which the phone keeps,
and which were discarded by hand. A row leaves the phone only when its payment
is on record or by hand; the record never shrinks and has one entry for each
payment. The timer, the request under way and the stale account of `Outbox` are
stuttering steps of it, or it would not hold.

### Disputes

`raise` and `resolve` are one action each; `respond` locks the dispute (`Lock`),
counts the committed consents and its own (`Answer`), and commits; `evidence`
locks (`Open`), logs and tells in its transaction, and its answer may be lost
(`Show`). `CircleRoleGuard` is `Enter`: a member who leaves afterwards still
answers. `NeededConsent` is computed anew at every use, as the code does. What an
entry says is left out; `SubjectOf` is all that matters of it.

`Consent` settles who is concerned when a dispute is raised, and has an answer
and a view in one step each; an answer is final, since it needs a dispute that
awaits one. The code computes who is concerned again at each answer, from tables
that change; that this is always the set it was is the point of the refinement.

### Pals

A row is named by its table and who it is from. A transaction has the rows it
found and not yet locked (`todo`), and what it locked, deleted and added; a
statement waits for a row the other transaction holds, and skips it if it turns
out to be gone, which is PostgreSQL's READ COMMITTED. Statements outside a
transaction commit at once (`Autocommit`), and the checks made before one
(`Found`, `IsBlockedEitherWay`) are a step of their own. Left out: the limit of
pending requests, and everybody else.

### Chat

The server's side is the table by `seq`, drawn at the insert and visible at the
commit; the phone's is the list a thread screen shows, with a poll under way, a
refresh after taking back, and a message's answer awaited. Every third tick asks
for the latest page, the others for what is newer than the newest shown. Left
out: reactions, stars, pins, the bytes of photos and videos, the block of one by
the other but as a refusal, and older pages (so also a message that commits so
late that it is below the latest page).

### Accounts

A handler here is a row of statements in autocommit mode: `req` has what it read,
where it stands and which phone waits for it, so that another may come in between
and `Stop` may end it. Requests are apart from phones: the answer is stored by the
phone in a step of its own (`Store`), is lost (`NoAnswer`), or finds the app killed
and opened again (`Kill`) while the handler runs on. The app forgets its tokens when
it sees a refresh fail; killed before that, it has the one it presented, which the
server may have exchanged, and presents it again, perhaps beside the first request.
Whether a password, a code or a token typed in is right is a choice made when the
handler reads what it is compared with. `tokens` remembers from which token and
for which password each was issued, `ended` those taken off the record without
being exchanged; neither is in the program. The access token is left out: it
outlives the session by minutes and serves whoever holds a refresh token.

`OneSession` is what is seen of this from outside: one of the tokens issued is
valid or none, a sign-in replaces it, an exchange spends it, and what was replaced,
spent or ended never becomes valid again. It does not know which phone has which
token stored: a phone that still has a spent one can end the session with it, and
nothing else. A statement of a handler is a step of it or none.

## 3. Runs and what they show

All instances are bounded by the sets in their `.cfg`; only `MaxSeq`, `LastDay`,
`MaxStops`, `MaxJoins`, `MaxViews`, `MaxCodes` and `MaxTokens` are numeric bounds in
guards or domains.

| Run | Instance | Shows |
|---|---|---|
| `circle_ledger` | four people for three seats, 3 entry ids | payouts are backed by what counts as verified (`PayoutBacked`), closes account for everybody (`EveryoneAccounted`), one live contribution per member and cycle and one entry per id (`OneRecordEach`), a removal's sum stays true, everybody is told |
| `circle_turns` | a lottery circle of four, two opposite seeds, 1 entry id; one may leave the draft, two change their consent | cycles, recipients and positions match (`TurnsWellFormed`), close in order, keep the drawn order, the pot comes once, a payment to the running cycle keeps its recipient, the community flag is honest through stale requests, and the circle implements `PotRotation` |
| `circle_payself` | as `circle_ledger` | violated, see 5 |
| `ledger_chain` | two writers, one issuer, `seq` up to 7 | the chain never forks, statements stay verifiable, entries appear at the head, and a request sees no entries but its own while it runs and leaves none behind when it fails (`LedgerStandsStill`), so that it may be one action of `Circle` |
| `outbox` | two accounts, two payments, fair | never lost, restarts included (`KeptIsNotLost`), what a sync has taken up is sent until answered, and the phone and the record implement `Delivery`: recorded once, kept until recorded or discarded |
| `payouts` | two requests, three methods, one circle, limit 2 | one default at most, and in use |
| `invitations` | three people (the tie of one to the organizer changes) for two free seats, three invitations, two accepts, fair | single use, one invitation each and none pending after the start (`NoStrayInvitation`); accept and start end, whoever waits for whom; and both implement `Gathering`, where they are one step and seats are kept |
| `reminders` | two runs, one nudge, two cycles, one stop, fair | each reminder once; a stop loses one at most (`StopsLoseOneEach`); who lets a due date pass is told unless a server stops |
| `disputes` | organizer and two members, two disputes, one officer, two views each | no dispute waits for nobody, evidence only by consent, each view logged and told, and the handlers implement `Consent`, where an answer is one step and final |
| `pals` | two people, one request each at a time, fair | pals only from a standing request, a block ends pals, every request ends |
| `chat` | two people, a message each, the first sent up to twice; one person's polls, fair | stored once under an id, shown on every open screen, gone when taken back |
| `accounts` | two phones, two requests at a time, one password, 2 codes, 3 refresh tokens, limits of 2 wrong passwords and 1 wrong code | a code works once, a token is exchanged once, however often and by however many requests it is presented, and not after its session ended, the count and the lock agree, and the account implements `OneSession` |

Types are checked where more than types is in them: `Chat` (stored once) and
`Accounts` (the count and the lock). The `TypeOK` of the other modules hold too,
and are checked by naming them in the configuration; all but that of `Pals` are
proved (section 6). So are `SeatsRespected` of `Circle` and `Invitations`,
`AnswerIsFinal` of `Disputes` and `RecordedOnce` of `Outbox`, the last three being
what the refinement of their module says already.

**Why the bounds are enough.** Three members is the least circle from which one can
be removed (two must remain), the fourth person is the one too many, and three ids
let one member pay, have the payment rejected and pay again while another pays. Four
members let a removal happen before, at and after the current turn, twice over. The
lottery needs three members and two orders to tell an order from its reverse. Two
writers are enough for every pairwise race on the chain, and seven values of `seq`
for three rows each and a gap. Races of payout methods are between two requests; a
third only repeats them. Three invitations let one person be invited, decline, and
be invited again while another answers; two free seats for three let an accept meet
both an open seat and a full circle. Of the three, `Changing` bounds those whose tie
to the organizer comes and goes. Two cycles and overlapping runs let a batch of the
first be worked through in the second. Two payments and two accounts are what the
faults of the phone need, and they are found there. Two disputes let one raise a
dispute about the entries of another. Every race of pals is between two people. Two
messages with one repeated let commits come in another order than `seq`, and a page
of two holds both. Two requests let two refreshes present the same token at once, and
a refresh race a sign-in or a reset; three refresh tokens are one sign-in and the two
exchanges of its token that must not both succeed; two phones let one present a token
already exchanged while the other has the session; two codes let one replace the
other. `MaxViews`, `MaxCodes` and `MaxTokens` only end the counting.

**Deadlock** is checked in every run but those of `Circle`, where a completed
circle really does nothing any more (in the bounded instances also one whose
ids are used up), and of `Pals`, where two people who have blocked each other can
do nothing more (section 5).

## 4. Fairness

- `Outbox` (`FairSpec`): the event loop runs what is ready, so a set timer fires,
  an answer that arrived is handled and a load ends (weak fairness); a payment
  that is sent again and again is answered some day (strong fairness). Nobody is
  assumed to sign in, restart the app or press a button.
- `Invitations` (`FairSpec`): a statement that is not waiting runs (weak); one
  that waits for a row has its turn when the row is free again and again, since
  PostgreSQL queues those who wait (strong); and a circular wait is looked for
  after `deadlock_timeout` (weak). Whom the deadlock detector picks is open.
- `Reminders` (`FairSpec`): the cron fires every hour, and a job goes on with its
  batch unless its server stops (weak). `OverdueIsTold` excuses executions in
  which one stopped, as then a claimed reminder is in fact lost (section 5).
- `Pals` (`FairSpec`): a person's request goes on, also one that waits for a row
  which is free again and again (strong), and a circular wait is broken (weak).
  Nobody is assumed to begin a request.
- `Chat` (`FairSpec`): the timer of an open screen fires and the page after taking
  back arrives (weak); of the polls sent again and again some are answered, of
  those for what is newer and of those for the latest page alike (strong), which
  is what polling is for. Nobody is assumed to send or to open the screen.

## 5. Where the code and its words part

One run ends in a violation, with a trace: `circle_payself`
(`NobodyPaysThemself`). A payment made ahead of time, and still waiting, stands
against a cycle its payer receives once a removal has moved the turns up. Migration
0009 says nobody pays themself.

The modules state others, in their last section or beside the property they
qualify, with the words of the repository they come from. None holds; to see the
trace, name the property in the configuration given (one in brackets is a
PROPERTY, the others are INVARIANTS).

`MCCircle_ledger.cfg`:
- [`ClosedRecordsFinal`]: the payment of a removed member that was still waiting
  can be verified or rejected after its cycle closed, though `pending` answers
  that a closed cycle's records can no longer change.

`MCOutbox.cfg`:
- `SentByItsOwner`: a payment whose answer is awaited while the account changes is
  put into the next account's list and sent with that account's token
  (`outbox.dart:54`), which `outbox_store.dart:21` excludes.
- [`SentUntilAnswered`]: a timer that fires during a sync is not set again, so a
  payment saved meanwhile waits until the app starts anew or somebody presses
  *Send now*. What a sync has taken up is sent (`TakenUpIsAnswered`).
- `FailedIsNotOnRecord`: after a lost answer, a retry that meets any other error
  shows a recorded payment as not on the record.

`MCPayoutMethods.cfg`:
- `RunningCircleCanPay`: two removals at once, or a removal and a change of what is
  shared, leave a running circle without a way to pay the member, which
  `circlesRelyingOn` is there to exclude. One request at a time
  (`Requests = {r1}`) keeps the property.
- `MethodLimit`: two adds at once pass the limit.

`MCInvitations.cfg`:
- `PendingHoldsASeat`: a seat held by an invitation, as its service's comment has
  it, is taken with the join code; `accept` counts again, so that the circle is
  not overfilled but the invited pal is refused.

`MCReminders.cfg`:
- `EveryRowWasSent`, [`PayingStopsReminders`]: a server that stops after the claim
  loses the reminder its row says was sent, and a batch reminds a member who has
  paid since it was read.

`MCPals.cfg`:
- `BlockEndsTies`: `block` deletes follows before it waits for the request the other
  is accepting, and `makePals` inserts them again; and an ask or a follow whose
  check came before the block is made after it.
- `BlockCanBeTakenBack`: `unblock` answers 404 to whoever is blocked too, so two
  blocks made at once stay for ever.
- `BothAskedArePals`: two who ask at once both wait, since `FOR UPDATE` locks no
  request that is not there yet.
- `RequestsSpent`: an ask repeated while the first is accepted is left beside the
  pals.
- [`IgnoredForThreeWeeks`]: who was ignored withdraws the request and asks again.

`MCChat.cfg`:
- [`NewMessageBringsBack`]: a message committed after the chat was cleared, under a
  `seq` drawn before, is never shown.

`MCAccounts.cfg`:
- `SessionOfThisPassword` (with two passwords): a sign-in under way starts its session
  for a password that was replaced after it was compared.
- `ACodeOrAnother`: of two codes asked for at once, the later may be removed,
  undelivered, after it has invalidated the earlier.
- [`UndeliveredIsRemoved`]: not if the server stops first.
- [`ChangeKeepsSignedIn`]: not if the connection is lost, or the app killed, before
  the new session is started.

Seen on the way, with no words to hold it against: the app's client sends no
access token to paths under `/auth/`, so `/auth/logout`, which asks for one,
answers 401 and the session stays on record when somebody signs out
(`Accounts!Logout`); and the answer to a refresh under way stores its tokens after
the sign-out (`Accounts!Store`).

## 6. What is proved

For every value of the constants that the modules' assumptions allow: any finite
set of users, any number of seats, entry ids, requests, phones, payments or
methods. TLC evaluates the assumptions in the runs, and each inductive invariant
was checked as an invariant of its run's instance before it was proved. In each
module there is a lemma for every handler or statement, then the theorem that
the invariant holds, then one theorem for each property.

The assumptions beyond distinctness of model values, and where they come from:
a circle has at least two seats (`CreateCircleDto`) and finitely many users; a
dispute names at least one entry (`ArrayMinSize(1)` in
`community/community.controller.ts`), whose subjects are people of the circle;
the table of invitations is finite; no reminder is the value for none;
the limits of codes, sign-ins and methods are positive; finitely many requests are
on the server at a time. The bounds (`MaxSeq`, `MaxJoins`, `MaxCodes`, `MaxTokens`,
`MaxViews`) are any naturals.

**`CircleProofs`, the turns.** The inductive invariant is `CircleInv`, four conjuncts that
need each other: `TypeOK`, `TurnsWellFormed`, `ClosedInOrder`, `SeatsRespected`.
None but the first is inductive by itself. A removal keeps positions and cycles
matched only because closed cycles come before open ones: it moves the cycles
from the removed turn on, and these must all be open. The start numbers the
cycles as there are members, and those fit in `Numbers` because of the seats.
And that a removal leaves an open cycle is the foreign key's doing. From it
follow `CircleImplementsRotation` (every handler is a step of `PotRotation` or
none: a start is the abstract start, a close pays the next member, a removal lets
go of somebody who has not received), `CircleHonoursLottery` (a removal takes a
turn out of the drawn order and leaves the rest in it), and
`CirclePaymentsKeepRecipient` (an action property).

**`CircleProofs`, the ledger.** `LedgerInv` has nine conjuncts over `CircleInv`: entry
ids are unique, a member has at most one uncorrected contribution to a cycle,
only recorded contributions are settled, no money moves in a draft, payouts are
of closed cycles, who was removed is past, and the three properties of the runs
`PayoutBacked`, `EveryoneAccounted` and `RemovalAccounted`. The argument they
share is `ClosedCycleStays`: the contributions that count for a closed cycle are
those that counted when it closed. Nothing of its members waits, by
`EveryoneAccounted`; a verified one can only be reversed, and that only while the
cycle is open; nobody joins a running circle. The one exception is stated, not
assumed away: somebody removed before the close may have a payment waiting, it
can still be settled, and counts nowhere. `CircleClosedCountsFinal` states this
as an action property in its own right. Further: `OneRecordEach`, `PotOnce` (what
was paid out are the closed cycles, and recipients differ by `TurnsWellFormed`),
`CommunityConsentHonest`, `InboxComplete`.

**`LedgerChainProofs`.** `ChainInv` adds to the run's invariants who holds the
row lock (`HoldsRow`: at most one transaction is open), that the sequence is
ahead of every row, and that the open transaction's rows, put after the
committed ones, are again an unbroken chain (`OwnContinues`). `LinkKeepsChain`
and `AppendKeepsPrefix` are the facts about chains: a row with a greater `seq`
linked to the head keeps the chain and every prefix of it. Theorems:
`ChainTypeCorrect`, `ChainNeverForks`, `StatementsStayVerifiable`,
`LedgerGrowsAtTheHead` and `RequestsAppendSerially` (action properties, from the
same invariant). The last is what lets `Circle` take a handler as one action:
whoever commits holds the circle's row, and two cannot.

**`InvitationsProofs`.** `LocksKept`: the row an accept has locked is pending and
nobody else's, and what a start has cancelled was pending and is not being
accepted. Hence an accept that waited for the circle still finds its invitation
as it was, and a start that commits has cancelled all of them. For the refinement
of `Gathering` (`InvitationsImplementGathering`) `StartHolds` is needed as well:
while a start has the circle's row, no member comes or goes, so what it read of
the circle is still so when it commits. There are
no more people invited than rows pending (`InvitedCounted`), so seats counted by
rows are enough for the people; cancellations not yet committed are seen by nobody, so that a deadlock which
undoes them is a stutter.

**`PayoutMethodsProofs`.** `Locks` says that uncommitted writes of two requests
are about different rows; `WritesStand` that what a request has written is right
for the tables as *it* sees them, whatever the others commit meanwhile. A commit
is then as good as its transaction. `OneDefault` follows; without the index
`payout_methods_one_default` the invariant fails in `SetDefault`, where a default
committed after `SeeDefault` would stay.

**`RemindersProofs`.** `OneDeliverer`: a row of `reminder_deliveries` is inserted by
one job and never deleted, so what a job is about to deliver no other job has
claimed and nobody was told of. A stop between claim and delivery leaves the row,
and the reminder is not sent again. Those lost in this way are counted: a claim
and a delivery add none, as the job that claims has nothing else in its hands,
and a stop adds the one the job had claimed. Theorems: `RemindedOnce`,
`StopsLoseOneEach`.

**`OutboxProofs`.** `OkIsOnRecord`: the answer `ok` on its way to the phone is
about a payment on record, and the record only grows. So the row a sync removes
for that answer is not lost; any other row leaves by hand, and a restart, through
which a payment said to be kept stays so, leaves rows and record alone. The refinement of
`Delivery` (`OutboxImplementsDelivery`) needs besides that nothing is kept, sent
or answered but what somebody has entered (`PaymentsWereMade`); each action of the
app is then one abstract step about one payment, or a stutter.

**`DisputesProofs`.** `OneHolder` and `AnswersStand`: between the lock of an answer
and its commit nobody answers, resolves or views the same dispute, so the consents
counted by `settle` are still those committed. `RaisedByTheConcerned` makes
`NeededConsent` the organizer and the subjects, also when several disputes name
the same entries. `EveryViewTold` counts notifications against the access log.
Theorems: `SomebodyLeftToAsk`, `EvidenceByConsent`, `AnswerIsFinal`. The refinement
of `Consent` (`DisputesImplementConsent`) adds `AnswererConcerned`: who has locked
a dispute to answer it is one of those it was raised about, however long ago the
guard let them in.

**`AccountsProofs`.** Three parts. `RequestsWell`: what a request carries from one
statement to the next. `CodesWell`: codes are drawn in order, belong to the
request that asked until they are sent, pass only on their way from live to used,
and the wrong guesses under way leave room for themselves (`TriesLeft`), which is
what bounds a code's guesses by its limit and the guesses compared at once.
`TokensWell`: the token on record was neither exchanged nor ended, so that the
conditional update of a refresh can do either only once, whichever phones still
have the token stored and whatever requests present it, at once or later: nothing is
assumed of what phones hold. Theorems: `TypeOK`,
`CodesWorkOnce`, `ExchangedOnce`. From the same invariant, and one more
(`SessionNeedsAccount`: no session is on record, and none about to be, before there
is an account), every
statement is a step of `OneSession` or none (`AccountsImplementSession`): the
statement that takes the old token off the record and the one that puts the new
one on it are the same.

**Only model-checked.** Liveness (`TakenUpIsAnswered`, `RequestsEnd` of two modules,
`OverdueIsTold`, `ScreensCatchUp`, `TakenBackGoes`) rests on fairness and ENABLED,
out of this prover's reach. `PalsByConsent` and `BlockEndsPals` of `Pals`: the
module has no parameter but the names of two people, so TLC's run is exhaustive and
a proof would say no more. `TypeOK` of `Chat` has no proof: beyond types it says
that a message is stored once under its id and that a `seq` is not used twice, which
the instance, two messages and a repeated one, exercises in every order. No module
uses a recursive operator. `AwaitingIds` of `Circle` is written with parentheses
because `UNION A \ B` is read in two ways by the tools.

## 7. Plan

Done, in this order: `Circle` with `PotRotation`, `LedgerChain`, their proofs,
`Outbox`, `PayoutMethods`, `Invitations`, `Reminders`, `Disputes`, `Pals`, `Chat`,
`Accounts`; then the abstract specifications `Consent`, `Gathering`, `OneSession` and
`Delivery`, each with the proof that its module implements it.

Next proofs: the types of `Chat`; that `Circle` with a handler as one action is
implemented by the same handlers statement by statement, for which
`LedgerStandsStill` is the lemma.

Next models: due dates as operators against a reference definition (`Schedule`);
a change of number, with a second number, in `Accounts`; compositions of
`Accounts` with `Outbox` (one phone's session under its payments) and of `Pals`
under `Invitations`, in place of the set that changes at will.

## 8. What is not modelled, and why

- Read-only endpoints, the text of statements and reminders, file and PDF
  rendering, localisation, screens: no state.
- Cryptographic primitives, password hashing, normalisation of phone numbers,
  emails and identity numbers: pure functions about the content of data.
- Gateways for SMS and email: they keep no state of ours, and their failures are
  caught and logged; the one that does matter, a code that could not be sent,
  is in `Accounts`.
- Reactions, stars, pins, favourites, profile fields, pictures and the language of
  an account: one statement each, read by nobody's guard. Messages beyond the
  latest page of a thread. A change of an account's number.
- The calendar arithmetic of due dates and the drawing of join codes: functions of
  their inputs; the first is planned.
- Rate limiting: counters kept by a library, in front of every handler.
- The insights service (a health endpoint so far), deployment, seeds, scripts.
- Amounts: every contribution is the circle's fixed amount, and a payout is given
  as the set of contributions it is made of.

## 9. Running

    tlc -config MCCircle_turns.cfg MCCircle.tla
    tlapm CircleProofs.tla

`PROJECT.json` lists every run with its module, configuration and properties.
