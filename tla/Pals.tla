-------------------------------- MODULE Pals --------------------------------
(***************************************************************************)
(* Two people who ask each other to be pals, accept, ignore, end it,       *)
(* follow and block.  Each may have one request running; what the requests *)
(* of both do to the rows between them is interleaved statement by         *)
(* statement, under READ COMMITTED: a statement sees what is committed     *)
(* when it begins and what its own transaction wrote, waits for a row that *)
(* another transaction has locked or deleted, and skips it if it is gone.  *)
(*                                                                         *)
(* Left out: the 100 requests a person may have pending (an ask beyond     *)
(* them changes nothing) and the other people.                             *)
(***************************************************************************)
EXTENDS FiniteSets

CONSTANTS People, None

ASSUME PeopleAssumption == Cardinality(People) = 2 /\ None \notin People

Other(p) == CHOOSE q \in People : q # p

Request(p) == <<"pal_requests", p>>   \* p asked the other
Follow(p) == <<"user_follows", p>>    \* p follows the other
Block(p) == <<"user_blocks", p>>      \* p blocked the other
PalsRow == <<"pals", None>>

Requests == {Request(p) : p \in People}
Follows == {Follow(p) : p \in People}
Rows == {PalsRow} \cup Requests \cup Follows \cup {Block(p) : p \in People}

VARIABLES
  db,       \* committed rows
  ignored,  \* ignored_at of p's request: "no", or whether 21 days have passed since
  at,       \* the statement each person's request is at
  todo,     \* rows its statement has found and not yet locked
  locked,   \* rows its transaction has locked
  deleted,  \* ... has deleted
  added     \* ... has inserted

tx == <<todo, locked, deleted, added>>
vars == <<db, ignored, at, tx>>

Handlers == {"ask", "accept", "ignore", "end", "follow", "unfollow", "block", "unblock"}

Init ==
  /\ db = {}
  /\ ignored = [p \in People |-> "no"]
  /\ at = [p \in People |-> "idle"]
  /\ todo = [p \in People |-> {}]
  /\ locked = [p \in People |-> {}]
  /\ deleted = [p \in People |-> {}]
  /\ added = [p \in People |-> {}]

Seen(p, rows) == rows \cap ((db \ deleted[p]) \cup added[p])

\* Fault: rows are read and deleted whoever holds them.
Unlocked(r, p) == TRUE

\* no other transaction has locked or deleted the row
RowFree(r, p) == r \notin locked[Other(p)]

\* an insert waits until it is certain whether the row exists
Certain(r, p) == r \notin deleted[Other(p)] \cup added[Other(p)]

GoTo(p, stmt, rows) ==
  /\ at' = [at EXCEPT ![p] = stmt]
  /\ todo' = [todo EXCEPT ![p] = Seen(p, rows)]

\* A statement that commits by itself, or the only effect of a transaction.
Autocommit(p, gone, new) ==
  /\ db' = (db \ gone) \cup new
  /\ todo' = [q \in People |-> IF q = p THEN {} ELSE todo[q] \ gone]
  /\ at' = [at EXCEPT ![p] = "idle"]
  /\ locked' = [locked EXCEPT ![p] = {}]
  /\ UNCHANGED <<deleted, added>>

\* profile: whoever the other has blocked gets 404.
Found(p) == Block(Other(p)) \notin db

IsBlockedEitherWay(p) == Block(p) \in db \/ Block(Other(p)) \in db

\* assertOther, and for ask and follow isBlockedEitherWay: queries of their own,
\* before the statement or transaction they guard.
Begin(p) ==
  \E h \in Handlers :
    /\ at[p] = "idle" /\ Found(p)
    /\ h \in {"ask", "follow"} => ~IsBlockedEitherWay(p)
    /\ at' = [at EXCEPT ![p] = h]
    /\ UNCHANGED <<db, ignored, tx>>

Refused(p) == at' = [at EXCEPT ![p] = "idle"] /\ UNCHANGED <<db, ignored, tx>>

PalsIn == PalsRow \in db

\* requestPal: nothing to do between pals; otherwise their request is looked for.
Ask(p) ==
  /\ at[p] = "ask"
  /\ \/ PalsIn /\ Refused(p)
     \/ ~PalsIn /\ GoTo(p, "ask:theirs", {Request(Other(p))})
        /\ UNCHANGED <<db, ignored, locked, deleted, added>>

Accept(p) ==
  /\ at[p] = "accept" /\ GoTo(p, "accept:theirs", {Request(Other(p))})
  /\ UNCHANGED <<db, ignored, locked, deleted, added>>

\* SELECT ... FOR UPDATE has found the other's request and locks it.
LockTheirs(p) ==
  LET r == Request(Other(p)) IN
  /\ at[p] \in {"ask:theirs", "accept:theirs"} /\ r \in todo[p] /\ RowFree(r, p)
  /\ locked' = [locked EXCEPT ![p] = @ \cup {r}]
  /\ GoTo(p, "pals:requests", Requests)
  /\ UNCHANGED <<db, ignored, deleted, added>>

\* There is no request to accept, or none any more.
NoneToAccept(p) == at[p] = "accept:theirs" /\ todo[p] = {} /\ Refused(p)

NoneOfTheirs(p) ==
  /\ at[p] = "ask:theirs" /\ todo[p] = {} /\ at' = [at EXCEPT ![p] = "ask:mine"]
  /\ UNCHANGED <<db, ignored, tx>>

\* INSERT ... ON CONFLICT DO UPDATE: an ignored request is renewed after 21 days.
AskMine(p) ==
  /\ at[p] = "ask:mine" /\ RowFree(Request(p), p)
  /\ ignored' = [ignored EXCEPT ![p] =
       IF Request(p) \notin db \/ @ = "long ago" THEN "no" ELSE @]
  /\ Autocommit(p, {}, {Request(p)})

\* The deleting statements of makePals and block, and what follows each.
Deleting == {"pals:requests", "block:follows", "block:requests", "block:pals"}

RowsOf(stmt) == CASE stmt \in {"pals:requests", "block:requests"} -> Requests
                  [] stmt = "block:follows" -> Follows
                  [] OTHER -> {PalsRow}

\* Fault: block ends the pals before it ends the requests.
PalsBeforeRequests(stmt) ==
  CASE stmt = "pals:requests" -> "pals:insert"
    [] stmt = "block:follows" -> "block:pals"
    [] stmt = "block:pals" -> "block:requests"
    [] OTHER -> "commit"

NextStatement(stmt) ==
  CASE stmt = "pals:requests" -> "pals:insert"
    [] stmt = "block:follows" -> "block:requests"
    [] stmt = "block:requests" -> "block:pals"
    [] OTHER -> "commit"

\* A DELETE goes through the rows it found in any order, waiting for each.
DeleteRow(p) ==
  \E r \in todo[p] :
    /\ at[p] \in Deleting /\ RowFree(r, p)
    /\ deleted' = [deleted EXCEPT ![p] = @ \cup {r}]
    /\ locked' = [locked EXCEPT ![p] = @ \cup {r}]
    /\ todo' = [todo EXCEPT ![p] = @ \ {r}]
    /\ UNCHANGED <<db, ignored, at, added>>

Deleted(p) ==
  /\ at[p] \in Deleting /\ todo[p] = {}
  /\ GoTo(p, NextStatement(at[p]), IF NextStatement(at[p]) \in Deleting THEN RowsOf(NextStatement(at[p])) ELSE {})
  /\ UNCHANGED <<db, ignored, locked, deleted, added>>

\* makePals: INSERT ... ON CONFLICT DO NOTHING
InsertPals(p) ==
  /\ at[p] = "pals:insert" /\ Certain(PalsRow, p)
  /\ added' = [added EXCEPT ![p] = @ \cup ({PalsRow} \ db)]
  /\ at' = [at EXCEPT ![p] = "pals:follows"]
  /\ UNCHANGED <<db, ignored, todo, locked, deleted>>

InsertFollows(p) ==
  /\ at[p] = "pals:follows" /\ \A r \in Follows : Certain(r, p)
  /\ added' = [added EXCEPT ![p] = @ \cup (Follows \ db)]
  /\ at' = [at EXCEPT ![p] = "commit"]
  /\ UNCHANGED <<db, ignored, todo, locked, deleted>>

BlockThem(p) ==
  /\ at[p] = "block"
  /\ added' = [added EXCEPT ![p] = {Block(p)} \ db]
  /\ GoTo(p, "block:follows", Follows)
  /\ UNCHANGED <<db, ignored, locked, deleted>>

End(p) ==
  /\ at' = [at EXCEPT ![p] = "idle"]
  /\ locked' = [locked EXCEPT ![p] = {}]
  /\ deleted' = [deleted EXCEPT ![p] = {}]
  /\ added' = [added EXCEPT ![p] = {}]

\* Rows that are gone are skipped by the statement that had found them.
Commit(p) ==
  /\ at[p] = "commit"
  /\ db' = (db \ deleted[p]) \cup added[p]
  /\ todo' = [q \in People |-> IF q = p THEN {} ELSE todo[q] \ deleted[p]]
  /\ End(p)
  /\ UNCHANGED ignored

\* Fault: the client is given back without ROLLBACK.
LeftOpen(p) == at[p] # "idle" /\ at' = [at EXCEPT ![p] = "idle"] /\ UNCHANGED <<db, ignored, tx>>

\* A statement fails, or the server stops.
Rollback(p) ==
  /\ at[p] # "idle"
  /\ End(p)
  /\ todo' = [todo EXCEPT ![p] = {}]
  /\ UNCHANGED <<db, ignored>>

Ignore(p) ==
  LET q == Other(p) IN
  /\ at[p] = "ignore"
  /\ \/ /\ Request(q) \in db /\ ignored[q] = "no" /\ RowFree(Request(q), p)
        /\ ignored' = [ignored EXCEPT ![q] = "lately"]
        /\ Autocommit(p, {}, {})
     \/ (Request(q) \notin db \/ ignored[q] # "no") /\ Refused(p)

\* endPal: my request is withdrawn; only if there was none are we pals no more.
Withdraw(p) ==
  /\ at[p] = "end"
  /\ \/ /\ Request(p) \in db /\ RowFree(Request(p), p)
        /\ Autocommit(p, {Request(p)}, {}) /\ UNCHANGED ignored
     \/ /\ Request(p) \notin db /\ at' = [at EXCEPT ![p] = "end:pals"]
        /\ UNCHANGED <<db, ignored, tx>>

RemovePal(p) ==
  /\ at[p] = "end:pals" /\ (PalsRow \in db => RowFree(PalsRow, p))
  /\ Autocommit(p, {PalsRow}, {}) /\ UNCHANGED ignored

FollowThem(p) ==
  /\ at[p] = "follow" /\ Certain(Follow(p), p)
  /\ Autocommit(p, {}, {Follow(p)}) /\ UNCHANGED ignored

Unfollow(p) ==
  /\ at[p] = "unfollow" /\ RowFree(Follow(p), p)
  /\ Autocommit(p, {Follow(p)}, {}) /\ UNCHANGED ignored

Unblock(p) ==
  /\ at[p] = "unblock"
  /\ Autocommit(p, {Block(p)}, {}) /\ UNCHANGED ignored

\* PAL_REQUEST_COOLDOWN_DAYS go by
DaysPass ==
  \E p \in People :
    /\ ignored[p] = "lately" /\ ignored' = [ignored EXCEPT ![p] = "long ago"]
    /\ UNCHANGED <<db, at, tx>>

Step(p) ==
  \/ Ask(p) \/ Accept(p) \/ LockTheirs(p) \/ NoneToAccept(p) \/ NoneOfTheirs(p) \/ AskMine(p)
  \/ DeleteRow(p) \/ Deleted(p) \/ InsertPals(p) \/ InsertFollows(p) \/ BlockThem(p) \/ Commit(p)
  \/ Ignore(p) \/ Withdraw(p) \/ RemovePal(p) \/ FollowThem(p) \/ Unfollow(p) \/ Unblock(p)

\* PostgreSQL ends a circular wait by failing one of the two.
DeadlockBroken ==
  /\ \A p \in People : at[p] # "idle" /\ ~ENABLED Step(p)
  /\ \E p \in People : Rollback(p)

Next ==
  \/ \E p \in People : Begin(p) \/ Step(p) \/ Rollback(p)
  \/ DaysPass \/ DeadlockBroken

Spec == Init /\ [][Next]_vars

FairSpec == Spec /\ (\A p \in People : SF_vars(Step(p))) /\ WF_vars(DeadlockBroken)
-----------------------------------------------------------------------------
\* Rows are written by a transaction that has not ended, and a deleted one is locked.
TypeOK ==
  /\ db \subseteq Rows
  /\ ignored \in [People -> {"no", "lately", "long ago"}]
  /\ \A p \in People :
       /\ todo[p] \cup added[p] \subseteq Rows
       /\ deleted[p] \subseteq locked[p] /\ locked[p] \subseteq Rows
       /\ at[p] = "idle" => todo[p] \cup locked[p] \cup added[p] = {}

\* (makePals, block) People become pals only while a request of one of them stands,
\* so not after the one who asked has withdrawn it or blocked the other.
PalsByConsent ==
  [][PalsRow \notin db /\ PalsRow \in db' => db \cap Requests # {}]_vars

\* "Blocking also ends ... pals and pal requests": when a block comes into force the
\* two are not pals, whatever was being accepted meanwhile, and the blocker asks for
\* nothing.
BlockEndsPals ==
  [][\A p \in People : Block(p) \notin db /\ Block(p) \in db' =>
       PalsRow \notin db' /\ Request(p) \notin db']_vars

\* Every request ends, also when both accept, or one accepts and the other blocks,
\* and each waits for a row of the other.
RequestsEnd == \A p \in People : at[p] # "idle" ~> at[p] = "idle"
-----------------------------------------------------------------------------
(* What the repository says and the code does not keep. *)

\* social.repository.ts: "Blocking also ends follows, pals and pal requests in either
\* direction."  block deletes the follows before it waits for the request that the
\* other is accepting, and makePals inserts them again; and a request or follow whose
\* check for a block was made before it comes after.
BlockEndsTies ==
  (\A p \in People : at[p] = "idle") /\ (\E p \in People : Block(p) \in db)
    => db \cap ({PalsRow} \cup Requests \cup Follows) = {}

\* unblock is for whoever blocked, but like every request it answers 404 to somebody
\* the other has blocked: of two blocks made at once neither can be taken back, and
\* nothing is possible between the two any more.
BlockCanBeTakenBack == \E p \in People : Block(p) \notin db

\* social.e2e-spec.ts: "if both ask, they become pals at once".  FOR UPDATE locks no
\* request that is not there yet.
BothAskedArePals ==
  (\A p \in People : at[p] = "idle") /\ Requests \subseteq db => PalsRow \in db

\* social.repository.ts: "requests between them are spent".  An ask repeated while the
\* first is accepted is left over, and ending the pals then only withdraws it.
RequestsSpent ==
  (\A p \in People : at[p] = "idle") /\ PalsRow \in db => db \cap Requests = {}

\* social.e2e-spec.ts: "ignoring is silent and blocks re-sending for three weeks".  The
\* sender may withdraw and ask again.
IgnoredForThreeWeeks ==
  [][\A p \in People : ignored[p] = "lately" => ignored'[p] # "no"]_vars
=============================================================================
