---------------------------- MODULE PayoutMethods ----------------------------
(***************************************************************************)
(* One member's payout methods and the circles they are shared with.       *)
(*                                                                         *)
(* Requests of the same member (two devices, a double tap, a join while a  *)
(* method is removed) are read-committed transactions, and each statement  *)
(* is an action here.  A transaction sees what is committed and what it    *)
(* wrote itself (`written`); a row it wrote is locked until it ends.  Only *)
(* sharing locks the row of a circle; nothing locks the member.            *)
(*                                                                         *)
(* Which of the shared methods is preferred, and what a method says, are   *)
(* left out.  A circle here is one the member is in, or may join again.    *)
(***************************************************************************)
EXTENDS Naturals, FiniteSets

CONSTANTS
  Methods,      \* bound: the methods the member may ever add
  Circles,      \* the circles concerned
  Requests,     \* requests that may run at once
  MaxMethods,   \* MAX_PAYOUT_METHODS
  None

ASSUME LimitAssumption == MaxMethods \in Nat \ {0}
ASSUME MethodsAssumption == None \notin Methods \cup Circles

VARIABLES
  methods,    \* payout_methods rows with archived_at NULL
  archived,   \* the other ones
  default,    \* rows with is_default
  shares,     \* circle_payout_shares rows: circle and method
  status,     \* circles.status
  request,    \* what each request is about to do
  written     \* what its transaction has written and not yet committed

vars == <<methods, archived, default, shares, status, request, written>>

Shares == Circles \X Methods

Steps == {"idle", "insert", "see_default", "clear_default", "set_default",
          "archive", "unshare", "replace", "fill", "commit"}

Request == [step: Steps, method: Methods \cup {None}, circle: Circles \cup {None},
            ids: SUBSET Methods, toDefault: BOOLEAN]

Writes == [added: SUBSET Methods, archived: SUBSET Methods,
           undefaulted: SUBSET Methods, defaulted: SUBSET Methods,
           unshared: SUBSET Shares, shared: SUBSET Shares]

Idle == [step |-> "idle", method |-> None, circle |-> None, ids |-> {},
         toDefault |-> FALSE]

NoWrites == [added |-> {}, archived |-> {}, undefaulted |-> {}, defaulted |-> {},
             unshared |-> {}, shared |-> {}]

Init ==
  /\ methods = {} /\ archived = {} /\ default = {} /\ shares = {}
  /\ status = [c \in Circles |-> "draft"]
  /\ request = [r \in Requests |-> Idle]
  /\ written = [r \in Requests |-> NoWrites]

(***************************************************************************)
(* What a transaction sees, and which rows others hold.                    *)
(***************************************************************************)
MethodsOf(r) == (methods \cup written[r].added) \ written[r].archived
DefaultOf(r) == (default \ written[r].undefaulted) \cup written[r].defaulted
SharesOf(r) == (shares \ written[r].unshared) \cup written[r].shared

Others(r) == Requests \ {r}

DefaultPending(q) == written[q].undefaulted \cup written[q].defaulted

MethodFree(r, m) ==
  \A q \in Others(r) : m \notin written[q].archived \cup DefaultPending(q)

SharesFree(r, rows) == \A q \in Others(r) : rows \cap written[q].unshared = {}

\* nobody holds FOR UPDATE on the row of the circle
CircleFree(c) == \A r \in Requests : request[r].circle # c

Payable(c) == \E m \in methods : <<c, m>> \in shares

SharedWith(c) == {s \in shares : s[1] = c}

(***************************************************************************)
(* The ends of a transaction.                                              *)
(***************************************************************************)
At(r, step) == request[r].step = step
Then(r, step) == request' = [request EXCEPT ![r].step = step]

End(r) ==
  /\ request' = [request EXCEPT ![r] = Idle]
  /\ written' = [written EXCEPT ![r] = NoWrites]

\* Fault: what the transaction wrote stays locked.
CommitKeepingLocks(r) ==
  /\ At(r, "commit")
  /\ methods' = MethodsOf(r)
  /\ archived' = archived \cup written[r].archived
  /\ default' = DefaultOf(r)
  /\ shares' = SharesOf(r)
  /\ request' = [request EXCEPT ![r] = Idle]
  /\ UNCHANGED <<status, written>>

Commit(r) ==
  /\ At(r, "commit")
  /\ methods' = MethodsOf(r)
  /\ archived' = archived \cup written[r].archived
  /\ default' = DefaultOf(r)
  /\ shares' = SharesOf(r)
  /\ End(r)
  /\ UNCHANGED status

\* the request fails, or its connection is lost
Rollback(r) ==
  /\ ~At(r, "idle")
  /\ End(r)
  /\ UNCHANGED <<methods, archived, default, shares, status>>

(***************************************************************************)
(* add                                                                     *)
(***************************************************************************)

\* TOO_MANY_PAYOUT_METHODS
Room == Cardinality(methods) < MaxMethods

\* countMine; the first method becomes the default
Add(r, makeDefault) ==
  /\ At(r, "idle")
  /\ Room
  /\ request' = [request EXCEPT ![r].step = "insert",
                                ![r].toDefault = makeDefault \/ methods = {}]
  /\ UNCHANGED <<methods, archived, default, shares, status, written>>

Insert(r, m) ==
  /\ At(r, "insert")
  /\ m \notin methods \cup archived \cup UNION {written[q].added : q \in Requests}
  /\ written' = [written EXCEPT ![r].added = {m}]
  /\ request' = [request EXCEPT
       ![r].method = m,
       ![r].step = IF request[r].toDefault THEN "see_default" ELSE "commit"]
  /\ UNCHANGED <<methods, archived, default, shares, status>>

(***************************************************************************)
(* makeDefault, with the id of any method the member ever had              *)
(***************************************************************************)
MakeDefault(r, m) ==
  /\ At(r, "idle")
  /\ m \in methods \cup archived
  /\ request' = [request EXCEPT ![r].step = "see_default", ![r].method = m]
  /\ UNCHANGED <<methods, archived, default, shares, status, written>>

\* setDefault: UPDATE ... SET is_default = false finds its rows, ...
SeeDefault(r) ==
  /\ At(r, "see_default")
  /\ request' = [request EXCEPT ![r].step = "clear_default", ![r].ids = default]
  /\ UNCHANGED <<methods, archived, default, shares, status, written>>

\* ... waits for them and updates those that are still the default
ClearDefault(r) ==
  /\ At(r, "clear_default")
  /\ \A m \in request[r].ids : MethodFree(r, m)
  /\ written' = [written EXCEPT ![r].undefaulted = request[r].ids \cap default]
  /\ Then(r, "set_default")
  /\ UNCHANGED <<methods, archived, default, shares, status>>

\* Fault: the index payout_methods_one_default is missing.
NoIndex(r) == TRUE

\* payout_methods_one_default
IndexAllows(r) == DefaultOf(r) \subseteq {request[r].method}

\* UPDATE ... SET is_default = true; an archived method is not found, which
\* is answered after the transaction has committed
SetDefault(r) ==
  /\ At(r, "set_default")
  /\ MethodFree(r, request[r].method)
  /\ IF request[r].method \in MethodsOf(r)
       THEN /\ \A q \in Others(r) : DefaultPending(q) = {}
            /\ IndexAllows(r)
            /\ written' = [written EXCEPT ![r].defaulted = {request[r].method}]
       ELSE UNCHANGED written
  /\ Then(r, "commit")
  /\ UNCHANGED <<methods, archived, default, shares, status>>

(***************************************************************************)
(* remove                                                                  *)
(***************************************************************************)

\* circlesRelyingOn
Relying(m) ==
  {c \in Circles : status[c] # "completed" /\ SharedWith(c) = {<<c, m>>}}

\* PAYOUT_METHOD_IN_USE
Remove(r, m) ==
  /\ At(r, "idle")
  /\ m \in methods \cup archived
  /\ Relying(m) = {}
  /\ request' = [request EXCEPT ![r].step = "archive", ![r].method = m]
  /\ UNCHANGED <<methods, archived, default, shares, status, written>>

Archive(r) ==
  LET m == request[r].method IN
    /\ At(r, "archive")
    /\ MethodFree(r, m)
    /\ m \in methods
    /\ written' = [written EXCEPT ![r].archived = {m},
                                  ![r].undefaulted = {m} \cap default]
    /\ Then(r, "unshare")
    /\ UNCHANGED <<methods, archived, default, shares, status>>

Unshare(r) ==
  LET rows == {s \in shares : s[2] = request[r].method} IN
    /\ At(r, "unshare")
    /\ SharesFree(r, rows)
    /\ written' = [written EXCEPT ![r].unshared = rows]
    /\ Then(r, "commit")
    /\ UNCHANGED <<methods, archived, default, shares, status>>

(***************************************************************************)
(* share and shareDefault (a member's choice, or what joining shares): it  *)
(* holds the circle's row; ownsActive, then replaceShares                  *)
(***************************************************************************)
Share(r, c, ids) ==
  /\ At(r, "idle")
  /\ CircleFree(c)
  /\ status[c] # "completed"
  /\ ids # {} /\ ids \subseteq methods
  /\ request' = [request EXCEPT ![r].step = "replace", ![r].circle = c,
                                ![r].ids = ids]
  /\ UNCHANGED <<methods, archived, default, shares, status, written>>

Replace(r) ==
  LET rows == SharedWith(request[r].circle) IN
    /\ At(r, "replace")
    /\ SharesFree(r, rows)
    /\ written' = [written EXCEPT ![r].unshared = rows]
    /\ Then(r, "fill")
    /\ UNCHANGED <<methods, archived, default, shares, status>>

Fill(r) ==
  LET rows == {request[r].circle} \X (request[r].ids \cap methods) IN
    /\ At(r, "fill")
    /\ SharesFree(r, rows)
    /\ written' = [written EXCEPT ![r].shared = rows]
    /\ Then(r, "commit")
    /\ UNCHANGED <<methods, archived, default, shares, status>>

(***************************************************************************)
(* The circles, each step under the lock of the circle.                    *)
(***************************************************************************)

\* start: every member must have shared a method
Start(c) ==
  /\ CircleFree(c)
  /\ status[c] = "draft" /\ Payable(c)
  /\ status' = [status EXCEPT ![c] = "active"]
  /\ UNCHANGED <<methods, archived, default, shares, request, written>>

\* completeIfNoOpenCycles
Complete(c) ==
  /\ CircleFree(c)
  /\ status[c] = "active"
  /\ status' = [status EXCEPT ![c] = "completed"]
  /\ UNCHANGED <<methods, archived, default, shares, request, written>>

\* removeFromDraft deletes the member's shares; the rows are free only when
\* nobody is removing one of them
LeaveDraft(c) ==
  /\ CircleFree(c)
  /\ status[c] = "draft"
  /\ \A r \in Requests : SharedWith(c) \cap written[r].unshared = {}
  /\ shares' = shares \ SharedWith(c)
  /\ UNCHANGED <<methods, archived, default, status, request, written>>

\* a request's next statement
Proceed(r) ==
  \/ \E m \in Methods : Insert(r, m)
  \/ SeeDefault(r) \/ ClearDefault(r) \/ SetDefault(r)
  \/ Archive(r) \/ Unshare(r)
  \/ Replace(r) \/ Fill(r)
  \/ Commit(r)

Next ==
  \/ \E r \in Requests :
       \/ \E makeDefault \in BOOLEAN : Add(r, makeDefault)
       \/ \E m \in Methods : MakeDefault(r, m) \/ Remove(r, m)
       \/ \E c \in Circles, ids \in SUBSET Methods : Share(r, c, ids)
       \/ Proceed(r)
       \/ Rollback(r)
  \/ \E c \in Circles : Start(c) \/ Complete(c) \/ LeaveDraft(c)

Spec == Init /\ [][Next]_vars
-----------------------------------------------------------------------------
(***************************************************************************)
(* Properties.                                                             *)
(***************************************************************************)

\* Rows, requests and uncommitted writes have their types; a method is never
\* both in use and archived, and an idle request has written nothing.
TypeOK ==
  /\ methods \subseteq Methods /\ archived \subseteq Methods
  /\ methods \cap archived = {}
  /\ default \subseteq Methods /\ shares \subseteq Shares
  /\ status \in [Circles -> {"draft", "active", "completed"}]
  /\ request \in [Requests -> Request]
  /\ written \in [Requests -> Writes]
  /\ \A r \in Requests : At(r, "idle") => request[r] = Idle /\ written[r] = NoWrites

\* At most one method is the default, and it is one in use: shareDefault always
\* knows what to share, whatever adds, changes and removals run at once.
OneDefault == Cardinality(default) <= 1 /\ default \subseteq methods

(***************************************************************************)
(* Said by the repository and not kept by the code (README.md, section 5). *)
(***************************************************************************)

\* circlesRelyingOn: a running circle always has a method to pay the member by.
RunningCircleCanPay == \A c \in Circles : status[c] = "active" => Payable(c)

\* add: keep up to MAX_PAYOUT_METHODS payment methods.
MethodLimit == Cardinality(methods) <= MaxMethods
=============================================================================
