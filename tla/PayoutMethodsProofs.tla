------------------------- MODULE PayoutMethodsProofs -------------------------
(***************************************************************************)
(* Proofs about PayoutMethods for every number of methods, circles and     *)
(* requests at once.  A request locks a row from the moment it writes it   *)
(* until it ends, so that no two of them write the same row (Locks); and   *)
(* what one has written stays right, whatever the others commit meanwhile  *)
(* (WritesStand).  A commit is then as good as its transaction.            *)
(***************************************************************************)
EXTENDS PayoutMethods, TLAPS, FiniteSetTheorems

\* A request has written what its statements up to this one write.
StepsWell ==
  \A r \in Requests :
    /\ request[r].step \notin {"unshare", "commit"} => written[r].archived = {}
    /\ request[r].step # "commit" => written[r].defaulted = {}
    /\ request[r].step \in {"replace", "fill"} => request[r].circle \in Circles

\* The rows a request has inserted are new, and those it has removed there; no
\* other has written the same.
Locks ==
  /\ \A r \in Requests : /\ written[r].archived \subseteq methods
                         /\ written[r].added \cap (methods \cup archived) = {}
  /\ \A r \in Requests : \A q \in Others(r) :
       /\ written[r].added \cap written[q].added = {}
       /\ written[r].archived \cap (written[q].archived \cup DefaultPending(q)) = {}
       /\ written[r].defaulted = {} \/ written[q].defaulted = {}

Single(S) == \A x, y \in S : x = y

\* What a request archives it leaves no default, and what it makes the default is in
\* use and the only one.
WritesStand ==
  \A r \in Requests :
    /\ written[r].archived \cap DefaultOf(r) = {}
    /\ written[r].defaulted \subseteq MethodsOf(r)
    /\ written[r].defaulted # {} => Single(DefaultOf(r))

PayoutInv ==
  /\ TypeOK /\ StepsWell /\ Locks /\ WritesStand
  /\ Single(default) /\ default \subseteq methods

\* w may be what r has written, as far as the others and the tables are concerned.
Fits(r, w) ==
  LET dflt == (default \ w.undefaulted) \cup w.defaulted IN
    /\ w.archived \subseteq methods /\ w.added \cap (methods \cup archived) = {}
    /\ \A q \in Others(r) :
         /\ w.added \cap written[q].added = {}
         /\ w.archived \cap (written[q].archived \cup DefaultPending(q)) = {}
         /\ written[q].archived \cap (w.undefaulted \cup w.defaulted) = {}
         /\ w.defaulted = {} \/ written[q].defaulted = {}
    /\ w.archived \cap dflt = {}
    /\ w.defaulted \subseteq (methods \cup w.added) \ w.archived
    /\ w.defaulted # {} => Single(dflt)

\* The step of a request that has written w.
StepFits(q, w) ==
  /\ q.step = "idle" => q = Idle /\ w = NoWrites
  /\ q.step \notin {"unshare", "commit"} => w.archived = {}
  /\ q.step # "commit" => w.defaulted = {}
  /\ q.step \in {"replace", "fill"} => q.circle \in Circles
-----------------------------------------------------------------------------
\* The member begins without methods, and no request runs.
LEMMA InitPayoutInv == Init => PayoutInv
<1> SUFFICES ASSUME Init PROVE PayoutInv
  OBVIOUS
<1>1. TypeOK
  BY DEF Init, TypeOK, Request, Steps, Writes, Idle, NoWrites, At
<1>2. StepsWell
  BY DEF Init, StepsWell, Idle, NoWrites
<1>3. Locks
  BY DEF Init, Locks, NoWrites, DefaultPending
<1>4. WritesStand
  BY DEF Init, WritesStand, NoWrites, DefaultOf
<1> QED
  BY <1>1, <1>2, <1>3, <1>4 DEF Init, PayoutInv, Single

\* What is written fits, and so does nothing.
LEMMA WrittenFits ==
  ASSUME PayoutInv, NEW r \in Requests
  PROVE  /\ written[r] \in Writes /\ request[r] \in Request
         /\ Fits(r, written[r]) /\ StepFits(request[r], written[r])
         /\ Idle \in Request /\ NoWrites \in Writes
         /\ Fits(r, NoWrites) /\ StepFits(Idle, NoWrites)
<1>1. written[r] \in Writes /\ request[r] \in Request
  BY DEF PayoutInv, TypeOK
<1>2. Idle \in Request /\ NoWrites \in Writes
  BY DEF Idle, NoWrites, Request, Writes, Steps
<1>3. Fits(r, NoWrites) /\ StepFits(Idle, NoWrites)
  BY DEF Fits, StepFits, NoWrites, Idle
<1>4. StepFits(request[r], written[r])
  BY DEF PayoutInv, TypeOK, At, StepsWell, StepFits
<1>5. \A q \in Others(r) : q \in Requests /\ r \in Others(q)
  BY DEF Others
<1>6. Fits(r, written[r])
  BY <1>5 DEF PayoutInv, Locks, WritesStand, Fits, DefaultOf, MethodsOf, DefaultPending
<1> QED
  BY <1>1, <1>2, <1>3, <1>4, <1>6

\* One request takes a step, writes what fits, and no table changes.
LEMMA StepInv ==
  ASSUME PayoutInv, NEW r \in Requests, NEW w \in Writes, NEW q \in Request,
         written' = [written EXCEPT ![r] = w], request' = [request EXCEPT ![r] = q],
         methods' = methods, archived' = archived, default' = default,
         shares' = shares, status' = status,
         Fits(r, w), StepFits(q, w)
  PROVE  PayoutInv'
<1>1. TypeOK /\ StepsWell /\ Locks /\ WritesStand /\ Single(default) /\ default \subseteq methods
  BY DEF PayoutInv
<1>2. /\ \A u \in Requests : written'[u] = IF u = r THEN w ELSE written[u]
      /\ \A u \in Requests : request'[u] = IF u = r THEN q ELSE request[u]
      /\ written' \in [Requests -> Writes] /\ request' \in [Requests -> Request]
  BY <1>1 DEF TypeOK
<1>3. TypeOK'
  <2>1. \A u \in Requests : request'[u].step = "idle" => request'[u] = Idle /\ written'[u] = NoWrites
    BY <1>1, <1>2 DEF TypeOK, At, StepFits
  <2> QED
    BY <1>1, <1>2, <2>1 DEF TypeOK, At
<1>4. StepsWell'
  BY <1>1, <1>2 DEF StepsWell, StepFits
<1>5. Locks'
  <2>1. \A u \in Requests : /\ written'[u].archived \subseteq methods
                            /\ written'[u].added \cap (methods \cup archived) = {}
    BY <1>1, <1>2 DEF Locks, Fits
  <2>2. ASSUME NEW u \in Requests, NEW v \in Requests \ {u}
        PROVE  /\ written'[u].added \cap written'[v].added = {}
               /\ written'[u].archived \cap
                    (written'[v].archived \cup (written'[v].undefaulted \cup written'[v].defaulted)) = {}
               /\ written'[u].defaulted = {} \/ written'[v].defaulted = {}
    <3>1. CASE u = r
      BY <1>2, <3>1 DEF Fits, Others, DefaultPending
    <3>2. CASE v = r
      BY <1>2, <3>2 DEF Fits, Others, DefaultPending
    <3>3. CASE u # r /\ v # r
      BY <1>1, <1>2, <3>3 DEF Locks, Others, DefaultPending
    <3> QED
      BY <3>1, <3>2, <3>3
  <2> QED
    BY <2>1, <2>2 DEF Locks, Others, DefaultPending
<1>6. WritesStand'
  BY <1>1, <1>2 DEF WritesStand, Fits, DefaultOf, MethodsOf
<1> QED
  BY <1>1, <1>3, <1>4, <1>5, <1>6 DEF PayoutInv

\* A request steps without writing.
LEMMA QuietStepInv ==
  ASSUME PayoutInv, NEW r \in Requests, NEW q \in Request,
         request' = [request EXCEPT ![r] = q], StepFits(q, written[r]),
         UNCHANGED <<methods, archived, default, shares, status, written>>
  PROVE  PayoutInv'
<1>1. written' = [written EXCEPT ![r] = written[r]]
  BY DEF PayoutInv, TypeOK
<1>2. /\ methods' = methods /\ archived' = archived /\ default' = default
      /\ shares' = shares /\ status' = status
  OBVIOUS
<1> QED
  BY <1>1, <1>2, WrittenFits, StepInv

\* A request that begins has written nothing, and writes nothing with its first statement.
LEMMA BeginInv ==
  ASSUME PayoutInv, NEW r \in Requests, At(r, "idle"), NEW q \in Request,
         request' = [request EXCEPT ![r] = q],
         \/ q.step \in {"insert", "see_default", "archive"}
         \/ q.step = "replace" /\ q.circle \in Circles,
         UNCHANGED <<methods, archived, default, shares, status, written>>
  PROVE  PayoutInv'
<1>1. written[r] = NoWrites /\ NoWrites.archived = {} /\ NoWrites.defaulted = {}
  BY DEF NoWrites, PayoutInv, TypeOK
<1>2. StepFits(q, written[r])
  BY <1>1 DEF StepFits
<1> QED
  BY <1>2, QuietStepInv
-----------------------------------------------------------------------------
(***************************************************************************)
(* The statements of add, makeDefault, remove and share.                   *)
(***************************************************************************)
LEMMA AddInv ==
  ASSUME PayoutInv, NEW r \in Requests, NEW makeDefault \in BOOLEAN, Add(r, makeDefault)
  PROVE  PayoutInv'
<1> DEFINE q == [request[r] EXCEPT !.step = "insert", !.toDefault = makeDefault \/ methods = {}]
<1>1. request[r] \in Request /\ At(r, "idle")
  BY DEF Add, PayoutInv, TypeOK
<1>2. q \in Request /\ q.step = "insert"
  BY <1>1 DEF Request, Steps
<1>3. request' = [request EXCEPT ![r] = q]
  BY DEF Add, PayoutInv, TypeOK, Request
<1> HIDE DEF q
<1> QED
  BY <1>1, <1>2, <1>3, BeginInv DEF Add

\* (insert) The row inserted has an id no other request has inserted.
LEMMA InsertInv ==
  ASSUME PayoutInv, NEW r \in Requests, NEW m \in Methods, Insert(r, m) PROVE PayoutInv'
<1> DEFINE q == [request[r] EXCEPT !.method = m,
                   !.step = IF request[r].toDefault THEN "see_default" ELSE "commit"]
           w == [written[r] EXCEPT !.added = {m}]
<1>1. /\ request[r] \in Request /\ written[r] \in Writes /\ request[r].step = "insert"
      /\ Fits(r, written[r]) /\ StepFits(request[r], written[r])
  BY WrittenFits DEF Insert, At
<1>2. /\ written' = [written EXCEPT ![r] = w] /\ request' = [request EXCEPT ![r] = q]
  BY <1>1 DEF Insert, PayoutInv, TypeOK, Request, Writes
<1>3. /\ w \in Writes /\ w.added = {m} /\ w.archived = {} /\ w.defaulted = {}
      /\ w.undefaulted = written[r].undefaulted
  BY <1>1 DEF Writes, StepFits
<1>4. q \in Request /\ q.step \in {"see_default", "commit"}
  BY <1>1 DEF Request, Steps
<1>5. m \notin methods \cup archived /\ \A v \in Requests : m \notin written[v].added
  BY DEF Insert
<1> HIDE DEF q, w
<1>6. Fits(r, w)
  BY <1>1, <1>3, <1>5 DEF Fits, Others
<1>7. StepFits(q, w)
  BY <1>3, <1>4 DEF StepFits
<1> QED
  BY <1>2, <1>3, <1>4, <1>6, <1>7, StepInv DEF Insert

\* (makeDefault) The request begins; the method may be archived.
LEMMA MakeDefaultInv ==
  ASSUME PayoutInv, NEW r \in Requests, NEW m \in Methods, MakeDefault(r, m) PROVE PayoutInv'
<1> DEFINE q == [request[r] EXCEPT !.step = "see_default", !.method = m]
<1>1. request[r] \in Request /\ At(r, "idle")
  BY DEF MakeDefault, PayoutInv, TypeOK
<1>2. q \in Request /\ q.step = "see_default"
  BY <1>1 DEF Request, Steps
<1>3. request' = [request EXCEPT ![r] = q]
  BY DEF MakeDefault, PayoutInv, TypeOK, Request
<1> HIDE DEF q
<1> QED
  BY <1>1, <1>2, <1>3, BeginInv DEF MakeDefault

\* (setDefault) The first update finds its rows and has written none yet.
LEMMA SeeDefaultInv == ASSUME PayoutInv, NEW r \in Requests, SeeDefault(r) PROVE PayoutInv'
<1> DEFINE q == [request[r] EXCEPT !.step = "clear_default", !.ids = default]
<1>1. request[r] \in Request /\ request[r].step = "see_default" /\ StepFits(request[r], written[r])
  BY WrittenFits DEF SeeDefault, At
<1>2. q \in Request /\ StepFits(q, written[r])
  BY <1>1 DEF PayoutInv, TypeOK, Request, Steps, StepFits
<1>3. request' = [request EXCEPT ![r] = q]
  BY DEF SeeDefault, PayoutInv, TypeOK, Request
<1> HIDE DEF q
<1> QED
  BY <1>2, <1>3, QuietStepInv DEF SeeDefault

\* The rows are free, so nobody has removed one of them.
LEMMA ClearDefaultInv == ASSUME PayoutInv, NEW r \in Requests, ClearDefault(r) PROVE PayoutInv'
<1> DEFINE q == [request[r] EXCEPT !.step = "set_default"]
           w == [written[r] EXCEPT !.undefaulted = request[r].ids \cap default]
<1>1. /\ request[r] \in Request /\ written[r] \in Writes /\ request[r].step = "clear_default"
      /\ Fits(r, written[r]) /\ StepFits(request[r], written[r])
  BY WrittenFits DEF ClearDefault, At
<1>2. written' = [written EXCEPT ![r] = w] /\ request' = [request EXCEPT ![r] = q]
  BY <1>1 DEF ClearDefault, Then, PayoutInv, TypeOK, Request, Writes
<1>3. /\ w \in Writes /\ w.added = written[r].added /\ w.archived = {} /\ w.defaulted = {}
      /\ w.undefaulted \subseteq request[r].ids
  BY <1>1 DEF Request, Writes, StepFits
<1>4. q \in Request /\ q.step = "set_default"
  BY <1>1 DEF Request, Steps
<1>5. \A m \in request[r].ids : \A v \in Others(r) : m \notin written[v].archived
  BY DEF ClearDefault, MethodFree
<1> HIDE DEF q, w
<1>6. Fits(r, w)
  BY <1>1, <1>3, <1>5 DEF Fits
<1>7. StepFits(q, w)
  BY <1>3, <1>4 DEF StepFits
<1> QED
  BY <1>2, <1>3, <1>4, <1>6, <1>7, StepInv DEF ClearDefault

\* The index: no other default is there or being written.
LEMMA SetDefaultInv == ASSUME PayoutInv, NEW r \in Requests, SetDefault(r) PROVE PayoutInv'
<1> DEFINE m == request[r].method
           q == [request[r] EXCEPT !.step = "commit"]
           w == [written[r] EXCEPT !.defaulted = {m}]
<1>1. /\ request[r] \in Request /\ written[r] \in Writes /\ request[r].step = "set_default"
      /\ Fits(r, written[r]) /\ StepFits(request[r], written[r])
  BY WrittenFits DEF SetDefault, At
<1>2. request' = [request EXCEPT ![r] = q] /\ q \in Request /\ q.step = "commit"
  BY <1>1 DEF SetDefault, Then, PayoutInv, TypeOK, Request, Steps
<1>3. CASE m \in MethodsOf(r)
  <2>1. /\ \A v \in Others(r) : DefaultPending(v) = {} /\ m \notin written[v].archived
        /\ written' = [written EXCEPT ![r] = w]
    BY <1>1, <1>3 DEF SetDefault, MethodFree, PayoutInv, TypeOK, Writes
  <2>2. m \in Methods
    BY <1>1, <1>3 DEF MethodsOf, PayoutInv, TypeOK, Writes
  <2>3. /\ w \in Writes /\ w.added = written[r].added /\ w.archived = {} /\ w.defaulted = {m}
        /\ w.undefaulted = written[r].undefaulted
    BY <1>1, <2>2 DEF Writes, StepFits
  <2>4. default \ w.undefaulted \subseteq {m} /\ m \in methods \cup w.added
    BY <1>3, <2>3 DEF SetDefault, IndexAllows, DefaultOf, MethodsOf
  <2> HIDE DEF q, w, m
  <2>5. \A v \in Others(r) : written[v].defaulted = {}
    BY <2>1 DEF DefaultPending
  <2>6. Fits(r, w)
    BY <1>1, <2>1, <2>3, <2>4, <2>5 DEF Fits, Single
  <2>7. StepFits(q, w)
    BY <1>2, <2>3 DEF StepFits
  <2> QED
    BY <1>2, <2>1, <2>3, <2>6, <2>7, StepInv DEF SetDefault
<1>4. CASE m \notin MethodsOf(r)
  <2>1. UNCHANGED written
    BY <1>4 DEF SetDefault
  <2>2. StepFits(q, written[r])
    BY <1>1, <1>2 DEF StepFits
  <2> HIDE DEF q, m
  <2> QED
    BY <1>2, <2>1, <2>2, QuietStepInv DEF SetDefault
<1> QED
  BY <1>3, <1>4

\* (remove) The request begins once no circle relies on the method.
LEMMA RemoveInv ==
  ASSUME PayoutInv, NEW r \in Requests, NEW m \in Methods, Remove(r, m) PROVE PayoutInv'
<1> DEFINE q == [request[r] EXCEPT !.step = "archive", !.method = m]
<1>1. request[r] \in Request /\ At(r, "idle")
  BY DEF Remove, PayoutInv, TypeOK
<1>2. q \in Request /\ q.step = "archive"
  BY <1>1 DEF Request, Steps
<1>3. request' = [request EXCEPT ![r] = q]
  BY DEF Remove, PayoutInv, TypeOK, Request
<1> HIDE DEF q
<1> QED
  BY <1>1, <1>2, <1>3, BeginInv DEF Remove

\* The row is free, so nobody is making it the default.
LEMMA ArchiveInv == ASSUME PayoutInv, NEW r \in Requests, Archive(r) PROVE PayoutInv'
<1> DEFINE m == request[r].method
           q == [request[r] EXCEPT !.step = "unshare"]
           w == [written[r] EXCEPT !.archived = {m}, !.undefaulted = {m} \cap default]
<1>1. /\ request[r] \in Request /\ written[r] \in Writes /\ request[r].step = "archive"
      /\ Fits(r, written[r]) /\ StepFits(request[r], written[r])
  BY WrittenFits DEF Archive, At
<1>2. written' = [written EXCEPT ![r] = w] /\ request' = [request EXCEPT ![r] = q]
  BY <1>1 DEF Archive, Then, PayoutInv, TypeOK, Request, Writes
<1>3. /\ m \in methods /\ methods \subseteq Methods
      /\ \A v \in Others(r) : m \notin written[v].archived \cup DefaultPending(v)
  BY DEF Archive, MethodFree, PayoutInv, TypeOK
<1>4. /\ w \in Writes /\ w.added = written[r].added /\ w.archived = {m} /\ w.defaulted = {}
      /\ w.undefaulted = {m} \cap default
  BY <1>1, <1>3 DEF Writes, StepFits
<1>5. q \in Request /\ q.step = "unshare"
  BY <1>1 DEF Request, Steps
<1> HIDE DEF q, w, m
<1>6. Fits(r, w)
  BY <1>1, <1>3, <1>4 DEF Fits
<1>7. StepFits(q, w)
  BY <1>4, <1>5 DEF StepFits
<1> QED
  BY <1>2, <1>4, <1>5, <1>6, <1>7, StepInv DEF Archive

\* Statements that write shares only.
LEMMA SharesStepInv ==
  ASSUME PayoutInv, NEW r \in Requests, NEW w \in Writes, NEW step \in {"fill", "commit"},
         written' = [written EXCEPT ![r] = w], Then(r, step),
         w.added = written[r].added, w.archived = written[r].archived,
         w.undefaulted = written[r].undefaulted, w.defaulted = written[r].defaulted,
         \/ step = "commit"
         \/ request[r].step = "replace",
         UNCHANGED <<methods, archived, default, shares, status>>
  PROVE  PayoutInv'
<1> DEFINE q == [request[r] EXCEPT !.step = step]
<1>1. /\ request[r] \in Request /\ Fits(r, written[r]) /\ StepFits(request[r], written[r])
  BY WrittenFits
<1>2. q \in Request /\ q.step = step /\ q.circle = request[r].circle
  BY <1>1 DEF Request, Steps
<1>3. request' = [request EXCEPT ![r] = q]
  BY DEF Then, PayoutInv, TypeOK, Request
<1> HIDE DEF q
<1>4. Fits(r, w)
  BY <1>1 DEF Fits
<1>5. StepFits(q, w)
  BY <1>1, <1>2 DEF StepFits
<1>6. /\ methods' = methods /\ archived' = archived /\ default' = default
      /\ shares' = shares /\ status' = status
  OBVIOUS
<1> QED
  BY <1>2, <1>3, <1>4, <1>5, <1>6, StepInv

\* (archive) The shares of the method go with it; its row is held already.
LEMMA UnshareInv == ASSUME PayoutInv, NEW r \in Requests, Unshare(r) PROVE PayoutInv'
<1> DEFINE rows == {s \in shares : s[2] = request[r].method}
           w == [written[r] EXCEPT !.unshared = rows]
<1>1. written[r] \in Writes /\ rows \subseteq Shares
  BY WrittenFits DEF PayoutInv, TypeOK
<1>2. written' = [written EXCEPT ![r] = w] /\ Then(r, "commit")
  BY <1>1 DEF Unshare, PayoutInv, TypeOK, Writes
<1> HIDE DEF rows
<1>3. /\ w \in Writes /\ w.added = written[r].added /\ w.archived = written[r].archived
      /\ w.undefaulted = written[r].undefaulted /\ w.defaulted = written[r].defaulted
  BY <1>1 DEF Writes
<1> HIDE DEF w
<1> QED
  BY <1>2, <1>3, SharesStepInv DEF Unshare

\* (share, shareDefault) The request begins with the circle's row.
LEMMA ShareInv ==
  ASSUME PayoutInv, NEW r \in Requests, NEW c \in Circles, NEW ids \in SUBSET Methods, Share(r, c, ids)
  PROVE  PayoutInv'
<1> DEFINE q == [request[r] EXCEPT !.step = "replace", !.circle = c, !.ids = ids]
<1>1. request[r] \in Request /\ At(r, "idle")
  BY DEF Share, PayoutInv, TypeOK
<1>2. q \in Request /\ q.step = "replace" /\ q.circle = c
  BY <1>1 DEF Request, Steps
<1>3. request' = [request EXCEPT ![r] = q]
  BY DEF Share, PayoutInv, TypeOK, Request
<1> HIDE DEF q
<1> QED
  BY <1>1, <1>2, <1>3, BeginInv DEF Share

\* (replaceShares) Old shares are deleted, no method is written.
LEMMA ReplaceInv == ASSUME PayoutInv, NEW r \in Requests, Replace(r) PROVE PayoutInv'
<1> DEFINE rows == SharedWith(request[r].circle)
           w == [written[r] EXCEPT !.unshared = rows]
<1>1. written[r] \in Writes /\ rows \subseteq Shares
  BY WrittenFits DEF PayoutInv, TypeOK, SharedWith
<1>2. written' = [written EXCEPT ![r] = w] /\ Then(r, "fill") /\ request[r].step = "replace"
  BY <1>1 DEF Replace, At, PayoutInv, TypeOK, Writes
<1> HIDE DEF rows
<1>3. /\ w \in Writes /\ w.added = written[r].added /\ w.archived = written[r].archived
      /\ w.undefaulted = written[r].undefaulted /\ w.defaulted = written[r].defaulted
  BY <1>1 DEF Writes
<1> HIDE DEF w
<1> QED
  BY <1>2, <1>3, SharesStepInv DEF Replace

\* (replaceShares) New shares are inserted, no method is written.
LEMMA FillInv == ASSUME PayoutInv, NEW r \in Requests, Fill(r) PROVE PayoutInv'
<1> DEFINE rows == {request[r].circle} \X (request[r].ids \cap methods)
           w == [written[r] EXCEPT !.shared = rows]
<1>1. request[r].circle \in Circles /\ methods \subseteq Methods
  BY DEF Fill, At, PayoutInv, StepsWell, TypeOK
<1>2. written[r] \in Writes /\ rows \subseteq Shares
  BY <1>1, WrittenFits DEF Shares
<1>3. written' = [written EXCEPT ![r] = w] /\ Then(r, "commit")
  BY <1>2 DEF Fill, PayoutInv, TypeOK, Writes
<1> HIDE DEF rows
<1>4. /\ w \in Writes /\ w.added = written[r].added /\ w.archived = written[r].archived
      /\ w.undefaulted = written[r].undefaulted /\ w.defaulted = written[r].defaulted
  BY <1>2 DEF Writes
<1> HIDE DEF w
<1> QED
  BY <1>3, <1>4, SharesStepInv DEF Fill
-----------------------------------------------------------------------------
(***************************************************************************)
(* The ends of a transaction.                                              *)
(***************************************************************************)
LEMMA RollbackInv == ASSUME PayoutInv, NEW r \in Requests, Rollback(r) PROVE PayoutInv'
  BY WrittenFits, StepInv DEF Rollback, End

\* What was right for the one that commits becomes the tables, and what the others have
\* written is still right: it is about other rows.
LEMMA CommitInv == ASSUME PayoutInv, NEW r \in Requests, Commit(r) PROVE PayoutInv'
<1> DEFINE w == written[r]
<1>1. TypeOK /\ StepsWell /\ Locks /\ WritesStand /\ Single(default) /\ default \subseteq methods
  BY DEF PayoutInv
<1>2. /\ methods' = (methods \cup w.added) \ w.archived
      /\ archived' = archived \cup w.archived
      /\ default' = (default \ w.undefaulted) \cup w.defaulted
      /\ shares' = (shares \ w.unshared) \cup w.shared
      /\ status' = status
  BY DEF Commit, MethodsOf, DefaultOf, SharesOf
<1>3. /\ \A u \in Requests : written'[u] = IF u = r THEN NoWrites ELSE written[u]
      /\ \A u \in Requests : request'[u] = IF u = r THEN Idle ELSE request[u]
      /\ written' \in [Requests -> Writes] /\ request' \in [Requests -> Request]
  BY <1>1, WrittenFits DEF TypeOK, Commit, End
<1>4. w \in Writes /\ Fits(r, w)
  BY WrittenFits
<1>5. /\ w.added \subseteq Methods /\ w.archived \subseteq Methods /\ w.defaulted \subseteq Methods
      /\ w.unshared \subseteq Shares /\ w.shared \subseteq Shares
  BY <1>4 DEF Writes
<1>6. /\ w.archived \subseteq methods /\ w.added \cap (methods \cup archived) = {}
      /\ w.archived \cap ((default \ w.undefaulted) \cup w.defaulted) = {}
      /\ w.defaulted \subseteq (methods \cup w.added) \ w.archived
      /\ w.defaulted # {} => Single((default \ w.undefaulted) \cup w.defaulted)
  BY <1>4 DEF Fits
<1>7. \A q \in Requests \ {r} :
        /\ w.added \cap written[q].added = {}
        /\ w.archived \cap written[q].archived = {}
        /\ w.archived \cap (written[q].undefaulted \cup written[q].defaulted) = {}
        /\ written[q].archived \cap (w.undefaulted \cup w.defaulted) = {}
        /\ w.defaulted = {} \/ written[q].defaulted = {}
  BY <1>4 DEF Fits, Others, DefaultPending
<1> HIDE DEF w
<1>8. TypeOK'
  <2>1. methods' \cap archived' = {}
    BY <1>1, <1>2, <1>6 DEF TypeOK
  <2>2. methods' \subseteq Methods /\ archived' \subseteq Methods /\ default' \subseteq Methods
    BY <1>1, <1>2, <1>5 DEF TypeOK
  <2>3. shares' \subseteq Shares
    BY <1>1, <1>2, <1>5 DEF TypeOK
  <2>4. \A u \in Requests : request'[u].step = "idle" => request'[u] = Idle /\ written'[u] = NoWrites
    BY <1>1, <1>3 DEF TypeOK, At
  <2> QED
    BY <1>1, <1>2, <1>3, <2>1, <2>2, <2>3, <2>4 DEF TypeOK, At
<1>9. StepsWell'
  BY <1>1, <1>3 DEF StepsWell, Idle, NoWrites
<1>10. Locks'
  <2>1. ASSUME NEW u \in Requests
        PROVE  /\ written'[u].archived \subseteq methods'
               /\ written'[u].added \cap (methods' \cup archived') = {}
    <3>1. CASE u = r
      BY <1>3, <3>1 DEF NoWrites
    <3>2. CASE u # r
      <4>1. /\ written'[u] = written[u] /\ written[u].archived \subseteq methods
            /\ written[u].added \cap (methods \cup archived) = {}
        BY <1>1, <1>3, <3>2 DEF Locks
      <4> QED
        BY <1>2, <1>6, <1>7, <3>2, <4>1
    <3> QED
      BY <3>1, <3>2
  <2>2. ASSUME NEW u \in Requests, NEW v \in Requests \ {u}
        PROVE  /\ written'[u].added \cap written'[v].added = {}
               /\ written'[u].archived \cap
                    (written'[v].archived \cup (written'[v].undefaulted \cup written'[v].defaulted)) = {}
               /\ written'[u].defaulted = {} \/ written'[v].defaulted = {}
    <3>1. CASE u = r \/ v = r
      BY <1>3, <3>1 DEF NoWrites
    <3>2. CASE u # r /\ v # r
      BY <1>1, <1>3, <3>2 DEF Locks, Others, DefaultPending
    <3> QED
      BY <3>1, <3>2
  <2> QED
    BY <2>1, <2>2 DEF Locks, Others, DefaultPending
<1>11. WritesStand'
  <2> SUFFICES ASSUME NEW u \in Requests
               PROVE  LET x == written'[u]
                          dflt == (default' \ x.undefaulted) \cup x.defaulted
                      IN  /\ x.archived \cap dflt = {}
                          /\ x.defaulted \subseteq (methods' \cup x.added) \ x.archived
                          /\ x.defaulted # {} => Single(dflt)
    BY DEF WritesStand, DefaultOf, MethodsOf
  <2>1. CASE u = r
    BY <1>3, <2>1 DEF NoWrites
  <2>2. CASE u # r
    <3> DEFINE x == written[u]
    <3>1. /\ written'[u] = x /\ x.archived \cap ((default \ x.undefaulted) \cup x.defaulted) = {}
          /\ x.defaulted \subseteq (methods \cup x.added) \ x.archived
          /\ x.defaulted # {} => Single((default \ x.undefaulted) \cup x.defaulted)
      BY <1>1, <1>3, <2>2 DEF WritesStand, DefaultOf, MethodsOf
    <3> HIDE DEF x
    <3>2. /\ w.archived \cap x.defaulted = {} /\ x.archived \cap w.defaulted = {}
          /\ w.defaulted = {} \/ x.defaulted = {}
      BY <1>7, <2>2 DEF x
    <3>3. x.archived \cap ((default' \ x.undefaulted) \cup x.defaulted) = {}
      BY <1>2, <3>1, <3>2
    <3>4. x.defaulted \subseteq (methods' \cup x.added) \ x.archived
      BY <1>2, <3>1, <3>2
    <3>5. x.defaulted # {} => default' \subseteq default
      BY <1>2, <3>2
    <3>6. x.defaulted # {} => Single((default' \ x.undefaulted) \cup x.defaulted)
      BY <3>1, <3>5 DEF Single
    <3> QED
      BY <3>1, <3>3, <3>4, <3>6
  <2> QED
    BY <2>1, <2>2
<1>12. Single(default') /\ default' \subseteq methods'
  <2>1. Single(default')
    BY <1>1, <1>2, <1>6 DEF Single
  <2> QED
    BY <1>1, <1>2, <1>6, <2>1
<1>13. Single(default)'
  BY <1>12 DEF Single
<1> QED
  BY <1>8, <1>9, <1>10, <1>11, <1>12, <1>13 DEF PayoutInv

\* The circles change, or their shares; nothing a request has written does.
LEMMA CirclesInv ==
  ASSUME PayoutInv, UNCHANGED <<methods, archived, default, request, written>>, TypeOK'
  PROVE  PayoutInv'
  BY DEF PayoutInv, StepsWell, Locks, WritesStand, Single, Others, DefaultPending, DefaultOf, MethodsOf

\* (start) A circle that starts changes no method.
LEMMA StartInv == ASSUME PayoutInv, NEW c \in Circles, Start(c) PROVE PayoutInv'
<1>1. TypeOK'
  BY DEF PayoutInv, TypeOK, At, Start
<1> QED
  BY <1>1, CirclesInv DEF Start

\* (completeIfNoOpenCycles) A circle that completes changes no method.
LEMMA CompleteInv == ASSUME PayoutInv, NEW c \in Circles, Complete(c) PROVE PayoutInv'
<1>1. TypeOK'
  BY DEF PayoutInv, TypeOK, At, Complete
<1> QED
  BY <1>1, CirclesInv DEF Complete

\* (removeFromDraft) The shares of a member who leaves are deleted, no method.
LEMMA LeaveDraftInv == ASSUME PayoutInv, NEW c \in Circles, LeaveDraft(c) PROVE PayoutInv'
<1>1. TypeOK'
  BY DEF PayoutInv, TypeOK, At, LeaveDraft
<1> QED
  BY <1>1, CirclesInv DEF LeaveDraft

\* Every statement keeps the invariant.
LEMMA NextPayoutInv == ASSUME PayoutInv, [Next]_vars PROVE PayoutInv'
<1>1. ASSUME NEW r \in Requests, Proceed(r) PROVE PayoutInv'
  BY <1>1, InsertInv, SeeDefaultInv, ClearDefaultInv, SetDefaultInv, ArchiveInv, UnshareInv,
     ReplaceInv, FillInv, CommitInv DEF Proceed
<1>2. ASSUME NEW r \in Requests,
             \/ \E makeDefault \in BOOLEAN : Add(r, makeDefault)
             \/ \E m \in Methods : MakeDefault(r, m) \/ Remove(r, m)
             \/ \E c \in Circles, ids \in SUBSET Methods : Share(r, c, ids)
      PROVE  PayoutInv'
  BY <1>2, AddInv, MakeDefaultInv, RemoveInv, ShareInv
<1>3. CASE UNCHANGED vars
  <2>1. TypeOK'
    BY <1>3 DEF PayoutInv, TypeOK, At, vars
  <2> QED
    BY <1>3, <2>1, CirclesInv DEF vars
<1> QED
  BY <1>1, <1>2, <1>3, RollbackInv, StartInv, CompleteInv, LeaveDraftInv DEF Next
-----------------------------------------------------------------------------
\* Whatever requests of the member run at once, commit or are lost: their writes and the
\* tables fit together as described above.
THEOREM PayoutInvariant == Spec => []PayoutInv
  BY InitPayoutInv, NextPayoutInv, PTL DEF Spec

\* (PayoutsRepository.setDefault, archive) At most one method is the default, and it is one
\* in use, however adding, choosing and removing methods overlap.
THEOREM PayoutsHaveOneDefault == Spec => []OneDefault
<1>1. PayoutInv => OneDefault
  <2> SUFFICES ASSUME PayoutInv PROVE OneDefault
    OBVIOUS
  <2>1. Single(default) /\ default \subseteq methods
    BY DEF PayoutInv
  <2>2. CASE default = {}
    BY <2>2, FS_EmptySet DEF OneDefault
  <2>3. CASE default # {}
    <3>1. PICK m : default = {m}
      BY <2>1, <2>3 DEF Single
    <3>2. Cardinality({m}) = 1
      BY FS_Singleton
    <3> QED
      BY <2>1, <3>1, <3>2 DEF OneDefault
  <2> QED
    BY <2>2, <2>3
<1> QED
  BY <1>1, PayoutInvariant, PTL
=============================================================================
