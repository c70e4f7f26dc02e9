------------------------- MODULE LedgerChainProofs -------------------------
(***************************************************************************)
(* The ledger's chain never forks and a statement verifies for ever: proof *)
(* for any number of requests and any length of the ledger.                *)
(***************************************************************************)
EXTENDS LedgerChain, TLAPS

\* Whoever is inside a transaction holds the row of the circle.
HoldsRow == \A p \in Requests : pc[p] # "idle" => rowLock = p

\* No row is ahead of the sequence, and a drawn seq is ahead of every row.
SequenceAhead ==
  /\ \A r \in table : r.seq <= sequence
  /\ \A w \in Writers : \A r \in own[w] : r.seq <= sequence
  /\ \A w \in Writers : pc[w] = "inserting" =>
       /\ drawn[w] \in 1..sequence
       /\ \A r \in table \cup own[w] : r.seq < drawn[w]

\* An open transaction's rows are ahead of the committed ones and continue
\* their chain.
OwnContinues ==
  \A w \in Writers :
    /\ \A r \in own[w], q \in table : q.seq < r.seq
    /\ Unbroken(table \cup own[w], MaxSeq)

ChainInv ==
  /\ TypeOK
  /\ HoldsRow
  /\ SequenceAhead
  /\ OwnContinues
  /\ table # {}
  /\ ChainIntact
  /\ StatementsVerify

\* A row ahead of all the others, linked to their head, keeps the chain
\* unbroken (the trigger ledger_chain).
LEMMA LinkKeepsChain ==
  ASSUME NEW rows \in SUBSET Row, NEW r \in Row,
         Unbroken(rows, MaxSeq), IsHead(rows, r.prev),
         \A q \in rows : q.seq < r.seq
  PROVE  Unbroken(rows \cup {r}, MaxSeq)
<1> SUFFICES ASSUME NEW x \in rows \cup {r}, x.seq <= MaxSeq
             PROVE  IsHead({q \in rows \cup {r} : q.seq < x.seq}, x.prev)
  BY DEF Unbroken
<1>1. CASE x = r
  <2>1. {q \in rows \cup {r} : q.seq < x.seq} = rows
    BY <1>1, MaxSeqAssumption DEF Row
  <2> QED
    BY <2>1, <1>1
<1>2. CASE x # r
  <2>1. x \in rows
    BY <1>2
  <2>2. {q \in rows \cup {r} : q.seq < x.seq} = {q \in rows : q.seq < x.seq}
    BY <2>1, MaxSeqAssumption DEF Row
  <2> QED
    BY <2>1, <2>2 DEF Unbroken
<1> QED
  BY <1>1, <1>2

\* Rows appended ahead of a head leave the chain up to that head as it was.
LEMMA AppendKeepsPrefix ==
  ASSUME NEW rows \in SUBSET Row, NEW more \in SUBSET Row, NEW n \in 0..MaxSeq,
         Unbroken(rows, n), \E r \in rows : r.seq = n,
         \A r \in more, q \in rows : q.seq < r.seq
  PROVE  Unbroken(rows \cup more, n)
<1> SUFFICES ASSUME NEW x \in rows \cup more, x.seq <= n
             PROVE  IsHead({q \in rows \cup more : q.seq < x.seq}, x.prev)
  BY DEF Unbroken
<1>1. x \in rows
  BY MaxSeqAssumption DEF Row
<1>2. {q \in rows \cup more : q.seq < x.seq} = {q \in rows : q.seq < x.seq}
  BY <1>1, MaxSeqAssumption DEF Row
<1> QED
  BY <1>1, <1>2 DEF Unbroken

\* The chain up to a head is part of the whole chain.
LEMMA WholeGivesPrefix ==
  ASSUME NEW rows \in SUBSET Row, NEW n \in 0..MaxSeq, Unbroken(rows, MaxSeq)
  PROVE  Unbroken(rows, n)
BY MaxSeqAssumption DEF Unbroken, Row

\* The ledger a circle is created with satisfies the invariant.
LEMMA InitChain == Init => ChainInv
<1> SUFFICES ASSUME Init PROVE ChainInv
  OBVIOUS
<1>1. TypeOK
  BY MaxSeqAssumption, RequestsAssumption DEF Init, TypeOK, Row, Requests
<1>2. Unbroken(table, MaxSeq)
  <2>1. {q \in {[seq |-> 1, prev |-> 0]} : q.seq < 1} = {}
    OBVIOUS
  <2>2. IsHead({}, 0)
    BY DEF IsHead
  <2> QED
    BY <2>1, <2>2 DEF Init, Unbroken
<1>3. \A w \in Writers : table \cup own[w] = table
  BY DEF Init
<1> QED
  BY <1>1, <1>2, <1>3, MaxSeqAssumption, RequestsAssumption
  DEF Init, ChainInv, HoldsRow, SequenceAhead, OwnContinues, ChainIntact,
      StatementsVerify, Requests

\* Every step of every request keeps it.
LEMMA NextChain == ChainInv /\ [Next]_vars => ChainInv'
<1> SUFFICES ASSUME ChainInv, [Next]_vars PROVE ChainInv'
  OBVIOUS
<1> USE DEF ChainInv
<1>1. ASSUME NEW p \in Requests, Begin(p) PROVE ChainInv'
  <2>1. TypeOK'
    BY <1>1 DEF Begin, TypeOK
  <2>2. HoldsRow'
    BY <1>1, RequestsAssumption DEF Begin, TypeOK, HoldsRow, RowFree
  <2>3. SequenceAhead'
    BY <1>1 DEF Begin, TypeOK, SequenceAhead, Requests
  <2> QED
    BY <1>1, <2>1, <2>2, <2>3
    DEF Begin, OwnContinues, ChainIntact, StatementsVerify
<1>2. ASSUME NEW p \in Requests, Rollback(p) PROVE ChainInv'
  <2>0. \A w \in Writers : own'[w] \in SUBSET own[w]
    BY <1>2 DEF Rollback, TypeOK
  <2>1. TypeOK'
    BY <1>2, <2>0, RequestsAssumption DEF Rollback, Release, TypeOK, Requests
  <2>2. HoldsRow'
    BY <1>2, RequestsAssumption DEF Rollback, Release, TypeOK, HoldsRow
  <2>3. SequenceAhead'
    BY <1>2, <2>0 DEF Rollback, Release, TypeOK, SequenceAhead, Requests
  <2>4. OwnContinues'
    <3> SUFFICES ASSUME NEW w \in Writers
                 PROVE  /\ \A r \in own'[w], q \in table : q.seq < r.seq
                        /\ Unbroken(table \cup own'[w], MaxSeq)
      BY <1>2 DEF OwnContinues, Rollback, Unbroken
    <3>1. CASE w = p
      <4>1. own'[w] = {} /\ table \cup own'[w] = table
        BY <3>1, <1>2 DEF Rollback
      <4> QED
        BY <4>1 DEF ChainIntact
    <3>2. CASE w # p
      BY <3>2, <1>2 DEF Rollback, OwnContinues
    <3> QED
      BY <3>1, <3>2
  <2> QED
    BY <1>2, <2>1, <2>2, <2>3, <2>4 DEF Rollback, ChainIntact, StatementsVerify
<1>3. ASSUME NEW w \in Writers, DrawSeq(w) PROVE ChainInv'
  <2>1. TypeOK'
    BY <1>3, MaxSeqAssumption DEF DrawSeq, TypeOK, Requests
  <2>2. HoldsRow'
    BY <1>3 DEF DrawSeq, TypeOK, HoldsRow, Requests
  <2>3. SequenceAhead'
    BY <1>3, MaxSeqAssumption DEF DrawSeq, TypeOK, SequenceAhead, Requests, Row
  <2> QED
    BY <1>3, <2>1, <2>2, <2>3 DEF DrawSeq, OwnContinues, ChainIntact, StatementsVerify
<1>4. ASSUME NEW w \in Writers, Link(w) PROVE ChainInv'
  <2> PICK last \in 0..MaxSeq :
        /\ IsHead(table \cup own[w], last)
        /\ own' = [own EXCEPT ![w] = @ \cup {[seq |-> drawn[w], prev |-> last]}]
    BY <1>4 DEF Link, Visible
  <2> DEFINE r == [seq |-> drawn[w], prev |-> last]
  <2>0. r \in Row /\ drawn[w] \in 1..sequence
    BY <1>4, MaxSeqAssumption DEF Link, TypeOK, SequenceAhead, Row
  <2>1. \A v \in Writers : own'[v] = IF v = w THEN own[w] \cup {r} ELSE own[v]
    BY DEF TypeOK
  <2>2. TypeOK'
    <3>1. own' \in [Writers -> SUBSET Row]
      BY <2>0 DEF TypeOK
    <3> QED
      BY <1>4, <3>1, <2>1, RequestsAssumption DEF Link, TypeOK, Requests
  <2>3. HoldsRow'
    BY <1>4 DEF Link, TypeOK, HoldsRow, Requests
  <2>4. \A v \in Writers : pc[v] = "inserting" => v = w
    BY <1>4, RequestsAssumption DEF Link, HoldsRow, TypeOK, Requests
  <2>5. SequenceAhead'
    <3>1. \A v \in Writers : pc'[v] # "inserting"
      BY <1>4, <2>4 DEF Link, TypeOK, Requests
    <3> HIDE DEF r
    <3>2. r.seq <= sequence
      BY <2>0 DEF r, TypeOK
    <3> QED
      BY <1>4, <2>1, <3>1, <3>2 DEF Link, SequenceAhead
  <2>6. OwnContinues'
    <3> SUFFICES ASSUME NEW v \in Writers
                 PROVE  /\ \A x \in own'[v], q \in table : q.seq < x.seq
                        /\ Unbroken(table \cup own'[v], MaxSeq)
      BY <1>4 DEF OwnContinues, Link, Unbroken
    <3>1. CASE v # w
      BY <3>1, <2>1 DEF OwnContinues
    <3>2. CASE v = w
      <4>1. \A q \in table \cup own[w] : q.seq < r.seq
        BY <1>4 DEF Link, SequenceAhead
      <4>2. Unbroken(table \cup own[w], MaxSeq)
        BY DEF OwnContinues
      <4>3. table \cup own[w] \in SUBSET Row
        BY DEF TypeOK
      <4>4. IsHead(table \cup own[w], r.prev)
        OBVIOUS
      <4> HIDE DEF r
      <4>5. Unbroken((table \cup own[w]) \cup {r}, MaxSeq)
        BY <4>1, <4>2, <4>3, <4>4, <2>0, LinkKeepsChain
      <4>6. (table \cup own[w]) \cup {r} = table \cup own'[v]
        BY <3>2, <2>1
      <4>7. Unbroken(table \cup own'[v], MaxSeq)
        BY <4>5, <4>6
      <4>8. \A x \in own[w] \cup {r}, q \in table : q.seq < x.seq
        BY <4>1 DEF OwnContinues
      <4>9. own'[v] = own[w] \cup {r}
        BY <3>2, <2>1
      <4> QED
        BY <4>7, <4>8, <4>9
    <3> QED
      BY <3>1, <3>2
  <2> QED
    BY <1>4, <2>2, <2>3, <2>5, <2>6 DEF Link, ChainIntact, StatementsVerify
<1>5. ASSUME NEW w \in Writers, Commit(w) PROVE ChainInv'
  <2>0. \A v \in Writers : own[v] = {} \/ v = w
    BY <1>5, RequestsAssumption DEF Commit, TypeOK, HoldsRow, Requests
  <2>1. \A v \in Writers : own'[v] = {}
    BY <1>5, <2>0 DEF Commit, TypeOK
  <2>2. TypeOK'
    BY <1>5, <2>1, RequestsAssumption DEF Commit, Release, TypeOK, Requests
  <2>3. HoldsRow'
    BY <1>5, RequestsAssumption DEF Commit, Release, TypeOK, HoldsRow, Requests
  <2>4. \A v \in Writers : pc'[v] # "inserting"
    BY <1>5, RequestsAssumption DEF Commit, Release, TypeOK, HoldsRow, Requests
  <2>5. SequenceAhead'
    BY <1>5, <2>1, <2>4 DEF Commit, SequenceAhead
  <2>6. table' = table \cup own[w] /\ Unbroken(table', MaxSeq)
    BY <1>5 DEF Commit, OwnContinues
  <2>7. OwnContinues'
    <3>1. \A v \in Writers : table' \cup own'[v] = table'
      BY <2>1
    <3> QED
      BY <2>1, <2>6, <3>1 DEF OwnContinues, Unbroken
  <2>8. StatementsVerify'
    <3> SUFFICES ASSUME NEW n \in statements
                 PROVE  (\E r \in table' : r.seq = n) /\ Unbroken(table', n)
      BY <1>5 DEF Commit, StatementsVerify, Unbroken
    <3>1. n \in 0..MaxSeq /\ table \in SUBSET Row /\ own[w] \in SUBSET Row
      BY DEF TypeOK
    <3>2. (\E r \in table : r.seq = n) /\ Unbroken(table, n)
      BY DEF StatementsVerify
    <3>3. \A r \in own[w], q \in table : q.seq < r.seq
      BY DEF OwnContinues
    <3> QED
      BY <2>6, <3>1, <3>2, <3>3, AppendKeepsPrefix
  <2> QED
    BY <2>2, <2>3, <2>5, <2>6, <2>7, <2>8 DEF ChainIntact, Unbroken
<1>6. ASSUME OtherCircle PROVE ChainInv'
  <2>1. TypeOK'
    BY <1>6, MaxSeqAssumption DEF OtherCircle, TypeOK
  <2>2. SequenceAhead'
    BY <1>6, MaxSeqAssumption DEF OtherCircle, TypeOK, SequenceAhead, Row
  <2> QED
    BY <1>6, <2>1, <2>2
    DEF OtherCircle, HoldsRow, OwnContinues, ChainIntact, StatementsVerify
<1>7. ASSUME NEW i \in Issuers, CheckChain(i) PROVE ChainInv'
  <2>1. TypeOK'
    BY <1>7, RequestsAssumption DEF CheckChain, TypeOK, Requests
  <2>2. HoldsRow'
    BY <1>7 DEF CheckChain, TypeOK, HoldsRow, Requests
  <2>3. SequenceAhead'
    BY <1>7 DEF CheckChain, TypeOK, SequenceAhead, Requests
  <2> QED
    BY <1>7, <2>1, <2>2, <2>3
    DEF CheckChain, OwnContinues, ChainIntact, StatementsVerify
<1>8. ASSUME NEW i \in Issuers, PinHead(i) PROVE ChainInv'
  <2> PICK n \in 0..MaxSeq : IsHead(table, n) /\ statements' = statements \cup {n}
    BY <1>8 DEF PinHead, LastRow
  <2>1. TypeOK'
    BY <1>8, RequestsAssumption DEF PinHead, Release, TypeOK, Requests, HoldsRow
  <2>2. HoldsRow'
    BY <1>8, RequestsAssumption DEF PinHead, Release, TypeOK, HoldsRow, Requests
  <2>3. SequenceAhead'
    BY <1>8 DEF PinHead, Release, TypeOK, SequenceAhead, Requests
  <2>4. StatementsVerify'
    <3>1. \E r \in table : r.seq = n
      BY DEF IsHead
    <3>2. Unbroken(table, n)
      BY WholeGivesPrefix DEF TypeOK, ChainIntact
    <3> QED
      BY <1>8, <3>1, <3>2 DEF PinHead, StatementsVerify, Unbroken
  <2> QED
    BY <1>8, <2>1, <2>2, <2>3, <2>4 DEF PinHead, OwnContinues, ChainIntact, Unbroken
<1>9. CASE UNCHANGED vars
  <2>1. TypeOK' /\ HoldsRow' /\ SequenceAhead'
    BY <1>9 DEF vars, TypeOK, HoldsRow, SequenceAhead
  <2> QED
    BY <1>9, <2>1 DEF vars, OwnContinues, ChainIntact, StatementsVerify, Unbroken
<1> QED
  BY <1>1, <1>2, <1>3, <1>4, <1>5, <1>6, <1>7, <1>8, <1>9 DEF Next

\* The inductive invariant holds of every ledger.
THEOREM ChainInvariant == Spec => []ChainInv
<1>1. Init => ChainInv
  BY InitChain
<1>2. ChainInv /\ [Next]_vars => ChainInv'
  BY NextChain
<1> QED
  BY <1>1, <1>2, PTL DEF Spec

\* A transaction's locks, rows and sequence keep their types (withTransaction).
THEOREM ChainTypeCorrect == Spec => []TypeOK
BY ChainInvariant, PTL DEF ChainInv

\* The hash chain of a circle's ledger never forks (ledger_chain under the
\* lock of circles.lock).
THEOREM ChainNeverForks == Spec => []ChainIntact
BY ChainInvariant, PTL DEF ChainInv

\* An issued statement verifies for ever (statements.service.ts verify).
THEOREM StatementsStayVerifiable == Spec => []StatementsVerify
BY ChainInvariant, PTL DEF ChainInv

\* New entries appear only after the entries a reader has seen (LedgerService
\* append, inside withTransaction).
THEOREM LedgerGrowsAtTheHead == Spec => AppendsAtTheHead
<1>1. ChainInv /\ [Next]_vars =>
        [\A r \in table' \ table, q \in table : q.seq < r.seq]_vars
  <2> SUFFICES ASSUME ChainInv, Next, NEW r \in table' \ table, NEW q \in table
               PROVE  q.seq < r.seq
    OBVIOUS
  <2>1. PICK w \in Writers : Commit(w)
    BY DEF Next, Begin, Rollback, DrawSeq, Link, OtherCircle, CheckChain, PinHead
  <2> QED
    BY <2>1 DEF Commit, ChainInv, OwnContinues
<1> QED
  BY <1>1, ChainInvariant, PTL DEF Spec, AppendsAtTheHead

\* Nobody else's entries appear while a request holds the row of the circle
\* (circles.lock inside withTransaction), and a request that ended leaves none
\* behind, so requests append as if one ran after the other.
THEOREM RequestsAppendSerially == Spec => LedgerStandsStill
<1>1. ChainInv /\ Next =>
        \A p \in Requests : pc[p] # "idle" =>
          table' \in {table, table \cup (IF p \in Writers THEN own[p] ELSE {})}
  <2> SUFFICES ASSUME ChainInv, Next, NEW p \in Requests, pc[p] # "idle"
               PROVE  table' \in {table,
                          table \cup (IF p \in Writers THEN own[p] ELSE {})}
    OBVIOUS
  <2>1. ASSUME NEW w \in Writers, Commit(w)
        PROVE  table' = table \cup (IF p \in Writers THEN own[p] ELSE {})
    <3>1. w = p
      BY <2>1 DEF Commit, ChainInv, HoldsRow, Requests
    <3> QED
      BY <2>1, <3>1 DEF Commit
  <2>2. (\E w \in Writers : Commit(w)) \/ table' = table
    BY DEF Next, Begin, Rollback, DrawSeq, Link, OtherCircle, CheckChain, PinHead
  <2> QED
    BY <2>1, <2>2
<1>2. ChainInv' => \A w \in Writers : pc'[w] = "idle" => own'[w] = {}
  BY DEF ChainInv, TypeOK
<1>3. ChainInv /\ ChainInv' /\ [Next]_vars =>
        [/\ \A p \in Requests : pc[p] # "idle" =>
              table' \in {table, table \cup (IF p \in Writers THEN own[p] ELSE {})}
         /\ \A w \in Writers : pc'[w] = "idle" => own'[w] = {}]_vars
  BY <1>1, <1>2
<1> QED
  BY <1>3, ChainInvariant, PTL DEF Spec, LedgerStandsStill
=============================================================================
