---------------------------- MODULE LedgerChain ----------------------------
(***************************************************************************)
(* The hash chain of one circle's ledger, and the statements pinned to it. *)
(*                                                                         *)
(* A request is one database transaction.  It locks the circle's row and   *)
(* inserts rows; each INSERT first draws `seq` from the identity sequence, *)
(* then the trigger ledger_chain takes an advisory lock held until the end *)
(* of the transaction, and links the row to the visible row with the       *)
(* greatest seq.  Sequences do not roll back and serve every circle, so    *)
(* seq has gaps.  Circle.tla, where a request is one action, relies on     *)
(* what this module shows.                                                 *)
(*                                                                         *)
(* sha256 is taken to be injective and no row ever changes                 *)
(* (ledger_forbid_change), so a row's hash is represented by its seq and   *)
(* prev_hash by the seq of the row it was computed from, 0 for the zeros   *)
(* a chain starts with.                                                    *)
(***************************************************************************)
EXTENDS Naturals

CONSTANTS
  Writers,   \* requests that append to the ledger
  Issuers,   \* requests for a statement
  MaxSeq,    \* bound: the values the identity sequence may reach
  None       \* nobody holds the lock

Requests == Writers \cup Issuers

ASSUME MaxSeqAssumption == MaxSeq \in Nat \ {0}
ASSUME RequestsAssumption == Writers \cap Issuers = {} /\ None \notin Requests

VARIABLES
  pc,          \* how far each transaction is
  rowLock,     \* who holds FOR UPDATE on the row of the circle
  chainLock,   \* who holds pg_advisory_xact_lock on the circle's id
  sequence,    \* last value of the identity sequence of seq
  drawn,       \* the seq drawn for the row a writer is inserting
  own,         \* rows inserted by a transaction still open
  table,       \* committed ledger_entries rows of the circle
  statements   \* head_seq and chain_head_hash of the statements issued

vars == <<pc, rowLock, chainLock, sequence, drawn, own, table, statements>>

Row == [seq: 1..MaxSeq, prev: 0..MaxSeq]

\* n is the greatest seq in `rows`, 0 when there are none
IsHead(rows, n) ==
  /\ n = 0 => rows = {}
  /\ n # 0 => \E r \in rows : r.seq = n
  /\ \A r \in rows : r.seq <= n

\* circles.create: the creator's entry, before anybody else can see the circle
Init ==
  /\ pc = [p \in Requests |-> "idle"]
  /\ rowLock = None /\ chainLock = None
  /\ sequence = 1
  /\ drawn = [w \in Writers |-> 0]
  /\ own = [w \in Writers |-> {}]
  /\ table = {[seq |-> 1, prev |-> 0]}
  /\ statements = {}

\* Fault: the request goes ahead without the row of the circle.
RowNotLocked == TRUE

RowFree == rowLock = None

\* BEGIN; SELECT ... FROM circles WHERE id = $1 FOR UPDATE
Begin(p) ==
  /\ pc[p] = "idle"
  /\ RowFree
  /\ rowLock' = p
  /\ pc' = [pc EXCEPT ![p] = "open"]
  /\ UNCHANGED <<chainLock, sequence, drawn, own, table, statements>>

\* INSERT evaluates the identity default before its BEFORE trigger runs
DrawSeq(w) ==
  /\ pc[w] = "open"
  /\ sequence < MaxSeq
  /\ sequence' = sequence + 1
  /\ drawn' = [drawn EXCEPT ![w] = sequence + 1]
  /\ pc' = [pc EXCEPT ![w] = "inserting"]
  /\ UNCHANGED <<rowLock, chainLock, own, table, statements>>

\* another circle's entry draws from the same sequence
OtherCircle ==
  /\ sequence < MaxSeq
  /\ sequence' = sequence + 1
  /\ UNCHANGED <<pc, rowLock, chainLock, drawn, own, table, statements>>

\* Fault: an entry does not see its own transaction's earlier one.
VisibleCommitted(w) == table

\* read committed: what has been committed and what w itself inserted
Visible(w) == table \cup own[w]

\* the trigger ledger_chain, then the row is inserted
Link(w) ==
  /\ pc[w] = "inserting"
  /\ chainLock \in {None, w}
  /\ chainLock' = w
  /\ \E last \in 0..MaxSeq :
       /\ IsHead(Visible(w), last)
       /\ own' = [own EXCEPT ![w] = @ \cup {[seq |-> drawn[w], prev |-> last]}]
  /\ pc' = [pc EXCEPT ![w] = "open"]
  /\ UNCHANGED <<rowLock, sequence, drawn, table, statements>>

\* the end of a transaction releases its locks
Release(p) ==
  /\ rowLock' = None
  /\ chainLock' = IF chainLock = p THEN None ELSE chainLock
  /\ pc' = [pc EXCEPT ![p] = "idle"]

Commit(w) ==
  /\ pc[w] = "open"
  /\ table' = table \cup own[w]
  /\ own' = [own EXCEPT ![w] = {}]
  /\ Release(w)
  /\ UNCHANGED <<sequence, drawn, statements>>

\* Fault: the transaction ends and its rows stay on the connection.
RollbackUndone(p) ==
  /\ pc[p] # "idle"
  /\ UNCHANGED own
  /\ Release(p)
  /\ UNCHANGED <<sequence, drawn, table, statements>>

\* the handler throws, the connection is lost or the server stops
Rollback(p) ==
  /\ pc[p] # "idle"
  /\ own' = [w \in Writers |-> IF w = p THEN {} ELSE own[w]]
  /\ Release(p)
  /\ UNCHANGED <<sequence, drawn, table, statements>>

\* ledger_chain_break(circle, n) IS NULL: walked by seq, each row up to n
\* carries the hash of the one before
Unbroken(rows, n) ==
  \A r \in rows : r.seq <= n => IsHead({q \in rows : q.seq < r.seq}, r.prev)

\* issue: LEDGER_INTEGRITY, which rolls back, when the chain is broken
CheckChain(i) ==
  /\ pc[i] = "open"
  /\ Unbroken(table, MaxSeq)
  /\ pc' = [pc EXCEPT ![i] = "checked"]
  /\ UNCHANGED <<rowLock, chainLock, sequence, drawn, own, table, statements>>

\* Fault: the head is where the sequence stands, not the last row.
LastDrawn(n) == n = sequence

LastRow(n) == IsHead(table, n)

\* the statement is pinned to the head, saved and committed
PinHead(i) ==
  /\ pc[i] = "checked"
  /\ \E n \in 0..MaxSeq : LastRow(n) /\ statements' = statements \cup {n}
  /\ Release(i)
  /\ UNCHANGED <<sequence, drawn, own, table>>

Next ==
  \/ \E p \in Requests : Begin(p) \/ Rollback(p)
  \/ \E w \in Writers : DrawSeq(w) \/ Link(w) \/ Commit(w)
  \/ OtherCircle
  \/ \E i \in Issuers : CheckChain(i) \/ PinHead(i)

Spec == Init /\ [][Next]_vars
-----------------------------------------------------------------------------
(***************************************************************************)
(* Properties.                                                             *)
(***************************************************************************)

\* The locks, the sequence and the rows have their types, and a transaction
\* that has ended leaves no rows of its own behind.
TypeOK ==
  /\ pc \in [Requests -> {"idle", "open", "inserting", "checked"}]
  /\ rowLock \in Requests \cup {None}
  /\ chainLock \in Writers \cup {None}
  /\ sequence \in 1..MaxSeq
  /\ drawn \in [Writers -> 0..MaxSeq]
  /\ own \in [Writers -> SUBSET Row]
  /\ \A w \in Writers : pc[w] = "idle" => own[w] = {}
  /\ table \in SUBSET Row
  /\ statements \in SUBSET (0..MaxSeq)

\* The chain never forks: in the order of seq every committed row carries the
\* hash of the row before it, whatever requests run at once, roll back or
\* draw a seq in between.  The advisory lock alone would not do: seq is drawn
\* before it is taken.
ChainIntact == Unbroken(table, MaxSeq)

\* A statement that was issued verifies for ever (`verify`): its head is a row
\* of the ledger and the chain up to that head is unbroken.
StatementsVerify ==
  \A n \in statements : (\E r \in table : r.seq = n) /\ Unbroken(table, n)

\* Entries appear only at the head: a reader who saw the ledger never finds a
\* new entry among those already seen (GET ledger orders by seq).
AppendsAtTheHead ==
  [][\A r \in table' \ table, q \in table : q.seq < r.seq]_vars

\* While a request is under way nobody else's entries appear, and its own
\* appear together when it commits, or not at all: a request that has ended
\* keeps none that a later commit could bring in.  What a request read of the
\* ledger still stands when it writes.  Circle.tla, where a request is one
\* action, relies on it.
LedgerStandsStill ==
  [][/\ \A p \in Requests : pc[p] # "idle" =>
          table' \in {table, table \cup (IF p \in Writers THEN own[p] ELSE {})}
     /\ \A w \in Writers : pc'[w] = "idle" => own'[w] = {}]_vars
=============================================================================
