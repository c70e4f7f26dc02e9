-------------------------------- MODULE Chat --------------------------------
(***************************************************************************)
(* One conversation of two people: the messages table, each person's marks *)
(* in conversation_members, and the thread screen of each one's phone,     *)
(* which polls.                                                            *)
(*                                                                         *)
(* A send is a transaction whose seq is drawn when the row is inserted and *)
(* which becomes visible when it commits, so messages may appear in        *)
(* another order than their seq.  A fetch is a query and, later, the       *)
(* arrival of the page it found; either may be lost.                       *)
(*                                                                         *)
(* Left out: reactions, stars, pins, the bytes of photos and videos, and   *)
(* pages older than the latest.                                            *)
(***************************************************************************)
EXTENDS Naturals, FiniteSets, FiniteSetsExt

CONSTANTS
  People,
  Messages,  \* bound: the messages ever written, by clientMessageId
  SenderOf,  \* who writes each
  Tries,     \* bound: requests that send each message
  PageSize,  \* messages in a page
  Watching,  \* bound: those whose polls, and clearing of the chat, are modelled
  NoPage

ASSUME SenderAssumption == SenderOf \in [Messages -> People]

VARIABLES
  rows,     \* messages: clientMessageId and seq of what is committed
  gone,     \* messages with deleted_at
  drawn,    \* where the identity sequence of seq stands
  lastRead, \* conversation_members.last_read_seq
  cleared,  \* conversation_members.cleared_seq
  send,     \* each request that sends a message, on the server
  open,     \* whose phone shows the thread
  items,    \* what it shows of each message
  awaits,   \* the request whose answer the sender's phone still waits for
  ticks,    \* _ticks, modulo 3
  poll,     \* the page _fetchNewer has asked for and not yet received
  again     \* ... _refreshLatest

marks == <<lastRead, cleared>>
server == <<rows, gone, drawn, marks, send>>
screen == <<open, items, ticks, poll, again, awaits>>
vars == <<server, screen>>

Init ==
  /\ rows = {} /\ gone = {} /\ drawn = 0
  /\ lastRead = [p \in People |-> 0]
  /\ cleared = [p \in People |-> 0]
  /\ send = [m \in Messages |-> [t \in Tries[m] |-> [at |-> "none", seq |-> 0]]]
  /\ open = [p \in People |-> FALSE]
  /\ items = [p \in People |-> [m \in Messages |-> "none"]]
  /\ awaits = [m \in Messages |-> 0]
  /\ ticks = [p \in People |-> 0]
  /\ poll = [p \in People |-> NoPage]
  /\ again = [p \in People |-> NoPage]

Committed == {r.msg : r \in rows}
MaxCommitted == Max({r.seq : r \in rows} \cup {0})
-----------------------------------------------------------------------------
(* Sending *)

Becomes(m, t, stage, seq) == send' = [send EXCEPT ![m][t] = [at |-> stage, seq |-> seq]]

\* The server's copy of a message, as it is now.
Copy(m) == IF m \in gone THEN "taken back" ELSE "shown"

\* The row is read again and sent, to a phone that may have given up waiting.
Ends(m, t) == Becomes(m, t, IF awaits[m] = t THEN Copy(m) ELSE "over", 0)

\* an answer on its way
Answered == {"shown", "taken back"}

\* The phone sends a message it has just shown, or one that failed, again under
\* the same id.
Send(m) ==
  LET p == SenderOf[m] IN
  \E t \in Tries[m] :
    /\ open[p]
    /\ send[m][t].at = "none" /\ \A u \in Tries[m] : u < t => send[m][u].at # "none"
    /\ items[p][m] = IF t = 1 THEN "none" ELSE "failed"
    /\ items' = [items EXCEPT ![p][m] = "sending"]
    /\ awaits' = [awaits EXCEPT ![m] = t]
    /\ Becomes(m, t, "asked", 0)
    /\ UNCHANGED <<rows, gone, drawn, marks, open, ticks, poll, again>>

\* peerOrThrow and isBlockedEitherWay (Pals), before the transaction: 403 if one has
\* blocked the other.
Admit(m, t) ==
  /\ send[m][t].at = "asked"
  /\ \/ Becomes(m, t, "admitted", 0)
     \/ Becomes(m, t, "over", 0)
  /\ UNCHANGED <<rows, gone, drawn, marks, screen>>

\* Fault: the id of the device is not unique.
AlwaysNew(m) == TRUE

\* ON CONFLICT (sender_id, client_message_id) DO NOTHING
NewId(m) == m \notin Committed

\* An insert of the same id that has not ended yet is waited for.
Insert(m, t) ==
  /\ send[m][t].at = "admitted"
  /\ \A u \in Tries[m] : send[m][u].at # "inserted"
  /\ IF NewId(m)
       THEN drawn' = drawn + 1 /\ Becomes(m, t, "inserted", drawn + 1)
       ELSE Ends(m, t) /\ UNCHANGED drawn
  /\ UNCHANGED <<rows, gone, marks, screen>>

\* greatest(last_read_seq, ...)
Greatest(a, b) == Max({a, b})

\* conversations is updated, the sender has read their own message, COMMIT
Commit(m, t) ==
  /\ send[m][t].at = "inserted"
  /\ rows' = rows \cup {[msg |-> m, seq |-> send[m][t].seq]}
  /\ lastRead' = [lastRead EXCEPT ![SenderOf[m]] = Greatest(@, send[m][t].seq)]
  /\ Ends(m, t)
  /\ UNCHANGED <<gone, drawn, cleared, screen>>

\* The request never arrives, a statement fails, or the server stops.
Rollback(m, t) ==
  /\ send[m][t].at \in {"asked", "admitted", "inserted"}
  /\ Becomes(m, t, "over", 0)
  /\ UNCHANGED <<rows, gone, drawn, marks, screen>>

\* Nobody hears the answer to a request for m.
Unheard(m) == [send EXCEPT ![m] = [t \in Tries[m] |-> IF @[t].at \in Answered THEN [at |-> "over", seq |-> 0] ELSE @[t]]]

\* _deliver: the answer replaces what is shown.
Answer(m, t) ==
  /\ awaits[m] = t /\ send[m][t].at \in Answered
  /\ awaits' = [awaits EXCEPT ![m] = 0]
  /\ items' = [items EXCEPT ![SenderOf[m]][m] = send[m][t].at]
  /\ Becomes(m, t, "over", 0)
  /\ UNCHANGED <<rows, gone, drawn, marks, open, ticks, poll, again>>

\* An error, or no answer: the message failed, unless its copy has been fetched.
NoAnswer(m) ==
  /\ awaits[m] # 0
  /\ awaits' = [awaits EXCEPT ![m] = 0]
  /\ items' = [items EXCEPT ![SenderOf[m]][m] = IF @ = "sending" THEN "failed" ELSE @]
  /\ send' = Unheard(m)
  /\ UNCHANGED <<rows, gone, drawn, marks, open, ticks, poll, again>>
-----------------------------------------------------------------------------
(* Reading *)

\* messages(): what the person has not cleared, as it is now
Visible(p) == {r \in rows : r.seq > cleared[p]}

Latest(p) == {r \in Visible(p) : Cardinality({x \in Visible(p) : x.seq > r.seq}) < PageSize}

After(p, seq) ==
  {r \in Visible(p) : r.seq > seq /\ Cardinality({x \in Visible(p) : seq < x.seq /\ x.seq < r.seq}) < PageSize}

Page(found) == [m \in {r.msg : r \in found} |-> Copy(m)]

LastSeq(p) == Max({r.seq : r \in {x \in rows : items[p][x.msg] \in {"shown", "taken back"}}} \cup {0})

\* Fault: a message the screen has is never replaced.
MergeNew(p, page) ==
  [items EXCEPT ![p] = [m \in Messages |->
     IF m \in DOMAIN page /\ @[m] \in {"none", "sending", "failed"} THEN page[m] ELSE @[m]]]

Merge(p, page) ==
  [items EXCEPT ![p] = [m \in Messages |-> IF m \in DOMAIN page THEN page[m] ELSE @[m]]]

FromPeer(p, page) == \E m \in DOMAIN page : SenderOf[m] # p

\* markRead: everything committed is read, shown or not.
Read(p) == [lastRead EXCEPT ![p] = Greatest(@, MaxCommitted)]

\* _load: the latest page, and everything is read; the first tick is one of three.
Open(p) ==
  /\ ~open[p]
  /\ open' = [open EXCEPT ![p] = TRUE]
  /\ items' = [items EXCEPT ![p] = [m \in Messages |->
       IF m \in DOMAIN Page(Latest(p)) THEN Page(Latest(p))[m] ELSE "none"]]
  /\ ticks' = [ticks EXCEPT ![p] = 0]
  /\ lastRead' = Read(p)
  /\ UNCHANGED <<rows, gone, drawn, cleared, send, poll, again, awaits>>

\* What was not sent is lost with the screen, and answers find it unmounted.
Close(p) ==
  /\ open[p]
  /\ open' = [open EXCEPT ![p] = FALSE]
  /\ items' = [items EXCEPT ![p] = [m \in Messages |-> "none"]]
  /\ poll' = [poll EXCEPT ![p] = NoPage]
  /\ again' = [again EXCEPT ![p] = NoPage]
  /\ awaits' = [m \in Messages |-> IF SenderOf[m] = p THEN 0 ELSE awaits[m]]
  /\ ticks' = [ticks EXCEPT ![p] = 0]
  /\ send' = [m \in Messages |-> IF SenderOf[m] = p THEN Unheard(m)[m] ELSE send[m]]
  /\ UNCHANGED <<rows, gone, drawn, marks>>

\* Fault: only what is newer is ever fetched.
NeverRefresh(p) == FALSE

\* Every third tick asks for the latest page again.
Refreshes(p) == ticks[p] = 2

\* A tick of the timer: _fetchNewer asks, unless the last answer is still awaited.
Tick(p) ==
  /\ open[p] /\ poll[p] = NoPage
  /\ ticks' = [ticks EXCEPT ![p] = (@ + 1) % 3]
  /\ poll' = [poll EXCEPT ![p] = Page(IF Refreshes(p) THEN Latest(p) ELSE After(p, LastSeq(p)))]
  /\ UNCHANGED <<server, open, items, again, awaits>>

\* ... and its page arrives; what is from the peer is marked as read.
Arrive(p) ==
  /\ poll[p] # NoPage
  /\ items' = Merge(p, poll[p])
  /\ lastRead' = IF FromPeer(p, poll[p]) THEN Read(p) ELSE lastRead
  /\ poll' = [poll EXCEPT ![p] = NoPage]
  /\ UNCHANGED <<rows, gone, drawn, cleared, send, open, ticks, again, awaits>>

PollLost(p) ==
  /\ poll[p] # NoPage
  /\ poll' = [poll EXCEPT ![p] = NoPage]
  /\ UNCHANGED <<server, open, items, ticks, again, awaits>>

\* deleteMessage, for a message on the sender's screen, followed by _refreshLatest
TakeBack(m) ==
  LET p == SenderOf[m] IN
  /\ open[p] /\ items[p][m] = "shown" /\ m \notin gone
  /\ gone' = gone \cup {m}
  /\ UNCHANGED <<rows, drawn, marks, send, open, items, ticks, poll, awaits>>
  /\ again' \in {again, [again EXCEPT ![p] =
       [x \in DOMAIN Page(Latest(p)) |-> IF x = m THEN "taken back" ELSE Copy(x)]]}

LatestArrives(p) ==
  /\ again[p] # NoPage
  /\ items' = Merge(p, again[p])
  /\ again' = [again EXCEPT ![p] = NoPage]
  /\ UNCHANGED <<server, open, ticks, poll, awaits>>

\* clearChat, from the inbox
Clear(p) ==
  /\ ~open[p] /\ cleared[p] # MaxCommitted
  /\ cleared' = [cleared EXCEPT ![p] = MaxCommitted]
  /\ lastRead' = Read(p)
  /\ UNCHANGED <<rows, gone, drawn, send, screen>>

Next ==
  \/ \E m \in Messages :
       \/ Send(m) \/ NoAnswer(m) \/ TakeBack(m)
       \/ \E t \in Tries[m] :
            Admit(m, t) \/ Insert(m, t) \/ Commit(m, t) \/ Rollback(m, t) \/ Answer(m, t)
  \/ \E p \in People : Open(p) \/ Close(p)
  \/ \E p \in Watching : Tick(p) \/ Arrive(p) \/ PollLost(p) \/ LatestArrives(p) \/ Clear(p)

Spec == Init /\ [][Next]_vars

\* The timer fires and pages arrive; of the polls that are sent again and again,
\* of each kind, some are answered.
FairSpec ==
  /\ Spec
  /\ \A p \in Watching :
       /\ WF_vars(Tick(p))
       /\ SF_vars(Arrive(p) /\ ticks[p] = 0) /\ SF_vars(Arrive(p) /\ ticks[p] # 0)
       /\ WF_vars(LatestArrives(p))
-----------------------------------------------------------------------------
\* One row per message id and one message per seq, whatever is retried.
TypeOK ==
  /\ rows \subseteq [msg: Messages, seq: 1..drawn] /\ gone \subseteq Committed
  /\ Cardinality(rows) = Cardinality(Committed)
  /\ Cardinality(rows) = Cardinality({r.seq : r \in rows})
  /\ \A p \in People : lastRead[p] \in 0..drawn /\ cleared[p] \in 0..MaxCommitted
  /\ \A m \in Messages : \A t \in Tries[m] :
       /\ send[m][t].at \in {"none", "asked", "admitted", "inserted", "over"} \cup Answered
       /\ send[m][t].seq \in 0..drawn
  /\ \A p \in People, m \in Messages :
       items[p][m] \in {"none", "sending", "failed", "shown", "taken back"}
  /\ (\A m \in Messages : awaits[m] \in Tries[m] \cup {0}) /\ ticks \in [People -> 0..2]

\* (_fetchNewer) A message on record reaches every screen that stays open, also one
\* that commits after a message with a higher seq has been shown, and one whose
\* answer never came: nobody has to reopen the thread.
ScreensCatchUp ==
  \A m \in Messages, p \in Watching :
    open[p] /\ m \in Committed ~>
      \/ items[p][m] \in {"shown", "taken back"} \/ ~open[p]
      \/ \E r \in rows : r.msg = m /\ r.seq <= cleared[p]

\* (_merge) What was taken back disappears from open screens for good, though a page
\* that was asked for before may arrive after.
TakenBackGoes ==
  \A m \in Messages, p \in Watching : <>[](m \in gone) => <>[](items[p][m] # "shown")
-----------------------------------------------------------------------------
(* What the repository says and the code does not keep. *)

\* social.e2e-spec.ts: "deleting a chat clears it for me only, and a new message
\* brings it back".  A message sent before and committed after the deletion, under a
\* seq below another, is never shown.
NewMessageBringsBack ==
  [][\A p \in People, m \in Messages : m \notin Committed =>
       \A r \in rows' : r.msg = m => r.seq > cleared[p]]_vars
=============================================================================
