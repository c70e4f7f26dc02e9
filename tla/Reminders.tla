------------------------------ MODULE Reminders ------------------------------
(***************************************************************************)
(* Payment reminders of one circle: the hourly job, the organizer's nudge, *)
(* and the table reminder_deliveries they claim a reminder in before they  *)
(* deliver it.                                                             *)
(*                                                                         *)
(* The job takes the unpaid members at once and then works through them;   *)
(* each claim and each message is a statement of its own, without a        *)
(* transaction, and jobs of several servers, a long job and the next, and  *)
(* nudges overlap.  A reminder is its row in reminder_deliveries.  The SMS *)
(* and email that follow the in-app message change nothing and a failing   *)
(* gateway is only logged, so they are left out, as are the hours of the   *)
(* night, when the job does nothing.                                       *)
(***************************************************************************)
EXTENDS Integers, Sequences, FiniteSets

CONSTANTS
  Members,     \* members who may owe a payment
  Due,         \* due_date of each cycle, by number
  LastDay,     \* bound: the days looked at are 0..LastDay
  DaysBefore,  \* bound: the days_before a member may choose
  Runs,        \* runs of the hourly job that may overlap
  Nudges,      \* nudges that may overlap
  MaxStops,    \* bound: how often a server stops
  None

ASSUME DaysAssumption ==
  LastDay \in Nat /\ DaysBefore \subseteq Nat /\ Due \in Seq(0..LastDay)
ASSUME StopsAssumption == MaxStops \in Nat

VARIABLES
  today,     \* localDate(now)
  current,   \* the open cycle with the lowest number, past the last: completed
  paid,      \* cycle and user of the contributions on record
  prefs,     \* days_before of who has reminders enabled, {} of the others
  claimed,   \* reminder_deliveries rows
  todo,      \* the reminders a job has still to claim
  sending,   \* the one it has claimed and not delivered
  told,      \* the in-app messages: reminder, first or a later copy
  stops      \* how often a server has stopped

vars == <<today, current, paid, prefs, claimed, todo, sending, told, stops>>

Jobs == Runs \cup Nudges

Days == 0..LastDay

LastCycle == Len(Due)

Overdue == -1   \* MARKER_OVERDUE
Nudge == -2     \* MARKER_NUDGE

Reminder == [cycle: 1..LastCycle, user: Members, marker: Nat \cup {Overdue, Nudge},
             on: Days]

ASSUME NoneAssumption == None \notin Reminder

Init ==
  /\ today = 0 /\ current = 1
  /\ paid = {}
  /\ prefs = [u \in Members |-> {}]
  /\ claimed = {}
  /\ todo = [j \in Jobs |-> {}]
  /\ sending = [j \in Jobs |-> None]
  /\ told = {}
  /\ stops = 0

(***************************************************************************)
(* TARGET_FROM: who has nothing recorded for the current cycle.            *)
(***************************************************************************)
Unpaid ==
  {u \in Members : current \in 1..LastCycle /\ <<current, u>> \notin paid}

\* Fault: the days before only.
DueToday(u) == today <= Due[current] /\ Due[current] - today \in prefs[u]

\* the days before a due date, and from then on once
ToRemind(u) ==
  /\ prefs[u] # {}
  /\ \/ today > Due[current]
     \/ today <= Due[current] /\ Due[current] - today \in prefs[u]

ReminderFor(u) ==
  IF today > Due[current]
    THEN [cycle |-> current, user |-> u, marker |-> Overdue, on |-> Due[current]]
    ELSE [cycle |-> current, user |-> u, marker |-> Due[current] - today, on |-> today]

(***************************************************************************)
(* run and nudge                                                           *)
(***************************************************************************)
Free(j) == todo[j] = {} /\ sending[j] = None

Run(j) ==
  /\ Free(j)
  /\ todo' = [todo EXCEPT ![j] = {ReminderFor(u) : u \in {v \in Unpaid : ToRemind(v)}}]
  /\ todo'[j] # {}
  /\ UNCHANGED <<today, current, paid, prefs, claimed, sending, told, stops>>

NudgeMember(j, u) ==
  /\ Free(j)
  /\ u \in Unpaid
  /\ todo' = [todo EXCEPT ![j] =
       {[cycle |-> current, user |-> u, marker |-> Nudge, on |-> today]}]
  /\ UNCHANGED <<today, current, paid, prefs, claimed, sending, told, stops>>

\* Fault: a row that is there already is taken over.
ClaimOver(reminder) == TRUE

\* ON CONFLICT DO NOTHING inserts a row
Unclaimed(reminder) == reminder \notin claimed

InsertRow(reminder) == claimed' = claimed \cup {reminder}

Claim(j, reminder) ==
  /\ sending[j] = None
  /\ reminder \in todo[j]
  /\ todo' = [todo EXCEPT ![j] = @ \ {reminder}]
  /\ IF Unclaimed(reminder)
       THEN InsertRow(reminder) /\ sending' = [sending EXCEPT ![j] = reminder]
       ELSE UNCHANGED <<claimed, sending>>
  /\ UNCHANGED <<today, current, paid, prefs, told, stops>>

Copies(reminder) == {t \in told : t[1] = reminder}

\* Fault: SMS and email come first, and when a gateway is out nothing follows.
GatewayFirst(j) ==
  /\ sending[j] # None
  /\ told' \in {told, told \cup {<<sending[j], Cardinality(Copies(sending[j])) + 1>>}}
  /\ sending' = [sending EXCEPT ![j] = None]
  /\ UNCHANGED <<today, current, paid, prefs, claimed, todo, stops>>

\* deliver: the in-app message
Deliver(j) ==
  /\ sending[j] # None
  /\ told' = told \cup {<<sending[j], Cardinality(Copies(sending[j])) + 1>>}
  /\ sending' = [sending EXCEPT ![j] = None]
  /\ UNCHANGED <<today, current, paid, prefs, claimed, todo, stops>>

\* the server stops, or the database fails a statement of the job
Stop(j) ==
  /\ ~Free(j)
  /\ stops < MaxStops
  /\ stops' = stops + 1
  /\ todo' = [todo EXCEPT ![j] = {}]
  /\ sending' = [sending EXCEPT ![j] = None]
  /\ UNCHANGED <<today, current, paid, prefs, claimed, told>>

(***************************************************************************)
(* What goes on meanwhile: set, record (for any open cycle), correct,      *)
(* closeCycle, midnight.                                                   *)
(***************************************************************************)
Set(u, days) ==
  /\ prefs' = [prefs EXCEPT ![u] = days]
  /\ UNCHANGED <<today, current, paid, claimed, todo, sending, told, stops>>

Pay(u, n) ==
  /\ n >= current /\ <<n, u>> \notin paid
  /\ paid' = paid \cup {<<n, u>>}
  /\ UNCHANGED <<today, current, prefs, claimed, todo, sending, told, stops>>

Correct(u, n) ==
  /\ n >= current /\ <<n, u>> \in paid
  /\ paid' = paid \ {<<n, u>>}
  /\ UNCHANGED <<today, current, prefs, claimed, todo, sending, told, stops>>

CloseCycle ==
  /\ current \in 1..LastCycle
  /\ current' = current + 1
  /\ UNCHANGED <<today, paid, prefs, claimed, todo, sending, told, stops>>

Midnight ==
  /\ today < LastDay
  /\ today' = today + 1
  /\ UNCHANGED <<current, paid, prefs, claimed, todo, sending, told, stops>>

Next ==
  \/ \E j \in Runs : Run(j)
  \/ \E j \in Nudges, u \in Members : NudgeMember(j, u)
  \/ \E j \in Jobs :
       \/ Deliver(j) \/ Stop(j)
       \/ \E reminder \in todo[j] : Claim(j, reminder)
  \/ \E u \in Members :
       \/ \E n \in 1..LastCycle : Pay(u, n) \/ Correct(u, n)
       \/ \E days \in SUBSET DaysBefore : Set(u, days)
  \/ CloseCycle \/ Midnight

Spec == Init /\ [][Next]_vars

\* the cron runs every hour of the day, and a job goes on unless it is stopped
Fairness ==
  /\ \A j \in Runs : WF_vars(Run(j))
  /\ \A j \in Jobs :
       /\ WF_vars(Deliver(j))
       /\ WF_vars(\E reminder \in todo[j] : Claim(j, reminder))

FairSpec == Spec /\ Fairness
-----------------------------------------------------------------------------
(***************************************************************************)
(* Properties.                                                             *)
(***************************************************************************)

\* Days, rows and jobs have their types; what a job delivers it has claimed.
TypeOK ==
  /\ today \in Days /\ current \in 1..LastCycle + 1
  /\ paid \subseteq (1..LastCycle) \X Members
  /\ prefs \in [Members -> SUBSET DaysBefore]
  /\ claimed \subseteq Reminder
  /\ todo \in [Jobs -> SUBSET Reminder]
  /\ sending \in [Jobs -> claimed \cup {None}]
  /\ \A t \in told : t[1] \in claimed /\ t[2] \in Nat
  /\ stops \in 0..MaxStops

\* A member gets each reminder once (one per day before, one when overdue, one
\* nudge a day), whatever jobs overlap, run again or pass midnight.
RemindedOnce == \A t \in told : t[2] = 1

\* Claimed, in no job's hands, and nobody was told: never delivered any more.
Lost ==
  {reminder \in claimed :
     (\A j \in Jobs : sending[j] # reminder) /\ Copies(reminder) = {}}

\* deliver: a gateway outage loses no in-app reminder and a batch stopped half-way
\* loses only the one it had claimed: at most one for each job that was stopped.
StopsLoseOneEach == IsFiniteSet(Lost) /\ Cardinality(Lost) <= stops

\* A member with reminders on who lets a due date pass is told so, unless they
\* pay, turn reminders off, the cycle is closed first or a server stops.
OverdueIsTold ==
  \A n \in 1..LastCycle, u \in Members :
    current = n /\ today > Due[n] /\ u \in Unpaid /\ prefs[u] # {}
      ~> \/ \E t \in told : t[1].cycle = n /\ t[1].user = u /\ t[1].marker = Overdue
         \/ current # n \/ u \notin Unpaid \/ prefs[u] = {} \/ stops > 0

(***************************************************************************)
(* Said by the repository and not kept by the code (README.md, section 5). *)
(***************************************************************************)

\* Migration 0008: one row per reminder actually sent.
EveryRowWasSent ==
  \A reminder \in claimed :
    (\E j \in Jobs : sending[j] = reminder) \/ Copies(reminder) # {}

\* completion.e2e-spec.ts: paying stops further reminders; none is claimed for
\* who has paid.
PayingStopsReminders ==
  [][\A reminder \in claimed' \ claimed :
       <<reminder.cycle, reminder.user>> \notin paid]_vars
=============================================================================
