------------------------------ MODULE Disputes ------------------------------
(***************************************************************************)
(* Putting ledger entries of one circle in front of a community officer.   *)
(*                                                                         *)
(* A member raises a dispute, everyone concerned answers, and an officer   *)
(* reads and resolves it.  raise and resolve touch no row another handler  *)
(* holds for longer than one statement and are one action each.  respond   *)
(* and evidence lock the dispute first; what happens between that lock and *)
(* the commit is where two answers, or an answer and a view, can meet.     *)
(* CircleRoleGuard reads the membership before the transaction begins.     *)
(***************************************************************************)
EXTENDS Naturals, Sequences

CONSTANTS
  People,     \* the members of the circle at the beginning
  Organizer,
  EntryLists, \* bound: the entry_ids a dispute may name
  SubjectOf,  \* subject_user_id of each entry, None where it has none
  Disputes,   \* bound: the disputes rows there may ever be
  Officers,
  MaxViews,   \* bound: evidence calls counted per dispute
  None

ASSUME OrganizerAssumption == Organizer \in People
ASSUME NoneAssumption == None \notin People \cup Disputes
\* A dispute names at least one entry (ArrayMinSize), and an entry is about somebody
\* who is or was in the circle, or about nobody.
ASSUME EntriesAssumption ==
  \A list \in EntryLists : /\ DOMAIN list # {}
                           /\ \A i \in DOMAIN list : SubjectOf[list[i]] \in People \cup {None}

VARIABLES
  members,   \* circle_members with left_cycle IS NULL
  status,    \* disputes.status, "none" before the row is inserted
  raisedBy,  \* disputes.raised_by
  entryIds,  \* disputes.entry_ids
  consents,  \* dispute_evidence consents: the people who granted each dispute
  at,        \* where each person's request is
  answer,    \* the dispute and the answer of a person's respond call
  viewing,   \* the dispute an officer's evidence call has locked
  log,       \* dispute_access_log rows of each dispute
  told,      \* evidence_viewed notifications per dispute and person
  seen       \* evidence answers that reached an officer, per dispute

rows == <<status, raisedBy, entryIds>>
views == <<viewing, log, told, seen>>
vars == <<members, rows, consents, at, answer, views>>

NoAnswer == [dispute |-> None, granted |-> FALSE, settles |-> FALSE]

Init ==
  /\ members = People
  /\ status = [d \in Disputes |-> "none"]
  /\ raisedBy = [d \in Disputes |-> None]
  /\ entryIds = [d \in Disputes |-> <<>>]
  /\ consents = [d \in Disputes |-> {}]
  /\ at = [p \in People |-> "idle"]
  /\ answer = [p \in People |-> NoAnswer]
  /\ viewing = [o \in Officers |-> None]
  /\ log = [d \in Disputes |-> 0]
  /\ told = [d \in Disputes |-> [p \in People |-> 0]]
  /\ seen = [d \in Disputes |-> 0]

Subjects(list) == {SubjectOf[list[i]] : i \in DOMAIN list} \ {None}

\* Fault: the organizer is not asked.
SubjectsAndRaisers(list) ==
  Subjects(list) \cup {raisedBy[d] : d \in {x \in Disputes : entryIds[x] = list}}

\* The organizer, the subjects of the entries, and whoever raised a dispute
\* about the same array of entries.
NeededConsent(list) ==
  (members \cap {Organizer}) \cup Subjects(list)
    \cup {raisedBy[d] : d \in {x \in Disputes : entryIds[x] = list}}

\* Fault: evidence is read, and answers are given, without the row lock.
Unlocked(d) == TRUE

\* nobody else holds the dispute FOR UPDATE
RowFree(d) ==
  /\ \A p \in People : at[p] \in {"locked", "answered"} => answer[p].dispute # d
  /\ \A o \in Officers : viewing[o] # d

\* CircleRoleGuard: the membership is read before the handler begins.
Enter(p) ==
  /\ at[p] = "idle" /\ p \in members
  /\ at' = [at EXCEPT ![p] = "admitted"]
  /\ UNCHANGED <<members, rows, consents, answer, views>>

\* A member may only name records about themself.  The raiser has agreed, and
\* when nobody else is concerned the dispute is consented at once.
Raise(p) ==
  \E d \in Disputes, list \in EntryLists :
    /\ at[p] = "admitted" /\ status[d] = "none"
    /\ p # Organizer => \A i \in DOMAIN list : SubjectOf[list[i]] = p
    /\ raisedBy' = [raisedBy EXCEPT ![d] = p]
    /\ entryIds' = [entryIds EXCEPT ![d] = list]
    /\ consents' = [consents EXCEPT ![d] = {p}]
    /\ status' = [status EXCEPT ![d] =
         IF NeededConsent(list) \subseteq {p} THEN "consented" ELSE "awaiting_consent"]
    /\ at' = [at EXCEPT ![p] = "idle"]
    /\ UNCHANGED <<members, answer, views>>

StillAwaiting(d) == status[d] = "awaiting_consent"

\* respond up to its checks: the row is locked, the caller must be concerned and
\* the dispute open; otherwise 404 or 409.
Lock(p) ==
  \E d \in Disputes, granted \in BOOLEAN :
    /\ at[p] = "admitted" /\ status[d] # "none" /\ RowFree(d)
    /\ IF p \in NeededConsent(entryIds[d]) /\ StillAwaiting(d)
         THEN /\ answer' = [answer EXCEPT ![p] = [dispute |-> d, granted |-> granted, settles |-> FALSE]]
              /\ at' = [at EXCEPT ![p] = "locked"]
         ELSE /\ at' = [at EXCEPT ![p] = "idle"]
              /\ UNCHANGED answer
    /\ UNCHANGED <<members, rows, consents, views>>

\* grant and settle, in the transaction: settle counts the committed consents and
\* the caller's own.
Answer(p) ==
  LET d == answer[p].dispute IN
  /\ at[p] = "locked"
  /\ answer' = [answer EXCEPT ![p].settles =
       answer[p].granted /\ NeededConsent(entryIds[d]) \subseteq consents[d] \cup {p}]
  /\ at' = [at EXCEPT ![p] = "answered"]
  /\ UNCHANGED <<members, rows, consents, views>>

\* The commit.  A refusal writes `declined` outright, settle's update repeats that
\* the dispute is awaiting.
Commit(p) ==
  LET d == answer[p].dispute IN
  /\ at[p] = "answered"
  /\ consents' = [consents EXCEPT ![d] = IF answer[p].granted THEN @ \cup {p} ELSE @]
  /\ status' = [status EXCEPT ![d] =
       CASE ~answer[p].granted -> "declined"
         [] answer[p].settles /\ @ = "awaiting_consent" -> "consented"
         [] OTHER -> @]
  /\ at' = [at EXCEPT ![p] = "idle"]
  /\ answer' = [answer EXCEPT ![p] = NoAnswer]
  /\ UNCHANGED <<members, raisedBy, entryIds, views>>

\* The server stops, or a statement fails: the transaction is rolled back.
Rollback(p) ==
  /\ at[p] # "idle"
  /\ at' = [at EXCEPT ![p] = "idle"]
  /\ answer' = [answer EXCEPT ![p] = NoAnswer]
  /\ UNCHANGED <<members, rows, consents, views>>

\* A member leaves or is removed; the organizer never does.
Leave(p) ==
  /\ p \in members /\ p # Organizer
  /\ members' = members \ {p}
  /\ UNCHANGED <<rows, consents, at, answer, views>>

Readable(d) == status[d] \in {"consented", "resolved"}

\* evidence up to its reads: FOR UPDATE OF the dispute, 404 unless it is readable
Open(o) ==
  \E d \in Disputes :
    /\ viewing[o] = None /\ Readable(d) /\ RowFree(d) /\ log[d] < MaxViews
    /\ viewing' = [viewing EXCEPT ![o] = d]
    /\ UNCHANGED <<members, rows, consents, at, answer, log, told, seen>>

\* Fault: only people still in the circle are told.
PresentOnes(d) == NeededConsent(entryIds[d]) \cap members

Affected(d) == NeededConsent(entryIds[d])

\* The access is logged and everyone concerned told, in one transaction; the
\* entries are sent after it, and the answer may be lost on the way.
Show(o) ==
  LET d == viewing[o] IN
  /\ d # None
  /\ log' = [log EXCEPT ![d] = @ + 1]
  /\ told' = [told EXCEPT ![d] = [p \in People |-> IF p \in Affected(d) THEN @[p] + 1 ELSE @[p]]]
  /\ seen' \in {seen, [seen EXCEPT ![d] = @ + 1]}
  /\ viewing' = [viewing EXCEPT ![o] = None]
  /\ UNCHANGED <<members, rows, consents, at, answer>>

\* evidence fails before its commit: neither shown, logged nor told
ShowFails(o) ==
  /\ viewing[o] # None
  /\ viewing' = [viewing EXCEPT ![o] = None]
  /\ UNCHANGED <<members, rows, consents, at, answer, log, told, seen>>

Resolve(d) ==
  /\ status[d] = "consented" /\ RowFree(d)
  /\ status' = [status EXCEPT ![d] = "resolved"]
  /\ UNCHANGED <<members, raisedBy, entryIds, consents, at, answer, views>>

Next ==
  \/ \E p \in People :
       \/ Enter(p) \/ Raise(p) \/ Lock(p) \/ Answer(p) \/ Commit(p) \/ Rollback(p)
       \/ Leave(p)
  \/ \E o \in Officers : Open(o) \/ Show(o) \/ ShowFails(o)
  \/ \E d \in Disputes : Resolve(d)

Spec == Init /\ [][Next]_vars
-----------------------------------------------------------------------------
TypeOK ==
  /\ members \subseteq People
  /\ status \in [Disputes -> {"none", "awaiting_consent", "consented", "resolved", "declined"}]
  /\ raisedBy \in [Disputes -> People \cup {None}]
  /\ entryIds \in [Disputes -> EntryLists \cup {<<>>}]
  /\ consents \in [Disputes -> SUBSET People]
  /\ at \in [People -> {"idle", "admitted", "locked", "answered"}]
  /\ answer \in [People -> [dispute: Disputes \cup {None}, granted: BOOLEAN, settles: BOOLEAN]]
  /\ viewing \in [Officers -> Disputes \cup {None}]
  /\ log \in [Disputes -> Nat] /\ seen \in [Disputes -> Nat]
  /\ told \in [Disputes -> [People -> Nat]]

\* The people an entry list is about, whoever raised what.
Concerned(d) == {Organizer} \cup Subjects(entryIds[d])

\* An open request always has somebody left to ask: two last answers given at
\* once (respond, settle) never leave it waiting for nobody.
SomebodyLeftToAsk ==
  \A d \in Disputes : status[d] = "awaiting_consent" => ~(Concerned(d) \subseteq consents[d])

SeenOnlyWithConsent ==
  \A d \in Disputes : seen[d] > 0 => /\ Concerned(d) \subseteq consents[d]
                                     /\ status[d] \in {"consented", "resolved"}

ViewsLoggedAndTold ==
  \A d \in Disputes :
    /\ seen[d] <= log[d]
    /\ log[d] > 0 => \A p \in Concerned(d) : told[d][p] = log[d]

\* Evidence reaches an officer only when the organizer and every subject agreed,
\* also those who have left the circle since the entry was made; every answer that
\* reached one is in the access log, and all of them were told of each logged view.
EvidenceByConsent == SeenOnlyWithConsent /\ ViewsLoggedAndTold

\* "Saying no ends the request": whatever answers race, a dispute leaves
\* awaiting_consent once, a refused one stays refused and a consented one is only
\* ever resolved.
AnswerIsFinal ==
  [][\A d \in Disputes : status[d] # "none" /\ status'[d] # status[d] =>
       <<status[d], status'[d]>> \in {<<"awaiting_consent", "consented">>,
         <<"awaiting_consent", "declined">>, <<"consented", "resolved">>}]_vars

(***************************************************************************)
(* What a dispute promises, abstractly (Consent.tla).                      *)
(***************************************************************************)
AskedAbout == [d \in Disputes |-> IF status[d] = "none" THEN {} ELSE Concerned(d)]

Promise == INSTANCE Consent
  WITH stage <- status, concerned <- AskedAbout, agreed <- consents

\* An answer that takes three statements, and a view that takes two, is one step of
\* Consent when it commits and changes nothing in it before: the row lock of respond
\* and evidence makes them atomic, also against who leaves the circle meanwhile.
ImplementsConsent == Promise!Spec
=============================================================================
