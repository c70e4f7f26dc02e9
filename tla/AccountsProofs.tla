--------------------------- MODULE AccountsProofs ---------------------------
(***************************************************************************)
(* Proofs about Accounts for every number of phones, requests, codes and   *)
(* tokens, and every use the phones make of the tokens they have stored.   *)
(* Three arguments, one for each part of the state:                        *)
(*  - a request is typed, and what it carries from one statement to the    *)
(*    next is still there (RequestsWell);                                  *)
(*  - a code belongs to the request that asked for it until it is sent,    *)
(*    is consumed on its way from live to used and never comes back, and   *)
(*    the wrong guesses under way leave room for themselves (CodesWell);   *)
(*  - the token on record was never exchanged and never ended              *)
(*    (TokensWell), so that the conditional update of a refresh can do     *)
(*    either only once.                                                    *)
(***************************************************************************)
EXTENDS Accounts, TLAPS, FiniteSetTheorems

Entering == {"replacing", "inserting"}
Asking == Entering \cup {"sending", "removing"}
Using == {"consuming", "counting"}
Carrying == {"creating", "starting", "changing", "keeping"}
Stages == Asking \cup Using \cup Carrying
            \cup {"none", "proving", "setting", "marking", "failing", "rotating", "ending", "signed", "refreshed"}

Request == [at: Stages, purpose: Purposes \cup {"none"}, code: Codes \cup {0},
            password: Passwords \cup {Nobody}, token: Nat, phone: Phones \cup {NoPhone}]

\* Wrong guesses a code may take: those compared before the limit was reached.
TriesLimit == MaxAttempts + Cardinality(Requests) - 1

CodeRow == [purpose: Purposes \cup {"none"}, state: {"none", "asked", "live", "used", "gone"},
            tries: 0..TriesLimit, recent: BOOLEAN]

AccountRow == [password: Passwords \cup {Nobody}, failures: 0..(MaxFailures - 1), locked: BOOLEAN,
               refresh: 0..Len(tokens), email: BOOLEAN]

Counting(n) == {r \in Requests : req[r].at = "counting" /\ req[r].code = n}

\* A request works on a code that was drawn, sets a password somebody chose, and
\* exchanges or answers with a token that was issued.
RequestsWell ==
  /\ req \in [Requests -> Request]
  /\ \A r \in Requests :
       /\ req[r].at \in Asking \cup Using => req[r].code \in Codes /\ codes[req[r].code].state # "none"
       /\ req[r].at = "consuming" => req[r].purpose \in Purposes
       /\ req[r].at \in Carrying => req[r].password \in Passwords
       /\ req[r].token \in 0..Len(tokens)
       /\ req[r].at = "rotating" => req[r].token # 0

DrawnInOrder ==
  /\ \A n \in Codes : codes[n].state = "none" => codes[n] = NoCode
  /\ \E k \in 0..MaxCodes : {n \in Codes : codes[n] # NoCode} = 1..k

\* A code asked for is nobody else's until it is sent or taken back.
OneAsker ==
  /\ \A r \in Requests : req[r].at \in Entering => codes[req[r].code].state = "asked"
  /\ \A r, s \in Requests :
       req[r].at \in Asking /\ req[s].at \in Asking /\ req[r].code = req[s].code => r = s

PassedIsSpent ==
  /\ passed \in [Codes -> {0, 1}]
  /\ \A n \in Codes : passed[n] = 1 => codes[n].state \in {"used", "gone"}

\* The guesses being counted still fit under the limit.
TriesLeft == \A n \in Codes : codes[n].tries + Cardinality(Counting(n)) <= TriesLimit

CodesWell == DrawnInOrder /\ OneAsker /\ PassedIsSpent /\ TriesLeft

\* The token on record is unused and not ended.
TokensWell ==
  /\ tokens \in Seq([from: Nat, basis: Passwords])
  /\ ended \subseteq 1..Len(tokens)
  /\ account.refresh # 0 =>
       /\ account.refresh \notin ended
       /\ \A t \in 1..Len(tokens) : tokens[t].from # account.refresh

AccountsInv == TypeOK /\ RequestsWell /\ CodesWell /\ TokensWell /\ ExchangedOnce
-----------------------------------------------------------------------------
(***************************************************************************)
(* One request moves on.                                                   *)
(***************************************************************************)

\* What a request may be, after Goes, Ends and Begins.
LEMMA RequestForms ==
  ASSUME RequestsWell, NEW r \in Requests
  PROVE  /\ Idle \in Request
         /\ \A stage \in Stages : [req[r] EXCEPT !.at = stage] \in Request
         /\ \A stage \in Stages : Goes(r, stage) => req' = [req EXCEPT ![r] = [req[r] EXCEPT !.at = stage]]
         /\ req[r].token \in Nat /\ req[r].token \in 0..Len(tokens)
  BY DEF RequestsWell, Request, Idle, Goes, Stages

\* What an answer says of tokens.
LEMMA AnswerForms ==
  ASSUME RequestsWell, NEW r \in Requests, NEW stage \in {"signed", "refreshed"}, NEW token \in Nat,
         Answers(r, stage, token)
  PROVE  \E request \in Request :
           /\ req' = [req EXCEPT ![r] = request]
           /\ request.at \in {"none", "signed", "refreshed"} /\ request.token \in {0, token}
<1> DEFINE told == [Idle EXCEPT !.at = stage, !.token = token, !.phone = req[r].phone]
<1>1. req[r].phone \in Phones \cup {NoPhone}
  BY DEF RequestsWell, Request
<1>2. told \in Request /\ told.at = stage /\ told.token = token
  BY <1>1 DEF Request, Idle, Stages
<1>3. Idle \in Request /\ Idle.at = "none" /\ Idle.token = 0
  BY DEF Request, Idle, Stages
<1>4. req' = [req EXCEPT ![r] = IF req[r].phone = NoPhone THEN Idle ELSE told]
  BY DEF Answers
<1> HIDE DEF told
<1> QED
  BY <1>2, <1>3, <1>4

\* The others are where they were.
LEMMA MoveKeepsRequests ==
  ASSUME RequestsWell, NEW r \in Requests, NEW request \in Request,
         req' = [req EXCEPT ![r] = request],
         request.at \in Asking \cup Using => request.code \in Codes /\ codes'[request.code].state # "none",
         request.at = "consuming" => request.purpose \in Purposes,
         request.at \in Carrying => request.password \in Passwords,
         request.token \in 0..Len(tokens'), 0..Len(tokens) \subseteq 0..Len(tokens'),
         request.at = "rotating" => request.token # 0,
         \A n \in Codes : codes[n].state # "none" => codes'[n].state # "none"
  PROVE  RequestsWell'
<1>1. req' \in [Requests -> Request]
  BY DEF RequestsWell
<1>2. ASSUME NEW s \in Requests
      PROVE  /\ req'[s].at \in Asking \cup Using
                  => req'[s].code \in Codes /\ codes'[req'[s].code].state # "none"
             /\ req'[s].at = "consuming" => req'[s].purpose \in Purposes
             /\ req'[s].at \in Carrying => req'[s].password \in Passwords
             /\ req'[s].token \in 0..Len(tokens')
             /\ req'[s].at = "rotating" => req'[s].token # 0
  <2>1. CASE s = r
    BY <2>1 DEF RequestsWell
  <2>2. CASE s # r
    <3>1. req'[s] = req[s]
      BY <2>2 DEF RequestsWell
    <3>2. req[s].token \in 0..Len(tokens) /\ req[s].token \in Nat
      BY DEF RequestsWell, Request
    <3>3. req'[s].token \in 0..Len(tokens')
      BY <3>1, <3>2
    <3> QED
      BY <3>1, <3>3 DEF RequestsWell
  <2> QED
    BY <2>1, <2>2
<1>3. Request' = Request
  BY DEF Request, Stages, Purposes, Codes
<1> QED
  BY <1>1, <1>2, <1>3 DEF RequestsWell, Codes, Purposes
-----------------------------------------------------------------------------
(***************************************************************************)
(* Codes.                                                                  *)
(***************************************************************************)

\* The requests that count a wrong guess are finitely many, and no more than requests.
LEMMA CountingFinite ==
  ASSUME NEW n \in Codes
  PROVE  /\ IsFiniteSet(Counting(n)) /\ Cardinality(Counting(n)) \in Nat
         /\ Cardinality(Counting(n)) <= Cardinality(Requests) /\ Cardinality(Requests) \in Nat
<1>1. Counting(n) \subseteq Requests
  BY DEF Counting
<1> QED
  BY <1>1, RequestsAssumption, FS_Subset, FS_CardinalityType

\* Guesses that are no longer counted, or have been, leave no less room.
LEMMA FewerCounting ==
  ASSUME NEW n \in Codes, Counting(n)' \subseteq Counting(n)
  PROVE  /\ Cardinality(Counting(n)') \in Nat /\ Cardinality(Counting(n)) \in Nat
         /\ Cardinality(Counting(n)') <= Cardinality(Counting(n))
<1>1. IsFiniteSet(Counting(n))
  BY CountingFinite
<1> QED
  BY <1>1, CountingFinite, FS_Subset, FS_CardinalityType

\* What a step keeps that draws no code and hands nobody a code that was asked for.
LEMMA CodesMoveOn ==
  ASSUME TypeOK, RequestsWell, CodesWell,
         \A n \in Codes : /\ codes'[n].state = "none" <=> codes[n].state = "none"
                          /\ codes[n].state = "none" => codes'[n] = codes[n]
                          /\ codes[n].state \in {"used", "gone"} => codes'[n].state \in {"used", "gone"},
         \A s \in Requests : req'[s].at \in Asking => req[s].at \in Asking /\ req'[s].code = req[s].code,
         \A s \in Requests : req'[s].at \in Entering =>
           req[s].at \in Entering /\ codes'[req[s].code].state = "asked",
         passed' \in [Codes -> {0, 1}],
         \A n \in Codes : passed'[n] = passed[n] \/ codes'[n].state \in {"used", "gone"}
  PROVE  DrawnInOrder' /\ OneAsker' /\ PassedIsSpent'
<1>1. DrawnInOrder'
  <2>1. \A n \in Codes : codes'[n].state = "none" => codes'[n] = NoCode
    BY DEF CodesWell, DrawnInOrder
  <2>2. \A n \in Codes : codes'[n] # NoCode <=> codes[n] # NoCode
    BY <2>1 DEF CodesWell, DrawnInOrder, NoCode
  <2>3. {n \in Codes : codes'[n] # NoCode} = {n \in Codes : codes[n] # NoCode}
    BY <2>2
  <2> QED
    BY <2>1, <2>3 DEF CodesWell, DrawnInOrder, Codes, NoCode
<1>2. OneAsker'
  BY DEF CodesWell, OneAsker, Asking, Entering
<1>3. PassedIsSpent'
  <2>1. \A n \in Codes : passed'[n] = 1 => codes'[n].state \in {"used", "gone"}
    BY DEF CodesWell, PassedIsSpent
  <2> QED
    BY <2>1 DEF PassedIsSpent, Codes
<1> QED
  BY <1>1, <1>2, <1>3

\* The room left for guesses is kept by a step that begins to count none.
LEMMA TriesFrame ==
  ASSUME TypeOK, CodesWell, codes' \in [Codes -> CodeRow'],
         \A n \in Codes : codes'[n].tries <= codes[n].tries /\ Counting(n)' \subseteq Counting(n)
  PROVE  TriesLeft'
<1>1. ASSUME NEW n \in Codes
      PROVE  codes'[n].tries + Cardinality(Counting(n)') <= TriesLimit
  <2>1. /\ Cardinality(Counting(n)') \in Nat /\ Cardinality(Counting(n)) \in Nat
        /\ Cardinality(Counting(n)') <= Cardinality(Counting(n))
    BY FewerCounting
  <2>2. codes[n].tries + Cardinality(Counting(n)) <= TriesLimit
    BY DEF CodesWell, TriesLeft
  <2>3. codes[n].tries \in Int /\ codes'[n].tries \in Int /\ TriesLimit \in Int
    BY CountingFinite, LimitsAssumption DEF TypeOK, CodeRow, TriesLimit
  <2> QED
    BY <2>1, <2>2, <2>3
<1> QED
  BY <1>1 DEF TriesLeft, Codes, TriesLimit

\* What a step keeps of the codes that leaves them alone, and counts nothing.
LEMMA CodesFrame ==
  ASSUME TypeOK, RequestsWell, CodesWell,
         NEW r \in Requests, NEW request \in Request, req' = [req EXCEPT ![r] = request],
         UNCHANGED <<codes, passed>>,
         request.at \in Asking => req[r].at \in Asking \ Entering /\ request.at \notin Entering /\ request.code = req[r].code,
         request.at # "counting"
  PROVE  CodesWell'
<1>1. codes' \in [Codes -> CodeRow']
  BY DEF TypeOK, CodeRow, TriesLimit
<1>2. \A s \in Requests : req'[s] = IF s = r THEN request ELSE req[s]
  BY DEF RequestsWell
<1>3. \A n \in Codes : Counting(n)' \subseteq Counting(n)
  BY <1>2 DEF Counting
<1>4. \A s \in Requests : req'[s].at \in Asking => req[s].at \in Asking /\ req'[s].code = req[s].code
  BY <1>2
<1>5. \A s \in Requests : req'[s].at \in Entering =>
        req[s].at \in Entering /\ codes'[req[s].code].state = "asked"
  BY <1>2 DEF CodesWell, OneAsker, Asking, Entering
<1>6. passed' \in [Codes -> {0, 1}]
  BY DEF CodesWell, PassedIsSpent
<1>7. \A n \in Codes : codes'[n].tries <= codes[n].tries
  BY LimitsAssumption, CountingFinite DEF TypeOK
<1> QED
  BY <1>1, <1>3, <1>4, <1>5, <1>6, <1>7, CodesMoveOn, TriesFrame DEF CodesWell
-----------------------------------------------------------------------------
(***************************************************************************)
(* Tokens.                                                                 *)
(***************************************************************************)

\* Nothing is issued, and the token on record stays or is taken off.
LEMMA TokensFrame ==
  ASSUME TypeOK, TokensWell, ExchangedOnce, UNCHANGED tokens,
         account'.refresh = account.refresh \/ account'.refresh = 0,
         \/ ended' = ended
         \/ account'.refresh = 0 /\ OffRecord
  PROVE  TokensWell' /\ ExchangedOnce'
<1> account.refresh \in 0..Len(tokens)
  BY DEF TypeOK
<1>1. ended' \subseteq 1..Len(tokens)
  <2>1. Len(tokens) \in Nat
    BY DEF TokensWell
  <2>2. CASE ended' = ended
    BY <2>2 DEF TokensWell
  <2>3. CASE OffRecord
    <3>1. account.refresh # 0 => account.refresh \in 1..Len(tokens)
      BY <2>1
    <3>2. ended \subseteq 1..Len(tokens)
      BY DEF TokensWell
    <3> QED
      BY <2>3, <3>1, <3>2 DEF OffRecord
  <2> QED
    BY <2>2, <2>3
<1>2. \A t \in 1..Len(tokens) : tokens[t].from # 0 => tokens[t].from \notin ended'
  BY DEF TokensWell, OffRecord, ExchangedOnce
<1>3. TokensWell'
  BY <1>1 DEF TokensWell
<1> QED
  BY <1>2, <1>3 DEF ExchangedOnce

\* A token is issued, for a password or in exchange for the one on record.
LEMMA IssueKeepsTokens ==
  ASSUME TypeOK, TokensWell, ExchangedOnce,
         NEW from, NEW basis \in Passwords, NEW becomes \in AccountRow,
         Issues(from, basis, becomes),
         \/ from = 0 /\ OffRecord
         \/ from = account.refresh /\ from # 0 /\ UNCHANGED ended
  PROVE  /\ TokensWell' /\ ExchangedOnce'
         /\ account' \in AccountRow'
         /\ \A t \in 1..Len(tokens') : tokens'[t].from < t /\ tokens'[t].basis \in Passwords
         /\ Len(tokens') \in Nat /\ Len(tokens) \in Nat /\ Len(tokens') = Len(tokens) + 1
<1> DEFINE new == Len(tokens) + 1
           entry == [from |-> from, basis |-> basis]
<1>1. from \in 0..Len(tokens) /\ account.refresh \in 0..Len(tokens) /\ Len(tokens) \in Nat
  BY DEF TypeOK, TokensWell
<1>2. tokens' = Append(tokens, entry) /\ account' = [becomes EXCEPT !.refresh = new]
  BY DEF Issues
<1>3. entry \in [from: Nat, basis: Passwords] /\ entry.from = from /\ entry.basis = basis
  BY <1>1
<1> HIDE DEF entry
<1>4. /\ tokens' \in Seq([from: Nat, basis: Passwords]) /\ Len(tokens') = new
      /\ tokens'[new] = entry /\ \A t \in 1..Len(tokens) : tokens'[t] = tokens[t]
  BY <1>2, <1>3 DEF TokensWell
<1>5. \A t \in 1..Len(tokens') : t = new \/ t \in 1..Len(tokens)
  BY <1>1, <1>4
<1>6. \A t \in 1..Len(tokens') : tokens'[t].from < t /\ tokens'[t].basis \in Passwords
  <2>1. tokens'[new].from < new /\ tokens'[new].basis \in Passwords
    BY <1>1, <1>3, <1>4
  <2>2. \A t \in 1..Len(tokens) : tokens'[t].from < t /\ tokens'[t].basis \in Passwords
    BY <1>4 DEF TypeOK
  <2> QED
    BY <1>5, <2>1, <2>2
<1>7. account' \in AccountRow' /\ account'.refresh = new
  BY <1>1, <1>2, <1>4 DEF AccountRow
<1>8. ended' \subseteq 1..Len(tokens) /\ (from # 0 => from \notin ended')
  <2>1. CASE from = 0 /\ OffRecord
    <3>1. account.refresh # 0 => account.refresh \in 1..Len(tokens)
      BY <1>1
    <3>2. ended \subseteq 1..Len(tokens)
      BY DEF TokensWell
    <3> QED
      BY <2>1, <3>1, <3>2 DEF OffRecord
  <2>2. CASE from = account.refresh /\ from # 0 /\ UNCHANGED ended
    BY <2>2 DEF TokensWell
  <2> QED
    BY <2>1, <2>2
<1>9. TokensWell'
  <2>1. new \notin ended'
    BY <1>1, <1>8
  <2>2. \A t \in 1..Len(tokens') : tokens'[t].from # new
    BY <1>1, <1>3, <1>4, <1>5 DEF TypeOK
  <2>3. ended' \subseteq 1..Len(tokens')
    BY <1>1, <1>4, <1>8
  <2> QED
    BY <1>4, <1>7, <2>1, <2>2, <2>3 DEF TokensWell
<1>10. ExchangedOnce'
  <2>1. \A t \in 1..Len(tokens) : tokens[t].from # 0 => tokens[t].from # from /\ tokens[t].from \notin ended'
    BY DEF TokensWell, ExchangedOnce, OffRecord
  <2>2. \A t \in 1..Len(tokens') : tokens'[t].from # 0 => tokens'[t].from \notin ended'
    BY <1>3, <1>4, <1>5, <1>8, <2>1
  <2>3. ASSUME NEW t \in 1..Len(tokens'), NEW u \in 1..Len(tokens'),
               tokens'[t].from # 0, tokens'[t].from = tokens'[u].from
        PROVE  t = u
    <3>1. CASE t \in 1..Len(tokens) /\ u \in 1..Len(tokens)
      BY <1>4, <2>3, <3>1 DEF ExchangedOnce
    <3>2. CASE t = new /\ u = new
      BY <3>2
    <3>3. CASE t = new /\ u \in 1..Len(tokens)
      BY <1>3, <1>4, <2>1, <2>3, <3>3
    <3>4. CASE t \in 1..Len(tokens) /\ u = new
      BY <1>3, <1>4, <2>1, <2>3, <3>4
    <3> QED
      BY <1>5, <3>1, <3>2, <3>3, <3>4
  <2> QED
    BY <2>2, <2>3 DEF ExchangedOnce
<1> QED
  BY <1>1, <1>4, <1>6, <1>7, <1>9, <1>10
-----------------------------------------------------------------------------
(***************************************************************************)
(* The number is new.                                                      *)
(***************************************************************************)
LEMMA InitAccountsInv == Init => AccountsInv
<1> SUFFICES ASSUME Init PROVE AccountsInv
  OBVIOUS
<1>1. Cardinality(Requests) \in Nat
  BY RequestsAssumption, FS_CardinalityType
<1>2. tokens \in Seq([from: Nat, basis: Passwords]) /\ Len(tokens) = 0
  BY DEF Init
<1>3. TypeOK
  BY <1>1, <1>2, LimitsAssumption, BoundsAssumption DEF Init, TypeOK, Fresh, NoCode
<1>4. RequestsWell
  BY <1>2 DEF Init, RequestsWell, Request, Idle, Stages, Asking, Entering, Using, Carrying
<1>5. CodesWell
  <2>1. DrawnInOrder
    <3>1. {n \in Codes : codes[n] # NoCode} = 1..0
      BY DEF Init
    <3> QED
      BY <3>1, BoundsAssumption DEF Init, DrawnInOrder
  <2>2. OneAsker /\ PassedIsSpent
    BY DEF Init, OneAsker, PassedIsSpent, Idle, Asking, Entering
  <2>3. TriesLeft
    <3>1. \A n \in Codes : Counting(n) = {}
      BY DEF Init, Counting, Idle
    <3>2. Cardinality({}) = 0
      BY FS_EmptySet
    <3>3. \A n \in Codes : codes[n].tries = 0
      BY DEF Init, NoCode
    <3>4. 0 <= TriesLimit
      BY <1>1, LimitsAssumption DEF TriesLimit
    <3> QED
      BY <3>1, <3>2, <3>3, <3>4 DEF TriesLeft
  <2> QED
    BY <2>1, <2>2, <2>3 DEF CodesWell
<1>6. TokensWell /\ ExchangedOnce
  BY <1>2 DEF Init, TokensWell, ExchangedOnce, Fresh
<1> QED
  BY <1>3, <1>4, <1>5, <1>6 DEF AccountsInv
-----------------------------------------------------------------------------
(***************************************************************************)
(* Asking for a code.                                                      *)
(***************************************************************************)

\* The next code is one that nobody has drawn.
LEMMA NextCodeFresh ==
  ASSUME DrawnInOrder, Drawn + 1 \in Codes
  PROVE  /\ codes[Drawn + 1] = NoCode
         /\ Drawn \in Nat
         /\ {n \in Codes : codes[n] # NoCode} = 1..Drawn
<1>1. PICK k \in 0..MaxCodes : {n \in Codes : codes[n] # NoCode} = 1..k
  BY DEF DrawnInOrder
<1>2. k \in Nat /\ Cardinality(1..k) = k
  BY BoundsAssumption, FS_Interval
<1>3. Drawn = k
  BY <1>1, <1>2 DEF Drawn
<1>4. k + 1 \notin 1..k
  BY <1>2
<1>5. Drawn + 1 \notin {n \in Codes : codes[n] # NoCode}
  BY <1>1, <1>3, <1>4
<1> QED
  BY <1>1, <1>2, <1>3, <1>5

\* (OtpService.issue) The code asked for is a new one, and nobody else's.
LEMMA AskInv ==
  ASSUME AccountsInv, NEW r \in Requests, NEW purpose \in Purposes, Ask(r, purpose)
  PROVE  AccountsInv'
<1> DEFINE n == Drawn + 1
           row == [purpose |-> purpose, state |-> "asked", tries |-> 0, recent |-> TRUE]
           request == [Idle EXCEPT !.at = "replacing", !.purpose = purpose, !.code = n]
<1> USE DEF AccountsInv
<1>1. /\ n \in Codes /\ codes[n] = NoCode /\ Drawn \in Nat
      /\ {m \in Codes : codes[m] # NoCode} = 1..Drawn
  BY NextCodeFresh DEF Ask, CodesWell
<1>2. codes' = [codes EXCEPT ![n] = row] /\ req' = [req EXCEPT ![r] = request] /\ req[r] = Idle
  BY DEF Ask, Begins
<1>3. UNCHANGED <<account, tokens, held, verified, passed, ended>>
  BY DEF Ask
<1>4. Cardinality(Requests) \in Nat /\ Len(tokens) \in Nat
  BY RequestsAssumption, FS_CardinalityType DEF TokensWell
<1>5. row \in CodeRow
  BY <1>4, LimitsAssumption DEF CodeRow, TriesLimit
<1>6. request \in Request /\ request.at = "replacing" /\ request.code = n /\ request.token = 0
  BY <1>1 DEF Request, Stages, Asking, Entering, Idle
<1> HIDE DEF n, request
<1>7. TypeOK'
  <2>1. codes' \in [Codes -> CodeRow']
    BY <1>1, <1>2, <1>3, <1>5 DEF TypeOK, CodeRow, TriesLimit
  <2> QED
    BY <1>3, <2>1 DEF TypeOK, CodeRow, TriesLimit
<1>8. \A m \in Codes : codes'[m] = IF m = n THEN row ELSE codes[m]
  BY <1>2 DEF TypeOK
<1>9. \A s \in Requests : req'[s] = IF s = r THEN request ELSE req[s]
  BY <1>2 DEF RequestsWell
<1>10. RequestsWell'
  <2>1. \A m \in Codes : codes[m].state # "none" => codes'[m].state # "none"
    BY <1>8
  <2>2. request.at \in Asking \cup Using => request.code \in Codes /\ codes'[request.code].state # "none"
    BY <1>1, <1>6, <1>8
  <2>3. request.at \notin Carrying /\ request.at # "rotating" /\ request.at # "consuming"
    BY <1>6 DEF Carrying
  <2>4. request.token \in 0..Len(tokens') /\ 0..Len(tokens) \subseteq 0..Len(tokens')
    BY <1>3, <1>4, <1>6
  <2> QED
    BY <1>2, <1>6, <2>1, <2>2, <2>3, <2>4, MoveKeepsRequests
<1>11. \A s \in Requests : req[s].at \in Asking \cup Using => req[s].code \in Codes /\ req[s].code # n
  BY <1>1 DEF RequestsWell, NoCode
<1>12. CodesWell'
  <2>1. DrawnInOrder'
    <3>1. row # NoCode /\ row.state # "none"
      BY DEF NoCode
    <3>2. {m \in Codes : codes'[m] # NoCode} = {m \in Codes : codes[m] # NoCode} \cup {n}
      BY <1>1, <1>8, <3>1
    <3>3. Drawn \in Nat /\ n = Drawn + 1 /\ n \in 0..MaxCodes
      BY <1>1, BoundsAssumption DEF Codes, n
    <3>4. {m \in Codes : codes'[m] # NoCode} = 1..n
      BY <1>1, <3>2, <3>3
    <3>5. \A m \in Codes : codes'[m].state = "none" => codes'[m] = NoCode
      BY <1>8, <3>1 DEF CodesWell, DrawnInOrder
    <3> QED
      BY <3>3, <3>4, <3>5 DEF DrawnInOrder, Codes, NoCode
  <2>2. OneAsker'
    <3>1. ASSUME NEW s \in Requests, req'[s].at \in Entering
          PROVE  codes'[req'[s].code].state = "asked"
      BY <1>1, <1>6, <1>8, <1>9, <1>11, <3>1 DEF CodesWell, OneAsker, Asking
    <3>2. ASSUME NEW s \in Requests, NEW u \in Requests, req'[s].at \in Asking, req'[u].at \in Asking,
                 req'[s].code = req'[u].code
          PROVE  s = u
      BY <1>6, <1>9, <1>11, <3>2 DEF CodesWell, OneAsker
    <3> QED
      BY <3>1, <3>2 DEF OneAsker, Asking, Entering
  <2>3. PassedIsSpent'
    BY <1>1, <1>3, <1>8 DEF CodesWell, PassedIsSpent, NoCode, Codes
  <2>4. TriesLeft'
    <3>1. codes' \in [Codes -> CodeRow']
      BY <1>7 DEF TypeOK, CodeRow, TriesLimit
    <3>2. ASSUME NEW m \in Codes PROVE codes'[m].tries <= codes[m].tries
      <4>1. codes[m].tries \in 0..TriesLimit
        BY DEF TypeOK, TriesLimit
      <4>2. codes'[m].tries = codes[m].tries
        BY <1>1, <1>8 DEF NoCode
      <4> QED
        BY <4>1, <4>2, <1>4, LimitsAssumption DEF TriesLimit
    <3>3. \A m \in Codes : Counting(m)' \subseteq Counting(m)
      BY <1>6, <1>9 DEF Counting
    <3> QED
      BY <3>1, <3>2, <3>3, TriesFrame
  <2> QED
    BY <2>1, <2>2, <2>3, <2>4 DEF CodesWell
<1>13. TokensWell' /\ ExchangedOnce'
  <2>1. tokens' = tokens /\ account'.refresh = account.refresh /\ ended' = ended
    BY <1>3
  <2> QED
    BY <2>1, TokensFrame
<1> QED
  BY <1>7, <1>10, <1>12, <1>13
-----------------------------------------------------------------------------
(***************************************************************************)
(* Two kinds of steps: those that leave the codes alone, and those that    *)
(* change nothing else.                                                    *)
(***************************************************************************)

\* A request moves on, and no code changes.
LEMMA MoveInv ==
  ASSUME AccountsInv, NEW r \in Requests, NEW request \in Request, req' = [req EXCEPT ![r] = request],
         codes' = codes, passed' = passed,
         request.at \in Asking => req[r].at \in Asking \ Entering /\ request.at \notin Entering /\ request.code = req[r].code,
         request.at # "counting",
         request.at \in Using => request.code \in Codes /\ codes[request.code].state # "none",
         request.at = "consuming" => request.purpose \in Purposes,
         request.at \in Carrying => request.password \in Passwords,
         request.token \in 0..Len(tokens'), 0..Len(tokens) \subseteq 0..Len(tokens'),
         request.at = "rotating" => request.token # 0,
         TypeOK', TokensWell', ExchangedOnce'
  PROVE  AccountsInv'
<1>1. TypeOK /\ RequestsWell /\ CodesWell
  BY DEF AccountsInv
<1>2. CodesWell'
  BY <1>1, CodesFrame
<1>3. request.at \in Asking \cup Using => request.code \in Codes /\ codes'[request.code].state # "none"
  BY <1>1 DEF RequestsWell
<1>4. RequestsWell'
  BY <1>1, <1>3, MoveKeepsRequests
<1> QED
  BY <1>2, <1>4 DEF AccountsInv

\* A request moves on, and that is all.
LEMMA RequestInv ==
  ASSUME AccountsInv, NEW r \in Requests, NEW request \in Request, req' = [req EXCEPT ![r] = request],
         account' = account, codes' = codes, tokens' = tokens, held' \in [Phones -> 0..Len(tokens)],
         passed' = passed, ended' = ended, verified' \subseteq Phones,
         request.at \in Asking => req[r].at \in Asking \ Entering /\ request.at \notin Entering /\ request.code = req[r].code,
         request.at # "counting",
         request.at \in Using => request.code \in Codes /\ codes[request.code].state # "none",
         request.at = "consuming" => request.purpose \in Purposes,
         request.at \in Carrying => request.password \in Passwords,
         request.token \in 0..Len(tokens), request.at = "rotating" => request.token # 0
  PROVE  AccountsInv'
<1>1. TypeOK /\ TokensWell /\ ExchangedOnce
  BY DEF AccountsInv
<1>2. TypeOK'
  BY <1>1 DEF TypeOK
<1>3. TokensWell' /\ ExchangedOnce' /\ Len(tokens) \in Nat
  BY <1>1, TokensFrame DEF TokensWell
<1> QED
  BY <1>2, <1>3, MoveInv

\* Codes change, and a request moves on to what draws none and counts none.
LEMMA CodesInv ==
  ASSUME AccountsInv, NEW r \in Requests, NEW request \in Request, req' = [req EXCEPT ![r] = request],
         account' = account, tokens' = tokens, verified' = verified, ended' = ended,
         held' \in [Phones -> 0..Len(tokens)],
         codes' \in [Codes -> CodeRow],
         \A n \in Codes : /\ codes'[n].state = "none" <=> codes[n].state = "none"
                          /\ codes[n].state = "none" => codes'[n] = codes[n]
                          /\ codes[n].state \in {"used", "gone"} => codes'[n].state \in {"used", "gone"}
                          /\ codes'[n].tries <= codes[n].tries,
         \A s \in Requests \ {r} : req[s].at \in Entering => codes'[req[s].code].state = "asked",
         request.at \in Asking => req[r].at \in Asking /\ request.code = req[r].code,
         request.at \in Entering => req[r].at \in Entering /\ codes'[request.code].state = "asked",
         request.at \notin Using \cup Carrying \cup {"rotating"}, request.token \in 0..Len(tokens),
         passed' \in [Codes -> {0, 1}],
         \A n \in Codes : passed'[n] = passed[n] \/ codes'[n].state \in {"used", "gone"}
  PROVE  AccountsInv'
<1>1. TypeOK /\ RequestsWell /\ CodesWell /\ TokensWell /\ ExchangedOnce
  BY DEF AccountsInv
<1>2. codes' \in [Codes -> CodeRow']
  BY DEF CodeRow, TriesLimit
<1>3. TypeOK'
  BY <1>1, <1>2 DEF TypeOK, CodeRow, TriesLimit
<1>4. RequestsWell'
  <2>1. request.at \in Asking => request.code \in Codes /\ codes'[request.code].state # "none"
    BY <1>1 DEF RequestsWell
  <2> QED
    BY <1>1, <2>1, MoveKeepsRequests DEF Using
<1>5. \A s \in Requests : req'[s] = IF s = r THEN request ELSE req[s]
  BY <1>1 DEF RequestsWell
<1>6. DrawnInOrder' /\ OneAsker' /\ PassedIsSpent'
  <2>1. \A s \in Requests : req'[s].at \in Asking => req[s].at \in Asking /\ req'[s].code = req[s].code
    BY <1>5
  <2>2. request.at \in Entering => request.at \in Asking
    BY DEF Asking
  <2>3. \A s \in Requests : req'[s].at \in Entering =>
          req[s].at \in Entering /\ codes'[req[s].code].state = "asked"
    BY <1>5, <2>2
  <2> QED
    BY <1>1, <2>1, <2>3, CodesMoveOn
<1>7. TriesLeft'
  <2>1. \A n \in Codes : Counting(n)' \subseteq Counting(n)
    BY <1>5 DEF Counting, Using
  <2> QED
    BY <1>1, <1>2, <2>1, TriesFrame
<1>8. TokensWell' /\ ExchangedOnce'
  BY <1>1, TokensFrame
<1> QED
  BY <1>3, <1>4, <1>6, <1>7, <1>8 DEF AccountsInv, CodesWell

\* A code under way is typed, and others enter others.
LEMMA CodeUnderWay ==
  ASSUME AccountsInv, NEW r \in Requests
  PROVE  /\ \A n \in Codes : codes[n] \in CodeRow /\ codes[n].tries \in Nat
         /\ req[r] \in Request
         /\ req[r].at \in Asking \cup Using => req[r].code \in Codes /\ codes[req[r].code].state # "none"
         /\ req[r].at = "consuming" => req[r].purpose \in Purposes
         /\ req[r].at \in Asking =>
              \A s \in Requests \ {r} : req[s].at \in Entering => req[s].code # req[r].code
         /\ \A s \in Requests : req[s].at \in Entering =>
              req[s].code \in Codes /\ codes[req[s].code].state = "asked"
         /\ codes \in [Codes -> CodeRow] /\ held \in [Phones -> 0..Len(tokens)] /\ verified \subseteq Phones
         /\ req[r].token \in Nat /\ req[r].token \in 0..Len(tokens) /\ Len(tokens) \in Nat
         /\ req[r].at = "rotating" => req[r].token # 0
         /\ passed \in [Codes -> {0, 1}]
         /\ \A n \in Codes : passed[n] = 1 => codes[n].state \in {"used", "gone"}
<1>1. codes \in [Codes -> CodeRow]
  BY DEF AccountsInv, TypeOK, CodeRow, TriesLimit
<1>2. TriesLimit \in Int
  BY RequestsAssumption, LimitsAssumption, FS_CardinalityType DEF TriesLimit
<1>3. \A n \in Codes : codes[n].tries \in Nat
  BY <1>1, <1>2 DEF CodeRow
<1>4. /\ req \in [Requests -> Request]
      /\ \A s \in Requests : req[s].at \in Asking \cup Using =>
           req[s].code \in Codes /\ codes[req[s].code].state # "none"
  BY DEF AccountsInv, RequestsWell
<1>5. \A s \in Requests : req[s].at \in Entering => codes[req[s].code].state = "asked"
  BY DEF AccountsInv, CodesWell, OneAsker
<1>6. req[r].at \in Asking =>
        \A s \in Requests \ {r} : req[s].at \in Entering => req[s].code # req[r].code
  BY DEF AccountsInv, CodesWell, OneAsker, Asking
<1>7. /\ req[r].token \in Nat /\ req[r].token \in 0..Len(tokens) /\ Len(tokens) \in Nat
      /\ req[r].at = "rotating" => req[r].token # 0
  BY <1>4 DEF AccountsInv, RequestsWell, TokensWell, Request
<1> QED
  BY <1>1, <1>3, <1>4, <1>5, <1>6, <1>7
     DEF AccountsInv, TypeOK, RequestsWell, CodesWell, PassedIsSpent, Asking

\* An idle request asks for nothing and carries nothing.
LEMMA IdleAsksNothing ==
  ASSUME AccountsInv
  PROVE  /\ Idle.at \notin Asking \cup Entering \cup Using \cup Carrying
         /\ Idle.at \notin {"counting", "consuming", "rotating"}
         /\ Idle \in Request /\ Idle.token = 0 /\ Idle.token \in 0..Len(tokens) /\ Len(tokens) \in Nat
<1>1. Len(tokens) \in Nat
  BY DEF AccountsInv, TokensWell
<1> QED
  BY <1>1 DEF Idle, Asking, Entering, Using, Carrying, Request, Stages

\* (invalidateActive) Codes go from live to used, none comes back.
LEMMA InvalidateActiveInv ==
  ASSUME AccountsInv, NEW r \in Requests, InvalidateActive(r) PROVE AccountsInv'
<1> DEFINE request == [req[r] EXCEPT !.at = "inserting"]
           spent(n) == codes[n].purpose = req[r].purpose /\ codes[n].state = "live"
<1>1. /\ req[r].at = "replacing" /\ request \in Request /\ req' = [req EXCEPT ![r] = request]
      /\ request.at = "inserting" /\ request.code = req[r].code /\ request.token = req[r].token
  BY RequestForms DEF AccountsInv, InvalidateActive, Stages, Asking, Entering, RequestsWell, Request
<1>2. codes' = [n \in Codes |-> IF spent(n) THEN [codes[n] EXCEPT !.state = "used"] ELSE codes[n]]
  BY DEF InvalidateActive
<1>3. \A n \in Codes : codes[n] \in CodeRow /\ codes[n].tries \in Nat
  BY CodeUnderWay
<1>4. \A n \in Codes : codes'[n] = IF spent(n) THEN [codes[n] EXCEPT !.state = "used"] ELSE codes[n]
  BY <1>2
<1>5. codes' \in [Codes -> CodeRow]
  BY <1>2, <1>3 DEF CodeRow
<1>6. ASSUME NEW n \in Codes
      PROVE  /\ codes'[n].state = "none" <=> codes[n].state = "none"
             /\ codes[n].state = "none" => codes'[n] = codes[n]
             /\ codes[n].state \in {"used", "gone"} => codes'[n].state \in {"used", "gone"}
             /\ codes'[n].tries <= codes[n].tries
             /\ codes[n].state = "asked" => codes'[n].state = "asked"
  <2>1. CASE spent(n)
    <3>1. codes'[n].state = "used" /\ codes'[n].tries = codes[n].tries
      BY <1>3, <1>4, <2>1 DEF CodeRow
    <3> QED
      BY <1>3, <2>1, <3>1
  <2>2. CASE ~spent(n)
    <3>1. codes'[n] = codes[n]
      BY <1>4, <2>2
    <3> QED
      BY <1>3, <3>1
  <2> QED
    BY <2>1, <2>2
<1>7. \A s \in Requests : req[s].at \in Entering =>
        req[s].code \in Codes /\ codes[req[s].code].state = "asked"
  BY CodeUnderWay
<1>8. /\ account' = account /\ tokens' = tokens /\ held' = held
      /\ verified' = verified /\ passed' = passed /\ ended' = ended
  BY DEF InvalidateActive
<1>9. held' \in [Phones -> 0..Len(tokens)] /\ passed' \in [Codes -> {0, 1}] /\ req[r].token \in 0..Len(tokens)
  BY <1>8, CodeUnderWay
<1>10. request.at \notin Using \cup Carrying \cup {"rotating"} /\ req[r].at \in Entering /\ req[r].at \in Asking
  BY <1>1 DEF Using, Carrying, Entering, Asking
<1> HIDE DEF request
<1> QED
  BY <1>1, <1>5, <1>6, <1>7, <1>8, <1>9, <1>10, CodesInv

\* (OtpRepository.insert) The code that becomes live is the one this request asked for,
\* never used.
LEMMA InsertInv == ASSUME AccountsInv, NEW r \in Requests, Insert(r) PROVE AccountsInv'
<1> DEFINE request == [req[r] EXCEPT !.at = "sending"]
           c == req[r].code
<1>1. /\ req[r].at = "inserting" /\ request \in Request /\ req' = [req EXCEPT ![r] = request]
      /\ request.at = "sending" /\ request.code = c /\ request.token = req[r].token
  <2>1. req[r].at = "inserting" /\ Goes(r, "sending") /\ "sending" \in Stages /\ req[r] \in Request
    BY CodeUnderWay DEF Insert, Stages, Asking
  <2>2. request \in Request /\ req' = [req EXCEPT ![r] = request]
    BY <2>1, RequestForms DEF AccountsInv
  <2> QED
    BY <2>1, <2>2 DEF Request
<1>2. codes' = [codes EXCEPT ![c].state = "live"]
  BY DEF Insert
<1>3. /\ \A n \in Codes : codes[n] \in CodeRow /\ codes[n].tries \in Nat
      /\ c \in Codes /\ codes[c].state = "asked"
      /\ \A s \in Requests \ {r} : req[s].at \in Entering =>
           req[s].code \in Codes /\ req[s].code # c /\ codes[req[s].code].state = "asked"
      /\ codes \in [Codes -> CodeRow]
  BY <1>1, CodeUnderWay DEF Asking, Entering
<1>4. \A n \in Codes : codes'[n] = IF n = c THEN [codes[n] EXCEPT !.state = "live"] ELSE codes[n]
  BY <1>2, <1>3
<1>5. codes' \in [Codes -> CodeRow]
  BY <1>2, <1>3 DEF CodeRow
<1>6. ASSUME NEW n \in Codes
      PROVE  /\ codes'[n].state = "none" <=> codes[n].state = "none"
             /\ codes[n].state = "none" => codes'[n] = codes[n]
             /\ codes[n].state \in {"used", "gone"} => codes'[n].state \in {"used", "gone"}
             /\ codes'[n].tries <= codes[n].tries
  <2>1. CASE n = c
    <3>1. codes'[n].state = "live" /\ codes'[n].tries = codes[n].tries
      BY <1>3, <1>4, <2>1 DEF CodeRow
    <3> QED
      BY <1>3, <2>1, <3>1
  <2>2. CASE n # c
    <3>1. codes'[n] = codes[n]
      BY <1>4, <2>2
    <3> QED
      BY <1>3, <3>1
  <2> QED
    BY <2>1, <2>2
<1>7. \A s \in Requests \ {r} : req[s].at \in Entering => codes'[req[s].code].state = "asked"
  BY <1>3, <1>4
<1>8. /\ account' = account /\ tokens' = tokens /\ held' = held
      /\ verified' = verified /\ passed' = passed /\ ended' = ended
  BY DEF Insert
<1>9. held' \in [Phones -> 0..Len(tokens)] /\ passed' \in [Codes -> {0, 1}] /\ req[r].token \in 0..Len(tokens)
  BY <1>8, CodeUnderWay
<1>10. request.at \notin Using \cup Carrying \cup {"rotating"} \cup Entering /\ req[r].at \in Asking
  BY <1>1 DEF Using, Carrying, Entering, Asking
<1> HIDE DEF request
<1> QED
  BY <1>1, <1>5, <1>6, <1>7, <1>8, <1>9, <1>10, CodesInv

\* (OtpService.issue) Sent or not, the code is no longer being entered.
LEMMA DeliverInv == ASSUME AccountsInv, NEW r \in Requests, Deliver(r) PROVE AccountsInv'
<1>1. /\ account' = account /\ codes' = codes /\ tokens' = tokens /\ held' = held
      /\ verified' = verified /\ passed' = passed /\ ended' = ended /\ req[r].at = "sending"
  BY DEF Deliver
<1>2. verified' \subseteq Phones /\ held' \in [Phones -> 0..Len(tokens)] /\ req[r].token \in 0..Len(tokens)
  BY <1>1, CodeUnderWay
<1>3. CASE Ends(r)
  BY <1>1, <1>2, <1>3, IdleAsksNothing, RequestInv DEF Ends
<1>4. CASE Goes(r, "removing")
  <2> DEFINE request == [req[r] EXCEPT !.at = "removing"]
  <2>1. /\ request \in Request /\ req' = [req EXCEPT ![r] = request] /\ request.at = "removing"
        /\ request.code = req[r].code /\ request.token = req[r].token
    BY <1>4, RequestForms DEF AccountsInv, Stages, Asking, RequestsWell, Request
  <2> HIDE DEF request
  <2> QED
    BY <1>1, <1>2, <2>1, RequestInv DEF Asking, Entering, Using, Carrying
<1> QED
  BY <1>3, <1>4 DEF Deliver

\* A code that is given up goes, and its request with it.
LEMMA GiveUpInv ==
  ASSUME AccountsInv, NEW r \in Requests, Ends(r), req[r].at \in Asking,
         codes' = [codes EXCEPT ![req[r].code] = Absent],
         account' = account, tokens' = tokens, held' \in [Phones -> 0..Len(tokens)],
         verified' = verified, passed' = passed, ended' = ended
  PROVE  AccountsInv'
<1> DEFINE c == req[r].code
<1>1. Idle \in Request /\ req' = [req EXCEPT ![r] = Idle]
  BY RequestForms DEF AccountsInv, Ends
<1>2. /\ \A n \in Codes : codes[n] \in CodeRow /\ codes[n].tries \in Nat
      /\ c \in Codes /\ codes[c].state # "none"
      /\ \A s \in Requests \ {r} : req[s].at \in Entering =>
           req[s].code \in Codes /\ req[s].code # c /\ codes[req[s].code].state = "asked"
      /\ codes \in [Codes -> CodeRow]
  BY CodeUnderWay
<1>3. Absent \in CodeRow /\ Absent.tries = 0 /\ Absent.state = "gone"
  <2>1. 0 \in 0..TriesLimit
    BY BoundsAssumption, LimitsAssumption, RequestsAssumption, FS_CardinalityType
       DEF AccountsInv, TypeOK, TriesLimit
  <2> QED
    BY <2>1 DEF Absent, CodeRow
<1>4. \A n \in Codes : codes'[n] = IF n = c THEN Absent ELSE codes[n]
  BY <1>2
<1>5. codes' \in [Codes -> CodeRow]
  BY <1>2, <1>3
<1>6. ASSUME NEW n \in Codes
      PROVE  /\ codes'[n].state = "none" <=> codes[n].state = "none"
             /\ codes[n].state = "none" => codes'[n] = codes[n]
             /\ codes[n].state \in {"used", "gone"} => codes'[n].state \in {"used", "gone"}
             /\ codes'[n].tries <= codes[n].tries
  BY <1>2, <1>3, <1>4
<1>7. \A s \in Requests \ {r} : req[s].at \in Entering => codes'[req[s].code].state = "asked"
  BY <1>2, <1>4
<1>8. passed' \in [Codes -> {0, 1}]
  BY CodeUnderWay
<1> QED
  BY <1>1, <1>5, <1>6, <1>7, <1>8, IdleAsksNothing, CodesInv

\* (OtpService.issue) A code that could not be sent is taken back by its own request.
LEMMA RemoveInv == ASSUME AccountsInv, NEW r \in Requests, Remove(r) PROVE AccountsInv'
  BY CodeUnderWay, GiveUpInv DEF Remove, Asking
-----------------------------------------------------------------------------
(***************************************************************************)
(* Using a code.                                                           *)
(***************************************************************************)

\* A wrong guess fits under the limit when it is compared: the code had been tried less
\* than MaxAttempts times, and no more guesses are under way than there are requests.
LEMMA VerifyInv ==
  ASSUME AccountsInv, NEW r \in Requests, NEW purpose \in Purposes, NEW right \in BOOLEAN,
         NEW password \in Passwords \cup {Nobody}, NEW p \in Phones \cup {NoPhone},
         Verify(r, purpose, right, password, p)
  PROVE  AccountsInv'
<1> DEFINE n == Latest(purpose)
           request == [Idle EXCEPT !.at = IF right THEN "consuming" ELSE "counting",
                                   !.purpose = purpose, !.code = n, !.password = password, !.phone = p]
<1>1. /\ n \in Codes /\ codes[n].state = "live" /\ codes[n].tries < MaxAttempts
      /\ req' = [req EXCEPT ![r] = request]
      /\ account' = account /\ codes' = codes /\ tokens' = tokens /\ held' = held
      /\ verified' = verified /\ passed' = passed /\ ended' = ended
  BY DEF Verify, Begins
<1> HIDE DEF n
<1>2. /\ request \in Request /\ request.code = n /\ request.purpose \in Purposes
      /\ request.at \in Using /\ request.at \notin Asking \cup Carrying \cup {"rotating"}
      /\ request.at = "counting" <=> ~right
      /\ request.token = 0
  BY <1>1 DEF Request, Stages, Using, Asking, Entering, Carrying, Idle
<1> HIDE DEF request
<1>3. /\ TypeOK /\ RequestsWell /\ CodesWell /\ verified' \subseteq Phones
      /\ held' \in [Phones -> 0..Len(tokens)]
      /\ request.token \in 0..Len(tokens)
  BY <1>1, <1>2 DEF AccountsInv, TypeOK, TokensWell
<1>4. CASE right
  BY <1>1, <1>2, <1>3, <1>4, RequestInv
<1>5. CASE ~right
  <2>1. TypeOK'
    BY <1>1, <1>3 DEF TypeOK
  <2>2. RequestsWell'
    BY <1>1, <1>2, <1>3, MoveKeepsRequests
  <2>3. \A s \in Requests : req'[s] = IF s = r THEN request ELSE req[s]
    BY <1>1, <1>3 DEF RequestsWell
  <2>4. DrawnInOrder' /\ OneAsker' /\ PassedIsSpent'
    <3>1. \A s \in Requests : req'[s].at \in Asking => req[s].at \in Asking /\ req'[s].code = req[s].code
      BY <1>2, <2>3
    <3>2. \A s \in Requests : req'[s].at \in Entering =>
            req[s].at \in Entering /\ codes'[req[s].code].state = "asked"
      BY <1>1, <1>2, <1>3, <2>3 DEF Asking, CodesWell, OneAsker
    <3>3. passed' \in [Codes -> {0, 1}]
      BY <1>1, <1>3 DEF CodesWell, PassedIsSpent
    <3> QED
      BY <1>1, <1>3, <3>1, <3>2, <3>3, CodesMoveOn
  <2>5. ASSUME NEW m \in Codes
        PROVE  codes'[m].tries + Cardinality(Counting(m)') <= TriesLimit
    <3>1. CASE m = n
      <4>1. Counting(m)' \subseteq Requests
        BY DEF Counting
      <4>2. /\ Cardinality(Counting(m)') \in Nat /\ Cardinality(Requests) \in Nat
            /\ Cardinality(Counting(m)') <= Cardinality(Requests)
        BY <4>1, RequestsAssumption, FS_Subset, FS_CardinalityType
      <4>3. codes'[m].tries \in Nat /\ codes'[m].tries < MaxAttempts
        BY <1>1, <3>1, CodeUnderWay
      <4> QED
        BY <4>2, <4>3, LimitsAssumption DEF TriesLimit
    <3>2. CASE m # n
      <4>1. Counting(m)' \subseteq Counting(m)
        BY <1>2, <2>3, <3>2 DEF Counting
      <4>2. /\ Cardinality(Counting(m)') \in Nat /\ Cardinality(Counting(m)) \in Nat
            /\ Cardinality(Counting(m)') <= Cardinality(Counting(m))
        BY <4>1, FewerCounting
      <4>3. codes[m].tries + Cardinality(Counting(m)) <= TriesLimit
        BY <1>3 DEF CodesWell, TriesLeft
      <4>4. codes'[m].tries = codes[m].tries /\ codes[m].tries \in Nat /\ TriesLimit \in Int
        BY <1>1, CodeUnderWay, CountingFinite, LimitsAssumption DEF TriesLimit
      <4> QED
        BY <4>2, <4>3, <4>4
    <3> QED
      BY <3>1, <3>2
  <2>6. TriesLeft'
    BY <2>5 DEF TriesLeft, Codes, TriesLimit
  <2>7. TokensWell' /\ ExchangedOnce'
    BY <1>1, TokensFrame DEF AccountsInv
  <2> QED
    BY <2>1, <2>2, <2>4, <2>6, <2>7 DEF AccountsInv, CodesWell
<1> QED
  BY <1>4, <1>5

\* The guess counted takes the room that was left for it.
LEMMA IncrementAttemptsInv ==
  ASSUME AccountsInv, NEW r \in Requests, IncrementAttempts(r) PROVE AccountsInv'
<1>0. PICK c \in Codes : c = req[r].code
  BY CodeUnderWay DEF IncrementAttempts, Using
<1> DEFINE tried == IF codes[c].state = "gone" THEN codes[c].tries ELSE codes[c].tries + 1
<1>1. /\ req[r].at = "counting" /\ codes' = [codes EXCEPT ![c].tries = tried]
      /\ account' = account /\ tokens' = tokens /\ held' = held
      /\ verified' = verified /\ passed' = passed /\ ended' = ended
  BY <1>0 DEF IncrementAttempts
<1>2. TypeOK /\ RequestsWell /\ CodesWell
  BY DEF AccountsInv
<1>3. Idle \in Request /\ req' = [req EXCEPT ![r] = Idle]
  BY <1>2, RequestForms DEF Ends, IncrementAttempts
<1>4. /\ c \in Codes /\ codes[c].state # "none" /\ codes \in [Codes -> CodeRow]
      /\ \A n \in Codes : codes[n] \in CodeRow /\ codes[n].tries \in Nat
      /\ \A s \in Requests : req[s].at \in Entering => req[s].code \in Codes /\ codes[req[s].code].state = "asked"
  BY <1>0, <1>1, CodeUnderWay DEF Using
<1>5. \A s \in Requests : req'[s] = IF s = r THEN Idle ELSE req[s]
  BY <1>2, <1>3 DEF RequestsWell
<1>6. /\ Cardinality(Counting(c)) \in Nat /\ Cardinality(Counting(c)') \in Nat
      /\ Cardinality(Counting(c)') = Cardinality(Counting(c)) - 1
  <2>1. r \in Counting(c) /\ Counting(c)' = Counting(c) \ {r}
    BY <1>0, <1>1, <1>5 DEF Counting, Idle
  <2> QED
    BY <1>4, <2>1, CountingFinite, FS_RemoveElement, FS_CardinalityType
<1>7. tried \in Nat /\ TriesLimit \in Int /\ tried + Cardinality(Counting(c)') <= TriesLimit
  <2>1. codes[c].tries + Cardinality(Counting(c)) <= TriesLimit
    BY <1>2, <1>4 DEF CodesWell, TriesLeft
  <2>2. TriesLimit \in Int
    BY <1>4, CountingFinite, LimitsAssumption DEF TriesLimit
  <2>3. codes[c].tries \in Nat
    BY <1>4
  <2> QED
    BY <1>6, <2>1, <2>2, <2>3
<1> HIDE DEF tried
<1>8. \A n \in Codes : codes'[n] = IF n = c THEN [codes[n] EXCEPT !.tries = tried] ELSE codes[n]
  BY <1>1, <1>4
<1>9. codes' \in [Codes -> CodeRow]
  <2>1. tried \in 0..TriesLimit
    BY <1>6, <1>7
  <2>2. [codes[c] EXCEPT !.tries = tried] \in CodeRow
    BY <1>4, <2>1 DEF CodeRow
  <2> QED
    BY <1>1, <1>4, <2>2
<1>10. TypeOK'
  BY <1>1, <1>2, <1>9 DEF TypeOK, CodeRow, TriesLimit
<1>11. ASSUME NEW n \in Codes
       PROVE  /\ codes'[n].state = codes[n].state
              /\ codes[n].state = "none" => codes'[n] = codes[n]
  <2>1. CASE n = c
    BY <1>4, <1>8, <2>1 DEF CodeRow
  <2>2. CASE n # c
    BY <1>8, <2>2
  <2> QED
    BY <2>1, <2>2
<1>12. RequestsWell'
  BY <1>1, <1>2, <1>3, <1>11, IdleAsksNothing, MoveKeepsRequests
<1>13. DrawnInOrder' /\ OneAsker' /\ PassedIsSpent'
  <2>1. \A s \in Requests : req'[s].at \in Asking => req[s].at \in Asking /\ req'[s].code = req[s].code
    BY <1>5 DEF Idle, Asking, Entering
  <2>2. \A s \in Requests : req'[s].at \in Entering =>
          req[s].at \in Entering /\ codes'[req[s].code].state = "asked"
    BY <1>4, <1>5, <1>11 DEF Idle, Entering
  <2>3. passed' \in [Codes -> {0, 1}]
    BY <1>1, <1>2 DEF CodesWell, PassedIsSpent
  <2> QED
    BY <1>1, <1>2, <1>11, <2>1, <2>2, <2>3, CodesMoveOn
<1>14. ASSUME NEW n \in Codes
       PROVE  codes'[n].tries + Cardinality(Counting(n)') <= TriesLimit
  <2>1. CASE n = c
    <3>1. codes'[n].tries = tried
      BY <1>4, <1>8, <2>1 DEF CodeRow
    <3> QED
      BY <1>7, <2>1, <3>1
  <2>2. CASE n # c
    <3>1. codes'[n] = codes[n]
      BY <1>8, <2>2
    <3>2. Counting(n)' \subseteq Counting(n)
      BY <1>5 DEF Counting, Idle
    <3>3. /\ Cardinality(Counting(n)') \in Nat /\ Cardinality(Counting(n)) \in Nat
          /\ Cardinality(Counting(n)') <= Cardinality(Counting(n))
      BY <3>2, FewerCounting
    <3>4. codes[n].tries + Cardinality(Counting(n)) <= TriesLimit /\ codes[n].tries \in Nat
      BY <1>2, <1>4 DEF CodesWell, TriesLeft
    <3> QED
      BY <1>7, <3>1, <3>3, <3>4
  <2> QED
    BY <2>1, <2>2
<1>15. TriesLeft'
  BY <1>14 DEF TriesLeft, Codes, TriesLimit
<1>16. TokensWell' /\ ExchangedOnce'
  BY <1>1, TokensFrame DEF AccountsInv
<1> QED
  BY <1>10, <1>12, <1>13, <1>15, <1>16 DEF AccountsInv, CodesWell

\* Of the requests that found a code correct, the one that finds it live passes.
LEMMA ConsumeInv == ASSUME AccountsInv, NEW r \in Requests, Consume(r) PROVE AccountsInv'
<1>0. PICK c \in Codes : c = req[r].code
  BY CodeUnderWay DEF Consume, Using
<1>1. /\ req[r].at = "consuming" /\ req[r].purpose \in Purposes
      /\ account' = account /\ tokens' = tokens /\ held' = held
      /\ verified' = verified /\ ended' = ended
  BY CodeUnderWay DEF Consume
<1>2. /\ codes \in [Codes -> CodeRow] /\ held' \in [Phones -> 0..Len(tokens)]
      /\ verified' \subseteq Phones /\ req[r].token \in 0..Len(tokens)
      /\ \A n \in Codes : codes[n] \in CodeRow /\ codes[n].tries \in Nat
      /\ passed \in [Codes -> {0, 1}]
      /\ \A n \in Codes : passed[n] = 1 => codes[n].state \in {"used", "gone"}
      /\ \A s \in Requests : req[s].at \in Entering => req[s].code \in Codes /\ codes[req[s].code].state = "asked"
  BY <1>1, CodeUnderWay
<1>3. CASE NotConsumed(c)
  <2> DEFINE stage == AfterCode(req[r].purpose)
             request == [req[r] EXCEPT !.at = stage]
  <2>1. /\ codes[c].state = "live" /\ codes' = [codes EXCEPT ![c].state = "used"]
        /\ passed' = [passed EXCEPT ![c] = passed[c] + 1] /\ Goes(r, stage)
    BY <1>0, <1>3 DEF Consume, NotConsumed
  <2>2. stage \in {"proving", "setting", "marking"}
    BY <1>1 DEF AfterCode, Purposes
  <2>3. /\ request \in Request /\ request.at = stage /\ req' = [req EXCEPT ![r] = request]
        /\ request.token = req[r].token
    <3>1. stage \in Stages
      BY <2>2 DEF Stages
    <3>2. request \in Request /\ req' = [req EXCEPT ![r] = request]
      BY <2>1, <3>1, RequestForms DEF AccountsInv
    <3> QED
      BY <3>2, CodeUnderWay DEF Request
  <2>4. request.at \notin Using \cup Carrying \cup {"rotating"} \cup Entering \cup Asking
    BY <2>2, <2>3 DEF Using, Carrying, Entering, Asking
  <2> HIDE DEF request, stage
  <2>5. \A n \in Codes : codes'[n] = IF n = c THEN [codes[n] EXCEPT !.state = "used"] ELSE codes[n]
    BY <1>2, <2>1
  <2>6. codes' \in [Codes -> CodeRow]
    BY <1>2, <2>1 DEF CodeRow
  <2>7. codes'[c].state = "used" /\ codes'[c].tries = codes[c].tries
    BY <1>2, <2>5 DEF CodeRow
  <2>8. ASSUME NEW n \in Codes
        PROVE  /\ codes'[n].state = "none" <=> codes[n].state = "none"
               /\ codes[n].state = "none" => codes'[n] = codes[n]
               /\ codes[n].state \in {"used", "gone"} => codes'[n].state \in {"used", "gone"}
               /\ codes'[n].tries <= codes[n].tries
    <3>1. CASE n = c
      BY <1>2, <2>1, <2>7, <3>1
    <3>2. CASE n # c
      <4>1. codes'[n] = codes[n]
        BY <2>5, <3>2
      <4> QED
        BY <1>2, <4>1
    <3> QED
      BY <3>1, <3>2
  <2>9. \A s \in Requests \ {r} : req[s].at \in Entering => codes'[req[s].code].state = "asked"
    BY <1>2, <2>1, <2>5
  <2>10. /\ passed' \in [Codes -> {0, 1}]
         /\ \A n \in Codes : passed'[n] = passed[n] \/ codes'[n].state \in {"used", "gone"}
    <3>1. passed[c] = 0
      BY <1>2, <2>1
    <3>2. passed' = [passed EXCEPT ![c] = 1]
      BY <2>1, <3>1
    <3> QED
      BY <1>2, <2>7, <3>2
  <2> QED
    BY <1>1, <1>2, <2>3, <2>4, <2>6, <2>8, <2>9, <2>10, CodesInv
<1>4. CASE ~NotConsumed(c)
  <2>1. Ends(r) /\ codes' = codes /\ passed' = passed
    BY <1>0, <1>4 DEF Consume
  <2> QED
    BY <1>1, <1>2, <2>1, IdleAsksNothing, RequestInv DEF Ends
<1> QED
  BY <1>3, <1>4

\* (signPhoneVerified) A number is proven; no code and no token changes.
LEMMA ProveInv == ASSUME AccountsInv, NEW r \in Requests, Prove(r) PROVE AccountsInv'
<1>1. Idle \in Request /\ req' = [req EXCEPT ![r] = Idle]
  BY RequestForms DEF AccountsInv, Ends, Prove
<1>2. verified' \subseteq Phones /\ held' \in [Phones -> 0..Len(tokens)]
  <2>1. req[r].phone \in Phones \cup {NoPhone}
    BY CodeUnderWay DEF Request
  <2> QED
    BY <2>1, CodeUnderWay DEF Prove
<1> QED
  BY <1>1, <1>2, IdleAsksNothing, RequestInv DEF Prove

\* The account changes, its session does not, and the request is over.
LEMMA AccountInv ==
  ASSUME AccountsInv, NEW r \in Requests, Ends(r),
         account' \in AccountRow, account'.refresh = account.refresh,
         codes' = codes, tokens' = tokens, held' = held,
         verified' = verified, passed' = passed, ended' = ended
  PROVE  AccountsInv'
<1>1. Idle \in Request /\ req' = [req EXCEPT ![r] = Idle]
  BY RequestForms DEF AccountsInv, Ends
<1>2. TypeOK'
  BY DEF AccountsInv, TypeOK, AccountRow
<1>3. TokensWell' /\ ExchangedOnce'
  BY TokensFrame DEF AccountsInv
<1> QED
  BY <1>1, <1>2, <1>3, IdleAsksNothing, MoveInv

\* (markEmailVerified) The address is verified, the session stays.
LEMMA MarkEmailVerifiedInv ==
  ASSUME AccountsInv, NEW r \in Requests, MarkEmailVerified(r) PROVE AccountsInv'
<1>1. account' \in AccountRow /\ account'.refresh = account.refresh
  BY DEF AccountsInv, TypeOK, AccountRow, MarkEmailVerified
<1> QED
  BY <1>1, AccountInv DEF MarkEmailVerified

\* The lock restarts the count, which stays below the limit.
LEMMA RecordFailureInv ==
  ASSUME AccountsInv, NEW r \in Requests, RecordFailure(r) PROVE AccountsInv'
<1>1. account \in AccountRow
  BY DEF AccountsInv, TypeOK, AccountRow
<1>2. CountFailure(account) \in AccountRow /\ CountFailure(account).refresh = account.refresh
  <2>1. CASE account.failures + 1 >= MaxFailures
    <3>1. 0 \in 0..(MaxFailures - 1)
      BY LimitsAssumption
    <3> QED
      BY <1>1, <2>1, <3>1 DEF AccountRow, CountFailure
  <2>2. CASE ~(account.failures + 1 >= MaxFailures)
    <3> DEFINE f == account.failures + 1
    <3>1. f \in 0..(MaxFailures - 1)
      BY <1>1, <2>2, LimitsAssumption DEF AccountRow
    <3>2. CountFailure(account) = [account EXCEPT !.failures = f]
      BY <2>2 DEF CountFailure
    <3> HIDE DEF f
    <3> QED
      BY <1>1, <3>1, <3>2 DEF AccountRow
  <2> QED
    BY <2>1, <2>2
<1> QED
  BY <1>2, AccountInv DEF RecordFailure
-----------------------------------------------------------------------------
(***************************************************************************)
(* Signing in and out, and changing the password.                          *)
(***************************************************************************)

\* What a request becomes that begins with no code.
LEMMA BeginInv ==
  ASSUME AccountsInv, NEW r \in Requests, NEW request \in Request, Begins(r, request),
         request.at \in {"creating", "starting", "changing", "failing", "rotating", "ending"},
         request.at \in Carrying => request.password \in Passwords,
         request.token \in 0..Len(tokens), request.at = "rotating" => request.token # 0,
         UNCHANGED <<account, codes, tokens, held, verified, passed, ended>>
  PROVE  AccountsInv'
<1>1. req' = [req EXCEPT ![r] = request]
  BY DEF Begins
<1>2. /\ account' = account /\ codes' = codes /\ tokens' = tokens /\ held' \in [Phones -> 0..Len(tokens)]
      /\ passed' = passed /\ ended' = ended /\ verified' \subseteq Phones
  BY DEF AccountsInv, TypeOK
<1>3. request.at \notin Asking \cup Using /\ request.at \notin {"counting", "consuming"}
  BY DEF Asking, Entering, Using
<1> QED
  BY <1>1, <1>2, <1>3, RequestInv

\* (AuthService.register) A registration begins with a password somebody chose.
LEMMA RegisterInv ==
  ASSUME AccountsInv, NEW r \in Requests, NEW p \in Phones, NEW pw \in Passwords, Register(r, p, pw)
  PROVE  AccountsInv'
<1> DEFINE request == [Idle EXCEPT !.at = "creating", !.password = pw, !.phone = p]
<1>1. request \in Request /\ request.at = "creating" /\ request.password \in Passwords /\ request.token = 0
  BY DEF Idle, Request, Stages, Carrying
<1>2. Begins(r, request) /\ UNCHANGED <<account, codes, tokens, held, verified, passed, ended>>
  BY DEF Register
<1> HIDE DEF request
<1> QED
  BY <1>1, <1>2, IdleAsksNothing, BeginInv

\* (changePassword) A change begins with a password somebody chose.
LEMMA ChangePasswordInv ==
  ASSUME AccountsInv, NEW r \in Requests, NEW p \in Phones, NEW pw \in Passwords, ChangePassword(r, p, pw)
  PROVE  AccountsInv'
<1> DEFINE request == [Idle EXCEPT !.at = "changing", !.password = pw, !.phone = p]
<1>1. request \in Request /\ request.at = "changing" /\ request.password \in Passwords /\ request.token = 0
  BY DEF Idle, Request, Stages, Carrying
<1>2. Begins(r, request) /\ UNCHANGED <<account, codes, tokens, held, verified, passed, ended>>
  BY DEF ChangePassword
<1> HIDE DEF request
<1> QED
  BY <1>1, <1>2, IdleAsksNothing, BeginInv

\* (AuthService.login) A sign-in carries the password it was compared with.
LEMMA LoginInv == ASSUME AccountsInv, NEW r \in Requests, NEW p \in Phones, Login(r, p) PROVE AccountsInv'
<1> DEFINE known == [Idle EXCEPT !.at = "starting", !.password = account.password, !.phone = p]
           wrong == [Idle EXCEPT !.at = "failing"]
<1>1. account.password \in Passwords
  BY DEF AccountsInv, TypeOK, Login, Exists
<1>2. known \in Request /\ known.at = "starting" /\ known.password \in Passwords /\ known.token = 0
  BY <1>1 DEF Idle, Request, Stages, Carrying
<1>3. wrong \in Request /\ wrong.at = "failing" /\ wrong.token = 0
  BY DEF Idle, Request, Stages
<1>4. /\ Begins(r, known) \/ Begins(r, wrong)
      /\ UNCHANGED <<account, codes, tokens, held, verified, passed, ended>>
  BY DEF Login
<1> HIDE DEF known, wrong
<1>5. CASE Begins(r, known)
  BY <1>2, <1>4, <1>5, IdleAsksNothing, BeginInv
<1>6. CASE Begins(r, wrong)
  BY <1>3, <1>4, <1>6, IdleAsksNothing, BeginInv DEF Carrying
<1> QED
  BY <1>4, <1>5, <1>6

\* (AuthService.refresh) A refresh begins with the token the phone has stored.
LEMMA RefreshInv == ASSUME AccountsInv, NEW r \in Requests, NEW p \in Phones, Refresh(r, p) PROVE AccountsInv'
<1> DEFINE known == [Idle EXCEPT !.at = "rotating", !.token = held[p], !.phone = p]
           other == [Idle EXCEPT !.at = "ending", !.phone = p]
<1>1. held[p] \in 0..Len(tokens) /\ held[p] # 0 /\ held[p] \in Nat
  BY DEF AccountsInv, TypeOK, TokensWell, Refresh
<1>2. known \in Request /\ known.at = "rotating" /\ known.token = held[p]
  BY <1>1 DEF Idle, Request, Stages
<1>3. other \in Request /\ other.at = "ending" /\ other.token = 0
  BY DEF Idle, Request, Stages
<1>4. /\ Begins(r, known) \/ Begins(r, other)
      /\ UNCHANGED <<account, codes, tokens, held, verified, passed, ended>>
  BY DEF Refresh
<1> HIDE DEF known, other
<1>5. CASE Begins(r, known)
  BY <1>1, <1>2, <1>4, <1>5, BeginInv DEF Carrying
<1>6. CASE Begins(r, other)
  BY <1>3, <1>4, <1>6, IdleAsksNothing, BeginInv DEF Carrying
<1> QED
  BY <1>4, <1>5, <1>6

\* (UsersRepository.insert) The account begins without a session; a second one is
\* refused.
LEMMA CreateInv == ASSUME AccountsInv, NEW r \in Requests, Create(r) PROVE AccountsInv'
<1>1. /\ req[r].at = "creating" /\ codes' = codes /\ tokens' = tokens
      /\ held' = held /\ verified' = {} /\ passed' = passed /\ ended' = ended
  BY DEF Create
<1>2. /\ req[r].password \in Passwords /\ req[r] \in Request
      /\ held' \in [Phones -> 0..Len(tokens)] /\ req[r].token \in 0..Len(tokens) /\ Len(tokens) \in Nat
  BY <1>1, CodeUnderWay DEF AccountsInv, RequestsWell, Carrying
<1>3. CASE Exists
  <2>1. account' = account /\ Idle \in Request /\ req' = [req EXCEPT ![r] = Idle]
    BY <1>3, RequestForms DEF AccountsInv, Create, Ends
  <2> QED
    BY <1>1, <1>2, <2>1, IdleAsksNothing, RequestInv
<1>4. CASE ~Exists
  <2> DEFINE request == [req[r] EXCEPT !.at = "starting"]
  <2>1. /\ account' = Fresh(req[r].password) /\ request \in Request /\ req' = [req EXCEPT ![r] = request]
        /\ request.at = "starting" /\ request.password \in Passwords /\ request.token = req[r].token
    BY <1>2, <1>4, RequestForms DEF AccountsInv, Create, Stages, Carrying, Request
  <2>2. account' \in AccountRow /\ account'.refresh = 0
    BY <1>2, <2>1, LimitsAssumption DEF AccountsInv, TokensWell, AccountRow, Fresh
  <2>3. TypeOK'
    BY <1>1, <2>2 DEF AccountsInv, TypeOK, AccountRow
  <2>4. TokensWell' /\ ExchangedOnce'
    BY <1>1, <2>2, TokensFrame DEF AccountsInv
  <2>5. request.at \notin Asking \cup Using /\ request.at \notin {"counting", "consuming", "rotating"}
    BY <2>1 DEF Asking, Entering, Using
  <2> HIDE DEF request
  <2> QED
    BY <1>1, <1>2, <2>1, <2>3, <2>4, <2>5, MoveInv
<1> QED
  BY <1>3, <1>4

\* A request ends with a token issued, of which somebody may hear.
LEMMA IssueInv ==
  ASSUME AccountsInv, NEW r \in Requests,
         NEW stage \in {"signed", "refreshed"}, Answers(r, stage, Len(tokens')),
         NEW from, NEW basis \in Passwords, NEW becomes \in AccountRow,
         Issues(from, basis, becomes),
         \/ from = 0 /\ OffRecord
         \/ from = account.refresh /\ from # 0 /\ UNCHANGED ended,
         held' = held, codes' = codes, verified' = verified, passed' = passed
  PROVE  AccountsInv'
<1>1. TypeOK /\ TokensWell /\ ExchangedOnce
  BY DEF AccountsInv
<1>2. /\ TokensWell' /\ ExchangedOnce' /\ account' \in AccountRow'
      /\ \A t \in 1..Len(tokens') : tokens'[t].from < t /\ tokens'[t].basis \in Passwords
      /\ Len(tokens') \in Nat /\ Len(tokens) \in Nat /\ Len(tokens') = Len(tokens) + 1
  BY <1>1, IssueKeepsTokens
<1>3. held' \in [Phones -> 0..Len(tokens')]
  <2>1. held \in [Phones -> 0..Len(tokens)]
    BY <1>1 DEF TypeOK
  <2>2. 0..Len(tokens) \subseteq 0..Len(tokens')
    BY <1>2
  <2> QED
    BY <2>1, <2>2
<1>4. TypeOK'
  BY <1>1, <1>2, <1>3 DEF TypeOK, AccountRow
<1>5. PICK request \in Request :
        /\ req' = [req EXCEPT ![r] = request]
        /\ request.at \in {"none", "signed", "refreshed"} /\ request.token \in {0, Len(tokens')}
  BY <1>2, AnswerForms DEF AccountsInv
<1>6. /\ request.at \notin Asking \cup Using \cup Carrying
      /\ request.at \notin {"counting", "consuming", "rotating"}
  BY <1>5 DEF Asking, Entering, Using, Carrying
<1>7. request.token \in 0..Len(tokens') /\ 0..Len(tokens) \subseteq 0..Len(tokens')
  BY <1>2, <1>5
<1> QED
  BY <1>2, <1>4, <1>5, <1>6, <1>7, MoveInv

\* (startSession) The token that was on record is ended, the new one is unused.
LEMMA StartSessionInv ==
  ASSUME AccountsInv, NEW r \in Requests, StartSession(r) PROVE AccountsInv'
<1>1. req[r].password \in Passwords
  BY DEF AccountsInv, RequestsWell, StartSession, Carrying
<1>2. [account EXCEPT !.failures = 0, !.locked = FALSE] \in AccountRow
  <2>1. 0 \in 0..(MaxFailures - 1)
    BY LimitsAssumption
  <2>2. account \in AccountRow
    BY DEF AccountsInv, TypeOK, AccountRow
  <2> QED
    BY <2>1, <2>2 DEF AccountRow
<1> QED
  BY <1>1, <1>2, IssueInv DEF StartSession

\* (changePassword) The phone that changed the password has a new session.
LEMMA KeepSignedInInv ==
  ASSUME AccountsInv, NEW r \in Requests, KeepSignedIn(r) PROVE AccountsInv'
<1>1. req[r].password \in Passwords
  BY DEF AccountsInv, RequestsWell, KeepSignedIn, Carrying
<1>2. account \in AccountRow
  BY DEF AccountsInv, TypeOK, AccountRow
<1> QED
  BY <1>1, <1>2, IssueInv DEF KeepSignedIn

\* (rotateRefreshToken) Only the token on record is exchanged, and it leaves the
\* record.
LEMMA RotateInv == ASSUME AccountsInv, NEW r \in Requests, Rotate(r) PROVE AccountsInv'
<1>1. /\ req[r].at = "rotating" /\ req[r].token # 0 /\ account \in AccountRow /\ held' = held
      /\ codes' = codes /\ verified' = verified /\ passed' = passed /\ ended' = ended
  BY DEF AccountsInv, RequestsWell, TypeOK, AccountRow, Rotate
<1>2. CASE OnRecord(r)
  <2>1. req[r].token = account.refresh
    BY <1>2 DEF OnRecord
  <2>2. tokens[req[r].token].basis \in Passwords
    <3>1. req[r].token \in 1..Len(tokens)
      BY <1>1, CodeUnderWay
    <3> QED
      BY <3>1 DEF AccountsInv, TypeOK
  <2> QED
    BY <1>1, <1>2, <2>1, <2>2, IssueInv DEF Rotate
<1>3. CASE ~OnRecord(r)
  <2> DEFINE request == [req[r] EXCEPT !.at = "ending", !.token = 0]
  <2>1. account' = account /\ tokens' = tokens
    BY <1>3 DEF Rotate
  <2>2. /\ request \in Request /\ req' = [req EXCEPT ![r] = request]
        /\ request.at = "ending" /\ request.token = 0
    BY <1>3, CodeUnderWay DEF Rotate, AccountsInv, RequestsWell, Stages, Request
  <2>3. request.at \notin Asking \cup Using \cup Carrying /\ request.at \notin {"counting", "consuming", "rotating"}
    BY <2>2 DEF Asking, Entering, Using, Carrying
  <2>4. verified' \subseteq Phones /\ held' \in [Phones -> 0..Len(tokens)] /\ request.token \in 0..Len(tokens)
    BY <1>1, <2>2, CodeUnderWay
  <2> HIDE DEF request
  <2> QED
    BY <1>1, <2>1, <2>2, <2>3, <2>4, RequestInv
<1> QED
  BY <1>2, <1>3

\* (endSession) The token taken off the record is ended.
LEMMA EndSessionInv == ASSUME AccountsInv, NEW r \in Requests, EndSession(r) PROVE AccountsInv'
<1>1. /\ codes' = codes /\ tokens' = tokens /\ verified' = verified
      /\ passed' = passed /\ account' = [account EXCEPT !.refresh = 0] /\ OffRecord
      /\ held' = held /\ Answers(r, "refreshed", 0)
  BY DEF EndSession
<1>2. PICK request \in Request :
        /\ req' = [req EXCEPT ![r] = request]
        /\ request.at \in {"none", "signed", "refreshed"} /\ request.token \in {0, 0}
  BY <1>1, AnswerForms DEF AccountsInv
<1>3. Len(tokens) \in Nat /\ 0 \in 0..Len(tokens) /\ account \in AccountRow
  BY DEF AccountsInv, TokensWell, TypeOK, AccountRow
<1>4. account' \in AccountRow /\ account'.refresh = 0
  BY <1>1, <1>3 DEF AccountRow
<1>5. /\ request.at \notin Asking \cup Using \cup Carrying
      /\ request.at \notin {"counting", "consuming", "rotating"}
  BY <1>2 DEF Asking, Entering, Using, Carrying
<1>6. TypeOK'
  BY <1>1, <1>4 DEF AccountsInv, TypeOK, AccountRow
<1>7. TokensWell' /\ ExchangedOnce'
  BY <1>1, <1>4, TokensFrame DEF AccountsInv
<1> QED
  BY <1>1, <1>2, <1>3, <1>5, <1>6, <1>7, MoveInv

\* (setPassword) The session ends with the password, and the failures start from none.
LEMMA SetPasswordInv == ASSUME AccountsInv, NEW r \in Requests, SetPassword(r) PROVE AccountsInv'
<1>1. /\ codes' = codes /\ tokens' = tokens /\ held' = held
      /\ verified' = verified /\ passed' = passed /\ OffRecord
      /\ account' = [Fresh(req[r].password) EXCEPT !.email = account.email]
  BY DEF SetPassword, NewPassword
<1>2. /\ req[r] \in Request /\ account \in AccountRow
      /\ Len(tokens) \in Nat /\ req[r].token \in 0..Len(tokens)
  BY DEF AccountsInv, RequestsWell, TypeOK, TokensWell, AccountRow
<1>3. account' \in AccountRow /\ account'.refresh = 0
  <2>1. 0 \in 0..(MaxFailures - 1) /\ 0 \in 0..Len(tokens)
    BY <1>2, LimitsAssumption
  <2>2. req[r].password \in Passwords \cup {Nobody} /\ account.email \in BOOLEAN
    BY <1>2 DEF Request, AccountRow
  <2> QED
    BY <1>1, <2>1, <2>2 DEF AccountRow, Fresh
<1>4. TypeOK'
  BY <1>1, <1>3 DEF AccountsInv, TypeOK, AccountRow
<1>5. TokensWell' /\ ExchangedOnce'
  BY <1>1, <1>3, TokensFrame DEF AccountsInv
<1>6. CASE req[r].at = "changing"
  <2> DEFINE request == [req[r] EXCEPT !.at = "keeping"]
  <2>1. /\ request \in Request /\ req' = [req EXCEPT ![r] = request] /\ request.at = "keeping"
        /\ request.password = req[r].password /\ request.token = req[r].token
    BY <1>2, <1>6, RequestForms DEF AccountsInv, SetPassword, Stages, Carrying, Request
  <2>2. req[r].password \in Passwords
    BY <1>6 DEF AccountsInv, RequestsWell, Carrying
  <2>3. request.at \notin Asking \cup Using /\ request.at \notin {"counting", "consuming", "rotating"}
    BY <2>1 DEF Asking, Entering, Using
  <2> HIDE DEF request
  <2> QED
    BY <1>1, <1>2, <1>4, <1>5, <2>1, <2>2, <2>3, MoveInv
<1>7. CASE req[r].at # "changing"
  <2>1. Idle \in Request /\ req' = [req EXCEPT ![r] = Idle]
    BY <1>7, RequestForms DEF AccountsInv, SetPassword, Ends
  <2> QED
    BY <1>1, <1>4, <1>5, <2>1, IdleAsksNothing, MoveInv
<1> QED
  BY <1>6, <1>7
-----------------------------------------------------------------------------
(***************************************************************************)
(* Answers come or are lost, apps are killed, the server stops, a lock or  *)
(* an interval ends.                                                       *)
(***************************************************************************)

\* (refresh in the client) What the phone has stored is a token or none.
LEMMA ForgottenType ==
  ASSUME AccountsInv, NEW r \in Requests PROVE Forgotten(r) \in [Phones -> 0..Len(tokens)]
<1>1. held \in [Phones -> 0..Len(tokens)] /\ 0 \in 0..Len(tokens)
  BY IdleAsksNothing, CodeUnderWay
<1> QED
  BY <1>1 DEF Forgotten

\* Requests end, or go on with what they carried; the server's tables are as they were.
LEMMA QuietInv ==
  ASSUME AccountsInv, UNCHANGED <<account, codes, tokens, passed, ended>>,
         held' \in [Phones -> 0..Len(tokens)], verified' \subseteq Phones,
         req' \in [Requests -> Request],
         \A s \in Requests :
           \/ req'[s] = Idle
           \/ /\ req'[s].at = req[s].at /\ req'[s].code = req[s].code /\ req'[s].purpose = req[s].purpose
              /\ req'[s].password = req[s].password /\ req'[s].token = req[s].token
  PROVE  AccountsInv'
<1>1. TypeOK /\ RequestsWell /\ CodesWell /\ TokensWell /\ ExchangedOnce
  BY DEF AccountsInv
<1>2. TypeOK'
  BY <1>1 DEF TypeOK
<1>3. RequestsWell'
  <2>1. ASSUME NEW s \in Requests
        PROVE  /\ req'[s].at \in Asking \cup Using => req'[s].code \in Codes /\ codes'[req'[s].code].state # "none"
               /\ req'[s].at = "consuming" => req'[s].purpose \in Purposes
               /\ req'[s].at \in Carrying => req'[s].password \in Passwords
               /\ req'[s].token \in 0..Len(tokens')
               /\ req'[s].at = "rotating" => req'[s].token # 0
    <3>1. CASE req'[s] = Idle
      BY <3>1, IdleAsksNothing
    <3>2. CASE req'[s] # Idle
      BY <1>1, <3>2 DEF RequestsWell
    <3> QED
      BY <3>1, <3>2
  <2>2. Request' = Request
    BY DEF Request, Stages, Purposes, Codes
  <2> QED
    BY <2>1, <2>2 DEF RequestsWell, Codes, Purposes
<1>4. /\ codes' \in [Codes -> CodeRow'] /\ passed' \in [Codes -> {0, 1}]
      /\ \A n \in Codes : codes'[n].tries <= codes[n].tries
  <2>1. codes' \in [Codes -> CodeRow']
    BY <1>1 DEF TypeOK, CodeRow, TriesLimit
  <2>2. \A n \in Codes : codes'[n].tries <= codes[n].tries
    BY <1>1, LimitsAssumption, RequestsAssumption, FS_CardinalityType DEF TypeOK
  <2> QED
    BY <1>1, <2>1, <2>2 DEF CodesWell, PassedIsSpent
<1>5. \A n \in Codes : Counting(n)' \subseteq Counting(n)
  BY IdleAsksNothing DEF Counting
<1>6. \A s \in Requests : req'[s].at \in Asking => req[s].at \in Asking /\ req'[s].code = req[s].code
  BY IdleAsksNothing
<1>7. \A s \in Requests : req'[s].at \in Entering =>
        req[s].at \in Entering /\ codes'[req[s].code].state = "asked"
  BY <1>1, IdleAsksNothing DEF CodesWell, OneAsker
<1>8. DrawnInOrder' /\ OneAsker' /\ PassedIsSpent'
  BY <1>1, <1>4, <1>6, <1>7, CodesMoveOn
<1>9. TriesLeft'
  BY <1>1, <1>4, <1>5, TriesFrame
<1>10. TokensWell' /\ ExchangedOnce'
  BY <1>1, TokensFrame
<1> QED
  BY <1>2, <1>3, <1>8, <1>9, <1>10 DEF AccountsInv, CodesWell

\* What nobody waits for ends if it is an answer, and goes on as it is if it is a request.
LEMMA UnheardForms ==
  ASSUME AccountsInv, NEW r \in Requests
  PROVE  /\ Unheard(req[r]) \in Request
         /\ \/ Unheard(req[r]) = Idle
            \/ /\ Unheard(req[r]).at = req[r].at /\ Unheard(req[r]).code = req[r].code
               /\ Unheard(req[r]).purpose = req[r].purpose /\ Unheard(req[r]).password = req[r].password
               /\ Unheard(req[r]).token = req[r].token
<1>1. req[r] \in Request
  BY CodeUnderWay
<1> QED
  BY <1>1, IdleAsksNothing DEF Unheard, Request

\* (tokens.save, tokens.clear) The phone stores the token it was told, or none.
LEMMA StoreInv == ASSUME AccountsInv, NEW r \in Requests, Store(r) PROVE AccountsInv'
<1>1. /\ req[r].token \in 0..Len(tokens) /\ held \in [Phones -> 0..Len(tokens)]
      /\ verified \subseteq Phones /\ req \in [Requests -> Request]
  BY CodeUnderWay DEF AccountsInv, RequestsWell
<1>2. held' = [held EXCEPT ![req[r].phone] = req[r].token] /\ req' = [req EXCEPT ![r] = Idle]
  BY DEF Store, Ends
<1>3. held' \in [Phones -> 0..Len(tokens)]
  BY <1>1, <1>2
<1>4. req' \in [Requests -> Request] /\ \A s \in Requests : req'[s] = Idle \/ req'[s] = req[s]
  BY <1>1, <1>2, IdleAsksNothing
<1> QED
  BY <1>1, <1>3, <1>4, QuietInv DEF Store

\* The answer is lost; what was begun goes on.
LEMMA NoAnswerInv == ASSUME AccountsInv, NEW r \in Requests, NoAnswer(r) PROVE AccountsInv'
<1>1. verified \subseteq Phones /\ req \in [Requests -> Request]
  BY CodeUnderWay DEF AccountsInv, RequestsWell
<1>2. held' \in [Phones -> 0..Len(tokens)]
  BY ForgottenType DEF NoAnswer
<1>3. req' = [req EXCEPT ![r] = Unheard(req[r])]
  BY DEF NoAnswer
<1>4. req' \in [Requests -> Request] /\ \A s \in Requests : req'[s] = IF s = r THEN Unheard(req[s]) ELSE req[s]
  BY <1>1, <1>3, UnheardForms
<1> QED
  BY <1>1, <1>2, <1>4, UnheardForms, QuietInv DEF NoAnswer

\* The app is killed; what it had stored is there when it is opened again.
LEMMA KillInv == ASSUME AccountsInv, NEW p \in Phones, Kill(p) PROVE AccountsInv'
<1>1. /\ verified \subseteq Phones /\ held \in [Phones -> 0..Len(tokens)] /\ req \in [Requests -> Request]
  BY DEF AccountsInv, TypeOK, RequestsWell
<1>2. req' = [r \in Requests |-> IF req[r].phone = p THEN Unheard(req[r]) ELSE req[r]]
  BY DEF Kill
<1>3. \A s \in Requests : req'[s] = Unheard(req[s]) \/ req'[s] = req[s]
  BY <1>2
<1>4. req' \in [Requests -> Request]
  BY <1>1, <1>2, UnheardForms
<1> QED
  BY <1>1, <1>3, <1>4, UnheardForms, QuietInv DEF Kill

\* (signOut) The phone forgets its token.
LEMMA LogoutInv == ASSUME AccountsInv, NEW p \in Phones, Logout(p) PROVE AccountsInv'
<1>1. /\ verified \subseteq Phones /\ held \in [Phones -> 0..Len(tokens)] /\ req \in [Requests -> Request]
      /\ Len(tokens) \in Nat
  BY DEF AccountsInv, TypeOK, TokensWell, RequestsWell
<1>2. held' \in [Phones -> 0..Len(tokens)]
  BY <1>1 DEF Logout
<1> QED
  BY <1>1, <1>2, QuietInv DEF Logout

\* (OtpService.issue) A code that was not entered is not there; the rest is as it was.
LEMMA StopInv == ASSUME AccountsInv, NEW r \in Requests, Stop(r) PROVE AccountsInv'
<1>1. held' \in [Phones -> 0..Len(tokens)] /\ verified \subseteq Phones
  BY ForgottenType, CodeUnderWay DEF Stop
<1>2. CASE req[r].at \in Entering
  BY <1>1, <1>2, GiveUpInv DEF Stop, Entering, Asking
<1>3. CASE req[r].at \notin Entering
  BY <1>1, <1>3, IdleAsksNothing, RequestInv DEF Stop, Entering, Ends
<1> QED
  BY <1>2, <1>3

\* No request moves, no code and no token changes.
LEMMA StillInv ==
  ASSUME AccountsInv, UNCHANGED <<req, codes, tokens, held, verified, passed, ended>>,
         TypeOK', account'.refresh = account.refresh
  PROVE  AccountsInv'
<1>1. RequestsWell'
  BY DEF AccountsInv, RequestsWell, Request, Stages, Codes
<1>2. CodesWell'
  BY DEF AccountsInv, CodesWell, DrawnInOrder, OneAsker, PassedIsSpent, TriesLeft, TriesLimit, Counting, Codes
<1>3. TokensWell' /\ ExchangedOnce'
  BY TokensFrame DEF AccountsInv
<1> QED
  BY <1>1, <1>2, <1>3 DEF AccountsInv

\* (LOCK_MINUTES) The end of a lock changes no session.
LEMMA LockEndsInv == ASSUME AccountsInv, LockEnds PROVE AccountsInv'
<1>1. TypeOK' /\ account'.refresh = account.refresh
  BY DEF AccountsInv, TypeOK, LockEnds
<1> QED
  BY <1>1, StillInv DEF LockEnds

\* (OTP_RESEND_SECONDS) A code is no longer recent, and otherwise as it was.
LEMMA IntervalPassesInv ==
  ASSUME AccountsInv, NEW n \in Codes, IntervalPasses(n) PROVE AccountsInv'
<1>1. TypeOK /\ RequestsWell /\ CodesWell /\ TokensWell /\ ExchangedOnce
  BY DEF AccountsInv
<1>2. /\ codes[n].recent /\ codes' = [codes EXCEPT ![n].recent = FALSE]
      /\ UNCHANGED <<account, tokens, req, held, verified, passed, ended>>
  BY DEF IntervalPasses
<1>3. codes \in [Codes -> CodeRow]
  BY <1>1 DEF TypeOK, CodeRow, TriesLimit
<1>4. codes' \in [Codes -> CodeRow']
  BY <1>2, <1>3 DEF CodeRow, TriesLimit
<1>5. ASSUME NEW m \in Codes
      PROVE  /\ codes'[m].state = codes[m].state /\ codes'[m].tries = codes[m].tries
             /\ codes[m].state = "none" => codes'[m] = codes[m]
  <2>1. CASE m = n
    <3>1. codes'[m].state = codes[m].state /\ codes'[m].tries = codes[m].tries
      BY <1>2, <1>3, <2>1 DEF CodeRow
    <3>2. codes[m].state # "none"
      BY <1>1, <1>2, <2>1 DEF CodesWell, DrawnInOrder, NoCode
    <3> QED
      BY <3>1, <3>2
  <2>2. CASE m # n
    <3>1. codes'[m] = codes[m]
      BY <1>2, <1>3, <2>2
    <3> QED
      BY <3>1
  <2> QED
    BY <2>1, <2>2
<1>6. TypeOK'
  BY <1>1, <1>2, <1>4 DEF TypeOK, CodeRow, TriesLimit
<1>7. RequestsWell'
  BY <1>1, <1>2, <1>5 DEF RequestsWell, Request, Stages, Codes, Purposes
<1>8. DrawnInOrder' /\ OneAsker' /\ PassedIsSpent'
  <2>1. /\ \A r \in Requests : req'[r].at \in Entering =>
             req[r].at \in Entering /\ codes'[req[r].code].state = "asked"
        /\ passed' \in [Codes -> {0, 1}]
    BY <1>1, <1>2, <1>5, CodeUnderWay DEF CodesWell, PassedIsSpent
  <2> QED
    BY <1>1, <1>2, <1>5, <2>1, CodesMoveOn
<1>9. TriesLeft'
  <2>1. \A m \in Codes : codes'[m].tries <= codes[m].tries
    <3>1. \A m \in Codes : codes[m].tries \in Nat
      BY CodeUnderWay, RequestsAssumption, LimitsAssumption, FS_CardinalityType, <1>3 DEF CodeRow, TriesLimit
    <3> QED
      BY <1>5, <3>1
  <2>2. \A m \in Codes : Counting(m)' = Counting(m)
    BY <1>2 DEF Counting
  <2> QED
    BY <1>1, <1>4, <2>1, <2>2, TriesFrame
<1>10. TokensWell' /\ ExchangedOnce'
  BY <1>1, <1>2, TokensFrame
<1> QED
  BY <1>6, <1>7, <1>8, <1>9, <1>10 DEF AccountsInv, CodesWell

\* Every statement keeps the invariant.
LEMMA NextAccountsInv == ASSUME AccountsInv, Next PROVE AccountsInv'
<1>1. ASSUME NEW r \in Requests, NEW purpose \in Purposes,
             \/ Ask(r, purpose)
             \/ \E right \in BOOLEAN, pw \in Passwords \cup {Nobody}, p \in Phones \cup {NoPhone} :
                  Verify(r, purpose, right, pw, p)
      PROVE  AccountsInv'
  BY <1>1, AskInv, VerifyInv
<1>2. ASSUME NEW r \in Requests, NEW p \in Phones,
             \/ \E pw \in Passwords : Register(r, p, pw) \/ ChangePassword(r, p, pw)
             \/ Login(r, p) \/ Refresh(r, p)
      PROVE  AccountsInv'
  BY <1>2, RegisterInv, ChangePasswordInv, LoginInv, RefreshInv
<1>3. ASSUME NEW r \in Requests,
             \/ InvalidateActive(r) \/ Insert(r) \/ Deliver(r) \/ Remove(r)
             \/ IncrementAttempts(r) \/ Consume(r) \/ Prove(r) \/ MarkEmailVerified(r)
      PROVE  AccountsInv'
  BY <1>3, InvalidateActiveInv, InsertInv, DeliverInv, RemoveInv, IncrementAttemptsInv, ConsumeInv,
     ProveInv, MarkEmailVerifiedInv
<1>4. ASSUME NEW r \in Requests,
             \/ Create(r) \/ StartSession(r) \/ RecordFailure(r)
             \/ Rotate(r) \/ EndSession(r) \/ SetPassword(r) \/ KeepSignedIn(r)
             \/ Store(r) \/ NoAnswer(r) \/ Stop(r)
      PROVE  AccountsInv'
  BY <1>4, CreateInv, StartSessionInv, RecordFailureInv, RotateInv, EndSessionInv,
     SetPasswordInv, KeepSignedInInv, StoreInv, NoAnswerInv, StopInv
<1>5. ASSUME NEW p \in Phones, Logout(p) \/ Kill(p) PROVE AccountsInv'
  BY <1>5, LogoutInv, KillInv
<1> QED
  BY <1>1, <1>2, <1>3, <1>4, <1>5, LockEndsInv, IntervalPassesInv DEF Next
-----------------------------------------------------------------------------
\* Whatever the requests ask at once, and wherever the server stops: the codes, the tokens and
\* the requests fit together as described above.
THEOREM AccountsInvariant == Spec => []AccountsInv
<1>1. AccountsInv /\ UNCHANGED vars => AccountsInv'
  <2> SUFFICES ASSUME AccountsInv, UNCHANGED vars PROVE AccountsInv'
    OBVIOUS
  <2>1. /\ UNCHANGED <<req, codes, tokens, held, verified, passed, ended>>
        /\ account' = account
    BY DEF vars
  <2>2. TypeOK'
    BY <2>1 DEF AccountsInv, TypeOK
  <2> QED
    BY <2>1, <2>2, StillInv
<1> QED
  BY InitAccountsInv, NextAccountsInv, <1>1, PTL DEF Spec

\* The state is typed; in particular a code takes no more wrong guesses than its limit and
\* those compared at the same time, and the failures counted stay below the lock's limit.
THEOREM AccountsTypeCorrect == Spec => []TypeOK
<1>1. AccountsInv => TypeOK
  BY DEF AccountsInv
<1> QED
  BY <1>1, AccountsInvariant, PTL

\* (OtpService.verify) A code passes once, whoever has compared it at the same time.
THEOREM CodesPassOnce == Spec => []CodesWorkOnce
<1>1. AccountsInv => CodesWorkOnce
  BY DEF AccountsInv, CodesWell, PassedIsSpent, CodesWorkOnce
<1> QED
  BY <1>1, AccountsInvariant, PTL

\* (AuthService.refresh) A refresh token is exchanged once, and never once its session ended.
THEOREM TokensExchangedOnce == Spec => []ExchangedOnce
<1>1. AccountsInv => ExchangedOnce
  BY DEF AccountsInv
<1> QED
  BY <1>1, AccountsInvariant, PTL
-----------------------------------------------------------------------------
(***************************************************************************)
(* The account implements OneSession.                                      *)
(***************************************************************************)

Resets(request) == request.at = "setting" \/ (request.at = "consuming" /\ request.purpose = "password_reset")

\* Before the number is registered there is no session, and none on its way; whoever
\* resets the password has typed a new one.
SessionNeedsAccount ==
  /\ ~Exists => account.refresh = 0 /\ \A r \in Requests : req[r].at \notin {"starting", "keeping", "rotating"}
  /\ \A r \in Requests : Resets(req[r]) => req[r].password # Nobody

\* A request moves on; an account, once there, stays.
LEMMA AccountStays ==
  ASSUME AccountsInv, SessionNeedsAccount, NEW r \in Requests, NEW request, req' = [req EXCEPT ![r] = request],
         Resets(request) => request.password # Nobody,
         Exists => Exists',
         ~Exists' => account'.refresh = 0 /\ request.at \notin {"starting", "keeping", "rotating"}
  PROVE  SessionNeedsAccount'
<1>1. \A s \in Requests : req'[s] = IF s = r THEN request ELSE req[s]
  BY DEF AccountsInv, RequestsWell
<1>2. \A s \in Requests : Resets(req'[s]) => req'[s].password # Nobody
  BY <1>1 DEF SessionNeedsAccount
<1> QED
  BY <1>1, <1>2 DEF SessionNeedsAccount, Resets

\* A request moves on and leaves the account alone.
LEMMA RequestMoves ==
  ASSUME AccountsInv, SessionNeedsAccount, NEW r \in Requests, NEW request, req' = [req EXCEPT ![r] = request],
         Resets(request) => request.password # Nobody,
         account' = account,
         ~Exists => request.at \notin {"starting", "keeping", "rotating"}
  PROVE  SessionNeedsAccount'
<1>1. Exists' <=> Exists
  BY DEF Exists
<1> QED
  BY <1>1, AccountStays DEF SessionNeedsAccount

\* A request ends.
LEMMA RequestEnds ==
  ASSUME AccountsInv, SessionNeedsAccount, NEW r \in Requests, req' = [req EXCEPT ![r] = Idle],
         Exists => Exists', ~Exists' => account'.refresh = 0
  PROVE  SessionNeedsAccount'
<1>1. ~Resets(Idle) /\ Idle.at = "none"
  BY DEF Resets, Idle
<1> QED
  BY <1>1, AccountStays

\* A request ends with an answer about tokens.
LEMMA RequestAnswers ==
  ASSUME AccountsInv, SessionNeedsAccount, NEW r \in Requests,
         NEW stage \in {"signed", "refreshed"}, NEW token \in Nat, Answers(r, stage, token),
         Exists => Exists', ~Exists' => account'.refresh = 0
  PROVE  SessionNeedsAccount'
<1>1. PICK request \in Request :
        req' = [req EXCEPT ![r] = request] /\ request.at \in {"none", "signed", "refreshed"}
  BY AnswerForms DEF AccountsInv
<1>2. ~Resets(request) /\ request.at \notin {"starting", "keeping", "rotating"}
  BY <1>1 DEF Resets
<1> QED
  BY <1>1, <1>2, AccountStays

\* Requests end, or go on as they were.
LEMMA NothingBegins ==
  ASSUME AccountsInv, SessionNeedsAccount,
         account'.password = account.password, account'.refresh = account.refresh,
         \A s \in Requests :
           \/ req'[s] = Idle
           \/ /\ req'[s].at = req[s].at /\ req'[s].purpose = req[s].purpose
              /\ req'[s].password = req[s].password
  PROVE  SessionNeedsAccount'
<1>1. ~Resets(Idle) /\ Idle.at = "none"
  BY DEF Resets, Idle
<1>2. Exists' <=> Exists
  BY DEF Exists
<1>3. ASSUME NEW s \in Requests
      PROVE  /\ Resets(req'[s]) => req'[s].password # Nobody
             /\ req'[s].at \in {"starting", "keeping", "rotating"} => req'[s].at = req[s].at
  <2>1. CASE req'[s] = Idle
    BY <1>1, <2>1
  <2>2. CASE req'[s] # Idle
    BY <2>2 DEF SessionNeedsAccount, Resets
  <2> QED
    BY <2>1, <2>2
<1> QED
  BY <1>2, <1>3 DEF SessionNeedsAccount, Resets

\* What Goes makes of a request.
LEMMA NextStage ==
  ASSUME AccountsInv, NEW r \in Requests, NEW stage \in Stages, Goes(r, stage)
  PROVE  \E request : /\ req' = [req EXCEPT ![r] = request]
                /\ request.at = stage /\ request.password = req[r].password /\ request.purpose = req[r].purpose
<1> DEFINE request == [req[r] EXCEPT !.at = stage]
<1>1. req[r] \in Request /\ req' = [req EXCEPT ![r] = request]
  BY RequestForms DEF AccountsInv, RequestsWell
<1>2. request.at = stage /\ request.password = req[r].password /\ request.purpose = req[r].purpose
  BY <1>1 DEF Request
<1> HIDE DEF request
<1> QED
  BY <1>1, <1>2

\* (OtpService.issue, verify) A code needs no session; only a reset carries a password.
LEMMA CodesNeedNoSession ==
  ASSUME AccountsInv, SessionNeedsAccount, NEW r \in Requests,
         \/ \E purpose \in Purposes :
              \/ Ask(r, purpose)
              \/ \E right \in BOOLEAN, pw \in Passwords \cup {Nobody}, p \in Phones \cup {NoPhone} :
                   Verify(r, purpose, right, pw, p)
         \/ InvalidateActive(r) \/ Insert(r) \/ Deliver(r) \/ Remove(r)
         \/ IncrementAttempts(r) \/ Consume(r) \/ Prove(r) \/ MarkEmailVerified(r)
  PROVE  SessionNeedsAccount'
<1>1. ASSUME NEW purpose \in Purposes, Ask(r, purpose) PROVE SessionNeedsAccount'
  <2> DEFINE request == [Idle EXCEPT !.at = "replacing", !.purpose = purpose, !.code = Drawn + 1]
  <2>1. req' = [req EXCEPT ![r] = request] /\ account' = account
    BY <1>1 DEF Ask, Begins
  <2>2. ~Resets(request) /\ request.at \notin {"starting", "keeping", "rotating"}
    BY DEF Resets, Idle
  <2> HIDE DEF request
  <2> QED
    BY <2>1, <2>2, RequestMoves
<1>2. ASSUME NEW purpose \in Purposes, NEW right \in BOOLEAN, NEW pw \in Passwords \cup {Nobody},
             NEW p \in Phones \cup {NoPhone}, Verify(r, purpose, right, pw, p)
      PROVE  SessionNeedsAccount'
  <2> DEFINE request == [Idle EXCEPT !.at = IF right THEN "consuming" ELSE "counting",
                            !.purpose = purpose, !.code = Latest(purpose), !.password = pw, !.phone = p]
  <2>1. /\ req' = [req EXCEPT ![r] = request] /\ account' = account
        /\ pw # Nobody <=> purpose = "password_reset" /\ right
    BY <1>2 DEF Verify, Begins
  <2>2. /\ request.at = (IF right THEN "consuming" ELSE "counting")
        /\ request.purpose = purpose /\ request.password = pw
    BY DEF Idle
  <2>3. Resets(request) => request.password # Nobody
    BY <2>1, <2>2 DEF Resets
  <2>4. request.at \notin {"starting", "keeping", "rotating"}
    BY <2>2
  <2> HIDE DEF request
  <2> QED
    BY <2>1, <2>3, <2>4, RequestMoves
<1>3. ASSUME NEW stage \in {"inserting", "sending", "removing"}, Goes(r, stage), account' = account
      PROVE  SessionNeedsAccount'
  <2>1. PICK request : req' = [req EXCEPT ![r] = request] /\ request.at = stage
    BY <1>3, NextStage DEF Stages, Asking, Entering
  <2> QED
    BY <1>3, <2>1, RequestMoves DEF Resets
<1>4. ASSUME Ends(r), account' = account PROVE SessionNeedsAccount'
  BY <1>4, RequestEnds DEF Ends, Exists, SessionNeedsAccount
<1>5. CASE Consume(r) /\ NotConsumed(req[r].code)
  <2>1. /\ req[r].at = "consuming" /\ req[r].purpose \in Purposes
        /\ Goes(r, AfterCode(req[r].purpose)) /\ account' = account
    BY <1>5 DEF AccountsInv, RequestsWell, Consume
  <2>2. /\ AfterCode(req[r].purpose) \in {"proving", "setting", "marking"}
        /\ AfterCode(req[r].purpose) = "setting" => req[r].purpose = "password_reset"
    BY <2>1 DEF AfterCode, Purposes
  <2>3. PICK request : /\ req' = [req EXCEPT ![r] = request] /\ request.at = AfterCode(req[r].purpose)
                 /\ request.password = req[r].password
    BY <2>1, <2>2, NextStage DEF Stages
  <2>4. Resets(request) => request.password # Nobody
    BY <2>1, <2>2, <2>3 DEF Resets, SessionNeedsAccount
  <2> QED
    BY <2>1, <2>2, <2>3, <2>4, RequestMoves
<1>6. CASE MarkEmailVerified(r)
  <2>1. account \in AccountRow
    BY DEF AccountsInv, TypeOK, AccountRow
  <2>2. account'.password = account.password /\ account'.refresh = account.refresh
    BY <1>6, <2>1 DEF MarkEmailVerified, AccountRow
  <2> QED
    BY <1>6, <2>2, RequestEnds DEF MarkEmailVerified, Ends, Exists, SessionNeedsAccount
<1> QED
  BY <1>1, <1>2, <1>3, <1>4, <1>5, <1>6
  DEF InvalidateActive, Insert, Deliver, Remove, IncrementAttempts, Consume, Prove

\* (login, register, refresh, changePassword) A session is started for an account that is
\* there, and renewed with the token it has on record.
LEMMA SessionsNeedAccount ==
  ASSUME AccountsInv, SessionNeedsAccount, NEW r \in Requests,
         \/ \E p \in Phones :
              \/ \E pw \in Passwords : Register(r, p, pw) \/ ChangePassword(r, p, pw)
              \/ Login(r, p) \/ Refresh(r, p)
         \/ Create(r) \/ StartSession(r) \/ RecordFailure(r)
         \/ Rotate(r) \/ EndSession(r) \/ SetPassword(r) \/ KeepSignedIn(r)
  PROVE  SessionNeedsAccount'
<1>0. account \in AccountRow /\ req[r] \in Request /\ Len(tokens) \in Nat
  BY DEF AccountsInv, TypeOK, AccountRow, RequestsWell, TokensWell
<1>1. ASSUME NEW request, Begins(r, request), request.at \notin {"setting", "consuming"}, account' = account,
             ~Exists => request.at \notin {"starting", "keeping", "rotating"}
      PROVE  SessionNeedsAccount'
  <2>1. req' = [req EXCEPT ![r] = request]
    BY <1>1 DEF Begins
  <2> QED
    BY <1>1, <2>1, RequestMoves DEF Resets
<1>2. ASSUME NEW p \in Phones, NEW pw \in Passwords, Register(r, p, pw) \/ ChangePassword(r, p, pw)
      PROVE  SessionNeedsAccount'
  <2>1. PICK request : Begins(r, request) /\ request.at \in {"creating", "changing"} /\ account' = account
    BY <1>2 DEF Register, ChangePassword, Idle
  <2> QED
    BY <1>1, <2>1
<1>3. ASSUME NEW p \in Phones, Login(r, p) PROVE SessionNeedsAccount'
  <2>1. PICK request : Begins(r, request) /\ request.at \in {"starting", "failing"} /\ account' = account /\ Exists
    BY <1>3 DEF Login, Idle
  <2> QED
    BY <1>1, <2>1
<1>4. ASSUME NEW p \in Phones, Refresh(r, p) PROVE SessionNeedsAccount'
  <2> DEFINE known == [Idle EXCEPT !.at = "rotating", !.token = held[p], !.phone = p]
             other == [Idle EXCEPT !.at = "ending", !.phone = p]
  <2>0. known.at = "rotating" /\ other.at = "ending"
    BY DEF Idle
  <2>1. PICK request : /\ Begins(r, request) /\ request.at \in {"rotating", "ending"} /\ account' = account
                       /\ request.at = "rotating" => account.refresh # 0
    <3>1. (account.refresh # 0 /\ Begins(r, known)) \/ Begins(r, other)
      BY <1>4 DEF Refresh
    <3>2. account' = account
      BY <1>4 DEF Refresh
    <3> HIDE DEF known, other
    <3> QED
      BY <2>0, <3>1, <3>2
  <2>2. request.at = "rotating" => Exists
    BY <2>1 DEF SessionNeedsAccount
  <2> QED
    BY <1>1, <2>1, <2>2
<1>5. CASE Create(r)
  <2>1. CASE Exists
    BY <1>5, <2>1, RequestEnds DEF Create, Ends, Exists
  <2>2. CASE ~Exists
    <3>1. /\ account' = Fresh(req[r].password) /\ Goes(r, "starting") /\ req[r].password \in Passwords
      BY <1>5, <2>2 DEF Create, AccountsInv, RequestsWell, Carrying
    <3>2. Exists'
      BY <3>1, NobodyAssumption DEF Exists, Fresh
    <3>3. PICK request : req' = [req EXCEPT ![r] = request] /\ request.at = "starting"
      BY <3>1, NextStage DEF Stages, Carrying
    <3> QED
      BY <3>2, <3>3, AccountStays DEF Resets
  <2> QED
    BY <2>1, <2>2
<1>6. CASE StartSession(r) \/ KeepSignedIn(r)
  <2>1. Exists
    BY <1>6 DEF StartSession, KeepSignedIn, SessionNeedsAccount
  <2>2. account'.password = account.password
    BY <1>0, <1>6 DEF StartSession, KeepSignedIn, Issues, AccountRow
  <2>3. Exists'
    BY <2>1, <2>2 DEF Exists
  <2>4. Answers(r, "signed", Len(tokens')) /\ Len(tokens') \in Nat
    BY <1>0, <1>6 DEF StartSession, KeepSignedIn, Issues, AccountsInv, TokensWell
  <2> QED
    BY <2>3, <2>4, RequestAnswers
<1>7. CASE Rotate(r)
  <2>1. Exists
    BY <1>7 DEF Rotate, SessionNeedsAccount
  <2>2. account'.password = account.password
    BY <1>0, <1>7 DEF Rotate, Issues, AccountRow
  <2>3. Exists'
    BY <2>1, <2>2 DEF Exists
  <2>4. CASE OnRecord(r)
    <3>1. Answers(r, "refreshed", Len(tokens')) /\ Len(tokens') \in Nat
      BY <1>0, <1>7, <2>4 DEF Rotate, Issues, AccountsInv, TokensWell
    <3> QED
      BY <2>3, <3>1, RequestAnswers
  <2>5. CASE ~OnRecord(r)
    <3> DEFINE request == [req[r] EXCEPT !.at = "ending", !.token = 0]
    <3>1. req' = [req EXCEPT ![r] = request] /\ request.at = "ending"
      BY <1>0, <1>7, <2>5 DEF Rotate, Request, AccountsInv, RequestsWell
    <3> HIDE DEF request
    <3> QED
      BY <2>3, <3>1, AccountStays DEF Resets
  <2> QED
    BY <2>4, <2>5
<1>8. CASE EndSession(r)
  <2>1. account'.password = account.password /\ account'.refresh = 0 /\ Answers(r, "refreshed", 0)
    BY <1>0, <1>8 DEF EndSession, AccountRow
  <2> QED
    BY <2>1, RequestAnswers DEF Exists
<1>9. CASE RecordFailure(r)
  <2>1. account'.password = account.password /\ account'.refresh = account.refresh
    BY <1>0, <1>9 DEF RecordFailure, CountFailure, AccountRow
  <2> QED
    BY <1>9, <2>1, RequestEnds DEF RecordFailure, Ends, Exists, SessionNeedsAccount
<1>10. CASE SetPassword(r)
  <2>1. req[r].password # Nobody
    BY <1>10, NobodyAssumption
    DEF SetPassword, SessionNeedsAccount, Resets, AccountsInv, RequestsWell, Carrying
  <2>2. Exists'
    BY <1>10, <2>1 DEF SetPassword, NewPassword, Fresh, Exists
  <2>3. CASE Ends(r)
    BY <2>2, <2>3, RequestEnds DEF Ends
  <2>4. CASE Goes(r, "keeping")
    <3>1. PICK request : req' = [req EXCEPT ![r] = request] /\ request.at = "keeping"
      BY <2>4, NextStage DEF Stages, Carrying
    <3> QED
      BY <2>2, <3>1, AccountStays DEF Resets
  <2> QED
    BY <1>10, <2>3, <2>4 DEF SetPassword
<1> QED
  BY <1>2, <1>3, <1>4, <1>5, <1>6, <1>7, <1>8, <1>9, <1>10

\* An answer that comes or is lost, an app that is killed, a server that stops: no request
\* begins, and the account is as it was.
LEMMA NothingBegun ==
  ASSUME AccountsInv,
         \/ \E r \in Requests : Store(r) \/ NoAnswer(r) \/ Stop(r)
         \/ \E p \in Phones : Logout(p) \/ Kill(p)
         \/ LockEnds \/ \E n \in Codes : IntervalPasses(n)
         \/ UNCHANGED vars
  PROVE  /\ account'.password = account.password /\ account'.refresh = account.refresh
         /\ tokens' = tokens /\ ended' = ended
         /\ \A s \in Requests :
              \/ req'[s] = Idle
              \/ /\ req'[s].at = req[s].at /\ req'[s].purpose = req[s].purpose
                 /\ req'[s].password = req[s].password
<1>1. account \in AccountRow /\ req \in [Requests -> Request]
  BY DEF AccountsInv, TypeOK, AccountRow, RequestsWell
<1>2. /\ account'.password = account.password /\ account'.refresh = account.refresh
      /\ tokens' = tokens /\ ended' = ended
  BY <1>1 DEF Store, NoAnswer, Stop, Logout, Kill, LockEnds, IntervalPasses, vars, AccountRow
<1>3. ASSUME NEW s \in Requests
      PROVE  req'[s] = Idle \/ req'[s] = req[s] \/ req'[s] = Unheard(req[s])
  BY <1>1 DEF Store, NoAnswer, Stop, Logout, Kill, LockEnds, IntervalPasses, vars, Ends
<1> QED
  BY <1>2, <1>3, UnheardForms

\* Every statement keeps sessions to accounts.
LEMMA NextSessionNeedsAccount ==
  AccountsInv /\ SessionNeedsAccount /\ [Next]_vars => SessionNeedsAccount'
<1> SUFFICES ASSUME AccountsInv, SessionNeedsAccount, [Next]_vars PROVE SessionNeedsAccount'
  OBVIOUS
<1>1. CASE \/ \E r \in Requests : Store(r) \/ NoAnswer(r) \/ Stop(r)
           \/ \E p \in Phones : Logout(p) \/ Kill(p)
           \/ LockEnds \/ \E n \in Codes : IntervalPasses(n)
           \/ UNCHANGED vars
  BY <1>1, NothingBegun, NothingBegins
<1> QED
  BY <1>1, CodesNeedNoSession, SessionsNeedAccount DEF Next
-----------------------------------------------------------------------------
\* A token is issued: it is the last, it is on record, and the one it was given for is spent.
LEMMA IssueSession ==
  ASSUME AccountsInv, NEW from \in Nat, NEW basis \in Passwords, NEW becomes \in AccountRow,
         Issues(from, basis, becomes)
  PROVE  /\ Len(tokens') = Len(tokens) + 1 /\ account'.refresh = Len(tokens) + 1
         /\ Exchanged' = Exchanged \cup ({from} \ {0})
<1> DEFINE new == Len(tokens) + 1
           entry == [from |-> from, basis |-> basis]
<1>1. tokens \in Seq([from: Nat, basis: Passwords]) /\ Len(tokens) \in Nat
  BY DEF AccountsInv, TokensWell
<1>2. tokens' = Append(tokens, entry) /\ account' = [becomes EXCEPT !.refresh = new]
  BY DEF Issues
<1>3. entry.from = from
  OBVIOUS
<1> HIDE DEF entry
<1>4. /\ Len(tokens') = new /\ tokens'[new] = entry
      /\ \A t \in 1..Len(tokens) : tokens'[t] = tokens[t]
  BY <1>1, <1>2
<1>5. account'.refresh = new
  BY <1>2 DEF AccountRow
<1>6. 1..Len(tokens') = (1..Len(tokens)) \cup {new}
  BY <1>1, <1>4
<1>7. Exchanged' = Exchanged \cup ({from} \ {0})
  BY <1>3, <1>4, <1>6 DEF Exchanged
<1> QED
  BY <1>4, <1>5, <1>7

\* (login, register, changePassword) A session that begins is a sign-in.
LEMMA StartIsSignIn ==
  ASSUME AccountsInv, NEW r \in Requests, StartSession(r) \/ KeepSignedIn(r)
  PROVE  Session!SignIn
<1>1. account \in AccountRow /\ req[r].password \in Passwords
  BY DEF AccountsInv, TypeOK, AccountRow, RequestsWell, StartSession, KeepSignedIn, Carrying
<1>2. [account EXCEPT !.failures = 0, !.locked = FALSE] \in AccountRow
  <2>1. 0 \in 0..(MaxFailures - 1)
    BY LimitsAssumption
  <2> QED
    BY <1>1, <2>1 DEF AccountRow
<1>3. \E becomes \in AccountRow : Issues(0, req[r].password, becomes)
  BY <1>1, <1>2 DEF StartSession, KeepSignedIn
<1>4. /\ Len(tokens') = Len(tokens) + 1 /\ account'.refresh = Len(tokens) + 1
      /\ Exchanged' = Exchanged
  BY <1>1, <1>3, IssueSession
<1>5. OffRecord
  BY DEF StartSession, KeepSignedIn
<1> QED
  BY <1>4, <1>5 DEF Session!SignIn, Session!Issues, Session!Ends, OffRecord

\* (rotateRefreshToken) The conditional update is an exchange; a refresh that comes too
\* late, with the same token or with one that was replaced, changes no session.
LEMMA RotateIsExchange ==
  ASSUME AccountsInv, NEW r \in Requests, Rotate(r)
  PROVE  Session!Exchange \/ UNCHANGED Session!session
<1>1. CASE OnRecord(r)
  <2>1. /\ req[r].token = account.refresh /\ req[r].token # 0 /\ req[r].token \in 1..Len(tokens)
        /\ account \in AccountRow
    BY <1>1, CodeUnderWay DEF OnRecord, Rotate, AccountsInv, TypeOK, AccountRow
  <2>2. tokens[req[r].token].basis \in Passwords /\ req[r].token \in Nat
    BY <2>1 DEF AccountsInv, TypeOK
  <2>3. Issues(req[r].token, tokens[req[r].token].basis, account) /\ ended' = ended
    BY <1>1 DEF Rotate
  <2>4. /\ Len(tokens') = Len(tokens) + 1 /\ account'.refresh = Len(tokens) + 1
        /\ Exchanged' = Exchanged \cup {account.refresh}
    BY <2>1, <2>2, <2>3, IssueSession
  <2> QED
    BY <2>1, <2>3, <2>4 DEF Session!Exchange, Session!Issues
<1>2. CASE ~OnRecord(r)
  BY <1>2 DEF Rotate, Session!session, Exchanged
<1> QED
  BY <1>1, <1>2

\* (endSession, setPassword) What takes the token off the record ends the session.
LEMMA OffRecordIsEnd ==
  ASSUME AccountsInv, NEW r \in Requests, EndSession(r) \/ SetPassword(r)
  PROVE  Session!End
<1>1. account \in AccountRow
  BY DEF AccountsInv, TypeOK, AccountRow
<1>2. account'.refresh = 0
  BY <1>1 DEF EndSession, SetPassword, NewPassword, Fresh, AccountRow
<1>3. OffRecord /\ tokens' = tokens
  BY DEF EndSession, SetPassword
<1> QED
  BY <1>2, <1>3 DEF Session!End, Session!Ends, OffRecord, Exchanged

\* A step that leaves the tokens alone changes no session.
LEMMA NoSessionStep ==
  ASSUME tokens' = tokens, ended' = ended, account'.refresh = account.refresh
  PROVE  UNCHANGED Session!session
BY DEF Session!session, Exchanged

\* Every statement is a step of OneSession or changes nothing in it.
LEMMA SessionStep ==
  AccountsInv /\ SessionNeedsAccount /\ [Next]_vars => [Session!Next]_Session!session
<1> SUFFICES ASSUME AccountsInv, SessionNeedsAccount, [Next]_vars
             PROVE  [Session!Next]_Session!session
  OBVIOUS
<1>0. account \in AccountRow
  BY DEF AccountsInv, TypeOK, AccountRow
<1>1. ASSUME NEW r \in Requests,
             \/ \E purpose \in Purposes :
                  \/ Ask(r, purpose)
                  \/ \E right \in BOOLEAN, pw \in Passwords \cup {Nobody}, p \in Phones \cup {NoPhone} :
                       Verify(r, purpose, right, pw, p)
             \/ InvalidateActive(r) \/ Insert(r) \/ Deliver(r) \/ Remove(r)
             \/ IncrementAttempts(r) \/ Consume(r) \/ Prove(r)
             \/ \E p \in Phones :
                  \/ \E pw \in Passwords : Register(r, p, pw) \/ ChangePassword(r, p, pw)
                  \/ Login(r, p) \/ Refresh(r, p)
      PROVE  UNCHANGED Session!session
  <2>1. tokens' = tokens /\ ended' = ended /\ account' = account
    BY <1>1 DEF Ask, Verify, InvalidateActive, Insert, Deliver, Remove, IncrementAttempts, Consume, Prove,
                Register, ChangePassword, Login, Refresh
  <2> QED
    BY <2>1, NoSessionStep
<1>2. ASSUME NEW r \in Requests, MarkEmailVerified(r) \/ RecordFailure(r)
      PROVE  UNCHANGED Session!session
  <2>1. account'.refresh = account.refresh
    BY <1>0, <1>2 DEF MarkEmailVerified, RecordFailure, CountFailure, AccountRow
  <2> QED
    BY <1>2, <2>1, NoSessionStep DEF MarkEmailVerified, RecordFailure
<1>3. ASSUME NEW r \in Requests, Create(r) PROVE UNCHANGED Session!session
  <2>1. account'.refresh = account.refresh
    BY <1>3 DEF Create, Fresh, SessionNeedsAccount
  <2> QED
    BY <1>3, <2>1, NoSessionStep DEF Create
<1>4. ASSUME NEW r \in Requests,
             \/ StartSession(r) \/ KeepSignedIn(r) \/ Rotate(r) \/ EndSession(r) \/ SetPassword(r)
      PROVE  [Session!Next]_Session!session
  BY <1>4, StartIsSignIn, RotateIsExchange, OffRecordIsEnd DEF Session!Next
<1>5. CASE \/ \E r \in Requests : Store(r) \/ NoAnswer(r) \/ Stop(r)
           \/ \E p \in Phones : Logout(p) \/ Kill(p)
           \/ LockEnds \/ \E n \in Codes : IntervalPasses(n)
           \/ UNCHANGED vars
  BY <1>5, NothingBegun, NoSessionStep
<1> QED
  BY <1>1, <1>2, <1>3, <1>4, <1>5 DEF Next

\* (AuthService.login, refresh, resetPassword, changePassword) Taken statement by statement,
\* with the server stopping between any two, answers lost and apps killed: of the refresh
\* tokens issued the last is valid or none is, and whatever was exchanged, replaced or ended
\* stays invalid, whichever phone has it stored still and however often it is presented.
THEOREM AccountsImplementSession == Spec => ImplementsSession
<1>1. Init => Session!Init
  BY DEF Init, Fresh, Exchanged, Session!Init
<1>2. Init => SessionNeedsAccount
  BY DEF Init, Fresh, Idle, SessionNeedsAccount, Resets
<1> QED
  BY <1>1, <1>2, AccountsInvariant, NextSessionNeedsAccount, SessionStep, PTL
  DEF Spec, ImplementsSession, Session!Spec
=============================================================================
