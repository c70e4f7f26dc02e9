------------------------------ MODULE Accounts ------------------------------
(***************************************************************************)
(* One phone number, the account registered with it, its one-time codes,   *)
(* its one session on record, and the phones that use them.                *)
(*                                                                         *)
(* A request is a row of statements in autocommit mode, each of which acts *)
(* on what an earlier one has read; req holds what is still to be done and *)
(* which phone will store what it is told.  The server may stop between    *)
(* two statements; the answer may come late or never; the app may be       *)
(* killed, and opened again with the tokens it had stored, while the       *)
(* request runs on.                                                        *)
(*                                                                         *)
(* Left out: profile, picture and language; a change of the number; how    *)
(* codes, tokens and passwords are hashed, and throttling.                 *)
(***************************************************************************)
EXTENDS Naturals, Sequences, FiniteSets, FiniteSetsExt

CONSTANTS
  Phones,
  Requests,     \* requests on the server at a time
  Passwords,
  Nobody,       \* the password of an account that does not exist
  NoPhone,      \* who hears of a request when nobody does, or stores nothing of it
  MaxFailures,  \* MAX_LOGIN_FAILURES
  MaxAttempts,  \* OTP_MAX_ATTEMPTS
  MaxCodes,     \* bound: codes ever asked for
  MaxTokens     \* bound: refresh tokens ever issued

ASSUME LimitsAssumption == MaxFailures \in Nat \ {0} /\ MaxAttempts \in Nat \ {0}
ASSUME BoundsAssumption == MaxCodes \in Nat /\ MaxTokens \in Nat
ASSUME RequestsAssumption == IsFiniteSet(Requests)
ASSUME NobodyAssumption == Nobody \notin Passwords /\ NoPhone \notin Phones

Purposes == {"phone_register", "password_reset", "email_verify"}
Codes == 1..MaxCodes
Tokens == 1..MaxTokens

VARIABLES
  account,  \* users: password, failures, locked, refresh (the hash on record), email verified
  codes,    \* otp_challenges, in the order of created_at; recent within OTP_RESEND_SECONDS
  tokens,   \* the refresh tokens issued: from which one, and for which password
  req,      \* the requests on the server, and the answers on their way
  held,     \* the token each phone has stored
  verified, \* phones with a phoneVerificationToken
  passed,   \* history: how often each code was found correct and consumed
  ended     \* history: tokens taken off the record otherwise than in exchange

vars == <<account, codes, tokens, req, held, verified, passed, ended>>

Idle == [at |-> "none", purpose |-> "none", code |-> 0, password |-> Nobody, token |-> 0, phone |-> NoPhone]
Absent == [purpose |-> "none", state |-> "gone", tries |-> 0, recent |-> FALSE]
NoCode == [purpose |-> "none", state |-> "none", tries |-> 0, recent |-> FALSE]
Fresh(password) == [password |-> password, failures |-> 0, locked |-> FALSE, refresh |-> 0, email |-> FALSE]

\* The number is new.
Init ==
  /\ account = Fresh(Nobody)
  /\ codes = [n \in Codes |-> NoCode] /\ tokens = <<>>
  /\ req = [r \in Requests |-> Idle]
  /\ held = [p \in Phones |-> 0]
  /\ verified = {} /\ ended = {}
  /\ passed = [n \in Codes |-> 0]

\* findByPhoneHash, findConflicts
Exists == account.password # Nobody

\* JwtAuthGuard, with the access token that came with the one held
SignedIn(p) == held[p] # 0

\* verifyPhoneVerified
Proven(p) == p \in verified

Goes(r, stage) == req' = [req EXCEPT ![r].at = stage]
Ends(r) == req' = [req EXCEPT ![r] = Idle]
Begins(r, request) == req[r] = Idle /\ req' = [req EXCEPT ![r] = request]

\* What the answer says of tokens is on its way to the phone that waits for it.
Answers(r, stage, token) ==
  req' = [req EXCEPT ![r] = IF req[r].phone = NoPhone THEN Idle
                            ELSE [Idle EXCEPT !.at = stage, !.token = token, !.phone = req[r].phone]]

Latest(purpose) == Max({n \in Codes : codes[n].purpose = purpose /\ codes[n].state \in {"live", "used"}} \cup {0})

Drawn == Cardinality({n \in Codes : codes[n] # NoCode})
-----------------------------------------------------------------------------
(* Asking for a code: OtpService.issue *)

\* requestPhoneOtp: 409 for a number that is registered
Unregistered == ~Exists

\* requestEmailOtp: 409 once the address is verified
Unverified == Exists /\ (\E p \in Phones : SignedIn(p)) /\ ~account.email

\* forgotPassword answers the same for an unknown number, and issues nothing.
MayAsk(purpose) ==
  CASE purpose = "phone_register" -> Unregistered
    [] purpose = "password_reset" -> Exists
    [] purpose = "email_verify" -> Unverified

\* findLatest: 429 in the resend interval of the latest.
Ask(r, purpose) ==
  LET n == Drawn + 1 IN
  /\ req[r] = Idle /\ MayAsk(purpose) /\ n \in Codes
  /\ Latest(purpose) # 0 => ~codes[Latest(purpose)].recent
  /\ Begins(r, [Idle EXCEPT !.at = "replacing", !.purpose = purpose, !.code = n])
  /\ codes' = [codes EXCEPT ![n] = [purpose |-> purpose, state |-> "asked", tries |-> 0, recent |-> TRUE]]
  /\ UNCHANGED <<account, tokens, held, verified, passed, ended>>

InvalidateActive(r) ==
  /\ req[r].at = "replacing"
  /\ codes' = [n \in Codes |->
       IF codes[n].purpose = req[r].purpose /\ codes[n].state = "live"
         THEN [codes[n] EXCEPT !.state = "used"] ELSE codes[n]]
  /\ Goes(r, "inserting")
  /\ UNCHANGED <<account, tokens, held, verified, passed, ended>>

Insert(r) ==
  /\ req[r].at = "inserting"
  /\ codes' = [codes EXCEPT ![req[r].code].state = "live"]
  /\ Goes(r, "sending")
  /\ UNCHANGED <<account, tokens, held, verified, passed, ended>>

\* The gateway takes the message, or fails.
Deliver(r) ==
  /\ req[r].at = "sending"
  /\ \/ Ends(r) \/ Goes(r, "removing")
  /\ UNCHANGED <<account, codes, tokens, held, verified, passed, ended>>

Remove(r) ==
  /\ req[r].at = "removing"
  /\ codes' = [codes EXCEPT ![req[r].code] = Absent]
  /\ Ends(r)
  /\ UNCHANGED <<account, tokens, held, verified, passed, ended>>
-----------------------------------------------------------------------------
(* Using a code: OtpService.verify *)

\* verifyPhoneOtp, resetPassword, verifyEmail
MayVerify(purpose) ==
  CASE purpose = "phone_register" -> TRUE
    [] purpose = "password_reset" -> Exists
    [] purpose = "email_verify" -> Unverified

\* findLatest: it is live, may be tried, has not expired (it may have, once the
\* resend interval is over) and is what was typed, or is not.  A new password comes
\* with the code of a reset; a proof of the number goes to the phone that waits.
Verify(r, purpose, right, password, p) ==
  LET n == Latest(purpose) IN
  /\ req[r] = Idle
  /\ password # Nobody <=> purpose = "password_reset" /\ right
  /\ p # NoPhone <=> purpose = "phone_register" /\ right
  /\ MayVerify(purpose)
  /\ n \in Codes /\ codes[n].state = "live" /\ codes[n].tries < MaxAttempts
  /\ Begins(r, [Idle EXCEPT !.at = IF right THEN "consuming" ELSE "counting",
                            !.purpose = purpose, !.code = n, !.password = password, !.phone = p])
  /\ UNCHANGED <<account, codes, tokens, held, verified, passed, ended>>

IncrementAttempts(r) ==
  /\ req[r].at = "counting"
  /\ codes' = [codes EXCEPT ![req[r].code].tries =
                 IF codes[req[r].code].state = "gone" THEN @ ELSE @ + 1]
  /\ Ends(r)
  /\ UNCHANGED <<account, tokens, held, verified, passed, ended>>

\* Fault: a code found correct is consumed whatever has become of it.
Present(n) == codes[n].state # "gone"

\* ... AND consumed_at IS NULL
NotConsumed(n) == codes[n].state = "live"

AfterCode(purpose) ==
  CASE purpose = "phone_register" -> "proving"
    [] purpose = "password_reset" -> "setting"
    [] purpose = "email_verify" -> "marking"

Consume(r) ==
  LET n == req[r].code IN
  /\ req[r].at = "consuming"
  /\ IF NotConsumed(n)
       THEN /\ codes' = [codes EXCEPT ![n].state = "used"]
            /\ passed' = [passed EXCEPT ![n] = @ + 1]
            /\ Goes(r, AfterCode(req[r].purpose))
       ELSE Ends(r) /\ UNCHANGED <<codes, passed>>
  /\ UNCHANGED <<account, tokens, held, verified, ended>>

\* signPhoneVerified, for the phone's register_draft.dart.  Once the number is registered
\* it serves nothing, and is not followed.
Prove(r) ==
  /\ req[r].at = "proving"
  /\ verified' = IF Exists THEN verified ELSE verified \cup ({req[r].phone} \ {NoPhone})
  /\ Ends(r)
  /\ UNCHANGED <<account, codes, tokens, held, passed, ended>>

MarkEmailVerified(r) ==
  /\ req[r].at = "marking"
  /\ account' = [account EXCEPT !.email = TRUE]
  /\ Ends(r)
  /\ UNCHANGED <<codes, tokens, held, verified, passed, ended>>
-----------------------------------------------------------------------------
(* Signing in and out *)

OffRecord == ended' = ended \cup ({account.refresh} \ {0})

\* Bound: what needs a new pair is not begun once the last has been issued.
Room == Len(tokens) < MaxTokens

\* A pair is issued, and the account becomes becomes with its refresh token.
Issues(from, basis, becomes) ==
  LET t == Len(tokens) + 1 IN
  /\ t \in Tokens
  /\ tokens' = Append(tokens, [from |-> from, basis |-> basis])
  /\ account' = [becomes EXCEPT !.refresh = t]

\* findConflicts
Register(r, p, password) ==
  /\ Proven(p) /\ ~Exists
  /\ Begins(r, [Idle EXCEPT !.at = "creating", !.password = password, !.phone = p])
  /\ UNCHANGED <<account, codes, tokens, held, verified, passed, ended>>

\* The number is unique: 409 if it has been registered since.
Create(r) ==
  /\ req[r].at = "creating"
  /\ IF Exists THEN Ends(r) /\ UNCHANGED account
     ELSE account' = Fresh(req[r].password) /\ Goes(r, "starting")
  /\ verified' = {}
  /\ UNCHANGED <<codes, tokens, held, passed, ended>>

\* 429 while it is locked.  The password typed is the one just read, or is not.
Login(r, p) ==
  /\ Exists /\ ~account.locked
  /\ \/ Room /\ Begins(r, [Idle EXCEPT !.at = "starting", !.password = account.password, !.phone = p])
     \/ Begins(r, [Idle EXCEPT !.at = "failing"])
  /\ UNCHANGED <<account, codes, tokens, held, verified, passed, ended>>

\* startSession, recordLoginSuccess
StartSession(r) ==
  /\ req[r].at = "starting"
  /\ Issues(0, req[r].password, [account EXCEPT !.failures = 0, !.locked = FALSE])
  /\ OffRecord
  /\ Answers(r, "signed", Len(tokens'))
  /\ UNCHANGED <<codes, held, verified, passed>>

\* Fault: the lock leaves the count as it is.
CountOn(acc) ==
  [acc EXCEPT !.failures = @ + 1, !.locked = @ \/ acc.failures + 1 >= MaxFailures]

\* recordLoginFailure, one statement
CountFailure(acc) ==
  IF acc.failures + 1 >= MaxFailures
    THEN [acc EXCEPT !.failures = 0, !.locked = TRUE]
    ELSE [acc EXCEPT !.failures = @ + 1]

RecordFailure(r) ==
  /\ req[r].at = "failing"
  /\ account' = CountFailure(account)
  /\ Ends(r)
  /\ UNCHANGED <<codes, tokens, held, verified, passed, ended>>

\* LOCK_MINUTES are over.
LockEnds ==
  /\ account.locked
  /\ account' = [account EXCEPT !.locked = FALSE]
  /\ UNCHANGED <<codes, tokens, req, held, verified, passed, ended>>

\* a refresh under way, or its answer
Refreshing(r) == req[r].at \in {"rotating", "ending", "refreshed"}

\* inflight, which an app that was killed has forgotten
Waits(p) == \E r \in Requests : Refreshing(r) /\ req[r].phone = p

\* The access token has expired: the client answers a 401 with a refresh, one at a
\* time.  The token presented is the one on record, or is not.
Refresh(r, p) ==
  /\ held[p] # 0 /\ ~Waits(p)
  /\ IF account.refresh = held[p]
       THEN Room /\ Begins(r, [Idle EXCEPT !.at = "rotating", !.token = held[p], !.phone = p])
       ELSE Begins(r, [Idle EXCEPT !.at = "ending", !.phone = p])
  /\ UNCHANGED <<account, codes, tokens, held, verified, passed, ended>>

\* Fault: the hash read before is taken to be there still.
AsRead(r) == TRUE

\* ... AND refresh_token_hash = the one presented
OnRecord(r) == account.refresh = req[r].token

\* The phone keeps the token it presented until the answer comes.
Rotate(r) ==
  /\ req[r].at = "rotating"
  /\ IF OnRecord(r)
       THEN /\ Issues(req[r].token, tokens[req[r].token].basis, account)
            /\ Answers(r, "refreshed", Len(tokens'))
       ELSE /\ req' = [req EXCEPT ![r].at = "ending", ![r].token = 0]
            /\ UNCHANGED <<account, tokens>>
  /\ UNCHANGED <<codes, held, verified, passed, ended>>

\* A token that is not on record ends the session, whosever it is: a 401.
EndSession(r) ==
  /\ req[r].at = "ending"
  /\ account' = [account EXCEPT !.refresh = 0]
  /\ OffRecord
  /\ Answers(r, "refreshed", 0)
  /\ UNCHANGED <<codes, tokens, held, verified, passed>>

\* The client signs out by itself: it sends no access token to /auth/logout, and
\* the guard answers 401.  A refresh it waits for may store its tokens after.
Logout(p) ==
  /\ held[p] # 0
  /\ held' = [held EXCEPT ![p] = 0]
  /\ UNCHANGED <<account, codes, tokens, req, verified, passed, ended>>
-----------------------------------------------------------------------------
(* Changing the password *)

\* The access token still serves, and the current password has been given.
ChangePassword(r, p, password) ==
  /\ SignedIn(p) /\ Exists /\ Room
  /\ Begins(r, [Idle EXCEPT !.at = "changing", !.password = password, !.phone = p])
  /\ UNCHANGED <<account, codes, tokens, held, verified, passed, ended>>

\* Fault: the session on record goes on.
KeepsSession(password) ==
  [Fresh(password) EXCEPT !.email = account.email, !.refresh = account.refresh]

NewPassword(password) == [Fresh(password) EXCEPT !.email = account.email]

\* setPassword: every session is ended, and the lock.
SetPassword(r) ==
  /\ req[r].at \in {"changing", "setting"}
  /\ account' = NewPassword(req[r].password)
  /\ OffRecord
  /\ IF req[r].at = "changing" THEN Goes(r, "keeping") ELSE Ends(r)
  /\ UNCHANGED <<codes, tokens, held, verified, passed>>

\* ... and a new one begins, for the phone that has changed it.
KeepSignedIn(r) ==
  /\ req[r].at = "keeping"
  /\ Issues(0, req[r].password, account)
  /\ OffRecord
  /\ Answers(r, "signed", Len(tokens'))
  /\ UNCHANGED <<codes, held, verified, passed>>
-----------------------------------------------------------------------------
(* Answers that come, late or never *)

Answered(q) == q.at \in {"signed", "refreshed"}

\* tokens.save, or tokens.clear after a refresh that was refused, over whatever the
\* phone has stored since
Store(r) ==
  /\ Answered(req[r])
  /\ held' = [held EXCEPT ![req[r].phone] = req[r].token]
  /\ Ends(r)
  /\ UNCHANGED <<account, codes, tokens, verified, passed, ended>>

\* a request that nobody waits for runs on
Unheard(q) == IF Answered(q) THEN Idle ELSE [q EXCEPT !.phone = NoPhone]

\* refresh() in the client: whatever fails, the phone forgets its tokens.
Forgotten(r) == IF Refreshing(r) /\ req[r].phone # NoPhone THEN [held EXCEPT ![req[r].phone] = 0] ELSE held

\* The request goes on, but the connection is lost or times out.
NoAnswer(r) ==
  /\ req[r].phone # NoPhone
  /\ held' = Forgotten(r)
  /\ req' = [req EXCEPT ![r] = Unheard(@)]
  /\ UNCHANGED <<account, codes, tokens, verified, passed, ended>>

\* The app is killed and opened again: the tokens stored are as they were, one that
\* the server has exchanged meanwhile included, and nothing waits for an answer.
Kill(p) ==
  /\ req' = [r \in Requests |-> IF req[r].phone = p THEN Unheard(req[r]) ELSE req[r]]
  /\ verified' = verified \ {p}
  /\ UNCHANGED <<account, codes, tokens, held, passed, ended>>

\* The server stops before the next statement, or the statement fails.
Stop(r) ==
  /\ req[r] # Idle /\ ~Answered(req[r])
  /\ Ends(r)
  /\ held' = Forgotten(r)
  /\ codes' = IF req[r].at \in {"replacing", "inserting"} THEN [codes EXCEPT ![req[r].code] = Absent] ELSE codes
  /\ UNCHANGED <<account, tokens, verified, passed, ended>>

\* OTP_RESEND_SECONDS after it was made, the older codes first.  Bound: it makes no
\* difference once the last code has been asked for.
IntervalPasses(n) ==
  /\ Drawn < MaxCodes
  /\ codes[n].recent /\ \A m \in Codes : codes[m].recent => n <= m
  /\ codes' = [codes EXCEPT ![n].recent = FALSE]
  /\ UNCHANGED <<account, tokens, req, held, verified, passed, ended>>

Next ==
  \/ \E r \in Requests :
       \/ \E purpose \in Purposes :
            \/ Ask(r, purpose)
            \/ \E right \in BOOLEAN, pw \in Passwords \cup {Nobody}, p \in Phones \cup {NoPhone} :
                 Verify(r, purpose, right, pw, p)
       \/ InvalidateActive(r) \/ Insert(r) \/ Deliver(r) \/ Remove(r)
       \/ IncrementAttempts(r) \/ Consume(r) \/ Prove(r) \/ MarkEmailVerified(r)
       \/ \E p \in Phones :
            \/ \E pw \in Passwords : Register(r, p, pw) \/ ChangePassword(r, p, pw)
            \/ Login(r, p) \/ Refresh(r, p)
       \/ Create(r) \/ StartSession(r) \/ RecordFailure(r)
       \/ Rotate(r) \/ EndSession(r) \/ SetPassword(r) \/ KeepSignedIn(r)
       \/ Store(r) \/ NoAnswer(r) \/ Stop(r)
  \/ \E p \in Phones : Logout(p) \/ Kill(p)
  \/ LockEnds \/ \E n \in Codes : IntervalPasses(n)

Spec == Init /\ [][Next]_vars
-----------------------------------------------------------------------------
\* Wrong codes that are compared at once may all be counted; a lock restarts the
\* count of wrong passwords.
TypeOK ==
  /\ account \in [password: Passwords \cup {Nobody}, failures: 0..(MaxFailures - 1), locked: BOOLEAN,
                  refresh: 0..Len(tokens), email: BOOLEAN]
  /\ codes \in [Codes -> [purpose: Purposes \cup {"none"},
                          state: {"none", "asked", "live", "used", "gone"},
                          tries: 0..(MaxAttempts + Cardinality(Requests) - 1), recent: BOOLEAN]]
  /\ \A t \in 1..Len(tokens) : tokens[t].from < t /\ tokens[t].basis \in Passwords
  /\ held \in [Phones -> 0..Len(tokens)] /\ verified \subseteq Phones

\* (OtpService.verify) A code is accepted once, however many requests have compared
\* it with what was typed.
CodesWorkOnce == \A n \in Codes : passed[n] <= 1

\* (AuthService.refresh) A refresh token is exchanged once, and never after its
\* session was ended by a reset, another sign-in or a token used again: a refresh
\* under way brings no session back.
ExchangedOnce ==
  \A t, u \in 1..Len(tokens) :
    tokens[t].from # 0 =>
      /\ tokens[t].from \notin ended
      /\ tokens[t].from = tokens[u].from => t = u
-----------------------------------------------------------------------------
(* What the tokens of an account promise, abstractly (OneSession.tla). *)

\* the tokens that were given for another
Exchanged == {tokens[t].from : t \in 1..Len(tokens)} \ {0}

Session == INSTANCE OneSession
  WITH issued <- Len(tokens), valid <- account.refresh, spent <- Exchanged, over <- ended

\* Every statement of a sign-in, a refresh, a reset or a change of password is a step of
\* OneSession or changes nothing in it, whatever the others have done since it was read.
ImplementsSession == Session!Spec
-----------------------------------------------------------------------------
(* What the repository says and the code does not keep. *)

\* setPassword: "Also ends every session and clears any lockout."  A login under way
\* starts its session after, for the password that was replaced.
SessionOfThisPassword == account.refresh # 0 => tokens[account.refresh].basis = account.password

\* auth.e2e-spec.ts: "a new code replaces the old one", and is the one that works.
\* Of two requests at once the later one may be removed, undelivered, after it has
\* invalidated the earlier one: a code is awaited, and none works.
ACodeOrAnother ==
  \A purpose \in Purposes :
    LET n == Latest(purpose) IN
    (n # 0 /\ codes[n].recent /\ passed[n] = 0 /\ \A r \in Requests : req[r] = Idle)
      => codes[n].state = "live"

\* OtpService.issue: "An undelivered code must not start the resend cooldown."
\* It does if the server stops before it is removed.
UndeliveredIsRemoved ==
  [][\A r \in Requests : req[r].at = "removing" /\ req'[r] = Idle =>
       codes'[req[r].code].state = "gone"]_vars

\* changePassword (auth_api.dart): "Signs other devices out; the returned tokens keep
\* this one signed in."  They do not if the connection is lost meanwhile: they are
\* issued, and nobody hears of them.
ChangeKeepsSignedIn ==
  [][\A r \in Requests : req[r].at = "keeping" /\ tokens' # tokens =>
       req'[r] # Idle]_vars
=============================================================================
