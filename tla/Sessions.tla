------------------------------ MODULE Sessions ------------------------------
(***************************************************************************)
(* The refresh token and the password of one account: LoginUser,           *)
(* RefreshToken, Logout and ChangePassword.  Accounts share neither, so    *)
(* one stands for all.                                                     *)
(*                                                                         *)
(* A refresh token is a JWT over the account's id and the second it was    *)
(* signed in, and nothing else: two tokens of one second are equal, so a   *)
(* token is that second.  The account stores the last one written.  Every  *)
(* handler reads the account, signs, and then writes; the calls of Req     *)
(* interleave between those awaits.                                        *)
(***************************************************************************)
EXTENDS Naturals, FiniteSets

CONSTANTS
  Req,         \* concurrent calls
  Password,
  None,        \* no token, no password
  RefreshTtl,  \* REFRESH_TOKEN_EXPIRY, in seconds
  MaxTime      \* bound of the model: the last second

ASSUME ReqAssumption == IsFiniteSet(Req) /\ Req # {}
ASSUME PasswordAssumption == None \notin Password /\ None \notin Nat
ASSUME TimeAssumption == MaxTime \in Nat /\ RefreshTtl \in Nat \ {0}

VARIABLES
  now,       \* the current second
  password,  \* of the account
  stored,    \* refreshToken of the account
  storedLate, \* history: another token was written since stored was signed
  call,      \* each call in progress
  given,     \* tokens that clients have been answered
  lost,      \* tokens written by calls that a crash kept from answering
  spent,     \* history: tokens that were exchanged for a later one
  loggedOut, \* history: was there a logout since stored was written?
  outdated   \* history: tokens written since the last change of password by
             \* logins that were given another password than the one in force

account == <<password, stored, storedLate, loggedOut, outdated>>
tokens  == <<given, lost, spent>>
vars    == <<now, account, call, tokens>>

Second == 0..MaxTime

\* pw: the password given.  token: the one to exchange.  new: the one signed.
\* overtaken: a token was written since new was signed.
CallRecord ==
  [op: {"login", "refresh", "change"}, at: {"find", "sign", "write", "answer", "save"},
   pw: Password \cup {None}, token: Second \cup {None}, new: Second \cup {None},
   to: Password \cup {None}, overtaken: BOOLEAN]

Call ==
  {c \in CallRecord :
     /\ c.at \in {"write", "answer"} => c.new \in Second
     /\ c.at = "save" => c.to \in Password
     /\ c.at = "find" => c.op = "refresh"
     /\ c.op = "refresh" => c.at \in {"find", "write", "answer"} /\ c.token \in Second}

Idle ==
  [op |-> "none", at |-> "idle", pw |-> None, token |-> None, new |-> None, to |-> None,
   overtaken |-> FALSE]

Init ==
  /\ now = 0
  /\ password \in Password
  /\ stored = None
  /\ storedLate = FALSE
  /\ call = [r \in Req |-> Idle]
  /\ given = {} /\ lost = {} /\ spent = {} /\ loggedOut = FALSE /\ outdated = 0

Starts(op, at) == [Idle EXCEPT !.op = op, !.at = at]

\* c has signed a token in the current second and is about to write it.
Signed(c) == [c EXCEPT !.at = "write", !.new = now]

-----------------------------------------------------------------------------
(* LoginUser                                                               *)

\* Mutant: bcrypt.compare is not awaited, so any password is correct.
LoginFindAny(r) ==
  /\ call[r].at = "idle"
  /\ \E p \in Password :
       call' = [call EXCEPT ![r] = [Starts("login", "sign") EXCEPT !.pw = p]]
  /\ UNCHANGED <<now, account, tokens>>

\* The account is read; a wrong password ends the call.  The status is not
\* looked at.
LoginFind(r) ==
  /\ call[r].at = "idle"
  /\ \E p \in Password :
       /\ p = password
       /\ call' = [call EXCEPT ![r] = [Starts("login", "sign") EXCEPT !.pw = p]]
  /\ UNCHANGED <<now, account, tokens>>

\* bcrypt.compare has answered: the token is signed in the current second.
LoginSign(r) ==
  /\ call[r].at = "sign"
  /\ call' = [call EXCEPT ![r] = Signed(@)]
  /\ UNCHANGED <<now, account, tokens>>

-----------------------------------------------------------------------------
(* RefreshToken                                                            *)

\* jwt.verify: a token some call signed, not expired.
RefreshBegin(r) ==
  /\ call[r].at = "idle"
  /\ \E t \in given :
       /\ now < t + RefreshTtl
       /\ call' = [call EXCEPT ![r] = [Starts("refresh", "find") EXCEPT !.token = t]]
  /\ UNCHANGED <<now, account, tokens>>

\* The account is read; the new token is signed at once.
RefreshFind(r) ==
  /\ call[r].at = "find"
  /\ call' = [call EXCEPT ![r] =
                IF @.token = stored THEN Signed(@) ELSE Idle]
  /\ UNCHANGED <<now, account, tokens>>

-----------------------------------------------------------------------------
(* updateRefreshToken, and the answer                                      *)

\* Every other call about to write has been overtaken.
Overtaking(r, to) ==
  [q \in Req |->
     IF q = r THEN [call[q] EXCEPT !.at = to]
     ELSE IF call[q].at = "write" THEN [call[q] EXCEPT !.overtaken = TRUE]
     ELSE call[q]]

\* The logins that passed the comparison with a password no longer in force and
\* have not written.
Stale ==
  {r \in Req : /\ call[r].op = "login" /\ call[r].at \in {"sign", "write"}
               /\ call[r].pw # password}

Exchanged(c) == IF c.op = "refresh" /\ c.token # c.new THEN {c.token} ELSE {}

\* Mutant: a refresh answers a new token but leaves the old one stored.
WriteTokenOfLogin(r) ==
  /\ call[r].at = "write"
  /\ stored' = IF call[r].op = "login" THEN call[r].new ELSE stored
  /\ storedLate' = call[r].overtaken
  /\ spent' = spent \cup Exchanged(call[r])
  /\ call' = Overtaking(r, "answer")
  /\ loggedOut' = FALSE
  /\ outdated' = outdated + (IF r \in Stale THEN 1 ELSE 0)
  /\ UNCHANGED <<now, password, given, lost>>

WriteToken(r) ==
  /\ call[r].at = "write"
  /\ stored' = call[r].new
  /\ storedLate' = call[r].overtaken
  /\ spent' = spent \cup Exchanged(call[r])
  /\ call' = Overtaking(r, "answer")
  /\ loggedOut' = FALSE
  /\ outdated' = outdated + (IF r \in Stale THEN 1 ELSE 0)
  /\ UNCHANGED <<now, password, given, lost>>

\* Mutant: the answer carries a token signed when it is sent.
AnswerSignsAnew(r) ==
  /\ call[r].at = "answer"
  /\ given' = given \cup {now}
  /\ call' = [call EXCEPT ![r] = Idle]
  /\ UNCHANGED <<now, account, lost, spent>>

Answer(r) ==
  /\ call[r].at = "answer"
  /\ given' = given \cup {call[r].new}
  /\ call' = [call EXCEPT ![r] = Idle]
  /\ UNCHANGED <<now, account, lost, spent>>

-----------------------------------------------------------------------------
(* Logout, ChangePassword, and the rest of the world                       *)

\* updateRefreshToken(userId, undefined): Mongoose drops an undefined field
\* from $set, so the account keeps its token.
Logout ==
  /\ stored # None
  /\ loggedOut' = TRUE
  /\ UNCHANGED <<now, password, stored, storedLate, outdated, call, tokens>>

MayChangeTo == Password

\* The account is read and the old password compared.
ChangeFind(r) ==
  /\ call[r].at = "idle"
  /\ \E old \in Password, p \in MayChangeTo :
       /\ old = password
       /\ call' = [call EXCEPT ![r] =
                     [Starts("change", "save") EXCEPT !.pw = old, !.to = p]]
  /\ UNCHANGED <<now, account, tokens>>

\* updatePassword reads the account again, hashes and saves whatever is there.
\* The refresh token is not touched.
ChangeSave(r) ==
  /\ call[r].at = "save"
  /\ password' = call[r].to
  /\ call' = [call EXCEPT ![r] = Idle]
  /\ outdated' = 0
  /\ UNCHANGED <<now, stored, storedLate, loggedOut, tokens>>

Tick ==
  /\ now < MaxTime
  /\ now' = now + 1
  /\ UNCHANGED <<account, call, tokens>>

\* The process dies: the calls that have written but not answered lose their
\* token.
Crash ==
  /\ call' = [r \in Req |-> Idle]
  /\ lost' = lost \cup {call[r].new : r \in {q \in Req : call[q].at = "answer"}}
  /\ UNCHANGED <<now, account, given, spent>>

Next ==
  \/ \E r \in Req :
       \/ LoginFind(r) \/ LoginSign(r)
       \/ RefreshBegin(r) \/ RefreshFind(r)
       \/ WriteToken(r) \/ Answer(r)
       \/ ChangeFind(r) \/ ChangeSave(r)
  \/ Logout \/ Tick \/ Crash

Spec == Init /\ [][Next]_vars
-----------------------------------------------------------------------------
(* Guarantees                                                              *)

TypeOK ==
  /\ now \in Second
  /\ password \in Password
  /\ stored \in Second \cup {None}
  /\ storedLate \in BOOLEAN /\ loggedOut \in BOOLEAN /\ outdated \in Nat
  /\ call \in [Req -> Call \cup {Idle}]
  /\ given \subseteq Second /\ lost \subseteq Second
  /\ spent \subseteq Second

\* A token exchanged for a later one is in force again only when a call that
\* signed it in the same second wrote it late, after another call's write:
\* rotation is undone by an overtaken write and by nothing else
\* (RefreshTokenUseCase.js:22-29).
SpentComesBackOnlyLate == stored \in spent => storedLate

\* The token in force is one that a client holds, is about to be answered, or
\* lost to a crash: no interleaving of logins and refreshes leaves a token
\* nobody has (LoginUserUseCase.js:24-34, RefreshTokenUseCase.js:27-31).
InForceIsKnown ==
  \/ stored = None
  \/ stored \in given \cup lost
  \/ \E r \in Req : call[r].at = "answer" /\ call[r].new = stored

\* A changed password runs out: after the change, an old one opens fewer sessions
\* than there are concurrent calls, because only a login that had compared it
\* before the change was saved still stores its token, and only once; no call
\* that reads the account later does (LoginUserUseCase.js:18-27,
\* ChangePasswordUseCase.js:18-23).
OldPasswordRunsOut == outdated < Cardinality(Req)

-----------------------------------------------------------------------------
(* The inductive invariant behind them                                     *)

PendingInv ==
  \A r \in Req :
    /\ call[r].op = "refresh" => call[r].token <= now
    /\ call[r].at \in {"write", "answer"} => call[r].new <= now
    /\ (call[r].op = "refresh" /\ call[r].at = "write") => call[r].token <= call[r].new
    /\ (call[r].at = "write" /\ ~call[r].overtaken) => call[r].new \notin spent

\* No token is from a later second, and a spent one is from an earlier second.
ClockInv ==
  /\ \A t \in given : t <= now
  /\ \A t \in spent : t < now

\* Every session an old password has opened since the change, and every one it
\* may still open, belongs to another call than the one that saved the change.
OutdatedInv == outdated + Cardinality(Stale) < Cardinality(Req)

SessionsInv == TypeOK /\ PendingInv /\ ClockInv /\ SpentComesBackOnlyLate /\ InForceIsKnown

-----------------------------------------------------------------------------
(* When requests are handled one at a time                                 *)

Serial == \A r, q \in Req : (call[r].at # "idle" /\ call[q].at # "idle") => r = q

\* Rotation holds: no token that was exchanged for a later one is in force, and
\* the token a refresh is about to replace is the one in force
\* (RefreshTokenUseCase.js:22-29).
RotationHolds ==
  /\ stored \notin spent
  /\ \A r \in Req : (call[r].op = "refresh" /\ call[r].at = "write") => call[r].token = stored

\* Nobody opens a session, or changes the password, with a password that is not
\* in force at that moment (LoginUserUseCase.js:18-27, ChangePasswordUseCase.js:18-23).
OnlyPasswordInForce ==
  /\ outdated = 0
  /\ \A r \in Req :
       \/ call[r].at \in {"sign", "save"}
       \/ call[r].op = "login" /\ call[r].at = "write"
       => call[r].pw = password

-----------------------------------------------------------------------------
(* What the documents say                                                  *)

\* FINAL-PRODUCTION-READINESS-REAUDIT.md:232: a logout revokes the refresh
\* token: no call exchanges it afterwards.
LogoutRevokes ==
  [][\A r \in Req : (call[r].at = "find" /\ call'[r].at = "write") => ~loggedOut]_vars
=============================================================================
