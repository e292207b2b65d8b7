------------------------------ MODULE Accounts ------------------------------
(***************************************************************************)
(* The email, role, status and isVerified fields of the User documents and *)
(* every handler that writes them: registration, the two email             *)
(* verifications, the change of account details, user moderation, admin    *)
(* roles, the approvals that activate an account, and the acceptance of a  *)
(* founder invite.                                                         *)
(*                                                                         *)
(* Every handler has the same shape: verifyJWT loads the actor, the use    *)
(* case loads the target and checks it, and a findByIdAndUpdate writes the *)
(* target whatever it has become.  A call of Req is at one of those awaits.*)
(***************************************************************************)
CONSTANTS
  User,      \* accounts ever created: bounds the model
  Seed,      \* those that exist at the start: verified, active admins
  Address,
  Req,       \* concurrent calls
  None, Vouched

ASSUME SeedAssumption == Seed \subseteq User /\ Seed # {}

ASSUME NoneAssumption == None \notin User \cup Address /\ Vouched \notin Address

VARIABLES
  user,    \* the document of each account, or NoUser
  call,    \* each call in progress
  risky,   \* history: did removals overlap, or an admin accept an invite?
  proof,   \* history: the address an account was verified with, or Vouched
  moved    \* history: accounts whose address changed during or after a verification

history == <<risky, proof, moved>>

vars == <<user, call, history>>

Role   == {"STUDENT", "COMPANY", "ADMIN"}
Status == {"ACTIVE", "PENDING", "BLOCKED"}

Account == [email: Address, role: Role, status: Status, verified: BOOLEAN]
NoUser  == [email |-> None, role |-> "none", status |-> "none", verified |-> FALSE]

CreateOp  == {"register", "createAdmin"}
AdminOp   == {"block", "unblock", "verifyUser", "removeAdmin", "activate"}
CodeOp    == {"verifyEmail", "verifyOtp"}
AddressOp == CreateOp \cup CodeOp \cup {"changeDetails"}
\* Those that compare the actor with the target.
ComparingOp == {"block", "removeAdmin"}

TargetOp  == AdminOp \cup {"verifyEmail", "changeDetails", "acceptInvite"}
Op        == AddressOp \cup TargetOp

\* Only the email verifications await a code.
\* overtaken: a block of the target was written since verifyEmail read it.
Call ==
  {c \in [op: Op, at: {"find", "otp", "write"}, actor: User \cup {None},
          target: User \cup {None}, address: Address \cup {None}, role: Role,
          overtaken: BOOLEAN] :
     /\ c.at = "otp" => c.op \in CodeOp
     /\ c.op \in TargetOp => c.target \in User
     /\ c.op \in ComparingOp => c.actor \in User
     /\ c.op \in AddressOp => c.address \in Address}
Idle == [at |-> "idle"]

Registered(u) == user[u] # NoUser
IsAdmin(u)    == user[u].role = "ADMIN"
IsBlocked(u)  == user[u].status = "BLOCKED"

Doing(r, op) == call[r].at # "idle" /\ call[r].op = op

\* Mutant: the query lost its filter, and any document answers it.
FoundAny(a) == {u \in User : Registered(u)}

\* The account of an address: there is a unique index.
Found(a) == {u \in User : user[u].email = a}

-----------------------------------------------------------------------------
Init ==
  /\ \E e \in [Seed -> Address] :
       /\ \A s, t \in Seed : e[s] = e[t] => s = t
       /\ user = [u \in User |->
            IF u \in Seed
            THEN [email |-> e[u], role |-> "ADMIN", status |-> "ACTIVE", verified |-> TRUE]
            ELSE NoUser]
  /\ call = [r \in Req |-> Idle]
  /\ risky = FALSE
  /\ proof = [u \in User |-> Vouched]
  /\ moved = {}

Begin(r, c) ==
  /\ call[r] = Idle
  /\ call' = [call EXCEPT ![r] = c]
  /\ UNCHANGED <<user, proof, moved>>

\* A call on account u, one for an address, and one on the account just found
\* to have an address.
CallOn(op, at, actor, u) ==
  [op |-> op, at |-> at, actor |-> actor, target |-> u, address |-> None,
   role |-> "STUDENT", overtaken |-> FALSE]

CallFor(op, at, role, a) ==
  [op |-> op, at |-> at, actor |-> None, target |-> None, address |-> a,
   role |-> role, overtaken |-> FALSE]

CallOnFor(op, at, u, a) == [CallOn(op, at, None, u) EXCEPT !.address = a]

-----------------------------------------------------------------------------
(* Which requests get past authentication                                  *)

\* router.use(verifyJWT, verifyRole(["ADMIN"])): the actor's role as of now.
\* The approvals ("activate") do not read the account they will write.
BeginAdminOp(r) ==
  \E op \in AdminOp, actor \in User, target \in User :
    /\ IsAdmin(actor)
    /\ Begin(r, CallOn(op, IF op = "activate" THEN "write" ELSE "find",
                       IF op \in ComparingOp THEN actor ELSE None, target))
    /\ op = "activate" => Registered(target)
    /\ risky' = (risky \/ (op = "removeAdmin" /\ \E q \in Req : Doing(q, "removeAdmin")))

BeginCreateAdmin(r) ==
  \E a \in Address :
    /\ \E u \in User : IsAdmin(u)
    /\ Begin(r, CallFor("createAdmin", "find", "ADMIN", a))
    /\ UNCHANGED risky

\* Anyone may register: the first await is the search for the address.
BeginRegister(r) ==
  \E a \in Address, role \in Role :
    /\ Found(a) = {}
    /\ Begin(r, CallFor("register", "write", role, a))
    /\ UNCHANGED risky

\* verifyOtp goes to the code at once: it looks at no account.
BeginVerifyOtp(r) ==
  \E a \in Address : Begin(r, CallFor("verifyOtp", "otp", "STUDENT", a)) /\ UNCHANGED risky

\* verifyJWT only: neither the status nor a code is asked for.
BeginChangeDetails(r) ==
  \E u \in User, a \in Address :
    /\ Registered(u)
    /\ Begin(r, CallOnFor("changeDetails", "write", u, a))
    /\ UNCHANGED risky

\* verifyJWT and checkNotBlocked, then a valid invite (FounderInvite).
BeginAcceptInvite(r) ==
  \E u \in User :
    /\ Registered(u) /\ ~IsBlocked(u)
    /\ Begin(r, CallOn("acceptInvite", "write", None, u))
    /\ risky' = (risky \/ IsAdmin(u))

-----------------------------------------------------------------------------
(* The checks on the target, evaluated where it is read                    *)

\* Mutant: the role of the target is not looked at.
MayBlockAnyone(actor, u) == actor # u /\ ~IsBlocked(u)

MayBlock(actor, u) == actor # u /\ ~IsBlocked(u) /\ ~IsAdmin(u)

MayUnblock(u) == IsBlocked(u)

MayVerifyUser(u) == ~(user[u].verified /\ user[u].status = "ACTIVE")

\* Mutant: an admin may remove himself.
MayRemoveAnyAdmin(actor, u) == IsAdmin(u)

MayRemoveAdmin(actor, u) == IsAdmin(u) /\ actor # u

\* Mutant: the status is not looked at.
MayVerifyBlockedEmail(u) == ~user[u].verified /\ user[u].status # "ACTIVE"

\* isAlreadyVerified and the BLOCKED check.
MayVerifyEmail(u) == ~user[u].verified /\ user[u].status # "ACTIVE" /\ ~IsBlocked(u)

\* verifyEmail looks for the account of the address first.
BeginVerifyEmail(r) ==
  \E a \in Address : \E u \in Found(a) :
    /\ MayVerifyEmail(u)
    /\ Begin(r, CallOnFor("verifyEmail", "otp", u, a))
    /\ UNCHANGED risky

Passes(c) ==
  IF c.op = "createAdmin" THEN Found(c.address) = {}
  ELSE /\ Registered(c.target)
       /\ c.op = "block"       => MayBlock(c.actor, c.target)
       /\ c.op = "unblock"     => MayUnblock(c.target)
       /\ c.op = "verifyUser"  => MayVerifyUser(c.target)
       /\ c.op = "removeAdmin" => MayRemoveAdmin(c.actor, c.target)

Finish(r) == call' = [call EXCEPT ![r] = Idle]

GoesOn(r) == call' = [call EXCEPT ![r].at = "write"]

Check(r) ==
  /\ call[r].at = "find"
  /\ IF Passes(call[r]) THEN GoesOn(r) ELSE Finish(r)
  /\ UNCHANGED <<user, history>>

\* verifyOtp answers (OtpService says when); the code may be wrong.
CodeChecked(r) ==
  /\ call[r].at = "otp"
  /\ GoesOn(r) \/ Finish(r)
  /\ UNCHANGED <<user, history>>

-----------------------------------------------------------------------------
(* The writes: a $set of some fields, or a create                          *)

Written(c, a) ==
  CASE c.op = "block"         -> [a EXCEPT !.status = "BLOCKED"]
    [] c.op = "unblock"       -> [a EXCEPT !.status = "ACTIVE"]
    [] c.op = "removeAdmin"   -> [a EXCEPT !.role = "STUDENT"]
    [] c.op = "acceptInvite"  -> [a EXCEPT !.role = "COMPANY"]
    [] c.op = "changeDetails" -> [a EXCEPT !.email = c.address]
    [] c.op = "createAdmin"   ->
         [email |-> c.address, role |-> "ADMIN", status |-> "ACTIVE", verified |-> FALSE]
    [] c.op = "register"      ->
         [email |-> c.address, role |-> c.role, status |-> "PENDING", verified |-> FALSE]
    [] OTHER                  -> [a EXCEPT !.status = "ACTIVE", !.verified = TRUE]

\* Mutant: a creation finds the account of the address, if there is one.
CreatedOrFound(c) ==
  IF Found(c.address) = {} THEN {u \in User : ~Registered(u)} ELSE Found(c.address)

\* The new document, unless the unique index refuses the address.
Created(c) == IF Found(c.address) = {} THEN {u \in User : ~Registered(u)} ELSE {}

\* The documents a write can go to.
Targets(c) ==
  CASE c.op \in CreateOp       -> Created(c)
    [] c.op = "verifyOtp"      -> Found(c.address)
    [] c.op = "changeDetails"  -> {u \in {c.target} : Found(c.address) \subseteq {u}}
    [] OTHER                   -> {c.target}

Proof(c, u) ==
  CASE c.op \in CodeOp                    -> c.address
    [] c.op \in {"verifyUser", "activate"} -> Vouched
    [] OTHER                              -> proof[u]

\* The address of u is relied on: it is verified, or about to be.
Relied(u) ==
  user[u].verified \/ \E q \in Req : Doing(q, "verifyEmail") /\ call[q].target = u

WriteTo(r, u) ==
  LET c == call[r] IN
  /\ user' = [user EXCEPT ![u] = Written(c, user[u])]
  /\ proof' = [proof EXCEPT ![u] = Proof(c, u)]
  /\ moved' = IF c.op = "changeDetails" /\ Relied(u) THEN moved \cup {u} ELSE moved
  /\ call' = [q \in Req |->
                IF q = r THEN Idle
                ELSE IF c.op = "block" /\ Doing(q, "verifyEmail") /\ call[q].target = u
                THEN [call[q] EXCEPT !.overtaken = TRUE]
                ELSE call[q]]
  /\ UNCHANGED risky

Write(r) ==
  /\ call[r].at = "write"
  /\ \E u \in Targets(call[r]) : WriteTo(r, u)

\* An index refuses the write, no document matches, or the database fails.
WriteFails(r) ==
  /\ call[r].at = "write"
  /\ Finish(r)
  /\ UNCHANGED <<user, history>>

\* The process dies between two awaits of every call.
Crash ==
  /\ call' = [r \in Req |-> Idle]
  /\ UNCHANGED <<user, history>>

Handle(r) ==
  \/ BeginAdminOp(r) \/ BeginCreateAdmin(r) \/ BeginRegister(r) \/ BeginVerifyEmail(r)
  \/ BeginVerifyOtp(r) \/ BeginChangeDetails(r) \/ BeginAcceptInvite(r)
  \/ Check(r) \/ CodeChecked(r) \/ Write(r) \/ WriteFails(r)

Next == (\E r \in Req : Handle(r)) \/ Crash

Spec == Init /\ [][Next]_vars
-----------------------------------------------------------------------------
(* Guarantees                                                              *)

TypeOK ==
  /\ user \in [User -> Account \cup {NoUser}]
  /\ call \in [Req -> Call \cup {Idle}]
  /\ risky \in BOOLEAN
  /\ proof \in [User -> Address \cup {Vouched}]
  /\ moved \subseteq User

\* No admin is ever blocked, although BlockUser checks the role in one query
\* and writes the status in another: no handler makes an admin of an account
\* that exists (ModerationPolicy.js:8, BlockUserUseCase.js:27-31).
AdminImmunity == \A u \in User : IsAdmin(u) => ~IsBlocked(u)

\* A block is lifted by UnblockUser, by the handlers that activate an account
\* without looking at its status (VerifyUser, the approvals, VerifyOtp), and by
\* an email verification the block overtook: one that began after the block
\* never lifts it (VerifyEmailUseCase.js:34,53, VerifyOtpUseCase.js:24).
LiftsKnown ==
  [][\A u \in User :
       (IsBlocked(u) /\ ~IsBlocked(u)') =>
         \E r \in Req :
           /\ call[r].at = "write"
           /\ \/ call[r].op \in {"unblock", "verifyUser", "activate"} /\ call[r].target = u
              \/ call[r].op = "verifyOtp" /\ call[r].address = user[u].email
              \/ call[r].op = "verifyEmail" /\ call[r].target = u /\ call[r].overtaken]_vars

\* A verified account was verified by an admin or by a code sent to the
\* address it has, unless it changed its address afterwards or while
\* VerifyEmail was under way (UserPolicy.js:8 allows it; markEmailVerified
\* goes by the document, VerifyOtp by the address).
VerifiedKnown ==
  \A u \in User :
    user[u].verified => proof[u] \in {Vouched, user[u].email} \/ u \in moved

\* As long as no two removals overlap and no admin accepts an invite, somebody
\* is an admin: who removes one stays one (AdminPolicy.js:7-13).
AdminsRemain == ~risky => \E u \in User : IsAdmin(u)

\* An account, once registered, stays registered, is never made an admin, and
\* stays verified: of two racing creations for an email one fails
\* (user.models.js:19-25, RegisterUserUseCase.js:18-40).
NoPromotion ==
  [][\A u \in User : Registered(u) =>
       /\ Registered(u)'
       /\ IsAdmin(u)' => IsAdmin(u)
       /\ user[u].verified => user'[u].verified]_vars

-----------------------------------------------------------------------------
(* The inductive invariant behind them                                     *)

\* A call about to update an account has found it.
FoundInv ==
  \A r \in Req :
    (call[r].at \in {"otp", "write"} /\ call[r].op \in TargetOp) => Registered(call[r].target)

\* An email verification of a blocked account read it before the block.
EmailSawNoBlock ==
  \A r \in Req :
    (Doing(r, "verifyEmail") /\ IsBlocked(call[r].target)) => call[r].overtaken

\* The code an email verification is about to check is for the address of the
\* account it found.
AddressInv ==
  \A r \in Req :
    Doing(r, "verifyEmail") =>
      \/ call[r].address = user[call[r].target].email
      \/ call[r].target \in moved

\* A block about to be written is not a block of an admin.
ImmunityInv ==
  /\ AdminImmunity
  /\ \A r \in Req :
       (Doing(r, "block") /\ call[r].at = "write") => ~IsAdmin(call[r].target)

\* The one removal in progress leaves its actor an admin, and no acceptance
\* in progress is an admin's.
RemainInv ==
  ~risky =>
    /\ \E u \in User : IsAdmin(u)
    /\ \A r, q \in Req : (Doing(r, "removeAdmin") /\ Doing(q, "removeAdmin")) => r = q
    /\ \A r \in Req : Doing(r, "removeAdmin") =>
         IsAdmin(call[r].actor) /\ (call[r].at = "write" => call[r].actor # call[r].target)
    /\ \A r \in Req : Doing(r, "acceptInvite") =>
         call[r].at = "write" /\ ~IsAdmin(call[r].target)

\* An account past the check of UnblockUser is not pending: none becomes
\* pending again.
SettledInv ==
  \A r \in Req :
    (Doing(r, "unblock") /\ call[r].at = "write") => user[call[r].target].status # "PENDING"

AccountsInv == TypeOK /\ FoundInv /\ ImmunityInv /\ EmailSawNoBlock /\ RemainInv
               /\ AddressInv /\ VerifiedKnown

-----------------------------------------------------------------------------
(* When requests are handled one at a time                                 *)

Serial == \A r, q \in Req : (call[r] # Idle /\ call[q] # Idle) => r = q

\* What the handler of call c checked before its write, as of now.
StillHolds(c) ==
  /\ c.op \in CreateOp => Found(c.address) = {}
  /\ c.op \in TargetOp => Passes(c)
  /\ c.op = "removeAdmin"  => IsAdmin(c.actor)
  /\ c.op = "acceptInvite" => ~IsBlocked(c.target)
  /\ c.op = "verifyEmail"  => MayVerifyEmail(c.target) /\ user[c.target].email = c.address

\* A handler writes an account that is as it was when the handler checked it
\* (BlockUserUseCase.js:17-31 and the others of its shape).
WritesWhatItChecked == \A r \in Req : call[r].at = "write" => StillHolds(call[r])

\* A block is lifted by UnblockUser and by the handlers that do not look at the
\* status, never by an email verification, which does (VerifyEmailUseCase.js:34).
LiftsOnPurpose ==
  [][\A u \in User :
       (IsBlocked(u) /\ ~IsBlocked(u)') =>
         \E r \in Req :
           /\ call[r].at = "write"
           /\ \/ call[r].op \in {"unblock", "verifyUser", "activate"} /\ call[r].target = u
              \/ call[r].op = "verifyOtp" /\ call[r].address = user[u].email]_vars

-----------------------------------------------------------------------------
(* Accounts implements AccountLife                                         *)

Abstract == INSTANCE AccountLife

\* However the handlers interleave and wherever the process dies, each of their
\* writes is one decision AccountLife allows about the account as it then is:
\* nobody who exists is made an admin, no verification is taken back, no admin
\* is blocked, no address is given twice, nobody becomes pending again
\* (ModerationPolicy.js:8, user.models.js:19-25, RegisterUserUseCase.js:18-40).
ImplementsAccountLife == Abstract!Spec

=============================================================================
