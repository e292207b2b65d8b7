--------------------------- MODULE AccountsProofs ---------------------------
(***************************************************************************)
(* Accounts for any number of accounts, admins and concurrent calls.      *)
(*                                                                         *)
(* What one write does to an account is stated once (WriteFacts); each     *)
(* part of AccountsInv is then preserved because of two or three of those  *)
(* facts, and every other action leaves the accounts alone.                *)
(***************************************************************************)
EXTENDS Accounts, TLAPS

\* NoUser is nobody's document.
LEMMA NoUserFacts ==
  /\ NoUser \notin Account
  /\ NoUser.role # "ADMIN" /\ NoUser.status # "BLOCKED"
BY DEF NoUser, Account, Role, Status

\* An address that a lookup finds an account of.
LEMMA FoundFacts ==
  ASSUME TypeOK, NEW a \in Address
  PROVE  \A u \in Found(a) : u \in User /\ user[u].email = a /\ Registered(u)
BY NoneAssumption DEF Found, Registered, NoUser

\* The shape of a call at the start.
LEMMA CallShapes ==
  /\ \A op \in AdminOp, at \in {"find", "write"}, actor, u \in User :
       CallOn(op, at, IF op \in ComparingOp THEN actor ELSE None, u) \in Call
  /\ \A u \in User : CallOn("acceptInvite", "write", None, u) \in Call
  /\ \A a \in Address, role \in Role :
       /\ CallFor("register", "write", role, a) \in Call
       /\ CallFor("createAdmin", "find", "ADMIN", a) \in Call
       /\ CallFor("verifyOtp", "otp", "STUDENT", a) \in Call
  /\ \A u \in User, a \in Address :
       /\ CallOnFor("verifyEmail", "otp", u, a) \in Call
       /\ CallOnFor("changeDetails", "write", u, a) \in Call
<1> USE DEF Call, Op, AdminOp, AddressOp, CreateOp, CodeOp, TargetOp, ComparingOp, Role
<1>1. \A op \in AdminOp, at \in {"find", "write"}, actor, u \in User :
        CallOn(op, at, IF op \in ComparingOp THEN actor ELSE None, u) \in Call
  BY DEF CallOn
<1>2. \A u \in User : CallOn("acceptInvite", "write", None, u) \in Call
  BY DEF CallOn
<1>3. \A a \in Address, role \in Role :
        /\ CallFor("register", "write", role, a) \in Call
        /\ CallFor("createAdmin", "find", "ADMIN", a) \in Call
        /\ CallFor("verifyOtp", "otp", "STUDENT", a) \in Call
  BY DEF CallFor
<1>4. \A u \in User, a \in Address :
        /\ CallOnFor("verifyEmail", "otp", u, a) \in Call
        /\ CallOnFor("changeDetails", "write", u, a) \in Call
  BY DEF CallOnFor, CallOn
<1> HIDE DEF Call, Op, AdminOp, AddressOp, CreateOp, CodeOp, TargetOp, ComparingOp, Role
<1> QED BY <1>1, <1>2, <1>3, <1>4

\* What holds of every call when it begins.
Fresh(c) ==
  /\ c \in Call
  /\ c.at \in {"otp", "write"} /\ c.op \in TargetOp => Registered(c.target)
  /\ c.op \in {"block", "unblock", "removeAdmin"} => c.at = "find"
  /\ c.op = "removeAdmin" => IsAdmin(c.actor)
  /\ c.op = "acceptInvite" => c.at = "write"
  /\ c.op = "verifyEmail" => ~IsBlocked(c.target) /\ c.address = user[c.target].email
  /\ c.at \in {"otp", "write"} => StillHolds(c)
  /\ c.at = "find" => c.op \in AdminOp \cup {"createAdmin"}

BeginAny(r) ==
  \/ BeginAdminOp(r) \/ BeginCreateAdmin(r) \/ BeginRegister(r) \/ BeginVerifyEmail(r)
  \/ BeginVerifyOtp(r) \/ BeginChangeDetails(r) \/ BeginAcceptInvite(r)

\* Which call each of the seven ways to begin starts.
LEMMA BeginFacts ==
  ASSUME TypeOK, NEW r \in Req, BeginAny(r)
  PROVE  /\ UNCHANGED <<user, proof, moved>> /\ risky' \in BOOLEAN /\ (risky => risky')
         /\ call[r] = Idle
         /\ \E c : /\ Fresh(c) /\ call' = [call EXCEPT ![r] = c]
                   /\ c.op = "removeAdmin" /\ ~risky' => \A q \in Req : ~Doing(q, "removeAdmin")
                   /\ c.op = "acceptInvite" /\ ~risky' => ~IsAdmin(c.target)
<1>1. CASE BeginAdminOp(r)
  <2>1. PICK op \in AdminOp, actor \in User, target \in User :
          /\ IsAdmin(actor)
          /\ Begin(r, CallOn(op, IF op = "activate" THEN "write" ELSE "find",
                             IF op \in ComparingOp THEN actor ELSE None, target))
          /\ op = "activate" => Registered(target)
          /\ risky' = (risky \/ (op = "removeAdmin" /\ \E q \in Req : Doing(q, "removeAdmin")))
    BY <1>1 DEF BeginAdminOp
  <2> DEFINE at == IF op = "activate" THEN "write" ELSE "find"
             who == IF op \in ComparingOp THEN actor ELSE None
             c == CallOn(op, at, who, target)
  <2>2. c \in Call
    BY CallShapes
  <2>3. /\ c.op = op /\ c.at = at /\ c.target = target /\ c.actor = who
        /\ op \notin {"acceptInvite", "verifyEmail"}
    BY DEF CallOn, AdminOp
  <2>4. Fresh(c)
    BY <2>1, <2>2, <2>3 DEF Fresh, ComparingOp, StillHolds, Passes, CreateOp, AdminOp
  <2>5. risky' \in BOOLEAN /\ (risky => risky')
    BY <2>1 DEF TypeOK
  <2>6. UNCHANGED <<user, proof, moved>> /\ call[r] = Idle /\ call' = [call EXCEPT ![r] = c]
    BY <2>1 DEF Begin
  <2>7. (op = "removeAdmin" /\ ~risky') => \A q \in Req : ~Doing(q, "removeAdmin")
    BY <2>1
  <2> HIDE DEF c
  <2> QED BY <2>3, <2>4, <2>5, <2>6, <2>7
<1>2. CASE BeginCreateAdmin(r)
  <2>1. PICK a \in Address : Begin(r, CallFor("createAdmin", "find", "ADMIN", a)) /\ UNCHANGED risky
    BY <1>2 DEF BeginCreateAdmin
  <2>2. Fresh(CallFor("createAdmin", "find", "ADMIN", a))
    BY CallShapes DEF Fresh, CallFor, Role
  <2>3. CallFor("createAdmin", "find", "ADMIN", a).op = "createAdmin"
    BY DEF CallFor
  <2> QED BY <2>1, <2>2, <2>3 DEF Begin, TypeOK
<1>3. CASE BeginRegister(r)
  <2>1. PICK a \in Address, role \in Role :
          Found(a) = {} /\ Begin(r, CallFor("register", "write", role, a)) /\ UNCHANGED risky
    BY <1>3 DEF BeginRegister
  <2>2. Fresh(CallFor("register", "write", role, a))
    BY <2>1, CallShapes DEF Fresh, CallFor, TargetOp, AdminOp, StillHolds
  <2>3. CallFor("register", "write", role, a).op = "register"
    BY DEF CallFor
  <2> QED BY <2>1, <2>2, <2>3 DEF Begin, TypeOK
<1>4. CASE BeginVerifyEmail(r)
  <2>1. PICK a \in Address, u \in User :
          /\ u \in Found(a) /\ MayVerifyEmail(u)
          /\ Begin(r, CallOnFor("verifyEmail", "otp", u, a)) /\ UNCHANGED risky
    BY <1>4 DEF BeginVerifyEmail, Found
  <2>2. Registered(u) /\ user[u].email = a /\ ~IsBlocked(u)
    BY <2>1, FoundFacts DEF MayVerifyEmail
  <2>3. Fresh(CallOnFor("verifyEmail", "otp", u, a))
    BY <2>1, <2>2, CallShapes
       DEF Fresh, CallOnFor, CallOn, StillHolds, Passes, CreateOp
  <2>4. CallOnFor("verifyEmail", "otp", u, a).op = "verifyEmail"
    BY DEF CallOnFor, CallOn
  <2> QED BY <2>1, <2>3, <2>4 DEF Begin, TypeOK
<1>5. CASE BeginVerifyOtp(r)
  <2>1. PICK a \in Address : Begin(r, CallFor("verifyOtp", "otp", "STUDENT", a)) /\ UNCHANGED risky
    BY <1>5 DEF BeginVerifyOtp
  <2>2. Fresh(CallFor("verifyOtp", "otp", "STUDENT", a))
    BY CallShapes DEF Fresh, CallFor, TargetOp, AdminOp, CreateOp, Role, StillHolds
  <2>3. CallFor("verifyOtp", "otp", "STUDENT", a).op = "verifyOtp"
    BY DEF CallFor
  <2> QED BY <2>1, <2>2, <2>3 DEF Begin, TypeOK
<1>6. CASE BeginChangeDetails(r)
  <2>1. PICK u \in User, a \in Address :
          /\ Registered(u)
          /\ Begin(r, CallOnFor("changeDetails", "write", u, a)) /\ UNCHANGED risky
    BY <1>6 DEF BeginChangeDetails
  <2>2. Fresh(CallOnFor("changeDetails", "write", u, a))
    BY <2>1, CallShapes DEF Fresh, CallOnFor, CallOn, StillHolds, Passes, CreateOp
  <2>3. CallOnFor("changeDetails", "write", u, a).op = "changeDetails"
    BY DEF CallOnFor, CallOn
  <2> QED BY <2>1, <2>2, <2>3 DEF Begin, TypeOK
<1>7. CASE BeginAcceptInvite(r)
  <2>1. PICK u \in User :
          /\ Registered(u) /\ ~IsBlocked(u)
          /\ Begin(r, CallOn("acceptInvite", "write", None, u))
          /\ risky' = (risky \/ IsAdmin(u))
    BY <1>7 DEF BeginAcceptInvite
  <2>2. Fresh(CallOn("acceptInvite", "write", None, u))
    BY <2>1, CallShapes DEF Fresh, CallOn, StillHolds, Passes, CreateOp
  <2>3. /\ CallOn("acceptInvite", "write", None, u).op = "acceptInvite"
        /\ CallOn("acceptInvite", "write", None, u).target = u
    BY DEF CallOn
  <2>4. risky' \in BOOLEAN /\ (risky => risky') /\ (~risky' => ~IsAdmin(u))
    BY <2>1 DEF TypeOK, IsAdmin
  <2> QED BY <2>1, <2>2, <2>3, <2>4 DEF Begin
<1> QED BY <1>1, <1>2, <1>3, <1>4, <1>5, <1>6, <1>7 DEF BeginAny

\* A call past a read, or whose write fails, ends or is where its checks let
\* it go.
LEMMA AdvanceFacts ==
  ASSUME TypeOK, NEW r \in Req, Check(r) \/ CodeChecked(r) \/ WriteFails(r)
  PROVE  /\ UNCHANGED <<user, history>>
         /\ call[r] \in Call
         /\ call' \in [Req -> Call \cup {Idle}]
         /\ \A q \in Req : q # r => call'[q] = call[q]
         /\ \/ call'[r] = Idle
            \/ /\ call'[r].op = call[r].op /\ call'[r].actor = call[r].actor
               /\ call'[r].target = call[r].target /\ call'[r].address = call[r].address
               /\ call'[r].overtaken = call[r].overtaken
               /\ call'[r].at = "write" /\ call[r].at \in {"find", "otp"}
               /\ call[r].at = "find" => Passes(call[r])
<1>1. call[r].at \in {"find", "otp", "write"} /\ call[r] \in Call
  BY DEF Check, CodeChecked, WriteFails, TypeOK, Idle
<1>2. UNCHANGED <<user, history>>
  BY DEF Check, CodeChecked, WriteFails
<1>3. CASE Finish(r)
  BY <1>1, <1>2, <1>3 DEF TypeOK, Finish
<1>4. CASE GoesOn(r) /\ call[r].at \in {"find", "otp"} /\ (call[r].at = "find" => Passes(call[r]))
  <2>1. call'[r] = [call[r] EXCEPT !.at = "write"] /\ \A q \in Req : q # r => call'[q] = call[q]
    BY <1>1, <1>4 DEF TypeOK, GoesOn
  <2>2. [call[r] EXCEPT !.at = "write"] \in Call
    BY <1>1 DEF Call
  <2>3. call' \in [Req -> Call \cup {Idle}]
    BY <2>1, <2>2, <1>4 DEF TypeOK, GoesOn
  <2> QED BY <1>1, <1>2, <1>4, <2>1, <2>3 DEF Call
<1> QED BY <1>3, <1>4 DEF Check, CodeChecked, WriteFails

\* Which account a write goes to, what it makes of it, and what it remembers.
LEMMA WriteFacts ==
  ASSUME TypeOK, FoundInv, NEW r \in Req, call[r].at = "write",
         NEW u \in Targets(call[r]), WriteTo(r, u)
  PROVE  /\ call[r] \in Call /\ u \in User
         /\ call[r].op \in TargetOp => u = call[r].target
         /\ call[r].op = "verifyOtp" => call[r].address = user[u].email
         /\ user' \in [User -> Account \cup {NoUser}]
         /\ \A v \in User \ {u} : user'[v] = user[v] /\ proof'[v] = proof[v]
         /\ user'[u] # NoUser
         /\ user'[u].role = "ADMIN" /\ Registered(u) => IsAdmin(u)
         /\ Registered(u) => call[r].op \notin CreateOp
         /\ user[u].verified => user'[u].verified
         /\ user'[u].verified /\ ~user[u].verified =>
              call[r].op \in CodeOp \cup {"verifyUser", "activate"}
         /\ user'[u].status = "BLOCKED" => IsBlocked(u) \/ call[r].op = "block"
         /\ IsBlocked(u) /\ user'[u].status # "BLOCKED"
              => call[r].op \in {"unblock", "verifyUser", "activate"} \cup CodeOp
         /\ (IsAdmin(u) /\ user'[u].role # "ADMIN")
              => call[r].op \in {"removeAdmin", "acceptInvite"}
         /\ call[r].op = "block" => user'[u].role = user[u].role
         /\ (user'[u].role = "ADMIN" /\ ~IsAdmin(u)) => user'[u].status # "BLOCKED"
         /\ call[r].op # "changeDetails" /\ Registered(u) => user'[u].email = user[u].email
         /\ proof' \in [User -> Address \cup {Vouched}] /\ proof'[u] = Proof(call[r], u)
         /\ moved \subseteq moved' /\ moved' \subseteq User
         /\ call[r].op = "changeDetails" /\ Relied(u) => u \in moved'
<1> DEFINE c == call[r]
           a == user[u]
           b == Written(c, a)
<1>1. c \in Call /\ c.op \in Op
  BY DEF TypeOK, Idle, Call
<1>2. u \in User /\ a \in Account \cup {NoUser} /\ c.role \in Role
  <2>1. u \in User
    BY <1>1 DEF Targets, Created, Found, Call, TargetOp, AddressOp, CreateOp, CodeOp, Op
  <2> QED BY <2>1, <1>1 DEF TypeOK, Call
<1>3. c.op \in TargetOp => u = c.target
  BY DEF Targets, TargetOp, AdminOp, CreateOp
<1>4. c.op = "verifyOtp" => c.address = a.email /\ Registered(u)
  BY <1>1, FoundFacts DEF Targets, CreateOp, Found, Call, AddressOp, CodeOp
<1>5. c.op \in CreateOp => a = NoUser
  <2>1. c.op \in CreateOp => u \in Created(c)
    BY DEF Targets, CreateOp
  <2> QED BY <2>1 DEF Created, Registered
<1>6. c.op \notin CreateOp => a \in Account /\ a # NoUser
  BY <1>1, <1>2, <1>3, <1>4, NoUserFacts
     DEF FoundInv, Registered, Op, AddressOp, CodeOp, TargetOp
<1>7. c.op \in AddressOp => c.address \in Address
  BY <1>1 DEF Call
<1>8. /\ user' = [user EXCEPT ![u] = b]
      /\ proof' = [proof EXCEPT ![u] = Proof(c, u)]
      /\ moved' = IF c.op = "changeDetails" /\ Relied(u) THEN moved \cup {u} ELSE moved
  BY DEF WriteTo
<1>9. Proof(c, u) \in Address \cup {Vouched}
  BY <1>2, <1>7 DEF Proof, TypeOK, AddressOp
<1> HIDE DEF c, a
<1>10. /\ b \in Account
       /\ b.role = "ADMIN" => a.role = "ADMIN" \/ a = NoUser
       /\ a.verified => b.verified
       /\ b.verified /\ ~a.verified => c.op \in CodeOp \cup {"verifyUser", "activate"}
       /\ b.status = "BLOCKED" => a.status = "BLOCKED" \/ c.op = "block"
       /\ a.status = "BLOCKED" /\ b.status # "BLOCKED"
            => c.op \in {"unblock", "verifyUser", "activate"} \cup CodeOp
       /\ a.role = "ADMIN" /\ b.role # "ADMIN" => c.op \in {"removeAdmin", "acceptInvite"}
       /\ c.op = "block" => b.role = a.role
       /\ a = NoUser => b.status # "BLOCKED"
       /\ c.op # "changeDetails" /\ a # NoUser => b.email = a.email
  <2>1. CASE c.op \in CreateOp
    BY <1>2, <1>5, <1>7, <2>1, NoUserFacts
       DEF Written, CreateOp, AddressOp, Account, Role, Status, NoUser
  <2>2. CASE c.op \notin CreateOp
    <3>1. c.op \in TargetOp \cup {"verifyOtp"}
      BY <1>1, <2>2 DEF c, Op, AddressOp, CodeOp, TargetOp
    <3>2. /\ a \in Account /\ a # NoUser
          /\ c.op = "changeDetails" => c.address \in Address
      BY <1>6, <1>7, <2>2 DEF AddressOp
    <3>3. /\ b.email = IF c.op = "changeDetails" THEN c.address ELSE a.email
          /\ b.role = CASE c.op = "removeAdmin"  -> "STUDENT"
                       [] c.op = "acceptInvite" -> "COMPANY"
                       [] OTHER                 -> a.role
          /\ b \in Account
      BY <2>2, <3>1, <3>2
         DEF Written, CreateOp, CodeOp, TargetOp, AdminOp, Account, Role, Status
    <3>4. /\ b.status = CASE c.op = "block" -> "BLOCKED"
                         [] c.op \in {"unblock", "verifyUser", "activate"} \cup CodeOp -> "ACTIVE"
                         [] OTHER -> a.status
          /\ b.verified = (a.verified \/ c.op \in CodeOp \cup {"verifyUser", "activate"})
      BY <2>2, <3>1, <3>2
         DEF Written, CreateOp, CodeOp, TargetOp, AdminOp, Account
    <3> HIDE DEF b
    <3> QED BY <3>2, <3>3, <3>4 DEF CodeOp
  <2> QED BY <2>1, <2>2
<1>11. b # NoUser
  BY <1>10, NoUserFacts
<1> HIDE DEF b
<1>12. /\ user' \in [User -> Account \cup {NoUser}] /\ user'[u] = b
       /\ proof' \in [User -> Address \cup {Vouched}] /\ proof'[u] = Proof(c, u)
       /\ \A v \in User \ {u} : user'[v] = user[v] /\ proof'[v] = proof[v]
  BY <1>2, <1>8, <1>9, <1>10 DEF TypeOK
<1>13. /\ moved \subseteq moved' /\ moved' \subseteq User
       /\ c.op = "changeDetails" /\ Relied(u) => u \in moved'
  BY <1>2, <1>8 DEF TypeOK
<1> QED BY <1>1, <1>2, <1>3, <1>4, <1>5, <1>10, <1>11, <1>12, <1>13
       DEF Registered, IsAdmin, IsBlocked, a, c

\* What a write does to the calls.
LEMMA WriteCallFacts ==
  ASSUME TypeOK, NEW r \in Req, call[r].at = "write", NEW u, WriteTo(r, u)
  PROVE  /\ call' \in [Req -> Call \cup {Idle}]
         /\ call'[r] = Idle /\ call'[r].at = "idle"
         /\ risky' = risky
         /\ \A q \in Req : q # r =>
              /\ call'[q].at = call[q].at
              /\ call[q].at # "idle" =>
                   /\ call[q] \in Call
                   /\ call'[q].op = call[q].op /\ call'[q].actor = call[q].actor
                   /\ call'[q].target = call[q].target /\ call'[q].address = call[q].address
                   /\ call[q].overtaken => call'[q].overtaken
              /\ (call[r].op = "block" /\ Doing(q, "verifyEmail") /\ call[q].target = u)
                   => call'[q].overtaken
<1> DEFINE c == call[r]
           hit(q) == c.op = "block" /\ Doing(q, "verifyEmail") /\ call[q].target = u
<1>1. risky' = risky
  BY DEF WriteTo
<1>2. call' = [q \in Req |-> IF q = r THEN Idle
                 ELSE IF hit(q) THEN [call[q] EXCEPT !.overtaken = TRUE] ELSE call[q]]
  BY DEF WriteTo
<1>3. ASSUME NEW q \in Req, q # r, hit(q)
      PROVE  /\ call[q] \in Call /\ call'[q] \in Call
             /\ call'[q].overtaken /\ call'[q].address = call[q].address
             /\ call'[q].op = call[q].op /\ call'[q].at = call[q].at
             /\ call'[q].actor = call[q].actor /\ call'[q].target = call[q].target
  <2>1. call[q] \in Call
    BY <1>3 DEF TypeOK, Doing, Idle
  <2>2. call'[q] = [call[q] EXCEPT !.overtaken = TRUE]
    BY <1>2, <1>3
  <2> QED BY <2>1, <2>2 DEF Call
<1>4. ASSUME NEW q \in Req, q # r, ~hit(q)
      PROVE  call'[q] = call[q] /\ (call[q].at # "idle" => call[q] \in Call)
  BY <1>2, <1>4 DEF TypeOK, Idle
<1>5. call'[r] = Idle /\ call'[r].at = "idle"
  BY <1>2 DEF Idle
<1>6. \A q \in Req : call'[q] \in Call \cup {Idle}
  BY <1>3, <1>4, <1>5 DEF TypeOK
<1>7. call' \in [Req -> Call \cup {Idle}]
  BY <1>2, <1>6
<1> QED BY <1>1, <1>3, <1>4, <1>5, <1>7

\* A crash changes no account and ends every call.
LEMMA CrashFacts ==
  ASSUME TypeOK, Crash
  PROVE  /\ UNCHANGED <<user, history>>
         /\ call' \in [Req -> Call \cup {Idle}]
         /\ \A r \in Req : call'[r] = Idle /\ call'[r].at = "idle"
BY DEF Crash, Idle

-----------------------------------------------------------------------------
LEMMA InitInv == Init => AccountsInv
<1> SUFFICES ASSUME Init PROVE AccountsInv
  OBVIOUS
<1>1. \A r \in Req : call[r] = Idle /\ call[r].at = "idle"
  BY DEF Init, Idle
<1>2. PICK e \in [Seed -> Address] :
        user = [u \in User |->
          IF u \in Seed
          THEN [email |-> e[u], role |-> "ADMIN", status |-> "ACTIVE", verified |-> TRUE]
          ELSE NoUser]
  BY DEF Init
<1>3. TypeOK
  BY <1>1, <1>2 DEF Init, TypeOK, Account, Role, Status
<1>4. PICK s \in Seed : s \in User
  BY SeedAssumption
<1>5. IsAdmin(s)
  BY <1>2, <1>4 DEF IsAdmin
<1>6. AdminImmunity
  BY <1>2 DEF AdminImmunity, IsAdmin, IsBlocked, NoUser
<1>7. VerifiedKnown
  BY DEF Init, VerifiedKnown
<1> QED BY <1>1, <1>3, <1>4, <1>5, <1>6, <1>7
       DEF AccountsInv, FoundInv, ImmunityInv, EmailSawNoBlock, RemainInv, AddressInv, Doing

\* Begin: the new call meets every condition, the rest is unchanged.
LEMMA BeginInv ==
  ASSUME AccountsInv, NEW r \in Req, BeginAny(r)
  PROVE  AccountsInv'
<1>0. TypeOK
  BY DEF AccountsInv
<1>1. PICK c :
        /\ UNCHANGED <<user, proof, moved>> /\ risky' \in BOOLEAN /\ (risky => risky')
        /\ call[r] = Idle
        /\ Fresh(c) /\ call' = [call EXCEPT ![r] = c]
        /\ c.op = "removeAdmin" /\ ~risky' => \A q \in Req : ~Doing(q, "removeAdmin")
        /\ c.op = "acceptInvite" /\ ~risky' => ~IsAdmin(c.target)
  BY <1>0, BeginFacts
<1>2. /\ call'[r] = c /\ \A q \in Req : q # r => call'[q] = call[q]
      /\ call' \in [Req -> Call \cup {Idle}]
  BY <1>0, <1>1 DEF TypeOK, Fresh
<1>3. TypeOK'
  BY <1>0, <1>1, <1>2 DEF TypeOK
<1>4. FoundInv'
  BY <1>1, <1>2 DEF AccountsInv, FoundInv, Registered, Fresh
<1>5. ImmunityInv'
  BY <1>1, <1>2 DEF AccountsInv, ImmunityInv, AdminImmunity, IsAdmin, IsBlocked, Doing, Fresh
<1>6. EmailSawNoBlock'
  BY <1>1, <1>2 DEF AccountsInv, EmailSawNoBlock, IsBlocked, Doing, Fresh
<1>7. RemainInv'
  <2> SUFFICES ASSUME ~risky' PROVE RemainInv'
    BY DEF RemainInv
  <2>1. ~risky /\ RemainInv
    BY <1>1 DEF AccountsInv
  <2>2. (\E u \in User : IsAdmin(u))'
    BY <1>1, <2>1 DEF RemainInv, IsAdmin
  <2>3. \A q \in Req : q # r =>
          /\ Doing(q, "removeAdmin")' = Doing(q, "removeAdmin")
          /\ Doing(q, "acceptInvite")' = Doing(q, "acceptInvite")
    BY <1>2 DEF Doing
  <2>4. (\A p, q \in Req : (Doing(p, "removeAdmin") /\ Doing(q, "removeAdmin")) => p = q)'
    BY <1>1, <1>2, <2>1, <2>3 DEF RemainInv, Doing
  <2>5. (\A q \in Req : Doing(q, "removeAdmin") =>
           IsAdmin(call[q].actor) /\ (call[q].at = "write" => call[q].actor # call[q].target))'
    BY <1>1, <1>2, <2>1, <2>3 DEF RemainInv, Doing, IsAdmin, Fresh
  <2>6. (\A q \in Req : Doing(q, "acceptInvite") =>
           call[q].at = "write" /\ ~IsAdmin(call[q].target))'
    BY <1>1, <1>2, <2>1, <2>3 DEF RemainInv, Doing, IsAdmin, Fresh
  <2> QED BY <2>2, <2>4, <2>5, <2>6 DEF RemainInv
<1>8. AddressInv'
  BY <1>1, <1>2 DEF AccountsInv, AddressInv, Doing, Fresh
<1>9. VerifiedKnown'
  BY <1>1 DEF AccountsInv, VerifiedKnown
<1> QED BY <1>3, <1>4, <1>5, <1>6, <1>7, <1>8, <1>9 DEF AccountsInv

\* Check, CodeChecked, WriteFails: a call that goes on has passed its checks
\* just now.
LEMMA AdvanceInv ==
  ASSUME AccountsInv, NEW r \in Req, Check(r) \/ CodeChecked(r) \/ WriteFails(r)
  PROVE  AccountsInv'
<1>0. TypeOK
  BY DEF AccountsInv
<1>1. /\ UNCHANGED <<user, history>>
      /\ call[r] \in Call
      /\ call' \in [Req -> Call \cup {Idle}]
      /\ \A q \in Req : q # r => call'[q] = call[q]
      /\ \/ call'[r] = Idle
         \/ /\ call'[r].op = call[r].op /\ call'[r].actor = call[r].actor
            /\ call'[r].target = call[r].target /\ call'[r].address = call[r].address
            /\ call'[r].overtaken = call[r].overtaken
            /\ call'[r].at = "write" /\ call[r].at \in {"find", "otp"}
            /\ call[r].at = "find" => Passes(call[r])
  BY <1>0, AdvanceFacts
<1>2. user' = user /\ risky' = risky /\ proof' = proof /\ moved' = moved
  BY <1>1 DEF history
<1>3. call'[r] = Idle => call'[r].at = "idle"
  BY DEF Idle
<1>4. call[r].at = "otp" => call[r].op \in CodeOp
  BY <1>1 DEF Call
<1>5. TypeOK'
  BY <1>0, <1>1, <1>2 DEF TypeOK
<1>6. FoundInv'
  BY <1>1, <1>2, <1>3
     DEF AccountsInv, FoundInv, Registered, Passes, TargetOp, AdminOp
<1>7. ImmunityInv'
  <2>2. (call'[r] # Idle /\ call[r].op = "block" /\ call[r].at = "find")
           => ~IsAdmin(call[r].target)
    BY <1>1 DEF Passes, MayBlock
  <2> QED BY <1>1, <1>2, <1>3, <1>4, <2>2
         DEF AccountsInv, ImmunityInv, AdminImmunity, IsAdmin, IsBlocked, Doing, CodeOp
<1>8. EmailSawNoBlock'
  BY <1>1, <1>2, <1>3 DEF AccountsInv, EmailSawNoBlock, IsBlocked, Doing
<1>9. RemainInv'
  <2>1. (call'[r] # Idle /\ call[r].op = "removeAdmin" /\ call[r].at = "find")
           => call[r].actor # call[r].target
    BY <1>1 DEF Passes, MayRemoveAdmin
  <2> QED BY <1>1, <1>2, <1>3, <1>4, <2>1 DEF AccountsInv, RemainInv, IsAdmin, Doing, CodeOp
<1>10. AddressInv' /\ VerifiedKnown'
  BY <1>1, <1>2, <1>3 DEF AccountsInv, AddressInv, VerifiedKnown, Doing
<1> QED BY <1>5, <1>6, <1>7, <1>8, <1>9, <1>10 DEF AccountsInv

\* Write: each part follows from what a write cannot do to an account.
LEMMA WriteInv ==
  ASSUME AccountsInv, NEW r \in Req, Write(r)
  PROVE  AccountsInv'
<1>a. PICK u \in Targets(call[r]) : call[r].at = "write" /\ WriteTo(r, u)
  BY DEF Write
<1>0. TypeOK /\ FoundInv
  BY DEF AccountsInv
<1>1. /\ call[r] \in Call /\ u \in User
      /\ call[r].op \in TargetOp => u = call[r].target
      /\ call[r].op = "verifyOtp" => call[r].address = user[u].email
      /\ user' \in [User -> Account \cup {NoUser}]
      /\ \A v \in User \ {u} : user'[v] = user[v] /\ proof'[v] = proof[v]
      /\ user'[u] # NoUser
      /\ user'[u].role = "ADMIN" /\ Registered(u) => IsAdmin(u)
      /\ Registered(u) => call[r].op \notin CreateOp
      /\ user[u].verified => user'[u].verified
      /\ user'[u].verified /\ ~user[u].verified =>
           call[r].op \in CodeOp \cup {"verifyUser", "activate"}
      /\ user'[u].status = "BLOCKED" => IsBlocked(u) \/ call[r].op = "block"
      /\ (IsAdmin(u) /\ user'[u].role # "ADMIN")
           => call[r].op \in {"removeAdmin", "acceptInvite"}
      /\ call[r].op = "block" => user'[u].role = user[u].role
      /\ (user'[u].role = "ADMIN" /\ ~IsAdmin(u)) => user'[u].status # "BLOCKED"
      /\ call[r].op # "changeDetails" /\ Registered(u) => user'[u].email = user[u].email
      /\ proof' \in [User -> Address \cup {Vouched}] /\ proof'[u] = Proof(call[r], u)
      /\ moved \subseteq moved' /\ moved' \subseteq User
      /\ call[r].op = "changeDetails" /\ Relied(u) => u \in moved'
  BY <1>0, <1>a, WriteFacts
<1>2. /\ call' \in [Req -> Call \cup {Idle}]
      /\ call'[r] = Idle /\ call'[r].at = "idle"
      /\ risky' = risky
      /\ \A q \in Req : q # r =>
           /\ call'[q].at = call[q].at
           /\ call[q].at # "idle" =>
                /\ call[q] \in Call
                /\ call'[q].op = call[q].op /\ call'[q].actor = call[q].actor
                /\ call'[q].target = call[q].target /\ call'[q].address = call[q].address
                /\ call[q].overtaken => call'[q].overtaken
           /\ (call[r].op = "block" /\ Doing(q, "verifyEmail") /\ call[q].target = u)
                => call'[q].overtaken
  BY <1>0, <1>a, WriteCallFacts
<1>4. \A q \in Req, op \in Op : Doing(q, op)' => q # r /\ Doing(q, op) /\ call[q] \in Call
  BY <1>2 DEF Doing
<1>5. \A c \in Call : c.op \in Op /\ (c.op \in TargetOp => c.target \in User)
                      /\ (c.op \in AddressOp => c.address \in Address)
                      /\ (c.op \in ComparingOp => c.actor \in User)
  BY DEF Call
<1>6. TypeOK'
  BY <1>0, <1>1, <1>2 DEF TypeOK
<1>7. FoundInv'
  BY <1>0, <1>1, <1>2, <1>5 DEF FoundInv, Registered
<1>8. ImmunityInv'
  <2>1. ImmunityInv
    BY DEF AccountsInv
  <2>2. ASSUME NEW v \in User, IsAdmin(v)' PROVE ~IsBlocked(v)'
    <3>1. CASE v # u
      BY <1>1, <2>1, <2>2, <3>1 DEF ImmunityInv, AdminImmunity, IsAdmin, IsBlocked
    <3>2. CASE v = u /\ call[r].op = "block"
      BY <1>1, <1>a, <2>1, <2>2, <3>2
         DEF ImmunityInv, Doing, IsAdmin, TargetOp, AdminOp
    <3>3. CASE v = u /\ call[r].op # "block"
      BY <1>1, <2>1, <2>2, <3>3 DEF ImmunityInv, AdminImmunity, IsAdmin, IsBlocked
    <3> QED BY <3>1, <3>2, <3>3
  <2>3. ASSUME NEW q \in Req, (Doing(q, "block") /\ call[q].at = "write")'
        PROVE  ~IsAdmin(call[q].target)'
    <3>1. q # r /\ Doing(q, "block") /\ call[q].at = "write" /\ call[q] \in Call
      BY <1>2, <2>3 DEF Doing
    <3>2. /\ Registered(call[q].target) /\ ~IsAdmin(call[q].target) /\ call[q].target \in User
          /\ call'[q].target = call[q].target
      BY <1>0, <1>2, <1>5, <2>1, <3>1 DEF ImmunityInv, FoundInv, Doing, TargetOp, AdminOp
    <3> QED BY <1>1, <3>2 DEF IsAdmin
  <2> QED BY <2>2, <2>3 DEF ImmunityInv, AdminImmunity
<1>9. EmailSawNoBlock'
  <2>1. SUFFICES ASSUME NEW q \in Req, (Doing(q, "verifyEmail") /\ IsBlocked(call[q].target))'
                 PROVE  call'[q].overtaken
    BY DEF EmailSawNoBlock
  <2>2. q # r /\ Doing(q, "verifyEmail") /\ call[q] \in Call
    BY <1>2, <2>1 DEF Doing
  <2>3. user'[call[q].target].status = "BLOCKED" /\ call[q].target \in User
    BY <1>2, <1>5, <2>1, <2>2 DEF IsBlocked, Doing, TargetOp
  <2>4. CASE IsBlocked(call[q].target)
    BY <1>2, <2>2, <2>4 DEF AccountsInv, EmailSawNoBlock, Doing
  <2>5. CASE ~IsBlocked(call[q].target)
    <3>1. call[r].op = "block" /\ call[q].target = u
      BY <1>1, <2>3, <2>5 DEF IsBlocked
    <3> QED BY <1>2, <2>2, <3>1
  <2> QED BY <2>4, <2>5
<1>10. RemainInv'
  <2> SUFFICES ASSUME ~risky PROVE RemainInv'
    BY <1>2 DEF RemainInv
  <2>1. RemainInv
    BY DEF AccountsInv
  <2>2. \A q \in Req, op \in {"removeAdmin", "acceptInvite"} :
          Doing(q, op)' => /\ q # r /\ Doing(q, op) /\ call[q] \in Call
                           /\ call'[q].at = call[q].at
                           /\ call'[q].actor = call[q].actor /\ call'[q].target = call[q].target
    BY <1>2 DEF Doing
  <2>3. (\A p, q \in Req : (Doing(p, "removeAdmin") /\ Doing(q, "removeAdmin")) => p = q)'
    BY <2>1, <2>2 DEF RemainInv
  <2>4. \A v \in User :
          (IsAdmin(v) /\ ~IsAdmin(v)') =>
            Doing(r, "removeAdmin") /\ v = call[r].target
    <3>1. Doing(r, "acceptInvite") => ~IsAdmin(call[r].target)
      BY <2>1 DEF RemainInv
    <3> QED BY <1>1, <1>a, <3>1 DEF Doing, IsAdmin, TargetOp, AdminOp
  <2>5. Doing(r, "removeAdmin") =>
          /\ IsAdmin(call[r].actor) /\ call[r].actor # call[r].target
          /\ call[r].actor \in User
    BY <1>1, <1>5, <1>a, <2>1 DEF RemainInv, Doing, ComparingOp
  <2>6. (\E v \in User : IsAdmin(v))'
    BY <2>1, <2>4, <2>5 DEF RemainInv
  <2>7. ASSUME NEW q \in Req, Doing(q, "removeAdmin")'
        PROVE  (IsAdmin(call[q].actor)
                  /\ (call[q].at = "write" => call[q].actor # call[q].target))'
    <3>1. q # r /\ Doing(q, "removeAdmin") /\ ~Doing(r, "removeAdmin") /\ call[q] \in Call
      BY <2>1, <2>2, <2>7 DEF RemainInv
    <3>2. IsAdmin(call[q].actor) /\ call[q].actor \in User
          /\ (call[q].at = "write" => call[q].actor # call[q].target)
      BY <1>5, <2>1, <3>1 DEF RemainInv, Doing, ComparingOp
    <3>3. IsAdmin(call[q].actor)'
      BY <2>2, <2>4, <2>7, <3>1, <3>2 DEF IsAdmin
    <3> QED BY <2>2, <2>7, <3>2, <3>3
  <2>8. ASSUME NEW q \in Req, Doing(q, "acceptInvite")'
        PROVE  (call[q].at = "write" /\ ~IsAdmin(call[q].target))'
    <3>1. q # r /\ Doing(q, "acceptInvite") /\ call[q] \in Call
      BY <2>2, <2>8
    <3>2. /\ call[q].at = "write" /\ ~IsAdmin(call[q].target) /\ Registered(call[q].target)
          /\ call[q].target \in User
      BY <1>0, <1>5, <2>1, <3>1 DEF RemainInv, FoundInv, Doing, TargetOp
    <3> QED BY <1>1, <2>2, <2>8, <3>2 DEF IsAdmin
  <2> QED BY <2>3, <2>6, <2>7, <2>8 DEF RemainInv
<1>11. AddressInv'
  <2> SUFFICES ASSUME NEW q \in Req, Doing(q, "verifyEmail")'
               PROVE  \/ call'[q].address = user'[call'[q].target].email
                      \/ call'[q].target \in moved'
    BY DEF AddressInv
  <2>1. /\ q # r /\ Doing(q, "verifyEmail") /\ call[q] \in Call
        /\ call'[q].target = call[q].target /\ call'[q].address = call[q].address
        /\ call[q].target \in User /\ call[q].address \in Address
    BY <1>2, <1>5 DEF Doing, TargetOp, AddressOp, CodeOp
  <2>2. CASE call[q].target \in moved
    BY <1>1, <2>1, <2>2
  <2>3. CASE call[q].target # u /\ call[q].target \notin moved
    BY <1>1, <2>1, <2>3 DEF AccountsInv, AddressInv
  <2>4. CASE call[q].target = u /\ call[q].target \notin moved
    <3>1. call[q].address = user[u].email
      BY <2>1, <2>4 DEF AccountsInv, AddressInv
    <3>2. Registered(u)
      BY <2>1, <3>1, NoneAssumption DEF Registered, NoUser
    <3>3. Relied(u)
      BY <2>1, <2>4 DEF Relied
    <3> QED BY <1>1, <2>1, <2>4, <3>1, <3>2, <3>3
  <2> QED BY <2>2, <2>3, <2>4
<1>12. VerifiedKnown'
  <2> SUFFICES ASSUME NEW v \in User, user'[v].verified
               PROVE  proof'[v] \in {Vouched, user'[v].email} \/ v \in moved'
    BY DEF VerifiedKnown
  <2>1. VerifiedKnown
    BY DEF AccountsInv
  <2>2. CASE v # u
    BY <1>1, <2>1, <2>2 DEF VerifiedKnown
  <2>3. CASE v = u /\ ~user[u].verified
    <3>1. call[r].op \in CodeOp \cup {"verifyUser", "activate"}
      BY <1>1, <2>3
    <3>2. CASE call[r].op \in {"verifyUser", "activate"}
      BY <1>1, <2>3, <3>2 DEF Proof, CodeOp
    <3>3. CASE call[r].op = "verifyOtp"
      <4>1. Registered(u)
        BY <1>1, <1>5, <3>3, NoneAssumption
           DEF Registered, NoUser, AddressOp, CodeOp
      <4> QED BY <1>1, <2>3, <3>3, <4>1 DEF Proof, CodeOp
    <3>4. CASE call[r].op = "verifyEmail"
      <4>1. Doing(r, "verifyEmail") /\ u = call[r].target
        BY <1>1, <1>a, <3>4 DEF Doing, TargetOp
      <4>2. Registered(u)
        BY <1>0, <1>a, <3>4, <4>1 DEF FoundInv, TargetOp
      <4>3. call[r].address = user[u].email \/ u \in moved
        BY <4>1 DEF AccountsInv, AddressInv
      <4> QED BY <1>1, <2>3, <3>4, <4>2, <4>3 DEF Proof, CodeOp
    <3> QED BY <3>1, <3>2, <3>3, <3>4 DEF CodeOp
  <2>4. CASE v = u /\ user[u].verified
    <3>1. Registered(u) /\ Relied(u)
      BY <2>4 DEF Registered, NoUser, Relied
    <3>2. CASE call[r].op = "changeDetails"
      BY <1>1, <2>4, <3>1, <3>2
    <3>3. CASE call[r].op \in {"verifyUser", "activate"}
      BY <1>1, <2>4, <3>3 DEF Proof, CodeOp
    <3>4. CASE call[r].op = "verifyOtp"
      BY <1>1, <2>4, <3>1, <3>4 DEF Proof, CodeOp
    <3>5. CASE call[r].op = "verifyEmail"
      <4>1. Doing(r, "verifyEmail") /\ u = call[r].target
        BY <1>1, <1>a, <3>5 DEF Doing, TargetOp
      <4>2. call[r].address = user[u].email \/ u \in moved
        BY <4>1 DEF AccountsInv, AddressInv
      <4> QED BY <1>1, <2>4, <3>1, <3>5, <4>2 DEF Proof, CodeOp
    <3>6. CASE call[r].op \notin CodeOp \cup {"changeDetails", "verifyUser", "activate"}
      BY <1>1, <2>1, <2>4, <3>1, <3>6 DEF Proof, VerifiedKnown
    <3> QED BY <3>2, <3>3, <3>4, <3>5, <3>6 DEF CodeOp
  <2> QED BY <2>2, <2>3, <2>4
<1> QED BY <1>6, <1>7, <1>8, <1>9, <1>10, <1>11, <1>12 DEF AccountsInv

LEMMA CrashInv ==
  ASSUME AccountsInv, Crash
  PROVE  AccountsInv'
<1>1. /\ UNCHANGED <<user, history>>
      /\ call' \in [Req -> Call \cup {Idle}]
      /\ \A r \in Req : call'[r] = Idle /\ call'[r].at = "idle"
  BY CrashFacts DEF AccountsInv
<1> QED BY <1>1 DEF AccountsInv, TypeOK, FoundInv, ImmunityInv, AdminImmunity, history,
                    EmailSawNoBlock, RemainInv, AddressInv, VerifiedKnown, IsAdmin, IsBlocked, Doing

LEMMA StutterInv ==
  ASSUME AccountsInv, UNCHANGED vars
  PROVE  AccountsInv'
BY DEF AccountsInv, vars, history, TypeOK, FoundInv, Registered, ImmunityInv, AdminImmunity,
       EmailSawNoBlock, RemainInv, AddressInv, VerifiedKnown, IsAdmin, IsBlocked, Doing

\* The four kinds of step.
LEMMA Steps ==
  ASSUME Next
  PROVE  \/ Crash
         \/ \E r \in Req : \/ BeginAny(r) \/ Write(r)
                           \/ Check(r) \/ CodeChecked(r) \/ WriteFails(r)
BY DEF Next, Handle, BeginAny

LEMMA NextInv == AccountsInv /\ [Next]_vars => AccountsInv'
BY Steps, BeginInv, AdvanceInv, WriteInv, CrashInv, StutterInv

LEMMA Inductive == Spec => []AccountsInv
BY InitInv, NextInv, PTL DEF Spec

-----------------------------------------------------------------------------
\* The accounts and the calls always have the shape the schemas give them.
THEOREM TypeCorrect == Spec => []TypeOK
<1>1. AccountsInv => TypeOK
  BY DEF AccountsInv
<1> QED BY Inductive, <1>1, PTL

\* No interleaving of moderation, role changes and registrations blocks an
\* admin.
THEOREM AdminsImmune == Spec => []AdminImmunity
<1>1. AccountsInv => AdminImmunity
  BY DEF AccountsInv, ImmunityInv
<1> QED BY Inductive, <1>1, PTL

\* Only a write changes an account.
LEMMA OnlyWrites ==
  ASSUME TypeOK, Next, user' # user
  PROVE  \E r \in Req : \E u \in Targets(call[r]) : call[r].at = "write" /\ WriteTo(r, u)
BY Steps, BeginFacts, AdvanceFacts, CrashFacts DEF Write, history

\* A block is lifted by the five handlers LiftsKnown names only, and by an
\* email verification only if the block came after its check.
THEOREM OnlyTheseLift == Spec => LiftsKnown
<1> DEFINE By(r, u) ==
             /\ call[r].at = "write"
             /\ \/ call[r].op \in {"unblock", "verifyUser", "activate"} /\ call[r].target = u
                \/ call[r].op = "verifyOtp" /\ call[r].address = user[u].email
                \/ call[r].op = "verifyEmail" /\ call[r].target = u /\ call[r].overtaken
           Lifts == \A u \in User : (IsBlocked(u) /\ ~IsBlocked(u)') => \E r \in Req : By(r, u)
<1>1. AccountsInv /\ [Next]_vars => [Lifts]_vars
  <2> SUFFICES ASSUME AccountsInv, Next, NEW v \in User, IsBlocked(v), ~IsBlocked(v)'
               PROVE  \E r \in Req : By(r, v)
    OBVIOUS
  <2>0. TypeOK /\ FoundInv /\ EmailSawNoBlock
    BY DEF AccountsInv
  <2>a. PICK r \in Req : \E u \in Targets(call[r]) : call[r].at = "write" /\ WriteTo(r, u)
    BY <2>0, OnlyWrites DEF IsBlocked
  <2>1. PICK u \in Targets(call[r]) : call[r].at = "write" /\ WriteTo(r, u)
    BY <2>a
  <2>2. /\ u \in User /\ (call[r].op \in TargetOp => u = call[r].target)
        /\ \A w \in User \ {u} : user'[w] = user[w]
        /\ call[r].op = "verifyOtp" => call[r].address = user[u].email
        /\ IsBlocked(u) /\ user'[u].status # "BLOCKED"
             => call[r].op \in {"unblock", "verifyUser", "activate"} \cup CodeOp
    BY <2>0, <2>1, WriteFacts
  <2>3. u = v /\ call[r].op \in {"unblock", "verifyUser", "activate"} \cup CodeOp
    BY <2>2 DEF IsBlocked
  <2>4. call[r].op = "verifyEmail" => call[r].target = v /\ call[r].overtaken
    BY <2>0, <2>1, <2>2, <2>3 DEF EmailSawNoBlock, Doing, TargetOp
  <2>5. By(r, v)
    BY <2>1, <2>2, <2>3, <2>4 DEF TargetOp, AdminOp, CodeOp
  <2> QED BY <2>5
<1> QED BY Inductive, <1>1, PTL DEF Spec, LiftsKnown

\* A verified account was vouched for by an admin or proved the address it
\* has, unless the address changed during or after the verification.
THEOREM VerifiedAreKnown == Spec => []VerifiedKnown
<1>1. AccountsInv => VerifiedKnown
  BY DEF AccountsInv
<1> QED BY Inductive, <1>1, PTL

\* Without overlapping removals and without admins who accept invites there is
\* always an admin.
THEOREM SomebodyIsAdmin == Spec => []AdminsRemain
<1>1. AccountsInv => AdminsRemain
  BY DEF AccountsInv, RemainInv, AdminsRemain
<1> QED BY Inductive, <1>1, PTL

\* Every step keeps registered accounts registered, unpromoted and verified.
THEOREM RolesOnlyFall == Spec => NoPromotion
<1> DEFINE Kept ==
      \A u \in User : Registered(u) =>
        /\ Registered(u)'
        /\ IsAdmin(u)' => IsAdmin(u)
        /\ user[u].verified => user'[u].verified
<1>1. AccountsInv /\ [Next]_vars => [Kept]_vars
  <2> SUFFICES ASSUME AccountsInv, Next PROVE Kept
    OBVIOUS
  <2>0. TypeOK /\ FoundInv
    BY DEF AccountsInv
  <2>1. CASE user' = user
    BY <2>1 DEF Registered, IsAdmin
  <2>2. CASE user' # user
    <3>a. PICK r \in Req : \E u \in Targets(call[r]) : call[r].at = "write" /\ WriteTo(r, u)
      BY <2>0, <2>2, OnlyWrites
    <3>1. PICK u \in Targets(call[r]) : call[r].at = "write" /\ WriteTo(r, u)
      BY <3>a
    <3>2. /\ \A w \in User \ {u} : user'[w] = user[w]
          /\ user'[u] # NoUser
          /\ user'[u].role = "ADMIN" /\ Registered(u) => IsAdmin(u)
          /\ user[u].verified => user'[u].verified
      BY <2>0, <3>1, WriteFacts
    <3> QED BY <3>2 DEF Registered, IsAdmin
  <2> QED BY <2>1, <2>2
<1> QED BY Inductive, <1>1, PTL DEF Spec, NoPromotion

-----------------------------------------------------------------------------
(* Accounts implements AccountLife.  The decisions that look at the account *)
(* are the block of a non-admin (ImmunityInv) and the unblocking of an      *)
(* account that is not pending (SettledInv); the rest is what the write is. *)

\* The accounts a lookup finds are all that have the address.
LEMMA NotFoundFree ==
  ASSUME TypeOK, NEW a \in Address, NEW u \in User, Found(a) \subseteq {u}
  PROVE  Abstract!Free(a, u)
BY DEF Abstract!Free, Abstract!Exists, Found

\* A write is a decision about the account it goes to.
LEMMA WriteDecides ==
  ASSUME AccountsInv, SettledInv, NEW r \in Req, call[r].at = "write",
         NEW u \in Targets(call[r]), WriteTo(r, u)
  PROVE  u \in User /\ (Abstract!Create(u) \/ Abstract!Decide(u))
<1> DEFINE c == call[r]
<1>0. TypeOK /\ FoundInv /\ ImmunityInv
  BY DEF AccountsInv
<1>1. c \in Call /\ c.op \in Op /\ c.role \in Role
  BY <1>0 DEF TypeOK, Idle, Call
<1>2. u \in User /\ (c.op \in TargetOp => u = c.target)
  BY <1>0, WriteFacts
<1>3. c.op \in AddressOp => c.address \in Address
  BY <1>1 DEF Call
<1>4. user' = [user EXCEPT ![u] = Written(c, user[u])]
  BY DEF WriteTo
<1>5. CASE c.op \in CreateOp
  <2>1. u \in Created(c)
    BY <1>5 DEF Targets, CreateOp
  <2>2. Found(c.address) = {} /\ ~Registered(u)
    BY <2>1 DEF Created
  <2>3. c.address \in Address /\ Abstract!Free(c.address, u)
    BY <1>0, <1>2, <1>3, <1>5, <2>2, NotFoundFree DEF AddressOp
  <2>4. PICK role \in Role, status \in {"PENDING", "ACTIVE"} :
          /\ status = "ACTIVE" => role = "ADMIN"
          /\ Written(c, user[u]) =
               [email |-> c.address, role |-> role, status |-> status, verified |-> FALSE]
    <3>1. CASE c.op = "register"
      BY <1>1, <3>1 DEF Written
    <3>2. CASE c.op = "createAdmin"
      BY <1>1, <3>2 DEF Written, Role
    <3> QED BY <1>5, <3>1, <3>2 DEF CreateOp
  <2>5. Abstract!Create(u)
    BY <1>4, <2>2, <2>3, <2>4 DEF Abstract!Create, Abstract!Exists, Registered, Role
  <2> QED BY <1>2, <2>5
<1>6. CASE c.op \notin CreateOp
  <2>1. c.op \in TargetOp \cup {"verifyOtp"}
    BY <1>1, <1>6 DEF Op, AddressOp, CodeOp, TargetOp
  <2>2. Registered(u) /\ user[u] \in Account
    <3>1. CASE c.op \in TargetOp
      BY <1>0, <1>2, <3>1 DEF FoundInv, TypeOK, Registered
    <3>2. CASE c.op = "verifyOtp"
      BY <1>0, <1>3, <3>2, FoundFacts
         DEF Targets, CreateOp, CodeOp, AddressOp, TypeOK, Registered
    <3> QED BY <2>1, <3>1, <3>2
  <2>3. CASE c.op \in CodeOp \cup {"verifyUser", "activate"}
    <3>1. Written(c, user[u]) = [user[u] EXCEPT !.status = "ACTIVE", !.verified = TRUE]
      BY <2>3 DEF Written, CodeOp
    <3>2. Abstract!Verify(u)
      BY <1>0, <1>2, <1>4, <2>2, <3>1 DEF Abstract!Verify, TypeOK
    <3> QED BY <1>2, <2>2, <3>2 DEF Abstract!Decide, Abstract!Exists, Registered
  <2>4. CASE c.op = "block"
    <3>1. ~IsAdmin(u)
      BY <1>0, <1>2, <2>4 DEF ImmunityInv, Doing, TargetOp, AdminOp
    <3>2. Abstract!Block(u)
      BY <1>4, <2>4, <3>1 DEF Abstract!Block, Written, IsAdmin
    <3> QED BY <1>2, <2>2, <3>2 DEF Abstract!Decide, Abstract!Exists, Registered
  <2>5. CASE c.op = "unblock"
    <3>1. user[u].status # "PENDING"
      BY <1>2, <2>5 DEF SettledInv, Doing, TargetOp, AdminOp
    <3>2. Abstract!Unblock(u)
      BY <1>4, <2>5, <3>1 DEF Abstract!Unblock, Written
    <3> QED BY <1>2, <2>2, <3>2 DEF Abstract!Decide, Abstract!Exists, Registered
  <2>6. CASE c.op = "removeAdmin"
    <3>1. Abstract!StepDown(u)
      BY <1>4, <2>6 DEF Abstract!StepDown, Written
    <3> QED BY <1>2, <2>2, <3>1 DEF Abstract!Decide, Abstract!Exists, Registered
  <2>7. CASE c.op = "acceptInvite"
    <3>1. Abstract!JoinCompany(u)
      BY <1>4, <2>7 DEF Abstract!JoinCompany, Written
    <3> QED BY <1>2, <2>2, <3>1 DEF Abstract!Decide, Abstract!Exists, Registered
  <2>8. CASE c.op = "changeDetails"
    <3>1. c.address \in Address /\ Found(c.address) \subseteq {u}
      BY <1>3, <2>8 DEF Targets, CreateOp, AddressOp
    <3>2. Abstract!Free(c.address, u)
      BY <1>0, <1>2, <3>1, NotFoundFree
    <3>3. Abstract!ChangeAddress(u)
      BY <1>4, <2>8, <3>1, <3>2 DEF Abstract!ChangeAddress, Written
    <3> QED BY <1>2, <2>2, <3>3 DEF Abstract!Decide, Abstract!Exists, Registered
  <2> QED BY <2>1, <2>3, <2>4, <2>5, <2>6, <2>7, <2>8 DEF TargetOp, AdminOp, CodeOp
<1> QED BY <1>5, <1>6

\* A decision about an account makes no account that exists pending.
LEMMA DecisionSettles ==
  ASSUME TypeOK, NEW u \in User, Abstract!Create(u) \/ Abstract!Decide(u),
         NEW v \in User, Registered(v), user[v].status # "PENDING"
  PROVE  user'[v].status # "PENDING"
<1>1. user[v] \in Account
  BY DEF TypeOK, Registered
<1>2. CASE Abstract!Create(u)
  BY <1>2, <1>1 DEF Abstract!Create, Abstract!Exists, TypeOK, Registered
<1>3. CASE Abstract!Decide(u)
  BY <1>3, <1>1
     DEF Abstract!Decide, Abstract!Verify, Abstract!Block, Abstract!Unblock, Abstract!StepDown,
         Abstract!JoinCompany, Abstract!ChangeAddress, TypeOK, Account
<1> QED BY <1>2, <1>3

LEMMA SettledNext ==
  ASSUME AccountsInv, SettledInv, [Next]_vars
  PROVE  SettledInv'
<1>0. TypeOK /\ FoundInv
  BY DEF AccountsInv
<1> SUFFICES ASSUME NEW q \in Req, (Doing(q, "unblock") /\ call[q].at = "write")'
             PROVE  user'[call'[q].target].status # "PENDING"
  BY DEF SettledInv
<1>1. CASE \E r \in Req : BeginAny(r)
  <2>1. PICK r \in Req : BeginAny(r)
    BY <1>1
  <2>2. PICK c : /\ UNCHANGED user /\ Fresh(c) /\ call' = [call EXCEPT ![r] = c]
    BY <1>0, <2>1, BeginFacts
  <2>3. q # r /\ call'[q] = call[q]
    BY <1>0, <2>2 DEF Fresh, Doing, TypeOK
  <2> QED BY <2>2, <2>3 DEF SettledInv, Doing
<1>2. CASE \E r \in Req : Check(r) \/ CodeChecked(r) \/ WriteFails(r)
  <2>1. PICK r \in Req : Check(r) \/ CodeChecked(r) \/ WriteFails(r)
    BY <1>2
  <2>2. /\ UNCHANGED user
        /\ call[r] \in Call
        /\ \A p \in Req : p # r => call'[p] = call[p]
        /\ \/ call'[r] = Idle
           \/ /\ call'[r].op = call[r].op /\ call'[r].target = call[r].target
              /\ call[r].at \in {"find", "otp"}
              /\ call[r].at = "find" => Passes(call[r])
    BY <1>0, <2>1, AdvanceFacts DEF history
  <2>3. CASE q # r
    BY <2>2, <2>3 DEF SettledInv, Doing
  <2>4. CASE q = r
    <3>1. call[r].op = "unblock" /\ call[r].at = "find" /\ Passes(call[r])
      BY <2>2, <2>4 DEF Doing, Idle, Call, CodeOp
    <3>2. IsBlocked(call[r].target)
      BY <3>1 DEF Passes, MayUnblock
    <3> QED BY <2>2, <2>4, <3>1, <3>2 DEF IsBlocked, Doing, Idle
  <2> QED BY <2>3, <2>4
<1>3. CASE \E r \in Req : Write(r)
  <2>1. PICK r \in Req : Write(r)
    BY <1>3
  <2>2. PICK u \in Targets(call[r]) : call[r].at = "write" /\ WriteTo(r, u)
    BY <2>1 DEF Write
  <2>3. u \in User /\ (Abstract!Create(u) \/ Abstract!Decide(u))
    BY <2>2, WriteDecides
  <2>4. /\ q # r /\ Doing(q, "unblock") /\ call[q].at = "write" /\ call[q] \in Call
        /\ call'[q].target = call[q].target
    BY <1>0, <2>2, WriteCallFacts DEF Doing
  <2>5. Registered(call[q].target) /\ call[q].target \in User
    BY <1>0, <2>4 DEF FoundInv, Doing, TargetOp, AdminOp, Call
  <2> QED BY <1>0, <2>3, <2>4, <2>5, DecisionSettles DEF SettledInv
<1>4. CASE Crash
  BY <1>0, <1>4, CrashFacts DEF Doing
<1>5. CASE UNCHANGED vars
  BY <1>5 DEF vars, SettledInv, Doing
<1> QED BY <1>1, <1>2, <1>3, <1>4, <1>5, Steps

LEMMA SettledInit == Init => SettledInv
BY DEF Init, SettledInv, Doing, Idle

LEMMA SettledInductive == Spec => [](AccountsInv /\ SettledInv)
BY InitInv, NextInv, SettledInit, SettledNext, PTL DEF Spec

\* Every behaviour of the handlers, whatever overlaps and wherever the process
\* dies, is a behaviour of AccountLife.
THEOREM AccountsImplement == Spec => ImplementsAccountLife
<1>1. Init => Abstract!Init
  BY DEF Init, Abstract!Init
<1>2. AccountsInv /\ SettledInv /\ [Next]_vars => [Abstract!Next]_user
  <2> SUFFICES ASSUME AccountsInv, SettledInv, [Next]_vars, user' # user
               PROVE  Abstract!Next
    OBVIOUS
  <2>1. TypeOK /\ Next
    BY DEF AccountsInv, vars
  <2>2. PICK r \in Req : \E u \in Targets(call[r]) : call[r].at = "write" /\ WriteTo(r, u)
    BY <2>1, OnlyWrites
  <2>3. PICK u \in Targets(call[r]) : call[r].at = "write" /\ WriteTo(r, u)
    BY <2>2
  <2> QED BY <2>3, WriteDecides DEF Abstract!Next
<1> QED BY <1>1, <1>2, SettledInductive, PTL DEF Spec, ImplementsAccountLife, Abstract!Spec

-----------------------------------------------------------------------------
(* When requests are handled one at a time, nothing comes between a check   *)
(* and its write: no other call writes while one is past its check.         *)

\* A call past its check, and a removal before it, find what they have seen.
SerialInv ==
  \A r \in Req :
    /\ call[r].at \in {"otp", "write"} => StillHolds(call[r])
    /\ Doing(r, "removeAdmin") => IsAdmin(call[r].actor)
    /\ call[r].at = "find" => call[r].op \in AdminOp \cup {"createAdmin"}

\* While the accounts stay, what call q checked holds if it did of a call that
\* differs from q in where it is only.
LEMMA StillHoldsSame ==
  ASSUME UNCHANGED user, NEW q \in Req, NEW c, call'[q].op = c.op, call'[q].actor = c.actor,
         call'[q].target = c.target, call'[q].address = c.address, StillHolds(c)
  PROVE  StillHolds(call[q])'
BY DEF StillHolds, Passes, Found, Registered, IsAdmin, IsBlocked,
       MayBlock, MayUnblock, MayVerifyUser, MayRemoveAdmin, MayVerifyEmail

LEMMA SerialNext ==
  ASSUME AccountsInv, SerialInv, Serial, [Next]_vars
  PROVE  SerialInv'
<1>0. TypeOK
  BY DEF AccountsInv
<1>1. CASE \E r \in Req : BeginAny(r)
  <2>1. PICK r \in Req : BeginAny(r)
    BY <1>1
  <2>2. PICK c : /\ UNCHANGED user /\ Fresh(c) /\ call' = [call EXCEPT ![r] = c]
    BY <1>0, <2>1, BeginFacts
  <2>3. call'[r] = c /\ \A q \in Req : q # r => call'[q] = call[q]
    BY <1>0, <2>2 DEF TypeOK
  <2>4. \A q \in Req : Doing(q, "removeAdmin")' => IsAdmin(call[q].actor)'
    BY <2>2, <2>3 DEF SerialInv, Doing, Fresh, IsAdmin
  <2>5. \A q \in Req : call'[q].at \in {"otp", "write"} => StillHolds(call[q])'
    BY <2>2, <2>3, StillHoldsSame DEF SerialInv, Fresh
  <2> QED BY <2>2, <2>3, <2>4, <2>5 DEF SerialInv, Fresh
<1>2. CASE \E r \in Req : Check(r) \/ CodeChecked(r) \/ WriteFails(r)
  <2>1. PICK r \in Req : Check(r) \/ CodeChecked(r) \/ WriteFails(r)
    BY <1>2
  <2>2. /\ UNCHANGED user
        /\ call[r] \in Call
        /\ \A q \in Req : q # r => call'[q] = call[q]
        /\ \/ call'[r] = Idle
           \/ /\ call'[r].op = call[r].op /\ call'[r].actor = call[r].actor
              /\ call'[r].target = call[r].target /\ call'[r].address = call[r].address
              /\ call'[r].at = "write" /\ call[r].at \in {"find", "otp"}
              /\ call[r].at = "find" => Passes(call[r])
    BY <1>0, <2>1, AdvanceFacts DEF history
  <2>3. call'[r] = Idle => call'[r].at = "idle"
    BY DEF Idle
  <2>4. \A q \in Req : Doing(q, "removeAdmin")' => IsAdmin(call[q].actor)'
    BY <2>2, <2>3 DEF SerialInv, Doing, IsAdmin
  <2>5. ASSUME call'[r] # Idle PROVE StillHolds(call[r])
    <3>1. CASE call[r].at = "otp"
      BY <3>1 DEF SerialInv
    <3>2. CASE call[r].at = "find"
      <4>1. Passes(call[r]) /\ call[r].op \in AdminOp \cup {"createAdmin"}
        BY <2>2, <2>5, <3>2 DEF SerialInv
      <4> QED BY <3>2, <4>1 DEF SerialInv, StillHolds, CreateOp, Passes, Doing, AdminOp, TargetOp
    <3> QED BY <2>2, <2>5, <3>1, <3>2
  <2>6. \A q \in Req : call'[q].at \in {"otp", "write"} => StillHolds(call[q])'
    BY <2>2, <2>3, <2>5, StillHoldsSame DEF SerialInv
  <2> QED BY <2>2, <2>3, <2>4, <2>6 DEF SerialInv
<1>3. CASE \E r \in Req : Write(r)
  <2>1. PICK r \in Req : \E u \in Targets(call[r]) : call[r].at = "write" /\ WriteTo(r, u)
    BY <1>3 DEF Write
  <2>2. PICK u \in Targets(call[r]) : call[r].at = "write" /\ WriteTo(r, u)
    BY <2>1
  <2>3. \A q \in Req : call[q].at # "idle" => q = r
    BY <2>2 DEF Serial, Idle
  <2>4. \A q \in Req : call'[q].at = "idle"
    BY <1>0, <2>2, <2>3, WriteCallFacts
  <2> QED BY <2>4 DEF SerialInv, Doing
<1>4. CASE Crash
  BY <1>0, <1>4, CrashFacts DEF SerialInv, Doing
<1>5. CASE UNCHANGED vars
  BY <1>5, StillHoldsSame DEF vars, SerialInv, Doing, IsAdmin
<1> QED BY <1>1, <1>2, <1>3, <1>4, <1>5, Steps

LEMMA SerialInit == Init => SerialInv
BY DEF Init, SerialInv, Doing, Idle

LEMMA SerialInductive == Spec /\ []Serial => [](AccountsInv /\ SerialInv)
BY InitInv, NextInv, SerialInit, SerialNext, PTL DEF Spec

\* When requests are handled one at a time, every handler writes an account
\* that is still as its check found it.
THEOREM SerialWritesWhatItChecked == Spec /\ []Serial => []WritesWhatItChecked
<1>1. SerialInv => WritesWhatItChecked
  BY DEF SerialInv, WritesWhatItChecked
<1> QED BY SerialInductive, <1>1, PTL

\* When requests are handled one at a time, no email verification lifts a block:
\* only the handlers that mean to, or that ignore the status, do.
THEOREM SerialLiftsOnPurpose == Spec /\ []Serial => LiftsOnPurpose
<1> DEFINE By(r, u) ==
             /\ call[r].at = "write"
             /\ \/ call[r].op \in {"unblock", "verifyUser", "activate"} /\ call[r].target = u
                \/ call[r].op = "verifyOtp" /\ call[r].address = user[u].email
           Overtaken(r, u) ==
             /\ call[r].at = "write"
             /\ call[r].op = "verifyEmail" /\ call[r].target = u /\ call[r].overtaken
           Lifted(u) == IsBlocked(u) /\ ~IsBlocked(u)'
           Known == \A u \in User : Lifted(u) => \E r \in Req : By(r, u) \/ Overtaken(r, u)
           OnPurpose == \A u \in User : Lifted(u) => \E r \in Req : By(r, u)
<1>1. LiftsKnown => [][Known]_vars
  <2>1. (\A u \in User :
           (IsBlocked(u) /\ ~IsBlocked(u)') =>
             \E r \in Req :
               /\ call[r].at = "write"
               /\ \/ call[r].op \in {"unblock", "verifyUser", "activate"} /\ call[r].target = u
                  \/ call[r].op = "verifyOtp" /\ call[r].address = user[u].email
                  \/ call[r].op = "verifyEmail" /\ call[r].target = u /\ call[r].overtaken)
        => Known
    OBVIOUS
  <2> QED BY <2>1, PTL DEF LiftsKnown
<1>2. WritesWhatItChecked /\ [Known]_vars => [OnPurpose]_vars
  <2> SUFFICES ASSUME WritesWhatItChecked, Known, NEW u \in User, Lifted(u)
               PROVE  \E r \in Req : By(r, u)
    OBVIOUS
  <2>1. PICK r \in Req : By(r, u) \/ Overtaken(r, u)
    OBVIOUS
  <2>2. ~Overtaken(r, u)
    BY DEF WritesWhatItChecked, StillHolds, MayVerifyEmail
  <2> QED BY <2>1, <2>2
<1>3. [][OnPurpose]_vars => LiftsOnPurpose
  BY DEF LiftsOnPurpose
<1> QED BY OnlyTheseLift, SerialWritesWhatItChecked, <1>1, <1>2, <1>3, PTL
=============================================================================
