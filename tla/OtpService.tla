----------------------------- MODULE OtpService -----------------------------
(***************************************************************************)
(* infrastructure/otp/otp.service.js: storeOtp and verifyOtp for one       *)
(* (purpose, identifier) pair.  The pairs share no key, so one stands for  *)
(* all of them.                                                            *)
(*                                                                         *)
(* A request of Req is a call in progress in the Node process.  Every      *)
(* "await redisService..." is one action, and whatever runs between two    *)
(* awaits belongs to the action of the await before it: calls interleave   *)
(* exactly there.  The process can crash, which drops every call, and a    *)
(* Redis command can be skipped or lose its answer (RedisStore).           *)
(***************************************************************************)
EXTENDS RedisStore, FiniteSets

CONSTANTS
  Req,          \* concurrent calls
  Code,         \* the six-digit codes
  None,         \* no code, no password
  MaxAttempts,  \* wrong codes that lock the pair out (5 in the code)
  OtpTtl, CooldownTtl, AttemptsTtl, LockoutTtl,   \* in ticks
  MaxIssues, MaxFaults, MaxCrashes                \* bounds of the model

ASSUME TtlAssumption ==
  /\ {OtpTtl, CooldownTtl, AttemptsTtl, LockoutTtl} \subseteq Nat \ {0}
  /\ OtpTtl <= AttemptsTtl   \* both are 600 seconds

ASSUME ReqAssumption == IsFiniteSet(Req)

ASSUME AttemptsAssumption == MaxAttempts \in Nat /\ MaxAttempts >= 2

ASSUME BoundAssumption ==
  MaxIssues \in Nat /\ MaxFaults \in Nat /\ MaxCrashes \in Nat

ASSUME NoneAssumption == None \notin Nat /\ None \notin Code

VARIABLES
  redis,     \* the four keys of the pair
  call,      \* each call: where it is, the code it was given, and which
             \* one-time password it stores or has matched
  issued,    \* one-time passwords generated so far: identifies the last one
  redeemed,  \* history: calls each password answered success to
  missed,    \* history: wrong codes compared with each password
  faults, crashes

vars == <<redis, call, issued, redeemed, missed, faults, crashes>>

history == <<redeemed, missed>>

Key   == {"otp", "attempts", "cooldown", "lockout"}
Issue == 1..MaxIssues

StorePc   == {"s_lockout", "s_cooldown", "s_otp", "s_setCooldown", "s_attempts"}
LimitPc   == {"l_lockout", "l_otp", "l_attempts"}
RedeemPc  == {"r_otp", "r_attempts", "r_cooldown"}
VerifyPc  == {"v_lockout", "v_get", "v_incr", "v_expire"} \cup LimitPc \cup RedeemPc

Idle == [at |-> "idle", code |-> None, otp |-> None]

-----------------------------------------------------------------------------
Init ==
  /\ redis = [k \in Key |-> Absent]
  /\ call = [r \in Req |-> Idle]
  /\ issued = 0
  /\ redeemed = [i \in Issue |-> 0]
  /\ missed = [i \in Issue |-> 0]
  /\ faults = 0
  /\ crashes = 0

\* A command of call r is awaited at "from" and ends with outcome o.
Awaits(r, from, o) ==
  /\ call[r].at = from
  /\ o = "done" \/ faults < MaxFaults
  /\ faults' = IF o = "done" THEN faults ELSE faults + 1
  /\ UNCHANGED <<issued, crashes>>

Goto(r, to) ==
  call' = [call EXCEPT ![r] = IF to = "idle" THEN Idle ELSE [@ EXCEPT !.at = to]]

\* A command whose only effect is on Redis, then the next await.
Writes(r, from, to, db) ==
  \E o \in Outcome :
    /\ Awaits(r, from, o)
    /\ redis' = After(o, redis, db)
    /\ Goto(r, to)
    /\ UNCHANGED history

\* An EXISTS guard: the call returns when the key is there.
ReturnsIfExists(r, from, key, to) ==
  \E o \in Outcome :
    /\ Awaits(r, from, o)
    /\ Goto(r, IF SaysExists(o, redis, key) THEN "idle" ELSE to)
    /\ UNCHANGED <<redis, history>>

-----------------------------------------------------------------------------
(* storeOtp                                                                *)

\* The caller passes a code fresh from generateOtp, uniform over the codes.
StoreBegin(r) ==
  /\ call[r].at = "idle"
  /\ issued < MaxIssues
  /\ issued' = issued + 1
  /\ \E c \in Code :
       call' = [call EXCEPT ![r] = [at |-> "s_lockout", code |-> c, otp |-> issued']]
  /\ UNCHANGED <<redis, redeemed, missed, faults, crashes>>

StoreCheckLockout(r)  == ReturnsIfExists(r, "s_lockout", "lockout", "s_cooldown")

StoreCheckCooldown(r) == ReturnsIfExists(r, "s_cooldown", "cooldown", "s_otp")

\* Mutant: the SET is retried when its answer is lost.
StoreRetriesOtp(r) ==
  \E o \in Outcome :
    /\ Awaits(r, "s_otp", o)
    /\ redis' = After(o, redis,
                 SetEx(redis, "otp", [hash |-> call[r].code, issue |-> call[r].otp], OtpTtl))
    /\ Goto(r, IF o = "done" THEN "s_setCooldown" ELSE "s_otp")
    /\ UNCHANGED history

StoreSetOtp(r) ==
  Writes(r, "s_otp", "s_setCooldown",
         SetEx(redis, "otp", [hash |-> call[r].code, issue |-> call[r].otp], OtpTtl))

\* Mutant: the cooldown flag has no time to live.
StoreSetCooldownForever(r) ==
  Writes(r, "s_setCooldown", "s_attempts", SetEx(redis, "cooldown", "1", NoExpiry))

StoreSetCooldown(r) ==
  Writes(r, "s_setCooldown", "s_attempts", SetEx(redis, "cooldown", "1", CooldownTtl))

StoreResetAttempts(r) ==
  Writes(r, "s_attempts", "idle", Del(redis, "attempts"))

-----------------------------------------------------------------------------
(* verifyOtp                                                               *)

VerifyBegin(r) ==
  /\ call[r].at = "idle"
  /\ \E c \in Code :
       call' = [call EXCEPT ![r] = [at |-> "v_lockout", code |-> c, otp |-> None]]
  /\ UNCHANGED <<redis, issued, history, faults, crashes>>

VerifyCheckLockout(r) == ReturnsIfExists(r, "v_lockout", "lockout", "v_get")

\* EXPIRED_OR_INVALID: no code stored, or no answer.
VerifyGetNothing(r) ==
  \E o \in Outcome :
    /\ Awaits(r, "v_get", o)
    /\ ~SaysExists(o, redis, "otp")
    /\ Goto(r, "idle")
    /\ UNCHANGED <<redis, history>>

VerifyGetMatch(r) ==
  /\ Awaits(r, "v_get", "done")
  /\ Exists(redis, "otp")
  /\ redis["otp"].val.hash = call[r].code
  /\ call' = [call EXCEPT ![r] =
                [at |-> "r_otp", code |-> @.code, otp |-> redis["otp"].val.issue]]
  /\ UNCHANGED <<redis, history>>

VerifyGetMismatch(r) ==
  /\ Awaits(r, "v_get", "done")
  /\ Exists(redis, "otp")
  /\ redis["otp"].val.hash # call[r].code
  /\ missed' = [missed EXCEPT ![redis["otp"].val.issue] = @ + 1]
  /\ Goto(r, "v_incr")
  /\ UNCHANGED <<redis, redeemed>>

\* Mutants: the limit is one too high; the new counter gets no time to live.
AfterMissOffByOne(o, attempts) ==
  CASE o = "done" /\ attempts = 1           -> "v_expire"
    [] o = "done" /\ attempts > MaxAttempts -> "l_lockout"
    [] OTHER                                -> "idle"

AfterMissNoExpire(o, attempts) ==
  IF o = "done" /\ attempts >= MaxAttempts THEN "l_lockout" ELSE "idle"

\* Where a call goes when INCR answered attempts.  Without an answer attempts
\* is null, neither 1 nor >= 5, and the call returns INVALID_OTP.
AfterMiss(o, attempts) ==
  CASE o = "done" /\ attempts = 1            -> "v_expire"
    [] o = "done" /\ attempts >= MaxAttempts -> "l_lockout"
    [] OTHER                                 -> "idle"

VerifyIncr(r) ==
  \E o \in Outcome :
    /\ Awaits(r, "v_incr", o)
    /\ redis' = After(o, redis, Incr(redis, "attempts"))
    /\ Goto(r, AfterMiss(o, Counter(redis, "attempts") + 1))
    /\ UNCHANGED history

\* Mutant: EXPIRE is repeated until it finds the key.
VerifyExpireRetries(r) ==
  Writes(r, "v_expire", IF Exists(redis, "attempts") THEN "idle" ELSE "v_expire",
         Expire(redis, "attempts", AttemptsTtl))

VerifyExpire(r) ==
  Writes(r, "v_expire", "idle", Expire(redis, "attempts", AttemptsTtl))

\* Mutant: the lockout has no time to live.
LimitSetLockoutForever(r) ==
  Writes(r, "l_lockout", "l_otp", SetEx(redis, "lockout", "1", NoExpiry))

LimitSetLockout(r) ==
  Writes(r, "l_lockout", "l_otp", SetEx(redis, "lockout", "1", LockoutTtl))

LimitDropOtp(r) == Writes(r, "l_otp", "l_attempts", Del(redis, "otp"))

LimitDropAttempts(r) == Writes(r, "l_attempts", "idle", Del(redis, "attempts"))

\* Mutant: the password is not consumed.
RedeemKeepsOtp(r) == Writes(r, "r_otp", "r_attempts", redis)

RedeemDropOtp(r) == Writes(r, "r_otp", "r_attempts", Del(redis, "otp"))

RedeemDropAttempts(r) == Writes(r, "r_attempts", "r_cooldown", Del(redis, "attempts"))

\* Mutant: a success also clears the lockout.
RedeemClearsLockout(r) ==
  \E o \in Outcome :
    /\ Awaits(r, "r_cooldown", o)
    /\ redis' = After(o, redis, Del(Del(redis, "cooldown"), "lockout"))
    /\ redeemed' = [redeemed EXCEPT ![call[r].otp] = @ + 1]
    /\ Goto(r, "idle")
    /\ UNCHANGED missed

\* The call answers success whatever became of its three deletes.
RedeemDropCooldown(r) ==
  \E o \in Outcome :
    /\ Awaits(r, "r_cooldown", o)
    /\ redis' = After(o, redis, Del(redis, "cooldown"))
    /\ redeemed' = [redeemed EXCEPT ![call[r].otp] = @ + 1]
    /\ Goto(r, "idle")
    /\ UNCHANGED missed

-----------------------------------------------------------------------------
(* The environment                                                         *)

\* Time passes: every key with a time to live gets a tick older.
Tick ==
  /\ redis' = Elapse(redis)
  /\ UNCHANGED <<call, issued, history, faults, crashes>>

\* The process dies, or index.js gives up on a shutdown after ten seconds:
\* every call stops where it is.
Crash ==
  /\ crashes < MaxCrashes
  /\ crashes' = crashes + 1
  /\ call' = [r \in Req |-> Idle]
  /\ UNCHANGED <<redis, issued, history, faults>>

Store(r) ==
  \/ StoreCheckLockout(r) \/ StoreCheckCooldown(r) \/ StoreSetOtp(r)
  \/ StoreSetCooldown(r) \/ StoreResetAttempts(r)

Verify(r) ==
  \/ VerifyCheckLockout(r)
  \/ VerifyGetNothing(r) \/ VerifyGetMatch(r) \/ VerifyGetMismatch(r)
  \/ VerifyIncr(r) \/ VerifyExpire(r)
  \/ LimitSetLockout(r) \/ LimitDropOtp(r) \/ LimitDropAttempts(r)
  \/ RedeemDropOtp(r) \/ RedeemDropAttempts(r) \/ RedeemDropCooldown(r)

Next ==
  \/ \E r \in Req : StoreBegin(r) \/ VerifyBegin(r) \/ Store(r) \/ Verify(r)
  \/ Tick
  \/ Crash

Spec == Init /\ [][Next]_vars

\* The event loop resumes every call whose await has settled, and time passes.
\* Nothing obliges a client to call, or the process to crash.
Fairness == WF_vars(Tick) /\ \A r \in Req : WF_vars(Store(r) \/ Verify(r))

FairSpec == Spec /\ Fairness
=============================================================================
