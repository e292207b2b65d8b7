---------------------------- MODULE OtpProperties ----------------------------
(***************************************************************************)
(* What otp.service.js guarantees, whoever calls it and whenever it stops. *)
(***************************************************************************)
EXTENDS OtpService

Call ==
  {Idle}
    \cup [at: StorePc, code: Code, otp: Issue]
    \cup [at: VerifyPc \ RedeemPc, code: Code, otp: {None}]
    \cup [at: RedeemPc, code: Code, otp: Issue]

EntryOf(values, ttls) == {Absent} \cup [val: values, ttl: ttls]

\* Every key holds a value of its kind with a time to live of its kind.
RedisOK(db) ==
  /\ db = [k \in Key |-> db[k]]
  /\ db["otp"] \in EntryOf([hash: Code, issue: Issue], 1..OtpTtl)
  /\ db["attempts"] \in EntryOf(Nat \ {0}, 1..AttemptsTtl \cup {NoExpiry})
  /\ db["cooldown"] \in EntryOf({"1"}, 1..CooldownTtl)
  /\ db["lockout"] \in EntryOf({"1"}, 1..LockoutTtl)

\* A call carries a password exactly where storeOtp or verifyOtp has one.
TypeOK ==
  /\ RedisOK(redis)
  /\ call \in [Req -> Call]
  /\ issued \in 0..MaxIssues
  /\ redeemed \in [Issue -> Nat]
  /\ missed \in [Issue -> Nat]
  /\ faults \in 0..MaxFaults
  /\ crashes \in 0..MaxCrashes

Stored(i) == Exists(redis, "otp") /\ redis["otp"].val.issue = i

-----------------------------------------------------------------------------
(* Guarantees                                                              *)

\* While Redis answers, a password that one call has answered success to is
\* gone from Redis for good, so no call made after that answer can use it:
\* otp.service.js:96-102 deletes the key before it answers.
NoReplayAfterSuccess ==
  faults = 0 => \A i \in Issue : redeemed[i] > 0 => ~Stored(i)

\* A password that has left Redis (consumed, expired, replaced, or dropped by
\* a lockout) never comes back, not even by a slow storeOtp or after a fault:
\* one that enters Redis has never been compared with a code.
DeadStaysDead ==
  [][\A i \in Issue :
       (~Stored(i) /\ Stored(i)') =>
         /\ redeemed[i] = 0 /\ missed[i] = 0
         /\ \A r \in Req : ~(call[r].at \in RedeemPc /\ call[r].otp = i)]_vars

\* Concurrent calls may each have read a password before the first of them
\* deletes it; no more than all of them succeed (otp.service.js:64-102).
RedeemedOnlyByOverlappingCalls ==
  faults = 0 => \A i \in Issue : redeemed[i] <= Cardinality(Req)

\* The attempts counter stands at the limit only while some call is on its way
\* to lock the pair out and clear it (otp.service.js:84-90).
LimitIsEnforced ==
  (faults = 0 /\ crashes = 0 /\ Counter(redis, "attempts") >= MaxAttempts)
    => \E r \in Req : call[r].at \in LimitPc

\* The attempts counter is without a time to live only while the call that
\* created it is about to set one (otp.service.js:79-82).
CounterWillExpire ==
  (faults = 0 /\ crashes = 0 /\ Exists(redis, "attempts")
     /\ redis["attempts"].ttl = NoExpiry)
    => \E r \in Req : call[r].at = "v_expire"

\* The wrong codes one password can be compared with: the documented limit when
\* calls do not overlap; when N do, each may be about to clear the counter for
\* an older password, and a counter may be left over from one.
GuessLimit ==
  IF Cardinality(Req) = 1 THEN MaxAttempts
  ELSE Cardinality(Req) * MaxAttempts + (MaxAttempts - 2)

\* However concurrent calls interleave with each other, with the expiry of the
\* counter and with every reset of it (by storeOtp, by a lockout, by another
\* verification), no password is compared with more wrong codes than that.  A
\* Redis fault adds at most one limit, a crash one for each call it stops
\* (otp.service.js:77-91).
GuessBudget ==
  \A i \in Issue :
    missed[i] <= GuessLimit + (faults + crashes * Cardinality(Req)) * MaxAttempts

\* Nothing but the passage of time ends a lockout: not a storeOtp or a success
\* that was in progress when the lockout was set (otp.service.js:86,97-99).
LockoutOnlyExpires ==
  [][(Exists(redis, "lockout") /\ ~Exists(redis, "lockout")') => redis["lockout"].ttl = 1]_vars

\* Every lockout ends, whatever the calls in progress when it began do: those
\* can renew it, and later ones are turned away before they could.
LockoutEnds == Exists(redis, "lockout") ~> ~Exists(redis, "lockout")

\* Every call gets its answer.
CallsAnswered == \A r \in Req : (call[r].at # "idle") ~> (call[r].at = "idle")

-----------------------------------------------------------------------------
(* When requests are handled one at a time                                 *)

Serial == \A r, q \in Req : (call[r].at # "idle" /\ call[q].at # "idle") => r = q

\* While Redis answers, a password is accepted once (OTP_DESIGN.md:18).
SingleUse == faults = 0 => \A i \in Issue : redeemed[i] <= 1

-----------------------------------------------------------------------------
(* The inductive invariant behind the first two guarantees                 *)

\* storeOtp has not reached its SET.
Storing == {"s_lockout", "s_cooldown", "s_otp"}

\* i has never been in Redis nor matched by a call.
Untouched(i) ==
  /\ ~Stored(i) /\ redeemed[i] = 0 /\ missed[i] = 0
  /\ \A r \in Req : call[r].at \in RedeemPc => call[r].otp # i

\* A password about to be stored is nobody else's and is stored once.
FreshInv ==
  /\ \A i \in Issue : i > issued => Untouched(i)
  /\ \A r \in Req : call[r].at \in StorePc => call[r].otp <= issued
  /\ \A r \in Req, i \in Issue :
       (call[r].at \in Storing /\ call[r].otp = i) =>
         /\ Untouched(i)
         /\ \A q \in Req : (q # r /\ call[q].at \in Storing) => call[q].otp # i

\* While Redis answers, a call past its DEL of a password leaves none behind.
GoneInv ==
  faults = 0 =>
    \A i \in Issue : Stored(i) =>
      /\ redeemed[i] = 0
      /\ \A r \in Req : call[r].at \in {"r_attempts", "r_cooldown"} => call[r].otp # i

ReplayInv == TypeOK /\ FreshInv /\ GoneInv

\* The calls that have matched password i and not yet answered.
Redeeming(i) == {r \in Req : call[r].at \in RedeemPc /\ call[r].otp = i}

\* While Redis answers, a password's successes, given and to come, are of
\* calls that ran at the same time.
OverlapInv ==
  faults = 0 => \A i \in Issue : redeemed[i] + Cardinality(Redeeming(i)) <= Cardinality(Req)

\* The calls about to clear the counter and to leave the password stored.
Clears    == {"s_setCooldown", "s_attempts", "r_attempts", "l_attempts"}
Resetting == {r \in Req : call[r].at \in Clears}

\* The calls that may still find a wrong code before they drop the password:
\* all but those that have just found one.
Found    == {"v_incr", "l_lockout", "l_otp"}
Guessing == {r \in Req : call[r].at \notin Found}

\* Wrong codes that are counted before the counter reaches the limit.
Headroom ==
  IF Counter(redis, "attempts") < MaxAttempts THEN (MaxAttempts - 1) - Counter(redis, "attempts") ELSE 0

\* The counter is older than the password, and may expire before it.
Leftover ==
  /\ Exists(redis, "attempts") /\ redis["attempts"].ttl # NoExpiry
  /\ redis["attempts"].ttl < redis["otp"].ttl

\* Wrong codes counted without the limit being reached, before the next reset.
Slack == Headroom + (IF Leftover THEN MaxAttempts - 1 ELSE 0)

\* The wrong codes the stored password may still be compared with.  When every
\* call is about to reset the counter, none is counted before the first reset.
Room ==
  IF Resetting = Req THEN (MaxAttempts - 1) * Cardinality(Req)
  ELSE (MaxAttempts - 1) * Cardinality(Resetting) + Slack

ToCome == Cardinality(Guessing) + Room

Allowance == GuessLimit + (faults + crashes * Cardinality(Req)) * MaxAttempts

\* GuessBudget leaves room for what is still to come.
BudgetInv ==
  \A i \in Issue :
    missed[i] + (IF Stored(i) THEN ToCome ELSE 0) <= Allowance

-----------------------------------------------------------------------------
(* OtpService implements OneTimeCode while Redis answers (MaxFaults = 0)    *)

currentOtp == IF Exists(redis, "otp") THEN redis["otp"].val.issue ELSE None
matchedOtp == [r \in Req |-> IF call[r].at \in RedeemPc THEN call[r].otp ELSE None]
spentOtp   == {i \in Issue : redeemed[i] > 0}

Abstract == INSTANCE OneTimeCode
  WITH current <- currentOtp, matched <- matchedOtp, spent <- spentOtp

\* Every step of the service is a step of OneTimeCode or leaves it unchanged.
ImplementsOneTimeCode == Abstract!Spec

=============================================================================
