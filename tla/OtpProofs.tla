------------------------------ MODULE OtpProofs ------------------------------
(***************************************************************************)
(* Proofs of the guarantees of OtpProperties for every value of the        *)
(* constants: any number of calls, codes, passwords, faults and crashes.   *)
(***************************************************************************)
EXTENDS OtpProperties, FiniteSetTheorems, TLAPS

-----------------------------------------------------------------------------
(* What the Redis commands keep of the shape of the database               *)

\* Replacing one entry by another of its kind.
LEMMA PutOK ==
  ASSUME NEW db, RedisOK(db), NEW k \in Key, NEW e,
         \/ k = "otp" /\ e \in EntryOf([hash: Code, issue: Issue], 1..OtpTtl)
         \/ k = "attempts" /\ e \in EntryOf(Nat \ {0}, 1..AttemptsTtl \cup {NoExpiry})
         \/ k = "cooldown" /\ e \in EntryOf({"1"}, 1..CooldownTtl)
         \/ k = "lockout" /\ e \in EntryOf({"1"}, 1..LockoutTtl)
  PROVE  RedisOK([db EXCEPT ![k] = e])
  BY DEF RedisOK, Key

LEMMA DelOK ==
  ASSUME NEW db, RedisOK(db), NEW k \in Key
  PROVE  RedisOK(Del(db, k))
  BY PutOK DEF Del, Key, EntryOf

LEMMA SetOtpOK ==
  ASSUME NEW db, RedisOK(db), NEW c \in Code, NEW i \in Issue
  PROVE  RedisOK(SetEx(db, "otp", [hash |-> c, issue |-> i], OtpTtl))
  BY PutOK, TtlAssumption DEF SetEx, Entry, Key, EntryOf

LEMMA SetCooldownOK ==
  ASSUME NEW db, RedisOK(db)
  PROVE  RedisOK(SetEx(db, "cooldown", "1", CooldownTtl))
  BY PutOK, TtlAssumption DEF SetEx, Entry, Key, EntryOf

LEMMA SetLockoutOK ==
  ASSUME NEW db, RedisOK(db)
  PROVE  RedisOK(SetEx(db, "lockout", "1", LockoutTtl))
  BY PutOK, TtlAssumption DEF SetEx, Entry, Key, EntryOf

LEMMA IncrOK ==
  ASSUME NEW db, RedisOK(db)
  PROVE  RedisOK(Incr(db, "attempts"))
<1>1. Entry(Counter(db, "attempts") + 1, TtlOf(db, "attempts"))
        \in EntryOf(Nat \ {0}, 1..AttemptsTtl \cup {NoExpiry})
  BY DEF RedisOK, Counter, TtlOf, Exists, Absent, Entry, EntryOf, NoExpiry
<1>2. QED
  BY <1>1, PutOK DEF Incr, Key

LEMMA ExpireOK ==
  ASSUME NEW db, RedisOK(db)
  PROVE  RedisOK(Expire(db, "attempts", AttemptsTtl))
<1>1. Exists(db, "attempts") =>
        Entry(db["attempts"].val, AttemptsTtl)
          \in EntryOf(Nat \ {0}, 1..AttemptsTtl \cup {NoExpiry})
  BY TtlAssumption DEF RedisOK, Exists, Absent, Entry, EntryOf, NoExpiry
<1>2. QED
  BY <1>1, PutOK DEF Expire, SetEx, Key

\* A tick leaves every entry of its kind.
LEMMA AgedOK ==
  ASSUME NEW values, NEW T \in Nat,
         NEW ttls, ttls = 1..T \/ ttls = 1..T \cup {NoExpiry},
         NEW e \in EntryOf(values, ttls)
  PROVE  Aged(e) \in EntryOf(values, ttls)
  BY DEF Aged, Absent, Entry, EntryOf, NoExpiry

LEMMA ElapseOK ==
  ASSUME NEW db, RedisOK(db)
  PROVE  RedisOK(Elapse(db))
<1>1. DOMAIN db = Key
  BY DEF RedisOK
<1>2. \A k \in Key : Elapse(db)[k] = Aged(db[k])
  BY <1>1 DEF Elapse
<1>3. QED
  BY <1>1, <1>2, AgedOK, TtlAssumption DEF RedisOK, Elapse, Key

-----------------------------------------------------------------------------
(* Type correctness                                                        *)

LEMMA InitType == Init => TypeOK
  BY BoundAssumption
  DEF Init, TypeOK, RedisOK, Key, Call, EntryOf, Issue

LEMMA AwaitsType ==
  ASSUME TypeOK, NEW r \in Req, NEW from, NEW o, Awaits(r, from, o)
  PROVE  issued' \in 0..MaxIssues /\ faults' \in 0..MaxFaults /\ crashes' \in 0..MaxCrashes
  BY BoundAssumption DEF TypeOK, Awaits

LEMMA GotoType ==
  ASSUME TypeOK, NEW r \in Req, NEW to, Goto(r, to),
         to = "idle" \/ [call[r] EXCEPT !.at = to] \in Call
  PROVE  call' \in [Req -> Call]
  BY DEF TypeOK, Goto, Call

LEMMA WritesType ==
  ASSUME TypeOK, NEW r \in Req, NEW from, NEW to, NEW db, RedisOK(db),
         Writes(r, from, to, db),
         to = "idle" \/ [call[r] EXCEPT !.at = to] \in Call
  PROVE  TypeOK'
  BY AwaitsType, GotoType DEF Writes, After, TypeOK, history

LEMMA ReturnsType ==
  ASSUME TypeOK, NEW r \in Req, NEW from, NEW key, NEW to,
         ReturnsIfExists(r, from, key, to),
         [call[r] EXCEPT !.at = to] \in Call
  PROVE  TypeOK'
  BY AwaitsType, GotoType DEF ReturnsIfExists, TypeOK, history

LEMMA StoreType ==
  ASSUME TypeOK, NEW r \in Req, Store(r)
  PROVE  TypeOK'
<1> USE DEF Call, StorePc, VerifyPc, LimitPc, RedeemPc, Idle
<1>1. call[r] \in Call
  BY DEF TypeOK
<1>2. CASE StoreCheckLockout(r)
  <2>1. [call[r] EXCEPT !.at = "s_cooldown"] \in Call
    BY <1>1, <1>2 DEF StoreCheckLockout, ReturnsIfExists, Awaits
  <2>2. QED BY <1>2, <2>1, ReturnsType DEF StoreCheckLockout
<1>3. CASE StoreCheckCooldown(r)
  <2>1. [call[r] EXCEPT !.at = "s_otp"] \in Call
    BY <1>1, <1>3 DEF StoreCheckCooldown, ReturnsIfExists, Awaits
  <2>2. QED BY <1>3, <2>1, ReturnsType DEF StoreCheckCooldown
<1>4. CASE StoreSetOtp(r)
  <2>1. /\ [call[r] EXCEPT !.at = "s_setCooldown"] \in Call
        /\ call[r].code \in Code /\ call[r].otp \in Issue
    BY <1>1, <1>4 DEF StoreSetOtp, Writes, Awaits
  <2>2. QED BY <1>4, <2>1, SetOtpOK, WritesType DEF StoreSetOtp, TypeOK
<1>5. CASE StoreSetCooldown(r)
  <2>1. [call[r] EXCEPT !.at = "s_attempts"] \in Call
    BY <1>1, <1>5 DEF StoreSetCooldown, Writes, Awaits
  <2>2. QED BY <1>5, <2>1, SetCooldownOK, WritesType DEF StoreSetCooldown, TypeOK
<1>6. CASE StoreResetAttempts(r)
  BY <1>6, DelOK, WritesType DEF StoreResetAttempts, TypeOK, Key
<1>7. QED
  BY <1>2, <1>3, <1>4, <1>5, <1>6 DEF Store

LEMMA VerifyType ==
  ASSUME TypeOK, NEW r \in Req, Verify(r)
  PROVE  TypeOK'
<1> USE DEF Call, StorePc, VerifyPc, LimitPc, RedeemPc, Idle
<1>1. call[r] \in Call
  BY DEF TypeOK
<1>2. CASE VerifyCheckLockout(r)
  <2>1. [call[r] EXCEPT !.at = "v_get"] \in Call
    BY <1>1, <1>2 DEF VerifyCheckLockout, ReturnsIfExists, Awaits
  <2>2. QED BY <1>2, <2>1, ReturnsType DEF VerifyCheckLockout
<1>3. CASE VerifyGetNothing(r)
  BY <1>3, AwaitsType, GotoType DEF VerifyGetNothing, TypeOK, history
<1>4. CASE VerifyGetMatch(r)
  <2>1. redis["otp"].val.issue \in Issue
    BY <1>4 DEF VerifyGetMatch, TypeOK, RedisOK, EntryOf, Exists, Absent
  <2>2. call[r].code \in Code
    BY <1>1, <1>4 DEF VerifyGetMatch, Awaits
  <2>3. call' \in [Req -> Call]
    BY <1>4, <2>1, <2>2 DEF VerifyGetMatch, TypeOK
  <2>4. QED
    BY <1>4, <2>3, AwaitsType DEF VerifyGetMatch, TypeOK, history
<1>5. CASE VerifyGetMismatch(r)
  <2>1. redis["otp"].val.issue \in Issue
    BY <1>5 DEF VerifyGetMismatch, TypeOK, RedisOK, EntryOf, Exists, Absent
  <2>2. [call[r] EXCEPT !.at = "v_incr"] \in Call
    BY <1>1, <1>5 DEF VerifyGetMismatch, Awaits
  <2>3. call' \in [Req -> Call]
    BY <1>5, <2>2, GotoType DEF VerifyGetMismatch, TypeOK
  <2>4. QED
    BY <1>5, <2>1, <2>3, AwaitsType DEF VerifyGetMismatch, TypeOK
<1>6. CASE VerifyIncr(r)
  <2>1. \A to \in {"v_expire", "l_lockout"} : [call[r] EXCEPT !.at = to] \in Call
    BY <1>1, <1>6 DEF VerifyIncr, Awaits
  <2>2. PICK o \in Outcome, to \in {"idle", "v_expire", "l_lockout"} :
          Awaits(r, "v_incr", o) /\ Goto(r, to)
    BY <1>6 DEF VerifyIncr, AfterMiss
  <2>3. RedisOK(redis')
    BY <1>6, IncrOK DEF VerifyIncr, After, TypeOK
  <2>4. call' \in [Req -> Call]
    BY <2>1, <2>2, GotoType
  <2>5. QED
    BY <1>6, <2>2, <2>3, <2>4, AwaitsType DEF VerifyIncr, TypeOK, history
<1>7. CASE VerifyExpire(r)
  BY <1>7, ExpireOK, WritesType DEF VerifyExpire, TypeOK
<1>8. CASE LimitSetLockout(r)
  <2>1. [call[r] EXCEPT !.at = "l_otp"] \in Call
    BY <1>1, <1>8 DEF LimitSetLockout, Writes, Awaits
  <2>2. QED BY <1>8, <2>1, SetLockoutOK, WritesType DEF LimitSetLockout, TypeOK
<1>9. CASE LimitDropOtp(r)
  <2>1. [call[r] EXCEPT !.at = "l_attempts"] \in Call
    BY <1>1, <1>9 DEF LimitDropOtp, Writes, Awaits
  <2>2. QED BY <1>9, <2>1, DelOK, WritesType DEF LimitDropOtp, TypeOK, Key
<1>10. CASE LimitDropAttempts(r)
  BY <1>10, DelOK, WritesType DEF LimitDropAttempts, TypeOK, Key
<1>11. CASE RedeemDropOtp(r)
  <2>1. [call[r] EXCEPT !.at = "r_attempts"] \in Call
    BY <1>1, <1>11 DEF RedeemDropOtp, Writes, Awaits
  <2>2. QED BY <1>11, <2>1, DelOK, WritesType DEF RedeemDropOtp, TypeOK, Key
<1>12. CASE RedeemDropAttempts(r)
  <2>1. [call[r] EXCEPT !.at = "r_cooldown"] \in Call
    BY <1>1, <1>12 DEF RedeemDropAttempts, Writes, Awaits
  <2>2. QED BY <1>12, <2>1, DelOK, WritesType DEF RedeemDropAttempts, TypeOK, Key
<1>13. CASE RedeemDropCooldown(r)
  <2>1. call[r].otp \in Issue
    BY <1>1, <1>13 DEF RedeemDropCooldown, Awaits
  <2>2. RedisOK(redis')
    BY <1>13, DelOK DEF RedeemDropCooldown, After, TypeOK, Key
  <2>3. call' \in [Req -> Call]
    BY <1>13, GotoType DEF RedeemDropCooldown
  <2>4. QED
    BY <1>13, <2>1, <2>2, <2>3, AwaitsType DEF RedeemDropCooldown, TypeOK
<1>14. QED
  BY <1>2, <1>3, <1>4, <1>5, <1>6, <1>7, <1>8, <1>9, <1>10, <1>11, <1>12, <1>13
  DEF Verify

LEMMA BeginType ==
  ASSUME TypeOK, NEW r \in Req, StoreBegin(r) \/ VerifyBegin(r)
  PROVE  TypeOK'
<1>1. issued' \in 0..MaxIssues /\ call' \in [Req -> Call]
  BY BoundAssumption
  DEF TypeOK, StoreBegin, VerifyBegin, Call, StorePc, VerifyPc, RedeemPc, Issue
<1>2. QED
  BY <1>1 DEF TypeOK, StoreBegin, VerifyBegin, history

LEMMA NextType == TypeOK /\ [Next]_vars => TypeOK'
<1> SUFFICES ASSUME TypeOK, [Next]_vars PROVE TypeOK'
  OBVIOUS
<1>1. CASE Tick
  BY <1>1, ElapseOK DEF Tick, TypeOK, history
<1>2. CASE Crash
  BY <1>2, BoundAssumption DEF Crash, TypeOK, Call, history
<1>3. CASE UNCHANGED vars
  BY <1>3 DEF vars, TypeOK
<1>4. QED
  BY <1>1, <1>2, <1>3, StoreType, VerifyType, BeginType DEF Next

\* Type correctness of OtpService: every key holds a value and a time to live
\* of its kind, every call carries a password exactly where it has one.
THEOREM TypeCorrect == Spec => []TypeOK
  BY InitType, NextType, PTL DEF Spec

-----------------------------------------------------------------------------
(* A password enters Redis once                                            *)

LEMMA DelStored ==
  ASSUME NEW db, RedisOK(db), NEW k \in Key
  PROVE  Del(db, k)["otp"] \in {db["otp"], Absent}
  BY DEF RedisOK, Del, Key

LEMMA OtherKeyStored ==
  ASSUME NEW db, RedisOK(db), NEW k \in Key \ {"otp"}, NEW e
  PROVE  [db EXCEPT ![k] = e]["otp"] = db["otp"]
  BY DEF RedisOK, Key

\* Only StoreSetOtp puts a password in Redis, and it is the one it was given.
LEMMA EntersOnce ==
  ASSUME TypeOK, [Next]_vars, NEW i \in Issue, Stored(i)', ~Stored(i)
  PROVE  \E r \in Req : StoreSetOtp(r) /\ call[r].otp = i
<1> USE DEF Stored, Exists, Absent
<1>1. redis'["otp"] \notin {redis["otp"], Absent}
  OBVIOUS
<1>2. RedisOK(redis)
  BY DEF TypeOK
<1>3. ASSUME NEW r \in Req, NEW from, NEW to, NEW k \in Key, Writes(r, from, to, Del(redis, k))
      PROVE  FALSE
  BY <1>1, <1>2, <1>3, DelStored DEF Writes, After
<1>4. ASSUME NEW r \in Req, NEW from, NEW to, NEW k \in Key \ {"otp"}, NEW e,
             Writes(r, from, to, [redis EXCEPT ![k] = e])
      PROVE  FALSE
  BY <1>1, <1>2, <1>4, OtherKeyStored DEF Writes, After
<1>5. ASSUME NEW r \in Req, Store(r) PROVE StoreSetOtp(r) /\ call[r].otp = i
  <2>1. CASE StoreCheckLockout(r) \/ StoreCheckCooldown(r)
    BY <1>1, <2>1 DEF StoreCheckLockout, StoreCheckCooldown, ReturnsIfExists
  <2>2. CASE StoreSetCooldown(r)
    BY <2>2, <1>4 DEF StoreSetCooldown, SetEx, Key
  <2>3. CASE StoreResetAttempts(r)
    BY <2>3, <1>3 DEF StoreResetAttempts, Key
  <2>4. CASE StoreSetOtp(r)
    BY <2>4, <1>1, <1>2 DEF StoreSetOtp, Writes, After, SetEx, Entry, RedisOK, Key
  <2>5. QED BY <1>5, <2>1, <2>2, <2>3, <2>4 DEF Store
<1>6. ASSUME NEW r \in Req, Verify(r) PROVE FALSE
  <2>1. CASE VerifyCheckLockout(r) \/ VerifyGetNothing(r) \/ VerifyGetMatch(r) \/ VerifyGetMismatch(r)
    BY <1>1, <2>1
    DEF VerifyCheckLockout, ReturnsIfExists, VerifyGetNothing, VerifyGetMatch, VerifyGetMismatch
  <2>2. CASE VerifyIncr(r)
    BY <2>2, <1>1, <1>2, OtherKeyStored DEF VerifyIncr, After, Incr, Key
  <2>3. CASE VerifyExpire(r)
    <3>1. Expire(redis, "attempts", AttemptsTtl)["otp"] = redis["otp"]
      BY <1>2, OtherKeyStored DEF Expire, SetEx, Key
    <3>2. QED BY <2>3, <3>1, <1>1 DEF VerifyExpire, Writes, After
  <2>4. CASE LimitSetLockout(r)
    BY <2>4, <1>4 DEF LimitSetLockout, SetEx, Key
  <2>5. CASE LimitDropOtp(r) \/ LimitDropAttempts(r)
    BY <2>5, <1>3 DEF LimitDropOtp, LimitDropAttempts, Key
  <2>6. CASE RedeemDropOtp(r) \/ RedeemDropAttempts(r)
    BY <2>6, <1>3 DEF RedeemDropOtp, RedeemDropAttempts, Key
  <2>7. CASE RedeemDropCooldown(r)
    BY <2>7, <1>1, <1>2, DelStored DEF RedeemDropCooldown, After, Key
  <2>8. QED BY <1>6, <2>1, <2>2, <2>3, <2>4, <2>5, <2>6, <2>7 DEF Verify
<1>7. CASE Tick
  <2>1. redis'["otp"] = Aged(redis["otp"])
    BY <1>2, <1>7 DEF Tick, Elapse, RedisOK, Key
  <2>2. QED
    BY <2>1, <1>2 DEF Aged, Entry, NoExpiry, RedisOK, EntryOf
<1>8. QED
  BY <1>1, <1>5, <1>6, <1>7 DEF Next, StoreBegin, VerifyBegin, Crash, vars

\* How a step moves a call: it keeps its password and moves along its own
\* path, or it ends, or it begins, or it matches the stored password.
LEMMA Moves ==
  ASSUME TypeOK, [Next]_vars, NEW q \in Req
  PROVE  \/ /\ call'[q].otp = call[q].otp
            /\ call'[q].at \in Storing => call[q].at \in Storing
            /\ call'[q].at \in StorePc => call[q].at \in StorePc
            /\ call'[q].at \in RedeemPc => call[q].at \in RedeemPc
         \/ call'[q].at \in {"idle", "v_lockout"}
         \/ StoreBegin(q)
         \/ VerifyGetMatch(q)
<1> USE DEF Storing, StorePc, RedeemPc
<1>1. ASSUME NEW r \in Req, NEW to, Goto(r, to), r # q \/ to = "idle" PROVE call'[q] \in {call[q], Idle}
  BY <1>1 DEF Goto, TypeOK
<1>2. ASSUME NEW to, Goto(q, to), to # "idle"
      PROVE  call'[q].otp = call[q].otp /\ call'[q].at = to
  <2>1. call'[q] = [call[q] EXCEPT !.at = to]
    BY <1>2 DEF Goto, TypeOK
  <2>2. call[q] \in Call
    BY DEF TypeOK
  <2>3. QED
    BY <2>1, <2>2 DEF Call, Idle
<1>3. ASSUME NEW r \in Req, Store(r)
      PROVE  \E from, to \in StorePc \cup {"idle"} : 
               /\ call[r].at = from /\ Goto(r, to)
               /\ to \in Storing => from \in Storing
               /\ to \in StorePc => from \in StorePc
  BY <1>3 DEF Store, StoreCheckLockout, StoreCheckCooldown, StoreSetOtp, StoreSetCooldown,
              StoreResetAttempts, Writes, ReturnsIfExists, Awaits
<1>4. ASSUME NEW r \in Req, Verify(r), ~VerifyGetMatch(r)
      PROVE  \E from, to \in VerifyPc \cup {"idle"} :
               /\ call[r].at = from /\ Goto(r, to)
               /\ to \in RedeemPc => from \in RedeemPc
  BY <1>4 DEF Verify, VerifyCheckLockout, VerifyGetNothing, VerifyGetMismatch, VerifyIncr,
              AfterMiss, VerifyExpire, LimitSetLockout, LimitDropOtp, LimitDropAttempts,
              RedeemDropOtp, RedeemDropAttempts, RedeemDropCooldown, Writes, ReturnsIfExists,
              Awaits, VerifyPc, LimitPc
<1>5. ASSUME NEW r \in Req, Store(r) \/ Verify(r), r # q
      PROVE  call'[q] \in {call[q], Idle}
  <2>1. CASE VerifyGetMatch(r)
    BY <2>1, <1>5 DEF VerifyGetMatch, TypeOK
  <2>2. CASE ~VerifyGetMatch(r)
    BY <2>2, <1>5, <1>3, <1>4, <1>1
  <2>3. QED BY <2>1, <2>2
<1>6. CASE Store(q)
  BY <1>6, <1>1, <1>2, <1>3 DEF Idle
<1>7. CASE Verify(q)
  BY <1>7, <1>1, <1>2, <1>4 DEF Idle, VerifyPc, LimitPc
<1>8. ASSUME NEW r \in Req, StoreBegin(r) \/ VerifyBegin(r), r # q
      PROVE  call'[q] = call[q]
  BY <1>8 DEF StoreBegin, VerifyBegin, TypeOK
<1>9. CASE VerifyBegin(q)
  BY <1>9 DEF VerifyBegin, TypeOK
<1>10. CASE Tick \/ Crash \/ UNCHANGED vars
  BY <1>10 DEF Tick, Crash, vars, Idle
<1>11. QED
  BY <1>5, <1>6, <1>7, <1>8, <1>9, <1>10 DEF Next, Idle

\* Only a call past its match counts as a success, and only a comparison with
\* the stored password as a miss.
LEMMA Counts ==
  ASSUME TypeOK, [Next]_vars, NEW i \in Issue
  PROVE  /\ redeemed'[i] # redeemed[i] =>
              \E r \in Req : RedeemDropCooldown(r) /\ call[r].otp = i
         /\ missed'[i] # missed[i] => Stored(i)
<1>1. ASSUME NEW r \in Req, Store(r) PROVE UNCHANGED history
  BY <1>1 DEF Store, StoreCheckLockout, StoreCheckCooldown, StoreSetOtp, StoreSetCooldown,
              StoreResetAttempts, Writes, ReturnsIfExists
<1>2. ASSUME NEW r \in Req, Verify(r), ~VerifyGetMismatch(r), ~RedeemDropCooldown(r)
      PROVE  UNCHANGED history
  BY <1>2 DEF Verify, VerifyCheckLockout, VerifyGetNothing, VerifyGetMatch, VerifyIncr,
              VerifyExpire, LimitSetLockout, LimitDropOtp, LimitDropAttempts, RedeemDropOtp,
              RedeemDropAttempts, Writes, ReturnsIfExists
<1>3. ASSUME NEW r \in Req, VerifyGetMismatch(r)
      PROVE  redeemed' = redeemed /\ (missed'[i] # missed[i] => Stored(i))
  BY <1>3 DEF VerifyGetMismatch, TypeOK, Stored
<1>4. ASSUME NEW r \in Req, RedeemDropCooldown(r)
      PROVE  missed' = missed /\ (redeemed'[i] # redeemed[i] => call[r].otp = i)
  BY <1>4 DEF RedeemDropCooldown, TypeOK
<1>5. ASSUME NEW r \in Req, StoreBegin(r) \/ VerifyBegin(r) PROVE UNCHANGED history
  BY <1>5 DEF StoreBegin, VerifyBegin, history
<1>6. CASE Tick \/ Crash \/ UNCHANGED vars
  BY <1>6 DEF Tick, Crash, vars, history
<1>7. QED
  BY <1>1, <1>2, <1>3, <1>4, <1>5, <1>6 DEF Next, history

LEMMA UntouchedStays ==
  ASSUME TypeOK, [Next]_vars, NEW i \in Issue, Untouched(i),
         \A r \in Req : StoreSetOtp(r) => call[r].otp # i
  PROVE  Untouched(i)'
<1>1. ~Stored(i)'
  BY EntersOnce DEF Untouched
<1>2. redeemed'[i] = 0 /\ missed'[i] = 0
  BY Counts DEF Untouched, RedeemDropCooldown, Awaits, RedeemPc
<1>3. ASSUME NEW q \in Req, call'[q].at \in RedeemPc PROVE call'[q].otp # i
  <2>1. CASE call'[q].otp = call[q].otp /\ call[q].at \in RedeemPc
    BY <2>1 DEF Untouched
  <2>2. CASE StoreBegin(q)
    BY <2>2, <1>3 DEF StoreBegin, TypeOK, RedeemPc
  <2>3. CASE VerifyGetMatch(q)
    <3>1. call'[q].otp = redis["otp"].val.issue /\ Exists(redis, "otp")
      BY <2>3 DEF VerifyGetMatch, TypeOK
    <3>2. QED BY <3>1 DEF Untouched, Stored
  <2>4. QED BY <1>3, <2>1, <2>2, <2>3, Moves DEF RedeemPc
<1>4. QED
  BY <1>1, <1>2, <1>3 DEF Untouched

\* Only storeOtp's caller generates passwords, one at a time.
LEMMA IssuedGrows ==
  ASSUME TypeOK, [Next]_vars
  PROVE  \/ issued' = issued
         \/ issued' = issued + 1 /\ issued' \in Issue /\ \E r \in Req : StoreBegin(r)
<1>1. ASSUME NEW r \in Req, Store(r) PROVE issued' = issued
  BY <1>1 DEF Store, StoreCheckLockout, StoreCheckCooldown, StoreSetOtp, StoreSetCooldown,
              StoreResetAttempts, Writes, ReturnsIfExists, Awaits
<1>2. ASSUME NEW r \in Req, Verify(r) PROVE issued' = issued
  BY <1>2 DEF Verify, VerifyCheckLockout, VerifyGetNothing, VerifyGetMatch, VerifyGetMismatch,
              VerifyIncr, VerifyExpire, LimitSetLockout, LimitDropOtp, LimitDropAttempts,
              RedeemDropOtp, RedeemDropAttempts, RedeemDropCooldown, Writes, ReturnsIfExists,
              Awaits
<1>3. ASSUME NEW r \in Req, StoreBegin(r) PROVE issued' = issued + 1 /\ issued' \in Issue
  BY <1>3, BoundAssumption DEF StoreBegin, TypeOK, Issue
<1>4. QED
  BY <1>1, <1>2, <1>3 DEF Next, VerifyBegin, Tick, Crash, vars

LEMMA InitFresh == Init => FreshInv
  BY DEF Init, FreshInv, Untouched, Stored, Exists, Absent, Key, Idle, Storing, StorePc, RedeemPc

LEMMA NextFresh ==
  ASSUME TypeOK, FreshInv, [Next]_vars
  PROVE  FreshInv'
<1>1. issued \in Nat /\ issued' \in Nat /\ issued <= issued'
  BY IssuedGrows DEF TypeOK
<1>2. ASSUME NEW r \in Req, StoreSetOtp(r)
      PROVE  /\ call[r].at = "s_otp" /\ call'[r].at = "s_setCooldown"
             /\ call[r].otp \in Issue /\ call[r].otp <= issued
  <2>1. call[r].at = "s_otp" /\ call'[r].at = "s_setCooldown"
    BY <1>2 DEF StoreSetOtp, Writes, Awaits, Goto, TypeOK
  <2>2. QED
    BY <2>1 DEF FreshInv, StorePc, TypeOK, Call, VerifyPc, LimitPc, RedeemPc, Idle
<1>3. ASSUME NEW i \in Issue, i > issued' PROVE Untouched(i)'
  <2>1. Untouched(i) /\ i > issued
    BY <1>1, <1>3 DEF FreshInv, Issue
  <2>2. \A r \in Req : StoreSetOtp(r) => call[r].otp # i
    BY <1>1, <1>2, <2>1 DEF Issue
  <2>3. QED
    BY <2>1, <2>2, UntouchedStays
<1>4. ASSUME NEW r \in Req, StoreBegin(r)
      PROVE  /\ call'[r].otp = issued' /\ issued' \in Issue /\ issued' = issued + 1
             /\ \A q \in Req \ {r} : call'[q] = call[q]
             /\ \A q \in Req : ~StoreSetOtp(q)
  <2>1. issued' = issued + 1
    BY <1>4 DEF StoreBegin
  <2>2. \A q \in Req : ~StoreSetOtp(q)
    BY <1>1, <2>1 DEF StoreSetOtp, Writes, Awaits
  <2>3. QED
    BY <1>1, <1>4, <2>1, <2>2, BoundAssumption DEF StoreBegin, TypeOK, Issue
<1>5. ASSUME NEW r \in Req, call'[r].at \in StorePc PROVE call'[r].otp <= issued'
  <2>1. CASE StoreBegin(r)
    BY <1>1, <1>4, <2>1
  <2>2. CASE VerifyGetMatch(r)
    BY <1>5, <2>2 DEF VerifyGetMatch, TypeOK, StorePc
  <2>3. CASE call'[r].otp = call[r].otp /\ call[r].at \in StorePc
    <3>1. call[r].otp \in Nat /\ call[r].otp <= issued
      BY <2>3 DEF TypeOK, Call, StorePc, VerifyPc, LimitPc, RedeemPc, Idle, Issue, FreshInv
    <3>2. QED BY <1>1, <2>3, <3>1
  <2>4. QED
    BY <1>5, <2>1, <2>2, <2>3, Moves DEF StorePc
<1>6. ASSUME NEW r \in Req, call'[r].at \in Storing
      PROVE  \/ StoreBegin(r)
             \/ call[r].at \in Storing /\ call'[r].otp = call[r].otp
  <2>1. ~VerifyGetMatch(r)
    BY <1>6 DEF VerifyGetMatch, TypeOK, Storing
  <2>2. QED
    BY <1>6, <2>1, Moves DEF Storing
<1>7. ASSUME NEW r \in Req, NEW i \in Issue, call'[r].at \in Storing, call'[r].otp = i
      PROVE  /\ Untouched(i)'
             /\ \A q \in Req : (q # r /\ call'[q].at \in Storing) => call'[q].otp # i
  <2>1. CASE StoreBegin(r)
    <3>1. i = issued + 1 /\ Untouched(i)
      BY <1>1, <1>4, <1>7, <2>1 DEF FreshInv, Issue
    <3>2. Untouched(i)'
      BY <1>4, <2>1, <3>1, UntouchedStays
    <3>3. ASSUME NEW q \in Req, q # r, call'[q].at \in Storing PROVE call'[q].otp # i
      <4>1. call'[q] = call[q] /\ call[q].otp <= issued
        BY <1>4, <2>1, <3>3 DEF FreshInv, Storing, StorePc
      <4>2. QED
        BY <1>1, <3>1, <4>1 DEF Issue
    <3>4. QED
      BY <3>2, <3>3
  <2>2. CASE call[r].at \in Storing /\ call'[r].otp = call[r].otp
    <3>1. /\ Untouched(i) /\ i <= issued
          /\ \A q \in Req : (q # r /\ call[q].at \in Storing) => call[q].otp # i
      BY <1>7, <2>2 DEF FreshInv, Storing, StorePc
    <3>2. \A q \in Req : StoreSetOtp(q) => call[q].otp # i
      BY <1>2, <1>7, <3>1 DEF Storing
    <3>3. Untouched(i)'
      BY <3>1, <3>2, UntouchedStays
    <3>4. ASSUME NEW q \in Req, q # r, call'[q].at \in Storing PROVE call'[q].otp # i
      <4>1. CASE StoreBegin(q)
        BY <1>1, <1>4, <3>1, <4>1 DEF Issue
      <4>2. QED
        BY <1>6, <3>1, <3>4, <4>1
    <3>5. QED
      BY <3>3, <3>4
  <2>3. QED
    BY <1>6, <1>7, <2>1, <2>2
<1>8. QED
  BY <1>3, <1>5, <1>7 DEF FreshInv

-----------------------------------------------------------------------------
(* A password is gone before anyone is told it was right                   *)

\* A call that is past its DEL of a password was past it before the step, or
\* has just done it.
LEMMA PastDel ==
  ASSUME TypeOK, [Next]_vars, NEW q \in Req, call'[q].at \in {"r_attempts", "r_cooldown"}
  PROVE  /\ call'[q].otp = call[q].otp
         /\ RedeemDropOtp(q) \/ call[q].at \in {"r_attempts", "r_cooldown"}
<1>1. ~StoreBegin(q) /\ ~VerifyGetMatch(q)
  BY DEF StoreBegin, VerifyGetMatch, TypeOK
<1>2. call'[q].otp = call[q].otp /\ call[q].at \in RedeemPc
  BY <1>1, Moves DEF RedeemPc
<1>3. CASE call[q].at = "r_otp"
  <2>1. ASSUME NEW r \in Req, r # q, StoreBegin(r) \/ VerifyBegin(r) \/ Store(r) \/ Verify(r)
        PROVE  call'[q] = call[q]
    BY <2>1 DEF StoreBegin, VerifyBegin, Store, StoreCheckLockout, StoreCheckCooldown,
                StoreSetOtp, StoreSetCooldown, StoreResetAttempts, Verify, VerifyCheckLockout,
                VerifyGetNothing, VerifyGetMatch, VerifyGetMismatch, VerifyIncr, VerifyExpire,
                LimitSetLockout, LimitDropOtp, LimitDropAttempts, RedeemDropOtp,
                RedeemDropAttempts, RedeemDropCooldown, Writes, ReturnsIfExists, Goto, TypeOK
  <2>2. ASSUME StoreBegin(q) \/ VerifyBegin(q) \/ Store(q) \/ Verify(q)
        PROVE  RedeemDropOtp(q)
    BY <1>3, <2>2 DEF StoreBegin, VerifyBegin, Store, StoreCheckLockout, StoreCheckCooldown,
                StoreSetOtp, StoreSetCooldown, StoreResetAttempts, Verify, VerifyCheckLockout,
                VerifyGetNothing, VerifyGetMatch, VerifyGetMismatch, VerifyIncr, VerifyExpire,
                LimitSetLockout, LimitDropOtp, LimitDropAttempts, RedeemDropOtp,
                RedeemDropAttempts, RedeemDropCooldown, Writes, ReturnsIfExists, Awaits
  <2>3. QED
    BY <1>2, <1>3, <2>1, <2>2 DEF Next, Tick, Crash, vars, Idle
<1>4. QED
  BY <1>2, <1>3 DEF RedeemPc

\* Faults are counted, never forgotten.
LEMMA FaultsGrow ==
  ASSUME TypeOK, [Next]_vars, faults' = 0
  PROVE  faults = 0
<1>1. ASSUME NEW r \in Req, NEW from, NEW o, Awaits(r, from, o) PROVE faults = 0
  BY <1>1 DEF Awaits, TypeOK
<1>2. ASSUME NEW r \in Req, Store(r) \/ Verify(r) PROVE faults = 0
  BY <1>1, <1>2 DEF Store, StoreCheckLockout, StoreCheckCooldown,
                StoreSetOtp, StoreSetCooldown, StoreResetAttempts, Verify, VerifyCheckLockout,
                VerifyGetNothing, VerifyGetMatch, VerifyGetMismatch, VerifyIncr, VerifyExpire,
                LimitSetLockout, LimitDropOtp, LimitDropAttempts, RedeemDropOtp,
                RedeemDropAttempts, RedeemDropCooldown, Writes, ReturnsIfExists
<1>3. QED
  BY <1>2 DEF Next, StoreBegin, VerifyBegin, Tick, Crash, vars

LEMMA NextGone ==
  ASSUME TypeOK, FreshInv, GoneInv, [Next]_vars
  PROVE  GoneInv'
<1> SUFFICES ASSUME faults' = 0, NEW i \in Issue, Stored(i)'
             PROVE  /\ redeemed'[i] = 0
                    /\ \A r \in Req : call'[r].at \in {"r_attempts", "r_cooldown"} => call'[r].otp # i
  BY DEF GoneInv
<1>1. faults = 0
  BY FaultsGrow
<1>2. \/ Untouched(i)
      \/ /\ Stored(i) /\ redeemed[i] = 0
         /\ \A r \in Req : call[r].at \in {"r_attempts", "r_cooldown"} => call[r].otp # i
  <2>1. CASE Stored(i)
    BY <1>1, <2>1 DEF GoneInv
  <2>2. CASE ~Stored(i)
    BY <2>2, EntersOnce DEF FreshInv, StoreSetOtp, Writes, Awaits, Storing
  <2>3. QED BY <2>1, <2>2
<1>3. redeemed'[i] = 0
  BY <1>2, Counts DEF Untouched, RedeemDropCooldown, Awaits, RedeemPc
<1>4. ASSUME NEW r \in Req, RedeemDropOtp(r) PROVE ~Stored(i)'
  <2>1. redis' = Del(redis, "otp")
    BY <1>1, <1>4 DEF RedeemDropOtp, Writes, After, Awaits, Outcome
  <2>2. QED
    BY <2>1 DEF Del, Stored, Exists, Absent, TypeOK, RedisOK, Key
<1>5. ASSUME NEW r \in Req, call'[r].at \in {"r_attempts", "r_cooldown"} PROVE call'[r].otp # i
  BY <1>2, <1>4, <1>5, PastDel DEF Untouched, RedeemPc
<1>6. QED
  BY <1>3, <1>5

LEMMA ReplayInductive == Spec => []ReplayInv
<1>1. Init => ReplayInv
  BY InitType, InitFresh DEF ReplayInv, Init, GoneInv, Stored, Exists, Absent, Key
<1>2. ReplayInv /\ [Next]_vars => ReplayInv'
  BY NextType, NextFresh, NextGone DEF ReplayInv
<1>3. QED
  BY <1>1, <1>2, PTL DEF Spec

\* While Redis answers, a password some call was told is right has left Redis:
\* no later call can use it again.
THEOREM ReplaySafe == Spec => []NoReplayAfterSuccess
<1>1. ReplayInv => NoReplayAfterSuccess
  BY DEF ReplayInv, TypeOK, GoneInv, NoReplayAfterSuccess
<1>2. QED
  BY <1>1, ReplayInductive, PTL

\* A password that has been compared with a code never enters Redis again,
\* whatever faults, crashes and slow calls there are.
THEOREM NoResurrection == Spec => DeadStaysDead
<1> DEFINE Dead == \A i \in Issue :
                     (~Stored(i) /\ Stored(i)') =>
                       /\ redeemed[i] = 0 /\ missed[i] = 0
                       /\ \A r \in Req : ~(call[r].at \in RedeemPc /\ call[r].otp = i)
<1>1. ReplayInv /\ [Next]_vars => Dead
  <2> SUFFICES ASSUME ReplayInv, [Next]_vars, NEW i \in Issue, ~Stored(i), Stored(i)'
               PROVE  /\ redeemed[i] = 0 /\ missed[i] = 0
                      /\ \A r \in Req : ~(call[r].at \in RedeemPc /\ call[r].otp = i)
    OBVIOUS
  <2>1. PICK r \in Req : StoreSetOtp(r) /\ call[r].otp = i
    BY EntersOnce DEF ReplayInv
  <2>2. call[r].at \in Storing
    BY <2>1 DEF StoreSetOtp, Writes, Awaits, Storing
  <2>3. Untouched(i)
    BY <2>1, <2>2 DEF ReplayInv, FreshInv
  <2>4. QED
    BY <2>3 DEF Untouched
<1>2. QED
  BY <1>1, ReplayInductive, PTL DEF Spec, DeadStaysDead

-----------------------------------------------------------------------------
(* How many calls can succeed with one password                            *)

LEMMA RedeemingFinite ==
  ASSUME NEW i
  PROVE  /\ IsFiniteSet(Redeeming(i)) /\ Cardinality(Redeeming(i)) \in Nat
         /\ Cardinality(Req) \in Nat /\ Cardinality(Redeeming(i)) <= Cardinality(Req)
  BY ReqAssumption, FS_Subset, FS_CardinalityType DEF Redeeming

LEMMA RedeemingFiniteNext ==
  ASSUME NEW i
  PROVE  /\ IsFiniteSet(Redeeming(i)') /\ Cardinality(Redeeming(i)') \in Nat
         /\ Cardinality(Redeeming(i)') <= Cardinality(Req)
  BY ReqAssumption, FS_Subset, FS_CardinalityType DEF Redeeming

\* Nobody joins the calls that matched a password once it has left Redis.
LEMMA RedeemingShrinks ==
  ASSUME TypeOK, [Next]_vars, NEW i \in Issue, ~Stored(i)
  PROVE  Redeeming(i)' \subseteq Redeeming(i)
<1> SUFFICES ASSUME NEW q \in Req, call'[q].at \in RedeemPc, call'[q].otp = i
             PROVE  call[q].at \in RedeemPc /\ call[q].otp = i
  BY DEF Redeeming
<1>1. ~StoreBegin(q)
  BY DEF StoreBegin, TypeOK, RedeemPc
<1>2. ~VerifyGetMatch(q)
  BY DEF VerifyGetMatch, TypeOK, Stored
<1>3. QED
  BY <1>1, <1>2, Moves DEF RedeemPc

LEMMA NextOverlap ==
  ASSUME TypeOK, GoneInv, OverlapInv, [Next]_vars
  PROVE  OverlapInv'
<1> SUFFICES ASSUME faults' = 0, NEW i \in Issue
             PROVE  redeemed'[i] + Cardinality(Redeeming(i)') <= Cardinality(Req)
  BY DEF OverlapInv
<1>1. faults = 0 /\ redeemed[i] \in Nat
  BY FaultsGrow DEF TypeOK
<1>2. CASE Stored(i)
  <2>1. redeemed'[i] = 0
    BY <1>1, <1>2, Counts DEF GoneInv, RedeemDropCooldown, Awaits
  <2>2. QED
    BY <2>1, RedeemingFiniteNext
<1>3. CASE ~Stored(i)
  <2>1. redeemed[i] + Cardinality(Redeeming(i)) <= Cardinality(Req)
    BY <1>1 DEF OverlapInv
  <2>2. CASE redeemed'[i] = redeemed[i]
    <3>1. Cardinality(Redeeming(i)') <= Cardinality(Redeeming(i))
      BY <1>3, RedeemingShrinks, RedeemingFinite, FS_Subset
    <3>2. QED
      BY <1>1, <2>1, <2>2, <3>1, RedeemingFinite, RedeemingFiniteNext
  <2>3. CASE redeemed'[i] # redeemed[i]
    <3>1. PICK r \in Req : RedeemDropCooldown(r) /\ call[r].otp = i
      BY <2>3, Counts
    <3>2. redeemed'[i] = redeemed[i] + 1
      BY <3>1 DEF RedeemDropCooldown, TypeOK
    <3>3. r \in Redeeming(i)
      BY <3>1 DEF Redeeming, RedeemDropCooldown, Awaits, RedeemPc
    <3>4. r \notin Redeeming(i)'
      BY <3>1 DEF Redeeming, RedeemDropCooldown, Goto, Idle, RedeemPc, TypeOK
    <3>5. Redeeming(i)' \subseteq Redeeming(i) \ {r}
      BY <1>3, <3>4, RedeemingShrinks
    <3>6. /\ IsFiniteSet(Redeeming(i) \ {r})
          /\ Cardinality(Redeeming(i) \ {r}) = Cardinality(Redeeming(i)) - 1
      BY <3>3, RedeemingFinite, FS_RemoveElement
    <3>7. Cardinality(Redeeming(i)') <= Cardinality(Redeeming(i) \ {r})
      BY <3>5, <3>6, FS_Subset
    <3>8. QED
      BY <1>1, <2>1, <3>2, <3>6, <3>7, RedeemingFinite, RedeemingFiniteNext
  <2>4. QED BY <2>2, <2>3
<1>4. QED BY <1>2, <1>3

\* While Redis answers, no password is accepted more often than calls run at
\* the same time, for any number of calls.
THEOREM OverlapOnly == Spec => []RedeemedOnlyByOverlappingCalls
<1>1. Init => OverlapInv
  BY RedeemingFinite DEF Init, OverlapInv
<1>2. ReplayInv /\ OverlapInv /\ [Next]_vars => OverlapInv'
  BY NextOverlap DEF ReplayInv
<1>3. ReplayInv /\ OverlapInv => RedeemedOnlyByOverlappingCalls
  <2> SUFFICES ASSUME ReplayInv, OverlapInv, faults = 0, NEW i \in Issue
               PROVE  redeemed[i] <= Cardinality(Req)
    BY DEF RedeemedOnlyByOverlappingCalls
  <2>1. redeemed[i] \in Nat /\ redeemed[i] + Cardinality(Redeeming(i)) <= Cardinality(Req)
    BY DEF ReplayInv, TypeOK, OverlapInv
  <2>2. QED
    BY <2>1, RedeemingFinite
<1>4. QED
  BY <1>1, <1>2, <1>3, ReplayInductive, PTL DEF Spec

-----------------------------------------------------------------------------
(* When requests are handled one at a time, the call that matched a        *)
(* password is the only one that did since it was stored.                  *)

SingleInv ==
  faults = 0 =>
    \A i \in Issue : redeemed[i] <= 1 /\ (redeemed[i] > 0 => Redeeming(i) = {})

LEMMA NextSingle ==
  ASSUME TypeOK, GoneInv, SingleInv, Serial, [Next]_vars
  PROVE  SingleInv'
<1> SUFFICES ASSUME faults' = 0, NEW i \in Issue
             PROVE  redeemed'[i] <= 1 /\ (redeemed'[i] > 0 => Redeeming(i)' = {})
  BY DEF SingleInv
<1>1. faults = 0 /\ redeemed[i] \in Nat
  BY FaultsGrow DEF TypeOK
<1>2. CASE Stored(i)
  <2>1. redeemed'[i] = 0
    BY <1>1, <1>2, Counts DEF GoneInv, RedeemDropCooldown, Awaits
  <2>2. QED
    BY <2>1
<1>3. CASE ~Stored(i) /\ redeemed'[i] = redeemed[i]
  <2>1. Redeeming(i)' \subseteq Redeeming(i)
    BY <1>3, RedeemingShrinks
  <2>2. QED
    BY <1>1, <1>3, <2>1 DEF SingleInv
<1>4. CASE ~Stored(i) /\ redeemed'[i] # redeemed[i]
  <2>1. PICK r \in Req : RedeemDropCooldown(r) /\ call[r].otp = i
    BY <1>4, Counts
  <2>2. redeemed'[i] = redeemed[i] + 1
    BY <2>1 DEF RedeemDropCooldown, TypeOK
  <2>3. r \in Redeeming(i) /\ call[r].at # "idle"
    BY <2>1 DEF Redeeming, RedeemDropCooldown, Awaits, RedeemPc
  <2>4. redeemed[i] = 0
    BY <1>1, <2>3 DEF SingleInv
  <2>5. Redeeming(i) = {r}
    BY <2>3 DEF Redeeming, RedeemPc, Serial
  <2>6. r \notin Redeeming(i)'
    BY <2>1 DEF Redeeming, RedeemDropCooldown, Goto, Idle, RedeemPc, TypeOK
  <2>7. Redeeming(i)' = {}
    BY <1>4, <2>5, <2>6, RedeemingShrinks
  <2>8. QED
    BY <2>2, <2>4, <2>7
<1>5. QED BY <1>2, <1>3, <1>4

\* When requests are handled one at a time and Redis answers, a password is
\* accepted at most once, wherever the process dies: the documented promise.
THEOREM SerialSingleUse == Spec /\ []Serial => []SingleUse
<1>1. Init => SingleInv
  BY DEF Init, SingleInv
<1>2. ReplayInv /\ SingleInv /\ Serial /\ [Next]_vars => SingleInv'
  BY NextSingle DEF ReplayInv
<1>3. SingleInv => SingleUse
  BY DEF SingleInv, SingleUse
<1>4. QED
  BY <1>1, <1>2, <1>3, ReplayInductive, PTL DEF Spec

-----------------------------------------------------------------------------
(* The attempts counter                                                    *)

\* What can become of the counter in a step, while Redis answers.
LEMMA CounterSteps ==
  ASSUME TypeOK, [Next]_vars
  PROVE  \/ redis'["attempts"] \in {redis["attempts"], Absent, Aged(redis["attempts"])}
         \/ \E r \in Req : VerifyIncr(r) \/ VerifyExpire(r)
<1> DEFINE Kept == redis'["attempts"] \in {redis["attempts"], Absent}
<1>1. RedisOK(redis)
  BY DEF TypeOK
<1>2. ASSUME NEW r \in Req, NEW from, NEW to, NEW k \in Key, Writes(r, from, to, Del(redis, k))
      PROVE  Kept
  BY <1>1, <1>2 DEF Writes, After, Del, RedisOK, Key
<1>3. ASSUME NEW r \in Req, NEW from, NEW to, NEW k \in Key \ {"attempts"}, NEW v, NEW t,
             Writes(r, from, to, SetEx(redis, k, v, t))
      PROVE  Kept
  BY <1>1, <1>3 DEF Writes, After, SetEx, RedisOK, Key
<1>4. ASSUME NEW r \in Req, Store(r) PROVE Kept
  BY <1>2, <1>3, <1>4 DEF Store, StoreCheckLockout, StoreCheckCooldown, StoreSetOtp,
     StoreSetCooldown, StoreResetAttempts, ReturnsIfExists, Key
<1>5. ASSUME NEW r \in Req, RedeemDropCooldown(r) PROVE Kept
  BY <1>1, <1>5 DEF RedeemDropCooldown, After, Del, RedisOK, Key
<1>6. ASSUME NEW r \in Req, Verify(r), ~VerifyIncr(r), ~VerifyExpire(r) PROVE Kept
  BY <1>2, <1>3, <1>5, <1>6 DEF Verify, VerifyCheckLockout, VerifyGetNothing, VerifyGetMatch,
     VerifyGetMismatch, LimitSetLockout, LimitDropOtp, LimitDropAttempts, RedeemDropOtp,
     RedeemDropAttempts, ReturnsIfExists, Key
<1>7. CASE Tick
  BY <1>1, <1>7 DEF Tick, Elapse, RedisOK, Key
<1>8. QED
  BY <1>4, <1>6, <1>7 DEF Next, StoreBegin, VerifyBegin, Crash, vars

\* A call stays where it is, or steps, or dies in a crash.
LEMMA Stays ==
  ASSUME TypeOK, [Next]_vars, NEW q \in Req, crashes' = 0, call'[q] # call[q]
  PROVE  StoreBegin(q) \/ VerifyBegin(q) \/ Store(q) \/ Verify(q)
<1>1. ASSUME NEW r \in Req, r # q, StoreBegin(r) \/ VerifyBegin(r) \/ Store(r) \/ Verify(r)
      PROVE  FALSE
  BY <1>1 DEF StoreBegin, VerifyBegin, Store, StoreCheckLockout, StoreCheckCooldown,
                StoreSetOtp, StoreSetCooldown, StoreResetAttempts, Verify, VerifyCheckLockout,
                VerifyGetNothing, VerifyGetMatch, VerifyGetMismatch, VerifyIncr, VerifyExpire,
                LimitSetLockout, LimitDropOtp, LimitDropAttempts, RedeemDropOtp,
                RedeemDropAttempts, RedeemDropCooldown, Writes, ReturnsIfExists, Goto, TypeOK
<1>2. ~Crash
  BY DEF Crash, TypeOK
<1>3. QED
  BY <1>1, <1>2 DEF Next, Tick, vars

LEMMA CrashesGrow ==
  ASSUME TypeOK, [Next]_vars, crashes' = 0
  PROVE  crashes = 0
<1>1. ASSUME NEW r \in Req, Store(r) \/ Verify(r) PROVE crashes' = crashes
  BY <1>1 DEF StoreBegin, VerifyBegin, Store, StoreCheckLockout, StoreCheckCooldown,
                StoreSetOtp, StoreSetCooldown, StoreResetAttempts, Verify, VerifyCheckLockout,
                VerifyGetNothing, VerifyGetMatch, VerifyGetMismatch, VerifyIncr, VerifyExpire,
                LimitSetLockout, LimitDropOtp, LimitDropAttempts, RedeemDropOtp,
                RedeemDropAttempts, RedeemDropCooldown, Writes, ReturnsIfExists, Awaits
<1>2. QED
  BY <1>1 DEF Next, StoreBegin, VerifyBegin, Tick, Crash, vars, TypeOK

\* While Redis answers, a counter at the limit always has a call that will
\* lock the pair out and clear it.
THEOREM LimitEnforced == Spec => []LimitIsEnforced
<1>1. Init => LimitIsEnforced
  BY AttemptsAssumption DEF Init, LimitIsEnforced, Counter, Exists, Absent, Key
<1>2. TypeOK /\ LimitIsEnforced /\ [Next]_vars => LimitIsEnforced'
  <2> SUFFICES ASSUME TypeOK, LimitIsEnforced, [Next]_vars, faults' = 0, crashes' = 0,
                      Counter(redis', "attempts") >= MaxAttempts
               PROVE  \E r \in Req : call'[r].at \in LimitPc
    BY DEF LimitIsEnforced
  <2>1. faults = 0 /\ crashes = 0
    BY FaultsGrow, CrashesGrow
  <2>2. RedisOK(redis)
    BY DEF TypeOK
  <2>3. ASSUME Counter(redis, "attempts") >= MaxAttempts
        PROVE  \E r \in Req : call'[r].at \in LimitPc
    <3>1. PICK r \in Req : call[r].at \in LimitPc
      BY <2>1, <2>3 DEF LimitIsEnforced
    <3>2. ~LimitDropAttempts(r)
      <4>1. LimitDropAttempts(r) => redis' = Del(redis, "attempts")
        BY <2>1 DEF LimitDropAttempts, Writes, After, Awaits, Outcome
      <4>2. Counter(Del(redis, "attempts"), "attempts") = 0
        BY <2>2 DEF Counter, Exists, Absent, Del, RedisOK, Key
      <4>3. QED BY <4>1, <4>2, AttemptsAssumption
    <3>3. CASE call'[r] # call[r]
      <4>1. LimitSetLockout(r) \/ LimitDropOtp(r)
        BY <3>1, <3>2, <3>3, Stays DEF StoreBegin, VerifyBegin, Store, StoreCheckLockout, StoreCheckCooldown,
                StoreSetOtp, StoreSetCooldown, StoreResetAttempts, Verify, VerifyCheckLockout,
                VerifyGetNothing, VerifyGetMatch, VerifyGetMismatch, VerifyIncr, VerifyExpire,
                LimitSetLockout, LimitDropOtp, LimitDropAttempts, RedeemDropOtp,
                RedeemDropAttempts, RedeemDropCooldown, Writes, ReturnsIfExists, Awaits, LimitPc
      <4>2. Goto(r, "l_otp") \/ Goto(r, "l_attempts")
        BY <4>1 DEF LimitSetLockout, LimitDropOtp, Writes
      <4>3. call[r] \in Call
        BY DEF TypeOK
      <4>4. QED
        BY <4>2, <4>3 DEF Goto, TypeOK, LimitPc, Call, Idle
    <3>4. QED BY <3>1, <3>3
  <2>4. CASE \E r \in Req : VerifyIncr(r)
    <3>1. PICK r \in Req : VerifyIncr(r)
      BY <2>4
    <3>2. redis' = Incr(redis, "attempts") /\ Counter(redis', "attempts") = Counter(redis, "attempts") + 1
      BY <2>1, <2>2, <3>1 DEF VerifyIncr, After, Awaits, Outcome, Incr, Counter, Exists, TtlOf,
         Entry, Absent, NoExpiry, RedisOK, EntryOf, Key
    <3>3. Goto(r, "l_lockout")
      BY <2>1, <3>1, <3>2, AttemptsAssumption DEF VerifyIncr, AfterMiss, Awaits, Outcome
    <3>4. QED
      BY <3>3 DEF Goto, TypeOK, LimitPc
  <2>5. CASE \E r \in Req : VerifyExpire(r)
    <3>1. redis' \in {redis, Expire(redis, "attempts", AttemptsTtl)}
      BY <2>5 DEF VerifyExpire, Writes, After
    <3>2. Counter(redis', "attempts") = Counter(redis, "attempts")
      BY <2>2, <3>1, TtlAssumption DEF Counter, Expire, SetEx, Exists, Entry, RedisOK, Key
    <3>3. QED BY <2>3, <3>2
  <2>6. CASE redis'["attempts"] \in {redis["attempts"], Absent, Aged(redis["attempts"])}
    <3>1. Counter(redis', "attempts") \in {Counter(redis, "attempts"), 0}
      BY <2>2, <2>6 DEF Counter, Exists, Absent, Aged, Entry, NoExpiry, RedisOK, EntryOf
    <3>2. QED BY <2>3, <3>1, AttemptsAssumption
  <2>7. QED BY <2>4, <2>5, <2>6, CounterSteps
<1>3. QED
  BY <1>1, <1>2, TypeCorrect, PTL DEF Spec

\* While Redis answers, a counter without a time to live always has the call
\* that created it about to set one.
THEOREM CounterExpires == Spec => []CounterWillExpire
<1>1. Init => CounterWillExpire
  BY DEF Init, CounterWillExpire, Exists, Absent, Key
<1>2. TypeOK /\ CounterWillExpire /\ [Next]_vars => CounterWillExpire'
  <2> SUFFICES ASSUME TypeOK, CounterWillExpire, [Next]_vars, faults' = 0, crashes' = 0,
                      redis'["attempts"].ttl = NoExpiry
               PROVE  \E r \in Req : call'[r].at = "v_expire"
    BY DEF CounterWillExpire
  <2>1. faults = 0 /\ crashes = 0
    BY FaultsGrow, CrashesGrow
  <2>2. RedisOK(redis)
    BY DEF TypeOK
  <2>3. ASSUME NEW r \in Req, VerifyExpire(r) PROVE FALSE
    <3>1. redis' = Expire(redis, "attempts", AttemptsTtl)
      BY <2>1, <2>3 DEF VerifyExpire, Writes, After, Awaits, Outcome
    <3>2. QED
      BY <2>2, <3>1, TtlAssumption DEF Expire, SetEx, Exists, Entry, NoExpiry, RedisOK, Key
  <2>4. ASSUME redis["attempts"].ttl = NoExpiry
        PROVE  \E r \in Req : call'[r].at = "v_expire"
    <3>1. PICK r \in Req : call[r].at = "v_expire"
      BY <2>1, <2>4 DEF CounterWillExpire, Exists, NoExpiry
    <3>2. call'[r] = call[r]
      BY <2>3, <3>1, Stays DEF StoreBegin, VerifyBegin, Store, StoreCheckLockout, StoreCheckCooldown,
                StoreSetOtp, StoreSetCooldown, StoreResetAttempts, Verify, VerifyCheckLockout,
                VerifyGetNothing, VerifyGetMatch, VerifyGetMismatch, VerifyIncr, VerifyExpire,
                LimitSetLockout, LimitDropOtp, LimitDropAttempts, RedeemDropOtp,
                RedeemDropAttempts, RedeemDropCooldown, Writes, ReturnsIfExists, Awaits
    <3>3. QED BY <3>1, <3>2
  <2>5. CASE \E r \in Req : VerifyIncr(r)
    <3>1. PICK r \in Req : VerifyIncr(r)
      BY <2>5
    <3>2. redis' = Incr(redis, "attempts")
      BY <2>1, <3>1 DEF VerifyIncr, After, Awaits, Outcome
    <3>3. CASE Exists(redis, "attempts")
      BY <2>2, <2>4, <3>2, <3>3 DEF Incr, TtlOf, Entry, RedisOK, Key
    <3>4. CASE ~Exists(redis, "attempts")
      <4>1. Counter(redis, "attempts") + 1 = 1
        BY <3>4 DEF Counter
      <4>2. Goto(r, "v_expire")
        BY <2>1, <3>1, <4>1, AttemptsAssumption DEF VerifyIncr, AfterMiss, Awaits, Outcome
      <4>3. QED BY <4>2 DEF Goto, TypeOK
    <3>5. QED BY <3>3, <3>4
  <2>6. CASE redis'["attempts"] \in {redis["attempts"], Absent, Aged(redis["attempts"])}
    <3>1. redis["attempts"].ttl = NoExpiry
      BY <2>2, <2>6 DEF Absent, Aged, Entry, NoExpiry, RedisOK, EntryOf
    <3>2. QED BY <2>4, <3>1
  <2>7. QED BY <2>3, <2>5, <2>6, CounterSteps
<1>3. QED
  BY <1>1, <1>2, TypeCorrect, PTL DEF Spec

-----------------------------------------------------------------------------
(* The lockout                                                             *)

\* A step leaves the lockout alone, renews it, or lets a tick pass.
LEMMA LockoutSteps ==
  ASSUME TypeOK, [Next]_vars
  PROVE  redis'["lockout"] \in
           {redis["lockout"], Entry("1", LockoutTtl), Aged(redis["lockout"])}
<1> DEFINE Kept == redis'["lockout"] = redis["lockout"]
<1>1. RedisOK(redis)
  BY DEF TypeOK
<1>2. ASSUME NEW r \in Req, NEW from, NEW to, NEW k \in Key \ {"lockout"}, NEW e,
             Writes(r, from, to, [redis EXCEPT ![k] = e])
      PROVE  Kept
  BY <1>1, <1>2 DEF Writes, After, RedisOK, Key
<1>3. ASSUME NEW r \in Req, Store(r) PROVE Kept
  BY <1>2, <1>3 DEF Store, StoreCheckLockout, StoreCheckCooldown, StoreSetOtp,
     StoreSetCooldown, StoreResetAttempts, ReturnsIfExists, SetEx, Del, Key
<1>4. ASSUME NEW r \in Req, VerifyExpire(r) PROVE Kept
  BY <1>1, <1>4 DEF VerifyExpire, Writes, After, Expire, SetEx, RedisOK, Key
<1>5. ASSUME NEW r \in Req, VerifyIncr(r) \/ RedeemDropCooldown(r) PROVE Kept
  BY <1>1, <1>5 DEF VerifyIncr, RedeemDropCooldown, After, Incr, Del, RedisOK, Key
<1>6. ASSUME NEW r \in Req, LimitSetLockout(r)
      PROVE  redis'["lockout"] \in {redis["lockout"], Entry("1", LockoutTtl)}
  BY <1>1, <1>6 DEF LimitSetLockout, Writes, After, SetEx, RedisOK, Key
<1>7. ASSUME NEW r \in Req, Verify(r), ~LimitSetLockout(r) PROVE Kept
  BY <1>2, <1>4, <1>5, <1>7 DEF Verify, VerifyCheckLockout, VerifyGetNothing, VerifyGetMatch,
     VerifyGetMismatch, LimitDropOtp, LimitDropAttempts, RedeemDropOtp,
     RedeemDropAttempts, ReturnsIfExists, Del, Key
<1>8. CASE Tick
  BY <1>1, <1>8 DEF Tick, Elapse, RedisOK, Key
<1>9. QED
  BY <1>3, <1>6, <1>7, <1>8 DEF Next, StoreBegin, VerifyBegin, Crash, vars

\* No call, fault or crash ends a lockout before its time to live does.
THEOREM OnlyTimeUnlocks == Spec => LockoutOnlyExpires
<1> DEFINE Ends == Exists(redis, "lockout") /\ ~Exists(redis, "lockout")'
<1>1. TypeOK /\ [Next]_vars => (Ends => redis["lockout"].ttl = 1)
  <2> SUFFICES ASSUME TypeOK, [Next]_vars, Ends PROVE redis["lockout"].ttl = 1
    OBVIOUS
  <2>1. redis'["lockout"].ttl = 0 /\ redis["lockout"].ttl # 0
    BY DEF Exists
  <2>2. redis'["lockout"] # Entry("1", LockoutTtl)
    BY <2>1, TtlAssumption DEF Entry
  <2>3. redis'["lockout"] = Aged(redis["lockout"])
    BY <2>1, <2>2, LockoutSteps
  <2>4. redis["lockout"].ttl \in 1..LockoutTtl
    BY <2>1 DEF TypeOK, RedisOK, EntryOf, Absent
  <2>5. QED
    BY <2>1, <2>3, <2>4, TtlAssumption DEF Aged, Entry, NoExpiry, Absent
<1>2. QED
  BY <1>1, TypeCorrect, PTL DEF Spec, LockoutOnlyExpires

-----------------------------------------------------------------------------
(* How many wrong codes a password is compared with                        *)

\* The size of a set of calls when only r enters or leaves it.
LEMMA CountMoved ==
  ASSUME NEW S \in SUBSET Req, NEW T \in SUBSET Req, NEW r \in Req, S \ {r} = T \ {r}
  PROVE  Cardinality(T) = Cardinality(S) + (IF r \in T THEN 1 ELSE 0) - (IF r \in S THEN 1 ELSE 0)
<1>1. IsFiniteSet(S) /\ IsFiniteSet(T) /\ Cardinality(S) \in Nat /\ Cardinality(T) \in Nat
  BY ReqAssumption, FS_Subset, FS_CardinalityType
<1>2. r \in S => Cardinality(S \ {r}) = Cardinality(S) - 1
  BY <1>1, FS_RemoveElement
<1>3. r \in T => Cardinality(T \ {r}) = Cardinality(T) - 1
  BY <1>1, FS_RemoveElement
<1>4. r \notin S => S \ {r} = S
  OBVIOUS
<1>5. r \notin T => T \ {r} = T
  OBVIOUS
<1>6. QED
  BY <1>1, <1>2, <1>3, <1>4, <1>5

LEMMA Sizes ==
  /\ Cardinality(Req) \in Nat
  /\ Cardinality(Guessing) \in Nat /\ Cardinality(Guessing) <= Cardinality(Req)
  /\ Cardinality(Resetting) \in Nat /\ Cardinality(Resetting) <= Cardinality(Req)
  /\ Resetting = Req <=> Cardinality(Resetting) = Cardinality(Req)
<1>1. Guessing \subseteq Req /\ Resetting \subseteq Req
  BY DEF Guessing, Resetting
<1>2. QED
  BY <1>1, ReqAssumption, FS_Subset, FS_CardinalityType

LEMMA SizesNext ==
  /\ Cardinality(Guessing') \in Nat /\ Cardinality(Guessing') <= Cardinality(Req)
  /\ Cardinality(Resetting') \in Nat /\ Cardinality(Resetting') <= Cardinality(Req)
  /\ Resetting' = Req <=> Cardinality(Resetting') = Cardinality(Req)
<1>1. Guessing' \subseteq Req /\ Resetting' \subseteq Req
  BY DEF Guessing, Resetting
<1>2. QED
  BY <1>1, ReqAssumption, FS_Subset, FS_CardinalityType

\* What the move of one call does to the two counts.
LEMMA MoveCounts ==
  ASSUME NEW r \in Req, NEW c, TypeOK, call' = [call EXCEPT ![r] = c]
  PROVE  /\ Cardinality(Guessing') = Cardinality(Guessing)
              + (IF c.at \in Found THEN 0 ELSE 1) - (IF call[r].at \in Found THEN 0 ELSE 1)
         /\ Cardinality(Resetting') = Cardinality(Resetting)
              + (IF c.at \in Clears THEN 1 ELSE 0) - (IF call[r].at \in Clears THEN 1 ELSE 0)
<1>1. \A q \in Req : call'[q] = IF q = r THEN c ELSE call[q]
  BY DEF TypeOK
<1>2. /\ Guessing \in SUBSET Req /\ Guessing' \in SUBSET Req
      /\ Guessing \ {r} = Guessing' \ {r}
      /\ r \in Guessing <=> call[r].at \notin Found
      /\ r \in Guessing' <=> c.at \notin Found
  BY <1>1 DEF Guessing
<1>3. /\ Resetting \in SUBSET Req /\ Resetting' \in SUBSET Req
      /\ Resetting \ {r} = Resetting' \ {r}
      /\ r \in Resetting <=> call[r].at \in Clears
      /\ r \in Resetting' <=> c.at \in Clears
  BY <1>1 DEF Resetting
<1>4. Cardinality(Guessing') = Cardinality(Guessing)
              + (IF r \in Guessing' THEN 1 ELSE 0) - (IF r \in Guessing THEN 1 ELSE 0)
  BY <1>2, CountMoved
<1>5. Cardinality(Resetting') = Cardinality(Resetting)
              + (IF r \in Resetting' THEN 1 ELSE 0) - (IF r \in Resetting THEN 1 ELSE 0)
  BY <1>3, CountMoved
<1>6. QED
  BY <1>2, <1>3, <1>4, <1>5, Sizes, SizesNext

LEMMA MoveSame ==
  ASSUME NEW r \in Req, NEW c, TypeOK, call' = [call EXCEPT ![r] = c],
         call[r].at \notin Found \cup Clears, c.at \notin Found \cup Clears
  PROVE  /\ Cardinality(Guessing') = Cardinality(Guessing)
         /\ Cardinality(Resetting') = Cardinality(Resetting)
<1>1. call[r].at \notin Found /\ call[r].at \notin Clears /\ c.at \notin Found /\ c.at \notin Clears
  OBVIOUS
<1>2. /\ Cardinality(Guessing') = Cardinality(Guessing) + 1 - 1
      /\ Cardinality(Resetting') = Cardinality(Resetting) + 0 - 0
  BY <1>1, MoveCounts
<1>3. QED
  BY <1>2, Sizes

LEMMA GotoCounts ==
  ASSUME NEW r \in Req, NEW to, TypeOK, Goto(r, to)
  PROVE  /\ Cardinality(Guessing') = Cardinality(Guessing)
              + (IF to \in Found THEN 0 ELSE 1) - (IF call[r].at \in Found THEN 0 ELSE 1)
         /\ Cardinality(Resetting') = Cardinality(Resetting)
              + (IF to \in Clears THEN 1 ELSE 0) - (IF call[r].at \in Clears THEN 1 ELSE 0)
<1> DEFINE c == IF to = "idle" THEN Idle ELSE [call[r] EXCEPT !.at = to]
<1>1. call' = [call EXCEPT ![r] = c]
  BY DEF Goto, TypeOK
<1>2. c.at = to
  BY DEF TypeOK, Call, Idle
<1>3. QED
  BY <1>1, <1>2, MoveCounts

-----------------------------------------------------------------------------
(* The slack of the counter                                                *)

LEMMA SlackBounds ==
  ASSUME TypeOK
  PROVE  Slack \in Nat /\ Slack <= 2 * (MaxAttempts - 1) - 1
<1>1. Counter(redis, "attempts") \in Nat /\ (Leftover => Counter(redis, "attempts") >= 1)
  BY DEF TypeOK, RedisOK, Counter, Exists, Absent, EntryOf, Leftover
<1>2. QED
  BY <1>1, AttemptsAssumption DEF Slack, Headroom

LEMMA SlackBoundsNext ==
  ASSUME TypeOK'
  PROVE  Slack' \in Nat
<1>1. Counter(redis', "attempts") \in Nat
  BY DEF TypeOK, RedisOK, Counter, Exists, Absent, EntryOf
<1>2. QED
  BY <1>1, AttemptsAssumption DEF Slack, Headroom

\* The slack depends on the counter and the password's time to live only.
LEMMA SlackSame ==
  ASSUME redis'["attempts"] = redis["attempts"], redis'["otp"] = redis["otp"]
  PROVE  Slack' = Slack
  BY DEF Slack, Headroom, Leftover, Counter, Exists

\* A counter that is gone leaves one limit.
LEMMA SlackReset ==
  ASSUME redis'["attempts"] = Absent
  PROVE  Slack' = MaxAttempts - 1
  BY AttemptsAssumption DEF Slack, Headroom, Leftover, Counter, Exists, Absent

\* Time takes slack away: a counter that expires before the password was
\* expected to.
LEMMA SlackTick ==
  ASSUME TypeOK, Tick, NEW i \in Issue, Stored(i)'
  PROVE  Slack' <= Slack
<1>1. RedisOK(redis) /\ redis' = Elapse(redis)
  BY DEF TypeOK, Tick
<1>2. redis'["otp"] = Aged(redis["otp"]) /\ redis'["attempts"] = Aged(redis["attempts"])
  BY <1>1 DEF Elapse, RedisOK, Key
<1>3. redis["otp"].ttl \in Nat /\ redis["otp"].ttl >= 2 /\ redis'["otp"].ttl = redis["otp"].ttl - 1
  BY <1>1, <1>2 DEF RedisOK, EntryOf, Aged, Entry, Absent, NoExpiry, Stored, Exists
<1>4. CASE redis["attempts"].ttl \in {0, NoExpiry}
  <2>1. redis'["attempts"] = redis["attempts"]
    BY <1>2, <1>4 DEF Aged
  <2>2. ~Leftover /\ ~Leftover' /\ Headroom' = Headroom
    BY <1>4, <2>1 DEF Leftover, Headroom, Counter, Exists, NoExpiry
  <2>3. Slack \in Nat
    BY SlackBounds
  <2>4. QED
    BY <2>2, <2>3 DEF Slack
<1>5. CASE redis["attempts"].ttl = 1
  <2>1. redis'["attempts"] = Absent
    BY <1>2, <1>5 DEF Aged, NoExpiry
  <2>2. Leftover
    BY <1>3, <1>5 DEF Leftover, Exists, NoExpiry
  <2>3. Headroom \in Nat
    BY AttemptsAssumption, <1>1 DEF Headroom, Counter, Exists, RedisOK, EntryOf, Absent
  <2>4. QED
    BY <2>1, <2>2, <2>3, SlackReset, AttemptsAssumption DEF Slack
<1>6. CASE redis["attempts"].ttl \in Nat /\ redis["attempts"].ttl >= 2
  <2>1. /\ redis'["attempts"].val = redis["attempts"].val
        /\ redis'["attempts"].ttl = redis["attempts"].ttl - 1
    BY <1>2, <1>6 DEF Aged, Entry, NoExpiry
  <2>2. Leftover' <=> Leftover
    BY <1>3, <1>6, <2>1 DEF Leftover, Exists, NoExpiry
  <2>3. Headroom' = Headroom
    BY <1>6, <2>1 DEF Headroom, Counter, Exists
  <2>4. Slack \in Nat
    BY SlackBounds
  <2>5. QED
    BY <2>2, <2>3, <2>4 DEF Slack
<1>7. QED
  BY <1>1, <1>4, <1>5, <1>6, TtlAssumption DEF RedisOK, EntryOf, Absent, NoExpiry

LEMMA SlackIncr ==
  ASSUME TypeOK, redis' = Incr(redis, "attempts")
  PROVE  /\ Slack' <= Slack
         /\ Counter(redis, "attempts") + 1 < MaxAttempts => Slack' = Slack - 1
<1>1. RedisOK(redis) /\ Counter(redis, "attempts") \in Nat
  BY DEF TypeOK, RedisOK, Counter, Exists, EntryOf, Absent
<1>2. redis'["otp"] = redis["otp"]
  BY <1>1, OtherKeyStored DEF Incr, Key
<1>3. /\ Counter(redis', "attempts") = Counter(redis, "attempts") + 1
      /\ redis'["attempts"].ttl = TtlOf(redis, "attempts")
  BY <1>1 DEF Incr, Counter, Exists, TtlOf, Entry, Absent, NoExpiry, RedisOK, EntryOf, Key
<1>4. Leftover' <=> Leftover
  BY <1>2, <1>3 DEF Leftover, Exists, TtlOf, Absent, NoExpiry
<1>5. QED
  BY <1>1, <1>3, <1>4, AttemptsAssumption DEF Slack, Headroom

LEMMA SlackExpire ==
  ASSUME TypeOK, redis' = Expire(redis, "attempts", AttemptsTtl)
  PROVE  Slack' <= Slack
<1>1. RedisOK(redis) /\ Slack \in Nat
  BY SlackBounds DEF TypeOK
<1>2. redis'["otp"] = redis["otp"]
  BY <1>1, OtherKeyStored DEF Expire, SetEx, Key
<1>3. CASE ~Exists(redis, "attempts")
  BY <1>1, <1>3 DEF Expire, Slack, Headroom, Leftover, Counter, Exists
<1>4. CASE Exists(redis, "attempts")
  <2>1. redis'["attempts"].val = redis["attempts"].val /\ redis'["attempts"].ttl = AttemptsTtl
    BY <1>1, <1>4 DEF Expire, SetEx, Entry, RedisOK, Key
  <2>2. redis["otp"].ttl <= AttemptsTtl
    BY <1>1, TtlAssumption DEF RedisOK, EntryOf, Absent
  <2>3. ~Leftover'
    BY <1>1, <1>2, <2>1, <2>2, TtlAssumption DEF Leftover, RedisOK, EntryOf, Absent
  <2>4. Headroom' = Headroom
    BY <1>4, <2>1, TtlAssumption DEF Headroom, Counter, Exists
  <2>5. Headroom \in Nat
    BY AttemptsAssumption, <1>1 DEF Headroom, Counter, Exists, RedisOK, EntryOf, Absent
  <2>6. QED
    BY <2>3, <2>4, <2>5, AttemptsAssumption DEF Slack
<1>5. QED BY <1>3, <1>4

-----------------------------------------------------------------------------
(* Each step pays for what it makes possible                               *)

\* The wrong codes made and still to come grow no faster than the allowance.
Pays(i) == missed'[i] + ToCome' + Allowance <= missed[i] + ToCome + Allowance'

LEMMA RoomIs ==
  Room = IF Cardinality(Resetting) = Cardinality(Req) THEN (MaxAttempts - 1) * Cardinality(Req)
         ELSE (MaxAttempts - 1) * Cardinality(Resetting) + Slack
  BY Sizes DEF Room

LEMMA RoomIsNext ==
  Room' = IF Cardinality(Resetting') = Cardinality(Req) THEN (MaxAttempts - 1) * Cardinality(Req)
          ELSE (MaxAttempts - 1) * Cardinality(Resetting') + Slack'
  BY SizesNext DEF Room

LEMMA AllowanceInt ==
  ASSUME TypeOK
  PROVE  GuessLimit \in Int /\ Allowance \in Int
<1>1. /\ Cardinality(Req) \in Nat /\ MaxAttempts \in Nat
      /\ faults \in Nat /\ crashes \in Nat
  BY Sizes, AttemptsAssumption, BoundAssumption DEF TypeOK
<1>2. QED
  BY <1>1 DEF Allowance, GuessLimit

LEMMA AwaitsPays ==
  ASSUME TypeOK, NEW r \in Req, NEW from, NEW o \in Outcome, Awaits(r, from, o)
  PROVE  /\ Allowance' \in Int
         /\ Allowance' >= Allowance
         /\ o # "done" => Allowance' = Allowance + MaxAttempts
<1>1. /\ Cardinality(Req) \in Nat /\ MaxAttempts \in Nat
      /\ faults \in Nat /\ crashes \in Nat /\ crashes' = crashes
      /\ faults' = IF o = "done" THEN faults ELSE faults + 1
  BY Sizes, AttemptsAssumption, BoundAssumption DEF TypeOK, Awaits
<1>2. GuessLimit \in Int /\ Allowance \in Int
  BY AllowanceInt
<1>3. crashes * Cardinality(Req) \in Nat
  BY <1>1
<1>4. (faults + 1 + crashes * Cardinality(Req)) * MaxAttempts
        = (faults + crashes * Cardinality(Req)) * MaxAttempts + MaxAttempts
  BY <1>1, <1>3
<1>5. o # "done" => Allowance' = Allowance + MaxAttempts
  BY <1>1, <1>2, <1>3, <1>4 DEF Allowance, GuessLimit
<1>6. o = "done" => Allowance' = Allowance
  BY <1>1 DEF Allowance, GuessLimit
<1>7. QED
  BY <1>1, <1>2, <1>5, <1>6

LEMMA Multiples ==
  ASSUME NEW a \in Nat, NEW p \in Int
  PROVE  a * p \in Int /\ a * (p - 1) = a * p - a /\ a * (p + 1) = a * p + a
  OBVIOUS

LEMMA PaysKeep ==
  ASSUME TypeOK, TypeOK', NEW i \in Issue, missed'[i] = missed[i],
         Cardinality(Guessing') = Cardinality(Guessing),
         Cardinality(Resetting') = Cardinality(Resetting),
         Slack' <= Slack, Allowance' \in Int, Allowance' >= Allowance
  PROVE  Pays(i)
<1>1. /\ Slack \in Nat /\ Slack' \in Nat /\ Allowance \in Int /\ missed[i] \in Nat
      /\ MaxAttempts - 1 \in Nat
  BY SlackBounds, SlackBoundsNext, AllowanceInt, AttemptsAssumption DEF TypeOK
<1>2. Room \in Int /\ Room' \in Int /\ Room' <= Room
  BY <1>1, RoomIs, RoomIsNext, Sizes
<1>3. QED
  BY <1>1, <1>2, Sizes DEF Pays, ToCome

\* A wrong code is found.
LEMMA PaysMiss ==
  ASSUME TypeOK, TypeOK', NEW i \in Issue, missed'[i] = missed[i] + 1,
         Cardinality(Guessing') = Cardinality(Guessing) - 1,
         Cardinality(Resetting') = Cardinality(Resetting),
         Slack' = Slack, Allowance' \in Int, Allowance' >= Allowance
  PROVE  Pays(i)
<1>1. /\ Slack \in Nat /\ Slack' \in Nat /\ Allowance \in Int /\ missed[i] \in Nat
      /\ MaxAttempts - 1 \in Nat
  BY SlackBounds, AllowanceInt, AttemptsAssumption DEF TypeOK
<1>2. Room \in Int /\ Room' = Room
  BY <1>1, RoomIs, RoomIsNext, Sizes
<1>3. QED
  BY <1>1, <1>2, Sizes, SizesNext DEF Pays, ToCome

\* It is counted below the limit.
LEMMA PaysCount ==
  ASSUME TypeOK, TypeOK', NEW i \in Issue, missed'[i] = missed[i],
         Cardinality(Guessing') = Cardinality(Guessing) + 1,
         Cardinality(Resetting') = Cardinality(Resetting), Resetting # Req,
         Slack' = Slack - 1, Allowance' \in Int, Allowance' >= Allowance
  PROVE  Pays(i)
<1>1. /\ Slack \in Nat /\ Allowance \in Int /\ missed[i] \in Nat
      /\ MaxAttempts - 1 \in Nat
  BY SlackBounds, AllowanceInt, AttemptsAssumption DEF TypeOK
<1>2. Room \in Int /\ Room' = Room - 1
  BY <1>1, RoomIs, RoomIsNext, Sizes
<1>3. QED
  BY <1>1, <1>2, Sizes, SizesNext DEF Pays, ToCome

\* The counter is cleared.
LEMMA PaysReset ==
  ASSUME TypeOK, TypeOK', NEW i \in Issue, missed'[i] = missed[i],
         Cardinality(Guessing') = Cardinality(Guessing),
         Cardinality(Resetting') = Cardinality(Resetting) - 1,
         Slack' = MaxAttempts - 1, Allowance' \in Int, Allowance' >= Allowance
  PROVE  Pays(i)
<1> DEFINE a == MaxAttempts - 1
           p == Cardinality(Resetting)
<1>1. /\ Slack \in Nat /\ Allowance \in Int /\ missed[i] \in Nat /\ a \in Nat
      /\ p \in Nat /\ p <= Cardinality(Req) /\ Cardinality(Req) \in Nat
  BY SlackBounds, AllowanceInt, AttemptsAssumption, Sizes DEF TypeOK
<1>2. a * (p - 1) = a * p - a /\ a * p \in Int
  BY <1>1, Multiples
<1>3. Room' = a * p
  BY <1>1, <1>2, RoomIsNext
<1>4. Room \in Int /\ Room >= a * p
  BY <1>1, <1>2, RoomIs
<1>5. QED
  BY <1>1, <1>2, <1>3, <1>4, Sizes DEF Pays, ToCome

\* A fault takes a call out of the resetting ones without a reset, or makes it
\* one of them without the password gone, or leaves a wrong code uncounted.
LEMMA PaysFault ==
  ASSUME TypeOK, TypeOK', NEW i \in Issue, missed'[i] = missed[i],
         Cardinality(Guessing') <= Cardinality(Guessing) + 1,
         Cardinality(Resetting') <= Cardinality(Resetting) + 1,
         Cardinality(Resetting') >= Cardinality(Resetting) - 1,
         Slack' <= Slack, Allowance' = Allowance + MaxAttempts
  PROVE  Pays(i)
<1> DEFINE a == MaxAttempts - 1
           N == Cardinality(Req)
           p == Cardinality(Resetting)
           q == Cardinality(Resetting')
<1>1. /\ Slack \in Nat /\ Slack' \in Nat /\ Slack <= 2 * a /\ Allowance \in Int
      /\ missed[i] \in Nat /\ a \in Nat
      /\ p \in Nat /\ p <= N /\ N \in Nat /\ q \in Nat /\ q <= N
  BY SlackBounds, SlackBoundsNext, AllowanceInt, AttemptsAssumption, Sizes, SizesNext DEF TypeOK
<1>2. /\ a * (p - 1) = a * p - a /\ a * (p + 1) = a * p + a
      /\ a * p \in Int /\ a * N \in Int /\ a * q \in Int
  <2>1. a * (p - 1) = a * p - a /\ a * (p + 1) = a * p + a
    BY <1>1, Multiples
  <2>2. QED
    BY <1>1, <2>1
<1>3. q = p - 1 \/ q = p \/ q = p + 1
  BY <1>1
<1>4. a * q <= a * p + a
  BY <1>1, <1>2, <1>3
<1>5. CASE p = N
  <2>1. Room = a * p /\ (Room' = a * p \/ (q = p - 1 /\ Room' = a * p - a + Slack'))
    BY <1>1, <1>2, <1>3, <1>5, RoomIs, RoomIsNext
  <2>2. QED
    BY <1>1, <1>2, <2>1, Sizes, SizesNext, AttemptsAssumption DEF Pays, ToCome
<1>6. CASE p # N
  <2>1. Room = a * p + Slack /\ (Room' = a * q \/ Room' = a * q + Slack')
    BY <1>1, <1>6, RoomIs, RoomIsNext
  <2>2. QED
    BY <1>1, <1>2, <1>4, <2>1, Sizes, SizesNext, AttemptsAssumption DEF Pays, ToCome
<1>7. QED BY <1>5, <1>6

LEMMA PaysCrash ==
  ASSUME TypeOK, TypeOK', NEW i \in Issue, Crash
  PROVE  Pays(i)
<1> DEFINE a == MaxAttempts - 1
           N == Cardinality(Req)
           p == Cardinality(Resetting)
<1>1. /\ Slack \in Nat /\ Slack <= 2 * a /\ Allowance \in Int
      /\ missed[i] \in Nat /\ missed' = missed /\ a \in Nat
      /\ p \in Nat /\ p <= N /\ N \in Nat /\ faults \in Nat /\ crashes \in Nat
  BY SlackBounds, AllowanceInt, AttemptsAssumption, Sizes DEF TypeOK, Crash, history
<1>2. Slack' = Slack
  BY SlackSame DEF Crash
<1>3. Cardinality(Resetting') = 0
  <2>1. Resetting' = {}
    BY DEF Crash, Resetting, Idle, Clears
  <2>2. QED BY <2>1, FS_EmptySet
<1>4. Cardinality(Guessing') <= N /\ Cardinality(Guessing) >= 0
  BY Sizes, SizesNext
<1>5. Allowance' = Allowance + N * MaxAttempts
  <2>1. (crashes + 1) * N = crashes * N + N /\ crashes * N \in Nat
    BY <1>1
  <2>2. (faults + (crashes * N + N)) * MaxAttempts
          = (faults + crashes * N) * MaxAttempts + N * MaxAttempts
    BY <1>1, <2>1, AttemptsAssumption
  <2>3. GuessLimit' = GuessLimit /\ GuessLimit \in Int
    BY AllowanceInt DEF GuessLimit
  <2>4. Allowance' = GuessLimit + (faults + (crashes + 1) * N) * MaxAttempts
    BY <2>3 DEF Allowance, Crash
  <2>5. (faults + crashes * N) * MaxAttempts \in Int /\ N * MaxAttempts \in Int
    BY <1>1, <2>1, AttemptsAssumption
  <2>6. QED
    BY <2>1, <2>2, <2>3, <2>4, <2>5 DEF Allowance
<1>6. N * MaxAttempts = a * N + N /\ a * N \in Nat /\ a * p \in Nat /\ a * 0 = 0
  BY <1>1, AttemptsAssumption
<1>7. CASE N = 0
  <2>1. Room = 0 /\ Room' = 0
    BY <1>1, <1>3, <1>6, <1>7, RoomIs, RoomIsNext
  <2>2. Allowance' = Allowance
    BY <1>1, <1>5, <1>7, AttemptsAssumption
  <2>3. Cardinality(Guessing') = 0 /\ Cardinality(Guessing) = 0
    BY <1>7, Sizes, SizesNext
  <2>4. ToCome = 0 /\ ToCome' = 0
    BY <2>1, <2>3 DEF ToCome
  <2>5. QED
    BY <1>1, <2>2, <2>4 DEF Pays
<1>8. CASE N # 0
  <2>1. Room' = Slack
    BY <1>1, <1>2, <1>3, <1>6, <1>8, RoomIsNext
  <2>2. a * N >= a
    BY <1>1, <1>8
  <2>3. Room \in Nat /\ Slack <= Room + a * N
    BY <1>1, <1>6, <2>2, RoomIs
  <2>4. QED
    BY <1>1, <1>4, <1>5, <1>6, <2>1, <2>3, Sizes, SizesNext DEF Pays, ToCome
<1>9. QED BY <1>7, <1>8

\* A password just stored has nothing against it yet, and the call that stored
\* it is about to clear the counter.
LEMMA StartFits ==
  ASSUME TypeOK, TypeOK', \E r \in Req : call'[r].at = "s_setCooldown"
  PROVE  ToCome' <= GuessLimit
<1> DEFINE a == MaxAttempts - 1
           N == Cardinality(Req)
           q == Cardinality(Resetting')
<1>1. Slack' \in Nat /\ Slack' <= 2 * a - 1 /\ a \in Nat /\ a >= 1
  <2>1. /\ Counter(redis', "attempts") \in Nat
        /\ Leftover' => Counter(redis', "attempts") >= 1
    BY DEF TypeOK, RedisOK, Counter, Exists, Absent, EntryOf, Leftover
  <2>2. QED
    BY <2>1, AttemptsAssumption DEF Slack, Headroom
<1>2. q >= 1
  <2>1. Resetting' # {} /\ Resetting' \subseteq Req
    BY DEF Resetting, Clears
  <2>2. IsFiniteSet(Resetting')
    BY <2>1, ReqAssumption, FS_Subset
  <2>3. QED
    BY <2>1, <2>2, SizesNext, FS_EmptySet
<1>3. /\ N \in Nat /\ q \in Nat /\ q <= N
      /\ Cardinality(Guessing') \in Nat /\ Cardinality(Guessing') <= N
  BY Sizes, SizesNext
<1>4. N * MaxAttempts = a * N + N /\ a * N \in Nat /\ a * q \in Nat /\ a * (N - 1) = a * N - a
  BY <1>1, <1>3, AttemptsAssumption
<1>5. CASE q = N
  <2>1. Room' = a * N
    BY <1>5, RoomIsNext
  <2>2. N = 1 => a * N = a
    BY <1>1
  <2>3. QED
    BY <1>1, <1>3, <1>4, <2>1, <2>2, AttemptsAssumption DEF ToCome, GuessLimit
<1>6. CASE q # N
  <2>1. Room' = a * q + Slack'
    BY <1>6, RoomIsNext
  <2>2. N # 1 /\ q <= N - 1
    BY <1>2, <1>3, <1>6
  <2>3. a * q <= a * N - a
    BY <1>1, <1>3, <1>4, <2>2
  <2>4. QED
    BY <1>1, <1>3, <1>4, <2>1, <2>2, <2>3, AttemptsAssumption DEF ToCome, GuessLimit
<1>7. QED BY <1>5, <1>6

-----------------------------------------------------------------------------
(* The steps, one by one, while the password stays stored                  *)

\* A command that neither clears the counter nor decides on a wrong code.
LEMMA GotoPays ==
  ASSUME TypeOK, TypeOK', NEW i \in Issue, NEW r \in Req, NEW from, NEW to,
         NEW o \in Outcome, Awaits(r, from, o), Goto(r, to), missed'[i] = missed[i],
         from \in Found <=> to \in Found, from \in Clears <=> to \in Clears,
         Slack' <= Slack
  PROVE  Pays(i)
<1>1. call[r].at = from
  BY DEF Awaits
<1>2. /\ Cardinality(Guessing') = Cardinality(Guessing)
      /\ Cardinality(Resetting') = Cardinality(Resetting)
  BY <1>1, GotoCounts, Sizes
<1>3. QED
  BY <1>2, AwaitsPays, PaysKeep

\* One whose failure leaves the calls' hopes higher than they should be.
LEMMA GotoPaysFault ==
  ASSUME TypeOK, TypeOK', NEW i \in Issue, NEW r \in Req, NEW from, NEW to,
         NEW o \in Outcome \ {"done"}, Awaits(r, from, o), Goto(r, to),
         missed'[i] = missed[i], Slack' <= Slack
  PROVE  Pays(i)
<1>1. /\ Cardinality(Guessing') <= Cardinality(Guessing) + 1
      /\ Cardinality(Resetting') <= Cardinality(Resetting) + 1
      /\ Cardinality(Resetting') >= Cardinality(Resetting) - 1
  BY GotoCounts, Sizes
<1>2. QED
  BY <1>1, AwaitsPays, PaysFault

\* A reset that may not take place.
LEMMA ResetPays ==
  ASSUME TypeOK, TypeOK', NEW i \in Issue, NEW r \in Req, NEW from \in Clears,
         NEW to, to \notin Clears \cup Found, Writes(r, from, to, Del(redis, "attempts"))
  PROVE  Pays(i)
<1>1. PICK o \in Outcome : /\ Awaits(r, from, o) /\ Goto(r, to) /\ UNCHANGED history
                           /\ redis' = After(o, redis, Del(redis, "attempts"))
  BY DEF Writes
<1>2. missed'[i] = missed[i]
  BY <1>1 DEF history
<1>3. CASE o = "skipped"
  <2>1. Slack' = Slack
    BY <1>1, <1>3, SlackSame DEF After
  <2>2. QED
    BY <1>1, <1>2, <1>3, <2>1, GotoPaysFault, SlackBounds DEF Outcome
<1>4. CASE o # "skipped"
  <2>1. redis'["attempts"] = Absent
    BY <1>1, <1>4 DEF After, Del, TypeOK, RedisOK, Key
  <2>2. call[r].at = from
    BY <1>1 DEF Awaits
  <2>3. /\ Cardinality(Guessing') = Cardinality(Guessing)
        /\ Cardinality(Resetting') = Cardinality(Resetting) - 1
    BY <1>1, <2>2, GotoCounts, Sizes DEF Clears, Found
  <2>4. QED
    BY <1>1, <1>2, <2>1, <2>3, SlackReset, AwaitsPays, PaysReset
<1>5. QED BY <1>3, <1>4

\* A deletion of the password that does not take place.
LEMMA KeepsPays ==
  ASSUME TypeOK, TypeOK', NEW i \in Issue, NEW r \in Req, NEW from, NEW to,
         NEW db, Writes(r, from, to, db), ~(db["otp"].ttl # 0 /\ db["otp"].val.issue = i),
         Stored(i)'
  PROVE  Pays(i)
<1>1. PICK o \in Outcome : /\ Awaits(r, from, o) /\ Goto(r, to) /\ UNCHANGED history
                           /\ redis' = After(o, redis, db)
  BY DEF Writes
<1>2. o = "skipped"
  BY <1>1 DEF After, Stored, Exists
<1>3. Slack' = Slack /\ missed'[i] = missed[i]
  BY <1>1, <1>2, SlackSame DEF After, history
<1>4. QED
  BY <1>1, <1>2, <1>3, GotoPaysFault, SlackBounds DEF Outcome

\* A command on another key.
LEMMA OtherPays ==
  ASSUME TypeOK, TypeOK', NEW i \in Issue, NEW r \in Req, NEW from, NEW to,
         NEW k \in {"cooldown", "lockout"}, NEW e, Writes(r, from, to, [redis EXCEPT ![k] = e]),
         from \in Found <=> to \in Found, from \in Clears <=> to \in Clears
  PROVE  Pays(i)
<1>1. PICK o \in Outcome : /\ Awaits(r, from, o) /\ Goto(r, to) /\ UNCHANGED history
                           /\ redis' = After(o, redis, [redis EXCEPT ![k] = e])
  BY DEF Writes
<1>2. redis'["attempts"] = redis["attempts"] /\ redis'["otp"] = redis["otp"]
  BY <1>1 DEF After, TypeOK, RedisOK, Key
<1>3. Slack' = Slack /\ missed'[i] = missed[i] /\ Slack \in Nat
  BY <1>1, <1>2, SlackSame, SlackBounds DEF history
<1>4. QED
  BY <1>1, <1>3, GotoPays

LEMMA StorePays ==
  ASSUME ReplayInv, TypeOK', NEW i \in Issue, NEW r \in Req, Store(r), Stored(i), Stored(i)'
  PROVE  Pays(i)
<1> USE DEF Found, Clears
<1>1. TypeOK /\ RedisOK(redis)
  BY DEF ReplayInv, TypeOK
<1>2. CASE StoreCheckLockout(r) \/ StoreCheckCooldown(r)
  <2>1. PICK from \in {"s_lockout", "s_cooldown"}, to \in {"idle", "s_cooldown", "s_otp"}, o \in Outcome :
          Awaits(r, from, o) /\ Goto(r, to) /\ UNCHANGED <<redis, history>>
    BY <1>2 DEF StoreCheckLockout, StoreCheckCooldown, ReturnsIfExists
  <2>2. Slack' = Slack /\ missed'[i] = missed[i] /\ Slack \in Nat
    BY <1>1, <2>1, SlackSame, SlackBounds DEF history
  <2>3. QED
    BY <1>1, <2>1, <2>2, GotoPays
<1>3. CASE StoreSetOtp(r)
  <2> DEFINE db == SetEx(redis, "otp", [hash |-> call[r].code, issue |-> call[r].otp], OtpTtl)
  <2>1. call[r].otp # i
    BY <1>3 DEF StoreSetOtp, Writes, Awaits, ReplayInv, FreshInv, Untouched, Storing
  <2>2. db["otp"].val.issue # i
    BY <1>1, <2>1 DEF SetEx, Entry, RedisOK, Key
  <2>3. QED
    BY <1>1, <1>3, <2>2, KeepsPays DEF StoreSetOtp
<1>4. CASE StoreSetCooldown(r)
  BY <1>1, <1>4, OtherPays DEF StoreSetCooldown, SetEx
<1>5. CASE StoreResetAttempts(r)
  BY <1>1, <1>5, ResetPays DEF StoreResetAttempts
<1>6. QED
  BY <1>2, <1>3, <1>4, <1>5 DEF Store

LEMMA MissPays ==
  ASSUME TypeOK, TypeOK', NEW i \in Issue, NEW r \in Req, VerifyGetMismatch(r), Stored(i)
  PROVE  Pays(i)
<1>1. /\ Awaits(r, "v_get", "done") /\ Goto(r, "v_incr") /\ redis' = redis
      /\ missed'[i] = missed[i] + 1
  BY DEF VerifyGetMismatch, Stored, TypeOK
<1>2. /\ Cardinality(Guessing') = Cardinality(Guessing) - 1
      /\ Cardinality(Resetting') = Cardinality(Resetting)
  BY <1>1, GotoCounts, Sizes DEF Awaits, Found, Clears
<1>3. Slack' = Slack
  BY <1>1, SlackSame
<1>4. QED
  BY <1>1, <1>2, <1>3, AwaitsPays, PaysMiss DEF Outcome

LEMMA IncrPays ==
  ASSUME TypeOK, TypeOK', NEW i \in Issue, NEW r \in Req, VerifyIncr(r)
  PROVE  Pays(i)
<1>1. PICK o \in Outcome :
        /\ Awaits(r, "v_incr", o) /\ UNCHANGED history
        /\ redis' = After(o, redis, Incr(redis, "attempts"))
        /\ Goto(r, AfterMiss(o, Counter(redis, "attempts") + 1))
  BY DEF VerifyIncr
<1>2. /\ missed'[i] = missed[i] /\ call[r].at = "v_incr"
      /\ Slack \in Nat /\ Counter(redis, "attempts") \in Nat
  BY <1>1, SlackBounds DEF history, Awaits, TypeOK, RedisOK, Counter, Exists, EntryOf, Absent
<1>3. Slack' <= Slack
  BY <1>1, <1>2, SlackIncr, SlackSame DEF After
<1>4. CASE o # "done"
  BY <1>1, <1>2, <1>3, <1>4, GotoPaysFault
<1>5. CASE o = "done" /\ Counter(redis, "attempts") + 1 >= MaxAttempts
  <2>1. Goto(r, "l_lockout")
    BY <1>1, <1>2, <1>5, AttemptsAssumption DEF AfterMiss
  <2>2. QED
    BY <1>1, <1>2, <1>3, <2>1, GotoPays DEF Found, Clears
<1>6. CASE o = "done" /\ Counter(redis, "attempts") + 1 < MaxAttempts
  <2>1. Goto(r, "v_expire") \/ Goto(r, "idle")
    BY <1>1, <1>2, <1>6, AttemptsAssumption DEF AfterMiss
  <2>2. Slack' = Slack - 1
    BY <1>1, <1>6, SlackIncr DEF After
  <2>3. /\ Cardinality(Guessing') = Cardinality(Guessing) + 1
        /\ Cardinality(Resetting') = Cardinality(Resetting)
    BY <1>2, <2>1, GotoCounts, Sizes DEF Found, Clears
  <2>4. Resetting # Req
    BY <1>2 DEF Resetting, Clears
  <2>5. QED
    BY <1>1, <1>2, <2>2, <2>3, <2>4, AwaitsPays, PaysCount
<1>7. QED
  BY <1>2, <1>4, <1>5, <1>6, AttemptsAssumption

LEMMA VerifyPays ==
  ASSUME TypeOK, TypeOK', NEW i \in Issue, NEW r \in Req, Verify(r), Stored(i), Stored(i)'
  PROVE  Pays(i)
<1> USE DEF Found, Clears
<1>1. RedisOK(redis) /\ Slack \in Nat
  BY SlackBounds DEF TypeOK
<1>2. CASE VerifyCheckLockout(r)
  <2>1. PICK to \in {"idle", "v_get"}, o \in Outcome :
          Awaits(r, "v_lockout", o) /\ Goto(r, to) /\ UNCHANGED <<redis, history>>
    BY <1>2 DEF VerifyCheckLockout, ReturnsIfExists
  <2>2. Slack' = Slack /\ missed'[i] = missed[i]
    BY <2>1, SlackSame DEF history
  <2>3. QED
    BY <1>1, <2>1, <2>2, GotoPays
<1>3. CASE VerifyGetNothing(r)
  <2>1. PICK o \in Outcome :
          Awaits(r, "v_get", o) /\ Goto(r, "idle") /\ UNCHANGED <<redis, history>>
    BY <1>3 DEF VerifyGetNothing
  <2>2. Slack' = Slack /\ missed'[i] = missed[i]
    BY <2>1, SlackSame DEF history
  <2>3. QED
    BY <1>1, <2>1, <2>2, GotoPays
<1>4. CASE VerifyGetMatch(r)
  <2> DEFINE c == [at |-> "r_otp", code |-> call[r].code, otp |-> redis["otp"].val.issue]
  <2>1. Awaits(r, "v_get", "done") /\ UNCHANGED <<redis, history>> /\ call' = [call EXCEPT ![r] = c]
    BY <1>4 DEF VerifyGetMatch, TypeOK
  <2>2. Slack' = Slack /\ missed'[i] = missed[i]
    BY <2>1, SlackSame DEF history
  <2>3. /\ Cardinality(Guessing') = Cardinality(Guessing)
        /\ Cardinality(Resetting') = Cardinality(Resetting)
    <3>1. call[r].at = "v_get" /\ c.at = "r_otp"
      BY <2>1 DEF Awaits
    <3>2. QED
      BY <2>1, <3>1, MoveSame
  <2>4. QED
    BY <1>1, <2>1, <2>2, <2>3, AwaitsPays, PaysKeep DEF Outcome
<1>5. CASE VerifyExpire(r)
  <2>1. PICK o \in Outcome :
          /\ Awaits(r, "v_expire", o) /\ Goto(r, "idle") /\ UNCHANGED history
          /\ redis' = After(o, redis, Expire(redis, "attempts", AttemptsTtl))
    BY <1>5 DEF VerifyExpire, Writes
  <2>2. Slack' <= Slack /\ missed'[i] = missed[i]
    BY <1>1, <2>1, SlackSame, SlackExpire DEF After, history
  <2>3. QED
    BY <2>1, <2>2, GotoPays
<1>6. CASE LimitSetLockout(r)
  BY <1>6, OtherPays DEF LimitSetLockout, SetEx
<1>7. ASSUME NEW from, NEW to, Writes(r, from, to, Del(redis, "otp")) PROVE Pays(i)
  <2>1. Del(redis, "otp")["otp"].ttl = 0
    BY <1>1 DEF Del, Absent, RedisOK, Key
  <2>2. QED
    BY <1>7, <2>1, KeepsPays
<1>8. CASE LimitDropOtp(r) \/ RedeemDropOtp(r)
  BY <1>7, <1>8 DEF LimitDropOtp, RedeemDropOtp
<1>9. CASE LimitDropAttempts(r) \/ RedeemDropAttempts(r)
  BY <1>9, ResetPays DEF LimitDropAttempts, RedeemDropAttempts
<1>10. CASE RedeemDropCooldown(r)
  <2>1. PICK o \in Outcome :
          /\ Awaits(r, "r_cooldown", o) /\ Goto(r, "idle") /\ missed' = missed
          /\ redis' = After(o, redis, Del(redis, "cooldown"))
    BY <1>10 DEF RedeemDropCooldown
  <2>2. redis'["attempts"] = redis["attempts"] /\ redis'["otp"] = redis["otp"]
    BY <1>1, <2>1 DEF After, Del, RedisOK, Key
  <2>3. QED
    BY <1>1, <2>1, <2>2, SlackSame, GotoPays
<1>11. QED
  BY <1>2, <1>3, <1>4, <1>5, <1>6, <1>8, <1>9, <1>10, MissPays, IncrPays DEF Verify

LEMMA NextPays ==
  ASSUME ReplayInv, [Next]_vars, NEW i \in Issue, Stored(i), Stored(i)'
  PROVE  Pays(i)
<1>1. TypeOK /\ TypeOK'
  BY NextType DEF ReplayInv
<1>2. ASSUME NEW r \in Req, StoreBegin(r) \/ VerifyBegin(r) PROVE Pays(i)
  <2>1. PICK c \in {[at |-> "s_lockout", code |-> d, otp |-> issued'] : d \in Code}
                  \cup {[at |-> "v_lockout", code |-> d, otp |-> None] : d \in Code} :
          call' = [call EXCEPT ![r] = c]
    BY <1>2 DEF StoreBegin, VerifyBegin
  <2>2. /\ call[r].at = "idle" /\ c.at \in {"s_lockout", "v_lockout"}
        /\ UNCHANGED <<redis, missed, faults, crashes>>
    BY <1>2, <2>1 DEF StoreBegin, VerifyBegin, history
  <2>3. /\ Cardinality(Guessing') = Cardinality(Guessing)
        /\ Cardinality(Resetting') = Cardinality(Resetting)
    <3>1. call[r].at \notin Found \cup Clears /\ c.at \notin Found \cup Clears
      BY <2>2 DEF Found, Clears
    <3>2. QED
      BY <1>1, <2>1, <3>1, MoveSame
  <2>4. Slack' = Slack /\ Slack \in Nat /\ Allowance' = Allowance /\ Allowance \in Int
    BY <1>1, <2>2, SlackSame, SlackBounds, AllowanceInt DEF Allowance, GuessLimit
  <2>5. QED
    BY <1>1, <2>2, <2>3, <2>4, PaysKeep
<1>3. CASE Tick \/ UNCHANGED vars
  <2>1. UNCHANGED <<call, missed, faults, crashes>>
    BY <1>3 DEF Tick, vars, history
  <2>2. Slack' <= Slack
    BY <1>1, <1>3, SlackTick, SlackSame, SlackBounds DEF vars
  <2>3. Allowance' = Allowance /\ Allowance \in Int
    BY <1>1, <2>1, AllowanceInt DEF Allowance, GuessLimit
  <2>4. Guessing' = Guessing /\ Resetting' = Resetting
    BY <2>1 DEF Guessing, Resetting
  <2>5. QED
    BY <1>1, <2>1, <2>2, <2>3, <2>4, PaysKeep
<1>4. QED
  BY <1>1, <1>2, <1>3, StorePays, VerifyPays, PaysCrash DEF Next

\* The allowance never shrinks.
LEMMA AllowanceGrows ==
  ASSUME TypeOK, [Next]_vars
  PROVE  Allowance' \in Int /\ Allowance' >= Allowance
<1>1. CASE UNCHANGED <<faults, crashes>>
  <2>1. Allowance' = Allowance
    BY <1>1 DEF Allowance, GuessLimit
  <2>2. QED BY <2>1, AllowanceInt
<1>2. ASSUME NEW r \in Req, Store(r) \/ Verify(r)
      PROVE  Allowance' \in Int /\ Allowance' >= Allowance
  BY <1>2, AwaitsPays DEF Store, StoreCheckLockout, StoreCheckCooldown,
                StoreSetOtp, StoreSetCooldown, StoreResetAttempts, Verify, VerifyCheckLockout,
                VerifyGetNothing, VerifyGetMatch, VerifyGetMismatch, VerifyIncr, VerifyExpire,
                LimitSetLockout, LimitDropOtp, LimitDropAttempts, RedeemDropOtp,
                RedeemDropAttempts, RedeemDropCooldown, Writes, ReturnsIfExists, Outcome
<1>3. CASE \E r \in Req : Store(r) \/ Verify(r)
  BY <1>2, <1>3
<1>4. CASE Crash
  <2>1. /\ Cardinality(Req) \in Nat /\ MaxAttempts \in Nat /\ faults \in Nat /\ crashes \in Nat
        /\ faults' = faults /\ crashes' = crashes + 1
    BY <1>4, Sizes, AttemptsAssumption, BoundAssumption DEF TypeOK, Crash
  <2>2. (crashes + 1) * Cardinality(Req) = crashes * Cardinality(Req) + Cardinality(Req)
    BY <2>1
  <2>3. /\ crashes * Cardinality(Req) \in Nat
        /\ faults + (crashes + 1) * Cardinality(Req) >= faults + crashes * Cardinality(Req)
    BY <2>1, <2>2
  <2>4. \A x, y \in Nat : x >= y => x * MaxAttempts >= y * MaxAttempts /\ x * MaxAttempts \in Int
    BY <2>1
  <2>5. QED
    BY <2>1, <2>2, <2>3, <2>4, AllowanceInt DEF Allowance, GuessLimit
<1>5. QED
  BY <1>1, <1>3, <1>4 DEF Next, StoreBegin, VerifyBegin, Tick, vars

LEMMA MissesOnly ==
  ASSUME TypeOK, [Next]_vars
  PROVE  missed' = missed \/ \E r \in Req : VerifyGetMismatch(r)
<1>1. ASSUME NEW r \in Req, Store(r) \/ Verify(r), ~VerifyGetMismatch(r) PROVE missed' = missed
  BY <1>1 DEF Store, StoreCheckLockout, StoreCheckCooldown,
                StoreSetOtp, StoreSetCooldown, StoreResetAttempts, Verify, VerifyCheckLockout,
                VerifyGetNothing, VerifyGetMatch, VerifyIncr, VerifyExpire,
                LimitSetLockout, LimitDropOtp, LimitDropAttempts, RedeemDropOtp,
                RedeemDropAttempts, RedeemDropCooldown, Writes, ReturnsIfExists, history
<1>2. QED
  BY <1>1 DEF Next, StoreBegin, VerifyBegin, Tick, Crash, vars, history

LEMMA NextBudget ==
  ASSUME ReplayInv, BudgetInv, [Next]_vars
  PROVE  BudgetInv'
<1>1. TypeOK /\ TypeOK'
  BY NextType DEF ReplayInv
<1> SUFFICES ASSUME NEW i \in Issue
             PROVE  missed'[i] + (IF Stored(i)' THEN ToCome' ELSE 0) <= Allowance'
  BY DEF BudgetInv
<1>2. /\ missed[i] \in Nat /\ missed'[i] \in Nat /\ Allowance \in Int
      /\ Allowance' \in Int /\ Allowance' >= Allowance
      /\ missed[i] + (IF Stored(i) THEN ToCome ELSE 0) <= Allowance
  BY <1>1, AllowanceInt, AllowanceGrows DEF TypeOK, BudgetInv
<1>3. Slack \in Nat /\ Slack' \in Nat /\ MaxAttempts - 1 \in Nat
  BY <1>1, SlackBounds, SlackBoundsNext, AttemptsAssumption
<1>4. ToCome \in Nat
  BY <1>3, RoomIs, Sizes DEF ToCome
<1>5. ToCome' \in Nat
  BY <1>3, RoomIsNext, Sizes, SizesNext DEF ToCome
<1>6. CASE Stored(i) /\ Stored(i)'
  <2>1. Pays(i)
    BY <1>6, NextPays
  <2>2. QED
    BY <1>2, <1>4, <1>5, <1>6, <2>1 DEF Pays
<1>7. CASE ~Stored(i)'
  <2>1. missed'[i] = missed[i] \/ \E r \in Req : VerifyGetMismatch(r)
    BY <1>1, MissesOnly
  <2>2. CASE missed'[i] = missed[i]
    BY <1>2, <1>4, <1>7, <2>2
  <2>3. CASE missed'[i] # missed[i]
    <3>1. Stored(i) /\ redis' = redis
      BY <1>1, <2>1, <2>3, Counts DEF VerifyGetMismatch
    <3>2. QED BY <1>7, <3>1 DEF Stored
  <2>4. QED BY <2>2, <2>3
<1>8. CASE ~Stored(i) /\ Stored(i)'
  <2>1. PICK r \in Req : StoreSetOtp(r) /\ call[r].otp = i
    BY <1>1, <1>8, EntersOnce
  <2>2. missed'[i] = 0
    BY <1>1, <1>8, <2>1, Counts DEF ReplayInv, FreshInv, Untouched, Storing, StoreSetOtp, Writes, Awaits
  <2>3. call'[r].at = "s_setCooldown"
    BY <1>1, <2>1 DEF StoreSetOtp, Writes, Goto, TypeOK, Call, Idle
  <2>4. ToCome' <= GuessLimit
    BY <1>1, <2>3, StartFits
  <2>5. GuessLimit <= Allowance
    <3>1. /\ Cardinality(Req) \in Nat /\ MaxAttempts \in Nat
          /\ faults \in Nat /\ crashes \in Nat
      BY <1>1, Sizes, AttemptsAssumption, BoundAssumption DEF TypeOK
    <3>2. (faults + crashes * Cardinality(Req)) * MaxAttempts \in Nat
      BY <3>1
    <3>3. QED
      BY <1>1, <3>2, AllowanceInt DEF Allowance
  <2>6. QED
    BY <1>1, <1>2, <1>5, <1>8, <2>2, <2>4, <2>5, AllowanceInt
<1>9. QED
  BY <1>6, <1>7, <1>8

\* No password is compared with more wrong codes than GuessBudget says, for
\* any number of calls, passwords, faults and crashes.
THEOREM Budget == Spec => []GuessBudget
<1>1. Init => BudgetInv
  <2> SUFFICES ASSUME Init, NEW i \in Issue
               PROVE  missed[i] + (IF Stored(i) THEN ToCome ELSE 0) <= Allowance
    BY DEF BudgetInv
  <2>1. missed[i] = 0 /\ ~Stored(i) /\ faults = 0 /\ crashes = 0
    BY DEF Init, Stored, Exists, Absent, Key
  <2>2. /\ Cardinality(Req) \in Nat /\ MaxAttempts \in Nat /\ MaxAttempts >= 2
        /\ Cardinality(Req) * MaxAttempts \in Nat
    BY Sizes, AttemptsAssumption
  <2>3. QED
    BY <2>1, <2>2 DEF Allowance, GuessLimit
<1>2. ReplayInv /\ BudgetInv /\ [Next]_vars => BudgetInv'
  BY NextBudget
<1>3. ReplayInv /\ BudgetInv => GuessBudget
  <2> SUFFICES ASSUME ReplayInv, BudgetInv, NEW i \in Issue
               PROVE  missed[i] <= Allowance
    BY DEF GuessBudget, Allowance
  <2>1. TypeOK /\ missed[i] \in Nat /\ missed[i] + (IF Stored(i) THEN ToCome ELSE 0) <= Allowance
    BY DEF ReplayInv, TypeOK, BudgetInv
  <2>2. ToCome \in Nat /\ Allowance \in Int
    BY <2>1, SlackBounds, RoomIs, Sizes, AllowanceInt, AttemptsAssumption DEF ToCome
  <2>3. QED
    BY <2>1, <2>2
<1>4. QED
  BY <1>1, <1>2, <1>3, ReplayInductive, PTL DEF Spec

-----------------------------------------------------------------------------
(* OtpService implements OneTimeCode                                       *)

\* The abstract variables read nothing but the "otp" entry, the calls past
\* their match, and the passwords redeemed.
LEMMA CurrentSame ==
  ASSUME redis'["otp"] = redis["otp"]
  PROVE  currentOtp' = currentOtp
  BY DEF currentOtp, Exists

LEMMA MatchedSame ==
  ASSUME TypeOK, NEW r \in Req, NEW to, Goto(r, to), call[r].at \in RedeemPc <=> to \in RedeemPc
  PROVE  matchedOtp' = matchedOtp
<1>1. ASSUME NEW q \in Req, q # r PROVE call'[q] = call[q]
  BY <1>1 DEF Goto, TypeOK
<1>2. /\ call'[r].at \in RedeemPc <=> call[r].at \in RedeemPc
      /\ call'[r].at \in RedeemPc => call'[r].otp = call[r].otp
  <2>1. call[r] \in Call /\ call'[r] = IF to = "idle" THEN Idle ELSE [call[r] EXCEPT !.at = to]
    BY DEF Goto, TypeOK
  <2>2. QED
    BY <2>1 DEF Call, Idle, RedeemPc
<1>3. QED
  BY <1>1, <1>2 DEF matchedOtp

LEMMA SpentSame ==
  ASSUME UNCHANGED redeemed PROVE spentOtp' = spentOtp
  BY DEF spentOtp

LEMMA WritesMaps ==
  ASSUME TypeOK, NEW r \in Req, NEW from, NEW to, NEW db, Writes(r, from, to, db),
         from \in RedeemPc <=> to \in RedeemPc,
         db["otp"] \in {redis["otp"], Absent}
  PROVE  Abstract!Withdraw \/ UNCHANGED Abstract!vars
<1>1. matchedOtp' = matchedOtp /\ spentOtp' = spentOtp
  BY MatchedSame, SpentSame DEF Writes, Awaits, history
<1>2. redis'["otp"] \in {redis["otp"], Absent}
  BY DEF Writes, After
<1>3. currentOtp' \in {currentOtp, None}
  BY <1>2 DEF currentOtp, Exists, Absent
<1>4. QED
  BY <1>1, <1>3 DEF Abstract!Withdraw, Abstract!vars

LEMMA ReturnsMaps ==
  ASSUME TypeOK, NEW r \in Req, NEW from, NEW key, NEW to, ReturnsIfExists(r, from, key, to),
         from \notin RedeemPc, to \notin RedeemPc
  PROVE  UNCHANGED Abstract!vars
  BY MatchedSame, SpentSame, CurrentSame
  DEF ReturnsIfExists, Awaits, history, RedeemPc, Abstract!vars

LEMMA StoreMaps ==
  ASSUME ReplayInv, NEW r \in Req, Store(r)
  PROVE  [Abstract!Next]_(Abstract!vars)
<1> USE DEF ReplayInv
<1>1. RedisOK(redis)
  BY DEF TypeOK
<1>2. CASE StoreCheckLockout(r) \/ StoreCheckCooldown(r)
  BY <1>2, ReturnsMaps DEF StoreCheckLockout, StoreCheckCooldown, RedeemPc
<1>3. CASE StoreSetOtp(r)
  <2> DEFINE i == call[r].otp
  <2>1. /\ call[r].at = "s_otp" /\ i \in Issue /\ Untouched(i)
    BY <1>3 DEF StoreSetOtp, Writes, Awaits, FreshInv, Storing, TypeOK, Call, StorePc, VerifyPc,
       LimitPc, RedeemPc, Idle
  <2>2. matchedOtp' = matchedOtp /\ spentOtp' = spentOtp
    BY <1>3, <2>1, MatchedSame, SpentSame DEF StoreSetOtp, Writes, history, RedeemPc
  <2>3. CASE redis' = redis
    BY <2>2, <2>3, CurrentSame DEF Abstract!vars
  <2>4. CASE redis' # redis
    <3>1. redis'["otp"] = Entry([hash |-> call[r].code, issue |-> i], OtpTtl)
      BY <1>1, <1>3, <2>4 DEF StoreSetOtp, Writes, After, SetEx, RedisOK, Key
    <3>2. currentOtp' = i
      BY <3>1, TtlAssumption DEF currentOtp, Exists, Entry
    <3>3. i # currentOtp /\ i \notin spentOtp /\ \A q \in Req : matchedOtp[q] # i
      BY <2>1, NoneAssumption DEF Untouched, Stored, currentOtp, spentOtp, matchedOtp, Issue
    <3>4. Abstract!Publish(i)
      BY <2>2, <3>2, <3>3 DEF Abstract!Publish
    <3>5. QED
      BY <2>1, <3>4 DEF Abstract!Next
  <2>5. QED BY <2>3, <2>4
<1>4. CASE StoreSetCooldown(r)
  <2>1. SetEx(redis, "cooldown", "1", CooldownTtl)["otp"] = redis["otp"]
    BY <1>1, OtherKeyStored DEF SetEx, Key
  <2>2. QED
    BY <1>4, <2>1, WritesMaps DEF StoreSetCooldown, RedeemPc, Abstract!Next
<1>5. CASE StoreResetAttempts(r)
  BY <1>1, <1>5, DelStored, WritesMaps DEF StoreResetAttempts, RedeemPc, Key, Abstract!Next
<1>6. QED
  BY <1>2, <1>3, <1>4, <1>5 DEF Store

LEMMA VerifyMaps ==
  ASSUME ReplayInv, faults = 0, faults' = 0, NEW r \in Req, Verify(r)
  PROVE  [Abstract!Next]_(Abstract!vars)
<1> USE DEF ReplayInv
<1>1. RedisOK(redis)
  BY DEF TypeOK
<1>2. CASE VerifyCheckLockout(r)
  BY <1>2, ReturnsMaps DEF VerifyCheckLockout, RedeemPc
<1>3. CASE VerifyGetNothing(r) \/ VerifyGetMismatch(r)
  <2>1. PICK to \in {"idle", "v_incr"} : Goto(r, to) /\ call[r].at = "v_get"
    BY <1>3 DEF VerifyGetNothing, VerifyGetMismatch, Awaits
  <2>2. matchedOtp' = matchedOtp
    BY <2>1, MatchedSame DEF RedeemPc
  <2>3. QED
    BY <1>3, <2>2, CurrentSame, SpentSame
    DEF VerifyGetNothing, VerifyGetMismatch, history, Abstract!vars
<1>4. CASE VerifyGetMatch(r)
  <2>1. /\ currentOtp = redis["otp"].val.issue /\ currentOtp \in Issue
        /\ call' = [call EXCEPT ![r] = [at |-> "r_otp", code |-> @.code, otp |-> currentOtp]]
    BY <1>1, <1>4 DEF VerifyGetMatch, currentOtp, RedisOK, EntryOf, Exists, Absent
  <2>2. matchedOtp' = [matchedOtp EXCEPT ![r] = currentOtp]
    BY <2>1 DEF matchedOtp, RedeemPc, TypeOK
  <2>3. currentOtp # None
    BY <2>1, NoneAssumption DEF Issue
  <2>4. currentOtp' = currentOtp /\ spentOtp' = spentOtp
    BY <1>4, CurrentSame, SpentSame DEF VerifyGetMatch, history
  <2>5. QED
    BY <2>2, <2>3, <2>4 DEF Abstract!Match, Abstract!Next
<1>5. CASE VerifyIncr(r)
  <2>1. PICK to \in {"idle", "v_expire", "l_lockout"} : Goto(r, to) /\ call[r].at = "v_incr"
    BY <1>5 DEF VerifyIncr, AfterMiss, Awaits
  <2>2. matchedOtp' = matchedOtp
    BY <2>1, MatchedSame DEF RedeemPc
  <2>3. redis'["otp"] = redis["otp"]
    BY <1>1, <1>5, OtherKeyStored DEF VerifyIncr, After, Incr, Key
  <2>4. QED
    BY <1>5, <2>2, <2>3, CurrentSame, SpentSame DEF VerifyIncr, history, Abstract!vars
<1>6. CASE VerifyExpire(r)
  <2>1. Expire(redis, "attempts", AttemptsTtl)["otp"] = redis["otp"]
    BY <1>1, OtherKeyStored DEF Expire, SetEx, Key
  <2>2. QED
    BY <1>6, <2>1, WritesMaps DEF VerifyExpire, RedeemPc, Abstract!Next
<1>7. CASE LimitSetLockout(r)
  <2>1. SetEx(redis, "lockout", "1", LockoutTtl)["otp"] = redis["otp"]
    BY <1>1, OtherKeyStored DEF SetEx, Key
  <2>2. QED
    BY <1>7, <2>1, WritesMaps DEF LimitSetLockout, RedeemPc, Abstract!Next
<1>8. CASE LimitDropOtp(r) \/ LimitDropAttempts(r)
  BY <1>1, <1>8, DelStored, WritesMaps
  DEF LimitDropOtp, LimitDropAttempts, RedeemPc, Key, Abstract!Next
<1>9. CASE RedeemDropOtp(r) \/ RedeemDropAttempts(r)
  BY <1>1, <1>9, DelStored, WritesMaps
  DEF RedeemDropOtp, RedeemDropAttempts, RedeemPc, Key, Abstract!Next
<1>10. CASE RedeemDropCooldown(r)
  <2> DEFINE i == call[r].otp
  <2>1. call[r].at = "r_cooldown" /\ i \in Issue /\ Goto(r, "idle")
    BY <1>10 DEF RedeemDropCooldown, Awaits, TypeOK, Call, StorePc, VerifyPc, LimitPc, RedeemPc, Idle
  <2>2. redis'["otp"] = redis["otp"]
    BY <1>1, <1>10 DEF RedeemDropCooldown, After, Del, RedisOK, Key
  <2>3. matchedOtp[r] = i /\ matchedOtp[r] \notin {None, currentOtp}
    BY <2>1, NoneAssumption DEF matchedOtp, RedeemPc, currentOtp, GoneInv, Stored, Issue
  <2>4. matchedOtp' = [matchedOtp EXCEPT ![r] = None]
    BY <2>1 DEF matchedOtp, Goto, RedeemPc, Idle, TypeOK
  <2>5. spentOtp' = spentOtp \cup {i}
    <3>1. redeemed' = [redeemed EXCEPT ![i] = @ + 1] /\ redeemed \in [Issue -> Nat]
      BY <1>10 DEF RedeemDropCooldown, TypeOK
    <3>2. QED
      BY <2>1, <3>1 DEF spentOtp
  <2>6. Abstract!Succeed(r)
    BY <2>2, <2>3, <2>4, <2>5, CurrentSame DEF Abstract!Succeed
  <2>7. QED
    BY <2>6 DEF Abstract!Next
<1>11. QED
  BY <1>2, <1>3, <1>4, <1>5, <1>6, <1>7, <1>8, <1>9, <1>10 DEF Verify

\* While Redis answers (no faults are allowed), the four keys and every await
\* of storeOtp and verifyOtp implement the abstract one-time code: calls that
\* succeed with a password all overlap the first one that does.
THEOREM Implementation == MaxFaults = 0 => (Spec => ImplementsOneTimeCode)
<1> SUFFICES ASSUME MaxFaults = 0 PROVE Spec => ImplementsOneTimeCode
  OBVIOUS
<1>1. Init => Abstract!Init
  BY DEF Init, Abstract!Init, currentOtp, matchedOtp, spentOtp, Exists, Absent, Key, Idle, RedeemPc
<1>2. ReplayInv /\ ReplayInv' /\ [Next]_vars => [Abstract!Next]_(Abstract!vars)
  <2> SUFFICES ASSUME ReplayInv, ReplayInv', [Next]_vars
               PROVE  [Abstract!Next]_(Abstract!vars)
    OBVIOUS
  <2>1. faults = 0 /\ faults' = 0
    BY DEF ReplayInv, TypeOK
  <2>2. ASSUME NEW r \in Req, StoreBegin(r) \/ VerifyBegin(r)
        PROVE  UNCHANGED Abstract!vars
    <3>1. call[r].at = "idle" /\ redis' = redis /\ redeemed' = redeemed
      BY <2>2 DEF StoreBegin, VerifyBegin, history
    <3>2. call'[r].at \in {"s_lockout", "v_lockout"} /\ \A q \in Req \ {r} : call'[q] = call[q]
      BY <2>2 DEF StoreBegin, VerifyBegin, ReplayInv, TypeOK
    <3>3. matchedOtp' = matchedOtp
      BY <3>1, <3>2 DEF matchedOtp, RedeemPc
    <3>4. QED
      BY <3>1, <3>3, CurrentSame, SpentSame DEF Abstract!vars
  <2>3. CASE Tick
    <3>1. redis'["otp"] = Aged(redis["otp"])
      BY <2>3 DEF Tick, Elapse, ReplayInv, TypeOK, RedisOK, Key
    <3>2. currentOtp' \in {currentOtp, None}
      BY <3>1 DEF currentOtp, Exists, Aged, Absent, Entry, NoExpiry, ReplayInv, TypeOK, RedisOK, EntryOf
    <3>3. matchedOtp' = matchedOtp /\ spentOtp' = spentOtp
      BY <2>3, SpentSame DEF Tick, matchedOtp, history
    <3>4. QED
      BY <3>2, <3>3 DEF Abstract!Withdraw, Abstract!Next, Abstract!vars
  <2>4. CASE Crash
    BY <2>4, CurrentSame, SpentSame
    DEF Crash, matchedOtp, Idle, RedeemPc, history, Abstract!Abandon, Abstract!Next
  <2>5. CASE UNCHANGED vars
    BY <2>5, CurrentSame, SpentSame DEF vars, matchedOtp, Abstract!vars
  <2>6. QED
    BY <2>1, <2>2, <2>3, <2>4, <2>5, StoreMaps, VerifyMaps DEF Next
<1>3. QED
  BY <1>1, <1>2, ReplayInductive, PTL DEF Spec, ImplementsOneTimeCode, Abstract!Spec
=============================================================================
