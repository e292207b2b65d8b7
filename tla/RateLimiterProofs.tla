-------------------------- MODULE RateLimiterProofs --------------------------
(***************************************************************************)
(* Proofs about RateLimiter, for every limit, length of a window and       *)
(* number of concurrent calls.                                             *)
(***************************************************************************)
EXTENDS RateLimiter, FiniteSetTheorems, TLAPS

LEMMA Numbers ==
  /\ Limit \in Nat \ {0} /\ WindowLength \in Nat \ {0}
  /\ MaxTime \in Nat /\ MaxCalls \in Nat /\ MaxFaults \in Nat /\ MaxCrashes \in Nat
  BY LimitAssumption, BoundAssumption

LEMMA Division ==
  ASSUME NEW t \in 0..MaxTime
  PROVE  WindowAt(t) \in Window /\ WindowAt(t) * WindowLength <= t
<1>1. \A a, b \in Nat : a <= b => a \div WindowLength <= b \div WindowLength
  BY Numbers
<1>2. \A a \in Nat : a \div WindowLength \in Nat /\ (a \div WindowLength) * WindowLength <= a
  BY Numbers
<1> QED BY <1>1, <1>2, Numbers DEF Window, WindowAt

LEMMA WindowIsNat == ASSUME NEW w \in Window PROVE w \in Nat
  BY DEF Window

\* A window's end is one length after its beginning.
LEMMA WindowEnd ==
  ASSUME NEW w \in Window
  PROVE  /\ w * WindowLength \in Nat /\ (w + 1) * WindowLength \in Nat
         /\ (w + 1) * WindowLength = w * WindowLength + WindowLength
  BY WindowIsNat, Numbers

LEMMA ZeroWindow == 0 \in Window
  BY Division, Numbers DEF Window

-----------------------------------------------------------------------------
(* The entries of a counter                                                *)

CounterEntry == {Absent} \cup [val : Nat \ {0}, ttl : {NoExpiry} \cup 1..WindowLength]

LEMMA EntryFacts ==
  ASSUME TypeOK, NEW w \in Window
  PROVE  /\ redis[w] \in CounterEntry
         /\ Counter(redis, w) \in Nat
         /\ Exists(redis, w) <=> Counter(redis, w) > 0
         /\ redis[w].ttl \in {NoExpiry} \cup 0..WindowLength
         /\ TtlOf(redis, w) \in {NoExpiry} \cup 1..WindowLength
         /\ TtlOf(redis, w) = IF Exists(redis, w) THEN redis[w].ttl ELSE NoExpiry
<1>1. redis[w] \in CounterEntry
  BY DEF TypeOK, CounterEntry
<1>2. redis[w] = Absent => redis[w].ttl = 0
  BY DEF Absent
<1>3. redis[w] # Absent => /\ redis[w].val \in Nat \ {0}
                           /\ redis[w].ttl \in {NoExpiry} \cup 1..WindowLength
                           /\ redis[w].ttl # 0
  BY <1>1, Numbers DEF CounterEntry, NoExpiry
<1> QED BY <1>1, <1>2, <1>3, Numbers DEF Counter, Exists, TtlOf, NoExpiry

\* INCR of the counter of window v.
LEMMA IncrFacts ==
  ASSUME TypeOK, NEW v \in Window, redis' = Incr(redis, v)
  PROVE  /\ redis' \in [Window -> CounterEntry]
         /\ Counter(redis', v) = Counter(redis, v) + 1
         /\ redis'[v].ttl = TtlOf(redis, v) /\ TtlOf(redis', v) = TtlOf(redis, v)
         /\ \A w \in Window \ {v} : redis'[w] = redis[w]
<1>1. redis'[v] = [val |-> Counter(redis, v) + 1, ttl |-> TtlOf(redis, v)]
  BY DEF TypeOK, Incr, Entry
<1>2. redis'[v] \in CounterEntry
  BY <1>1, EntryFacts DEF CounterEntry
<1>3. redis'[v].ttl = TtlOf(redis, v) /\ redis'[v].ttl # 0
  BY <1>1, EntryFacts, Numbers DEF NoExpiry
<1>4. redis' \in [Window -> CounterEntry] /\ \A w \in Window \ {v} : redis'[w] = redis[w]
  BY <1>2, EntryFacts DEF TypeOK, Incr
<1> QED BY <1>1, <1>3, <1>4 DEF Counter, TtlOf, Exists

\* EXPIRE of the counter of window v.
LEMMA ExpireFacts ==
  ASSUME TypeOK, NEW v \in Window, redis' = Expire(redis, v, CounterTtl)
  PROVE  /\ redis' \in [Window -> CounterEntry]
         /\ Counter(redis', v) = Counter(redis, v)
         /\ Exists(redis, v) => redis'[v].ttl = WindowLength
         /\ ~Exists(redis, v) => redis' = redis
         /\ \A w \in Window \ {v} : redis'[w] = redis[w]
<1>1. CASE Exists(redis, v)
  <2>1. redis' = [redis EXCEPT ![v] = [val |-> redis[v].val, ttl |-> WindowLength]]
    BY <1>1 DEF Expire, SetEx, Entry, CounterTtl
  <2>2. redis[v].val \in Nat \ {0}
    BY <1>1, EntryFacts DEF Counter
  <2>3. redis'[v] = [val |-> redis[v].val, ttl |-> WindowLength]
    BY <2>1 DEF TypeOK
  <2>4. redis'[v] \in CounterEntry
    BY <2>2, <2>3, Numbers DEF CounterEntry
  <2>5. redis' \in [Window -> CounterEntry] /\ \A w \in Window \ {v} : redis'[w] = redis[w]
    BY <2>1, <2>4, EntryFacts DEF TypeOK
  <2> QED BY <1>1, <2>3, <2>5, Numbers DEF Counter, Exists
<1>2. CASE ~Exists(redis, v)
  BY <1>2, EntryFacts DEF Expire, TypeOK, CounterEntry
<1> QED BY <1>1, <1>2

\* One tick.
LEMMA ElapseFacts ==
  ASSUME TypeOK, redis' = Elapse(redis)
  PROVE  /\ redis' \in [Window -> CounterEntry]
         /\ \A w \in Window :
              /\ redis[w].ttl \in {0, NoExpiry} => redis'[w] = redis[w]
              /\ redis'[w].ttl = NoExpiry => redis[w].ttl = NoExpiry
              /\ Counter(redis', w) <= Counter(redis, w)
              /\ redis[w].ttl # 1 => Counter(redis', w) = Counter(redis, w)
              /\ redis[w].ttl \in 2..WindowLength => redis'[w].ttl = redis[w].ttl - 1
<1> SUFFICES ASSUME NEW w \in Window
    PROVE  /\ redis'[w] \in CounterEntry
           /\ redis[w].ttl \in {0, NoExpiry} => redis'[w] = redis[w]
           /\ redis'[w].ttl = NoExpiry => redis[w].ttl = NoExpiry
           /\ Counter(redis', w) <= Counter(redis, w)
           /\ redis[w].ttl # 1 => Counter(redis', w) = Counter(redis, w)
           /\ redis[w].ttl \in 2..WindowLength => redis'[w].ttl = redis[w].ttl - 1
  BY DEF Elapse, TypeOK
<1>1. redis'[w] = Aged(redis[w])
  BY DEF Elapse, TypeOK
<1>2. CASE redis[w].ttl \in {0, NoExpiry}
  BY <1>1, <1>2, EntryFacts DEF Aged, Counter, Exists, NoExpiry
<1>3. CASE redis[w].ttl = 1
  BY <1>1, <1>3, EntryFacts DEF Aged, Counter, Exists, NoExpiry, Absent, CounterEntry
<1>4. CASE redis[w].ttl \notin {0, 1, NoExpiry}
  <2>1. redis[w].ttl \in 2..WindowLength /\ redis[w].val \in Nat \ {0}
    BY <1>4, EntryFacts, Numbers DEF CounterEntry, Absent, NoExpiry
  <2>2. redis'[w] = [val |-> redis[w].val, ttl |-> redis[w].ttl - 1]
    BY <1>1, <1>4 DEF Aged, Entry
  <2>3. redis'[w] \in CounterEntry
    BY <2>1, <2>2, Numbers DEF CounterEntry
  <2> QED BY <2>1, <2>2, <2>3, Numbers DEF Counter, Exists, NoExpiry
<1> QED BY <1>2, <1>3, <1>4

-----------------------------------------------------------------------------
(* The calls about to give a counter its time to live                      *)

LEMMA ExpiringFinite ==
  ASSUME NEW w \in Window
  PROVE  /\ IsFiniteSet(Expiring(w)) /\ Cardinality(Expiring(w)) \in Nat
         /\ IsFiniteSet(Expiring(w)') /\ Cardinality(Expiring(w)') \in Nat
         /\ Expiring(w) # {} => Cardinality(Expiring(w)) > 0
<1>1. Expiring(w) \subseteq Req /\ Expiring(w)' \subseteq Req
  BY DEF Expiring
<1>2. /\ IsFiniteSet(Expiring(w)) /\ Cardinality(Expiring(w)) \in Nat
      /\ IsFiniteSet(Expiring(w)') /\ Cardinality(Expiring(w)') \in Nat
  BY <1>1, ReqAssumption, FS_Subset, FS_CardinalityType
<1> QED BY <1>2, FS_EmptySet

LEMMA Stays ==
  ASSUME TypeOK, NEW r \in Req, NEW x, x.at # "expire", call[r].at # "expire",
         call' = [call EXCEPT ![r] = x]
  PROVE  \A w \in Window : Expiring(w)' = Expiring(w)
  BY DEF TypeOK, Expiring

LEMMA Joins ==
  ASSUME TypeOK, NEW r \in Req, NEW v \in Window, v = call[r].window, call[r].at # "expire",
         call' = [call EXCEPT ![r].at = "expire"]
  PROVE  /\ Cardinality(Expiring(v)') = Cardinality(Expiring(v)) + 1
         /\ r \in Expiring(v)'
         /\ \A w \in Window \ {v} : Expiring(w)' = Expiring(w)
<1>1. call'[r] = [at |-> "expire", window |-> v] /\ \A p \in Req \ {r} : call'[p] = call[p]
  BY DEF TypeOK
<1>2. Expiring(v)' = Expiring(v) \cup {r} /\ r \notin Expiring(v)
  BY <1>1 DEF Expiring
<1>3. \A w \in Window \ {v} : Expiring(w)' = Expiring(w)
  BY <1>1 DEF Expiring
<1> QED BY <1>2, <1>3, ExpiringFinite, FS_AddElement

LEMMA Leaves ==
  ASSUME TypeOK, NEW r \in Req, NEW v \in Window, v = call[r].window, call[r].at = "expire",
         call' = [call EXCEPT ![r] = Idle]
  PROVE  /\ Cardinality(Expiring(v)') = Cardinality(Expiring(v)) - 1
         /\ \A w \in Window \ {v} : Expiring(w)' = Expiring(w)
<1>1. call[r] = [at |-> "expire", window |-> v]
  BY DEF TypeOK
<1>2. call'[r] = [at |-> "idle", window |-> 0] /\ \A p \in Req \ {r} : call'[p] = call[p]
  BY DEF TypeOK, Idle
<1>3. r \in Expiring(v)
  BY <1>1 DEF Expiring
<1>4. ASSUME NEW w \in Window PROVE r \notin Expiring(w)'
  <2>1. call'[r] # [at |-> "expire", window |-> w]
    BY <1>2
  <2> QED BY <2>1 DEF Expiring
<1>5. \A w \in Window \ {v} : r \notin Expiring(w)
  BY <1>1 DEF Expiring
<1>6. \A w \in Window : \A p \in Req \ {r} : p \in Expiring(w)' <=> p \in Expiring(w)
  BY <1>2 DEF Expiring
<1>7. \A w \in Window : Expiring(w) \subseteq Req /\ Expiring(w)' \subseteq Req
  BY DEF Expiring
<1>8. Expiring(v)' = Expiring(v) \ {r}
  BY <1>3, <1>4, <1>6, <1>7
<1>9. \A w \in Window \ {v} : Expiring(w)' = Expiring(w)
  BY <1>4, <1>5, <1>6, <1>7
<1> QED BY <1>3, <1>8, <1>9, ExpiringFinite, FS_RemoveElement

-----------------------------------------------------------------------------
(* Types                                                                   *)

LEMMA BumpType ==
  ASSUME NEW counts \in [Window -> Nat], NEW v \in Window
  PROVE  /\ Bump(counts, v) \in [Window -> Nat]
         /\ Bump(counts, v)[v] = counts[v] + 1
         /\ \A w \in Window \ {v} : Bump(counts, v)[w] = counts[w]
  BY DEF Bump

LEMMA InitType == Init => TypeOK
  BY Numbers, ZeroWindow DEF Init, TypeOK, Idle

LEMMA CallTypes ==
  ASSUME TypeOK, NEW r \in Req
  PROVE  /\ [call EXCEPT ![r] = Idle] \in [Req -> [at : {"idle", "incr", "expire"}, window : Window]]
         /\ [call EXCEPT ![r].at = "expire"] \in [Req -> [at : {"idle", "incr", "expire"}, window : Window]]
         /\ call[r].window \in Window
         /\ call[r].at \in {"idle", "incr", "expire"}
  BY ZeroWindow DEF TypeOK, Idle

LEMMA RedisTypes ==
  ASSUME TypeOK, NEW v \in Window,
         \/ redis' = redis \/ redis' = Incr(redis, v) \/ redis' = Expire(redis, v, CounterTtl)
  PROVE  redis' \in [Window -> CounterEntry]
  BY IncrFacts, ExpireFacts DEF TypeOK, CounterEntry

LEMMA StepType == TypeOK /\ [Next]_vars => TypeOK'
<1> SUFFICES ASSUME TypeOK, [Next]_vars PROVE TypeOK'
  OBVIOUS
<1> USE DEF history
<1>1. ASSUME NEW r \in Req, Arrive(r) PROVE TypeOK'
  <2>1. WindowAt(now) \in Window
    BY Division DEF TypeOK
  <2>2. call' \in [Req -> [at : {"idle", "incr", "expire"}, window : Window]]
    BY <1>1, <2>1 DEF Arrive, TypeOK
  <2> QED BY <1>1, <2>1, <2>2, BumpType DEF Arrive, TypeOK
<1>2. ASSUME NEW r \in Req, First(r) PROVE TypeOK'
  <2>1. call' \in [Req -> [at : {"idle", "incr", "expire"}, window : Window]]
    BY <1>2, CallTypes DEF First
  <2>2. late' \in [Window -> Nat]
    BY <1>2, CallTypes, BumpType DEF First, LateIfEnded, TypeOK
  <2>3. redis' \in [Window -> CounterEntry]
    BY <1>2, CallTypes, RedisTypes DEF First, Counts
  <2> QED BY <1>2, <2>1, <2>2, <2>3 DEF First, Counts, TypeOK, CounterEntry
<1>3. ASSUME NEW r \in Req, Admit(r) PROVE TypeOK'
  <2>1. call' \in [Req -> [at : {"idle", "incr", "expire"}, window : Window]]
    BY <1>3, CallTypes DEF Admit
  <2>2. late' \in [Window -> Nat] /\ admitted' \in [Window -> Nat]
    BY <1>3, CallTypes, BumpType DEF Admit, LateIfEnded, TypeOK
  <2>3. redis' \in [Window -> CounterEntry]
    BY <1>3, CallTypes, RedisTypes DEF Admit, Counts
  <2> QED BY <1>3, <2>1, <2>2, <2>3 DEF Admit, Counts, TypeOK, CounterEntry
<1>4. ASSUME NEW r \in Req, Refuse(r) PROVE TypeOK'
  <2>1. call' \in [Req -> [at : {"idle", "incr", "expire"}, window : Window]]
    BY <1>4, CallTypes DEF Refuse
  <2>2. refused' \in [Window -> Nat]
    BY <1>4, CallTypes, BumpType DEF Refuse, TypeOK
  <2>3. redis' \in [Window -> CounterEntry]
    BY <1>4, CallTypes, RedisTypes DEF Refuse, Counts
  <2> QED BY <1>4, <2>1, <2>2, <2>3 DEF Refuse, Counts, TypeOK, CounterEntry
<1>5. ASSUME NEW r \in Req, Resend(r) PROVE TypeOK'
  <2>1. wasted' \in [Window -> Nat]
    BY <1>5, CallTypes, BumpType DEF Resend, TypeOK
  <2>2. redis' \in [Window -> CounterEntry]
    BY <1>5, CallTypes, RedisTypes DEF Resend, Counts
  <2>3. faults' \in Nat
    BY <1>5 DEF Resend, Fails, TypeOK
  <2> QED BY <1>5, <2>1, <2>2, <2>3 DEF Resend, Counts, TypeOK, CounterEntry
<1>6. ASSUME NEW r \in Req, NoAnswer(r) PROVE TypeOK'
  <2>1. call' \in [Req -> [at : {"idle", "incr", "expire"}, window : Window]]
    BY <1>6, CallTypes DEF NoAnswer
  <2>2. unlimited' \in [Window -> Nat] /\ admitted' \in [Window -> Nat]
    BY <1>6, CallTypes, BumpType DEF NoAnswer, TypeOK
  <2>3. redis' \in [Window -> CounterEntry]
    BY <1>6, CallTypes, RedisTypes DEF NoAnswer, After
  <2>4. faults' \in Nat
    BY <1>6 DEF NoAnswer, Fails, TypeOK
  <2> QED BY <1>6, <2>1, <2>2, <2>3, <2>4 DEF NoAnswer, TypeOK, CounterEntry
<1>7. ASSUME NEW r \in Req, SetExpiry(r) PROVE TypeOK'
  <2>1. call' \in [Req -> [at : {"idle", "incr", "expire"}, window : Window]]
    BY <1>7, CallTypes DEF SetExpiry
  <2>2. admitted' \in [Window -> Nat]
    BY <1>7, CallTypes, BumpType DEF SetExpiry, TypeOK
  <2>3. redis' \in [Window -> CounterEntry]
    BY <1>7, CallTypes, RedisTypes DEF SetExpiry, After
  <2>4. faults' \in Nat /\ unbounded' \subseteq Window
    BY <1>7, CallTypes DEF SetExpiry, Fails, TypeOK
  <2> QED BY <1>7, <2>1, <2>2, <2>3, <2>4 DEF SetExpiry, TypeOK, CounterEntry
<1>8. ASSUME Crash PROVE TypeOK'
  <2>1. wasted' \in [Window -> Nat]
    BY <1>8, ExpiringFinite DEF Crash, TypeOK
  <2>2. call' \in [Req -> [at : {"idle", "incr", "expire"}, window : Window]]
    BY <1>8, ZeroWindow DEF Crash, Idle
  <2> QED BY <1>8, <2>1, <2>2 DEF Crash, TypeOK
<1>9. ASSUME Tick PROVE TypeOK'
  <2>1. redis' \in [Window -> CounterEntry]
    BY <1>9, ElapseFacts DEF Tick
  <2> QED BY <1>9, <2>1, Numbers DEF Tick, TypeOK, CounterEntry
<1>10. ASSUME UNCHANGED vars PROVE TypeOK'
  BY <1>10 DEF vars, TypeOK
<1> QED BY <1>1, <1>2, <1>3, <1>4, <1>5, <1>6, <1>7, <1>8, <1>9, <1>10
        DEF Next, Handle, NotReady

\* The counters, the calls and the histories keep their shape.
THEOREM TypeCorrect == Spec => []TypeOK
<1>1. Init => TypeOK
  BY InitType
<1>2. TypeOK /\ [Next]_vars => TypeOK'
  BY StepType
<1> QED BY <1>1, <1>2, PTL DEF Spec

-----------------------------------------------------------------------------
(* The invariant, window by window                                         *)

\* A window no part of the step is about.
Same(w) ==
  /\ now' = now
  /\ redis'[w] = redis[w] /\ Expiring(w)' = Expiring(w)
  /\ admitted'[w] = admitted[w] /\ refused'[w] = refused[w]
  /\ unlimited'[w] = unlimited[w] /\ late'[w] = late[w] /\ wasted'[w] = wasted[w]
  /\ w \in unbounded => w \in unbounded'

LEMMA SameKeeps ==
  ASSUME NEW w \in Window, WindowInv(w), Same(w)
  PROVE  WindowInv(w)'
<1>1. Passing(w)' = Passing(w) /\ (Ended(w)' <=> Ended(w))
  BY DEF Same, Passing, Ended
<1>2. /\ Counter(redis, w)' = Counter(redis, w) /\ TtlOf(redis, w)' = TtlOf(redis, w)
      /\ redis'[w].ttl = redis[w].ttl
  BY DEF Same, Counter, TtlOf, Exists
<1>3. CountingAt(w)'
  BY <1>1, <1>2 DEF WindowInv, Same, CountingAt
<1>4. PassingAt(w)' /\ ChargedAt(w)' /\ ExpiresAt(w)'
  BY <1>1, <1>2 DEF WindowInv, Same, PassingAt, ChargedAt, ExpiresAt
<1> QED BY <1>3, <1>4 DEF WindowInv

\* The numbers of a window.
LEMMA NumberTypes ==
  ASSUME TypeOK, NEW w \in Window
  PROVE  /\ now \in Nat /\ admitted[w] \in Nat /\ refused[w] \in Nat /\ unlimited[w] \in Nat
         /\ late[w] \in Nat /\ wasted[w] \in Nat
         /\ Passing(w) \in Nat
         /\ Passing(w) = admitted[w] + Cardinality(Expiring(w))
  BY ExpiringFinite, Numbers DEF TypeOK, Passing

\* A request whose count n passes, at its INCR (n = 1) or at once.
LEMMA PassKeeps ==
  ASSUME TypeOK, NEW v \in Window, WindowInv(v), now' = now, redis' = Incr(redis, v),
         late'[v] = IF Ended(v) THEN late[v] + 1 ELSE late[v],
         Counter(redis, v) + 1 <= Limit,
         Passing(v)' = Passing(v) + 1,
         refused' = refused /\ unlimited' = unlimited /\ wasted' = wasted,
         ExpiresAt(v)'
  PROVE  WindowInv(v)'
<1>1. /\ Counter(redis', v) = Counter(redis, v) + 1
      /\ redis'[v].ttl = TtlOf(redis, v) /\ TtlOf(redis', v) = TtlOf(redis, v)
      /\ Counter(redis, v) \in Nat
      /\ Exists(redis, v) => redis[v].ttl = TtlOf(redis, v)
      /\ TtlOf(redis, v) # NoExpiry => redis[v].ttl = TtlOf(redis, v)
  BY IncrFacts, EntryFacts
<1>2. Ended(v)' <=> Ended(v)
  BY DEF Ended
<1>3. CountingAt(v)'
  BY <1>1, <1>2, NumberTypes DEF WindowInv, CountingAt
<1>4. PassingAt(v)'
  <2>1. CASE Ended(v)
    BY <2>1, NumberTypes, Numbers DEF WindowInv, PassingAt
  <2>2. CASE ~Ended(v)
    BY <1>1, <2>2, NumberTypes, Numbers
       DEF WindowInv, PassingAt, CountingAt
  <2> QED BY <2>1, <2>2
<1>5. ChargedAt(v)'
  BY <1>1, NumberTypes, Numbers DEF WindowInv, ChargedAt
<1> QED BY <1>3, <1>4, <1>5 DEF WindowInv

-----------------------------------------------------------------------------
(* Every step keeps the invariant                                          *)

LEMMA InitInv == Init => IInv
<1> SUFFICES ASSUME Init PROVE IInv
  OBVIOUS
<1>1. TypeOK
  BY InitType
<1>2. StartedInv
  BY Numbers DEF Init, StartedInv, Idle
<1>3. ASSUME NEW w \in Window PROVE WindowInv(w)
  <2>1. Expiring(w) = {}
    BY DEF Init, Expiring, Idle
  <2>2. Passing(w) = 0
    BY <2>1, FS_EmptySet DEF Init, Passing
  <2>3. Counter(redis, w) = 0 /\ TtlOf(redis, w) = NoExpiry /\ redis[w].ttl = 0
    BY DEF Init, Counter, TtlOf, Exists, Absent
  <2> QED BY <2>2, <2>3, Numbers
          DEF Init, WindowInv, CountingAt, PassingAt, ChargedAt, ExpiresAt, NoExpiry
<1> QED BY <1>1, <1>2, <1>3 DEF IInv

\* Counting one more request in window v.
LEMMA There ==
  ASSUME TypeOK, NEW v \in Window
  PROVE  /\ Bump(admitted, v)[v] = admitted[v] + 1 /\ Bump(refused, v)[v] = refused[v] + 1
         /\ Bump(unlimited, v)[v] = unlimited[v] + 1 /\ Bump(late, v)[v] = late[v] + 1
         /\ Bump(wasted, v)[v] = wasted[v] + 1
  BY DEF TypeOK, Bump

LEMMA Elsewhere ==
  ASSUME TypeOK, NEW v \in Window, NEW w \in Window \ {v}
  PROVE  /\ Bump(admitted, v)[w] = admitted[w] /\ Bump(refused, v)[w] = refused[w]
         /\ Bump(unlimited, v)[w] = unlimited[w] /\ Bump(late, v)[w] = late[w]
         /\ Bump(wasted, v)[w] = wasted[w]
  BY DEF TypeOK, Bump

LEMMA ArriveKeeps ==
  ASSUME IInv, NEW r \in Req, Arrive(r)
  PROVE  StartedInv' /\ \A w \in Window : WindowInv(w)'
<1> USE DEF history
<1>1. TypeOK /\ StartedInv /\ \A w \in Window : WindowInv(w)
  BY DEF IInv
<1>2. WindowAt(now) \in Window /\ WindowAt(now) * WindowLength <= now
  BY <1>1, Division DEF TypeOK
<1>3. StartedInv'
  BY <1>1, <1>2 DEF Arrive, StartedInv, TypeOK
<1>4. \A w \in Window : Expiring(w)' = Expiring(w)
  <2>1. /\ call[r].at # "expire"
        /\ call' = [call EXCEPT ![r] = [at |-> "incr", window |-> WindowAt(now)]]
    BY DEF Arrive, Idle
  <2> QED BY <1>1, <2>1, Stays
<1> QED BY <1>1, <1>3, <1>4, SameKeeps DEF Arrive, Same

LEMMA CallStarted ==
  ASSUME TypeOK, StartedInv, NEW r \in Req, now' = now,
         \/ call' = call \/ call' = [call EXCEPT ![r] = Idle]
         \/ call' = [call EXCEPT ![r].at = "expire"]
  PROVE  StartedInv'
<1>1. 0 * WindowLength <= now
  BY Numbers DEF TypeOK
<1>2. \A p \in Req : call'[p].window \in {call[p].window, 0}
  BY DEF TypeOK, Idle
<1> QED BY <1>1, <1>2 DEF StartedInv

LEMMA FirstKeeps ==
  ASSUME IInv, NEW r \in Req, First(r)
  PROVE  StartedInv' /\ \A w \in Window : WindowInv(w)'
<1>1. TypeOK /\ StartedInv /\ \A w \in Window : WindowInv(w)
  BY DEF IInv
<1>2. PICK v \in Window : v = call[r].window
  BY <1>1 DEF TypeOK
<1>3. /\ Cardinality(Expiring(v)') = Cardinality(Expiring(v)) + 1
      /\ r \in Expiring(v)'
      /\ \A w \in Window \ {v} : Expiring(w)' = Expiring(w)
  BY <1>1, <1>2, Joins DEF First, Counts
<1>4. /\ now' = now /\ redis' = Incr(redis, v)
      /\ admitted' = admitted /\ refused' = refused /\ unlimited' = unlimited
      /\ wasted' = wasted /\ unbounded' = unbounded
      /\ late' = IF Ended(v) THEN Bump(late, v) ELSE late
      /\ Counter(redis, v) + 1 = 1
  BY <1>2 DEF First, Counts, LateIfEnded, IsNew, Count
<1>5. Passing(v)' = Passing(v) + 1
  BY <1>1, <1>3, <1>4, ExpiringFinite, NumberTypes DEF Passing
<1>6. WindowInv(v)'
  <2>1. late'[v] = IF Ended(v) THEN late[v] + 1 ELSE late[v]
    BY <1>1, <1>4, There
  <2>2. Counter(redis, v) + 1 <= Limit
    BY <1>4, Numbers
  <2>3. ExpiresAt(v)'
    BY <1>3 DEF ExpiresAt
  <2>4. /\ TypeOK /\ WindowInv(v) /\ now' = now /\ redis' = Incr(redis, v)
        /\ refused' = refused /\ unlimited' = unlimited /\ wasted' = wasted
    BY <1>1, <1>4
  <2> QED BY <1>5, <2>1, <2>2, <2>3, <2>4, PassKeeps
<1>7. ASSUME NEW w \in Window \ {v} PROVE WindowInv(w)'
  <2>1. Same(w)
    BY <1>1, <1>3, <1>4, IncrFacts, Elsewhere DEF Same
  <2> QED BY <1>1, <2>1, SameKeeps
<1>8. StartedInv'
  BY <1>1, CallStarted DEF First, Counts
<1> QED BY <1>6, <1>7, <1>8

LEMMA AdmitKeeps ==
  ASSUME IInv, NEW r \in Req, Admit(r)
  PROVE  StartedInv' /\ \A w \in Window : WindowInv(w)'
<1>1. TypeOK /\ StartedInv /\ \A w \in Window : WindowInv(w)
  BY DEF IInv
<1>2. PICK v \in Window : v = call[r].window
  BY <1>1 DEF TypeOK
<1>3. \A w \in Window : Expiring(w)' = Expiring(w)
  BY <1>1, Stays DEF Admit, Counts, Idle
<1>4. /\ now' = now /\ redis' = Incr(redis, v)
      /\ admitted' = Bump(admitted, v) /\ refused' = refused /\ unlimited' = unlimited
      /\ wasted' = wasted /\ unbounded' = unbounded
      /\ late' = IF Ended(v) THEN Bump(late, v) ELSE late
      /\ Counter(redis, v) + 1 # 1 /\ ~(Counter(redis, v) + 1 > Limit)
  BY <1>2 DEF Admit, Counts, LateIfEnded, IsNew, Exceeds, Count
<1>5. Passing(v)' = Passing(v) + 1
  BY <1>1, <1>3, <1>4, There, ExpiringFinite, NumberTypes DEF Passing
<1>6. Exists(redis, v) /\ Counter(redis, v) + 1 <= Limit
  BY <1>1, <1>4, EntryFacts, Numbers
<1>7. WindowInv(v)'
  <2>1. late'[v] = IF Ended(v) THEN late[v] + 1 ELSE late[v]
    BY <1>1, <1>4, There
  <2>2. redis'[v].ttl = redis[v].ttl
    BY <1>1, <1>4, <1>6, IncrFacts, EntryFacts
  <2>3. ExpiresAt(v)'
    BY <1>1, <1>3, <1>4, <2>2 DEF WindowInv, ExpiresAt
  <2> QED BY <1>1, <1>4, <1>5, <1>6, <2>1, <2>3, PassKeeps
<1>8. ASSUME NEW w \in Window \ {v} PROVE WindowInv(w)'
  <2>1. Same(w)
    BY <1>1, <1>3, <1>4, IncrFacts, Elsewhere DEF Same
  <2> QED BY <1>1, <2>1, SameKeeps
<1>9. StartedInv'
  BY <1>1, CallStarted DEF Admit, Counts
<1> QED BY <1>7, <1>8, <1>9

LEMMA RefuseKeeps ==
  ASSUME IInv, NEW r \in Req, Refuse(r)
  PROVE  StartedInv' /\ \A w \in Window : WindowInv(w)'
<1>1. TypeOK /\ StartedInv /\ \A w \in Window : WindowInv(w)
  BY DEF IInv
<1>2. PICK v \in Window : v = call[r].window
  BY <1>1 DEF TypeOK
<1>3. \A w \in Window : Expiring(w)' = Expiring(w)
  BY <1>1, Stays DEF Refuse, Counts, Idle
<1>4. /\ now' = now /\ redis' = Incr(redis, v)
      /\ admitted' = admitted /\ refused' = Bump(refused, v) /\ unlimited' = unlimited
      /\ wasted' = wasted /\ unbounded' = unbounded /\ late' = late
      /\ Counter(redis, v) + 1 # 1 /\ Counter(redis, v) + 1 > Limit
  BY <1>2 DEF Refuse, Counts, IsNew, Exceeds, Count
<1>5. Passing(v)' = Passing(v) /\ (Ended(v)' <=> Ended(v)) /\ refused'[v] = refused[v] + 1
  BY <1>1, <1>3, <1>4, There DEF Passing, Ended
<1>6. /\ Counter(redis', v) = Counter(redis, v) + 1 /\ Counter(redis, v) \in Nat
      /\ redis'[v].ttl = redis[v].ttl /\ TtlOf(redis', v) = TtlOf(redis, v)
  BY <1>1, <1>4, IncrFacts, EntryFacts, Numbers
<1>7. CountingAt(v)' /\ PassingAt(v)' /\ ExpiresAt(v)'
  BY <1>1, <1>3, <1>4, <1>5, <1>6, NumberTypes
     DEF WindowInv, CountingAt, PassingAt, ExpiresAt
<1>8. ChargedAt(v)'
  BY <1>1, <1>4, <1>5, <1>6, NumberTypes, Numbers DEF WindowInv, ChargedAt
<1>9. ASSUME NEW w \in Window \ {v} PROVE WindowInv(w)'
  <2>1. Same(w)
    BY <1>1, <1>3, <1>4, IncrFacts, Elsewhere DEF Same
  <2> QED BY <1>1, <2>1, SameKeeps
<1>10. StartedInv'
  BY <1>1, CallStarted DEF Refuse, Counts
<1> QED BY <1>7, <1>8, <1>9, <1>10 DEF WindowInv

LEMMA ResendKeeps ==
  ASSUME IInv, NEW r \in Req, Resend(r)
  PROVE  StartedInv' /\ \A w \in Window : WindowInv(w)'
<1>1. TypeOK /\ StartedInv /\ \A w \in Window : WindowInv(w)
  BY DEF IInv
<1>2. PICK v \in Window : v = call[r].window
  BY <1>1 DEF TypeOK
<1>3. \A w \in Window : Expiring(w)' = Expiring(w)
  BY DEF Resend, Expiring
<1>4. /\ now' = now /\ redis' = Incr(redis, v)
      /\ admitted' = admitted /\ refused' = refused /\ unlimited' = unlimited
      /\ wasted' = Bump(wasted, v) /\ unbounded' = unbounded /\ late' = late
  BY <1>2 DEF Resend, Counts
<1>5. Passing(v)' = Passing(v) /\ (Ended(v)' <=> Ended(v)) /\ wasted'[v] = wasted[v] + 1
  BY <1>1, <1>3, <1>4, There DEF Passing, Ended
<1>6. /\ Counter(redis', v) = Counter(redis, v) + 1 /\ Counter(redis, v) \in Nat
      /\ redis'[v].ttl = TtlOf(redis, v) /\ TtlOf(redis', v) = TtlOf(redis, v)
      /\ TtlOf(redis, v) # NoExpiry => redis[v].ttl = TtlOf(redis, v)
  BY <1>1, <1>4, IncrFacts, EntryFacts, Numbers
<1>7. CountingAt(v)' /\ PassingAt(v)' /\ ExpiresAt(v)' /\ ChargedAt(v)'
  <2>1. CountingAt(v)'
    BY <1>1, <1>4, <1>5, <1>6, NumberTypes DEF WindowInv, CountingAt
  <2>2. PassingAt(v)'
    BY <1>1, <1>4, <1>5 DEF WindowInv, PassingAt
  <2>3. ExpiresAt(v)'
    BY <1>1, <1>4, <1>5, NumberTypes DEF ExpiresAt
  <2>4. ChargedAt(v)'
    BY <1>1, <1>4, <1>5, <1>6, NumberTypes, Numbers DEF WindowInv, ChargedAt
  <2> QED BY <2>1, <2>2, <2>3, <2>4
<1>8. ASSUME NEW w \in Window \ {v} PROVE WindowInv(w)'
  <2>1. Same(w)
    BY <1>1, <1>3, <1>4, IncrFacts, Elsewhere DEF Same
  <2> QED BY <1>1, <2>1, SameKeeps
<1>9. StartedInv'
  BY <1>1, CallStarted DEF Resend, Counts
<1> QED BY <1>7, <1>8, <1>9 DEF WindowInv

LEMMA NoAnswerKeeps ==
  ASSUME IInv, NEW r \in Req, NoAnswer(r)
  PROVE  StartedInv' /\ \A w \in Window : WindowInv(w)'
<1>1. TypeOK /\ StartedInv /\ \A w \in Window : WindowInv(w)
  BY DEF IInv
<1>2. PICK v \in Window : v = call[r].window
  BY <1>1 DEF TypeOK
<1>3. \A w \in Window : Expiring(w)' = Expiring(w)
  BY <1>1, Stays DEF NoAnswer, Idle
<1>4. /\ now' = now /\ (redis' = Incr(redis, v) \/ redis' = redis)
      /\ admitted' = Bump(admitted, v) /\ refused' = refused
      /\ unlimited' = Bump(unlimited, v)
      /\ wasted' = wasted /\ unbounded' = unbounded /\ late' = late
  BY <1>2 DEF NoAnswer, After
<1>5. /\ Passing(v)' = Passing(v) + 1 /\ (Ended(v)' <=> Ended(v))
      /\ unlimited'[v] = unlimited[v] + 1
  <2>1. Cardinality(Expiring(v))' = Cardinality(Expiring(v))
    BY <1>3
  <2> QED BY <1>1, <1>4, <2>1, There, ExpiringFinite, NumberTypes DEF Passing, Ended
<1>6. /\ Counter(redis', v) \in {Counter(redis, v), Counter(redis, v) + 1}
      /\ Counter(redis, v) \in Nat
      /\ TtlOf(redis', v) = TtlOf(redis, v)
      /\ TtlOf(redis, v) # NoExpiry => redis'[v].ttl = redis[v].ttl
  BY <1>1, <1>4, IncrFacts, EntryFacts, Numbers
<1>7. CountingAt(v)'
  BY <1>1, <1>4, <1>5, <1>6, NumberTypes DEF WindowInv, CountingAt
<1>8. PassingAt(v)' /\ ExpiresAt(v)' /\ ChargedAt(v)'
  BY <1>1, <1>4, <1>5, <1>6, NumberTypes, Numbers
     DEF WindowInv, PassingAt, ExpiresAt, ChargedAt
<1>9. ASSUME NEW w \in Window \ {v} PROVE WindowInv(w)'
  <2>1. Same(w)
    BY <1>1, <1>3, <1>4, IncrFacts, Elsewhere DEF Same
  <2> QED BY <1>1, <2>1, SameKeeps
<1>10. StartedInv'
  BY <1>1, CallStarted DEF NoAnswer
<1> QED BY <1>7, <1>8, <1>9, <1>10 DEF WindowInv

\* EXPIRE, or its failure: the window began before, so a counter set to
\* live one window's length outlives it.
LEMMA SetExpiryKeeps ==
  ASSUME IInv, NEW r \in Req, SetExpiry(r)
  PROVE  StartedInv' /\ \A w \in Window : WindowInv(w)'
<1>1. TypeOK /\ StartedInv /\ \A w \in Window : WindowInv(w)
  BY DEF IInv
<1>2. PICK v \in Window : v = call[r].window
  BY <1>1 DEF TypeOK
<1>3. /\ Cardinality(Expiring(v)') = Cardinality(Expiring(v)) - 1
      /\ \A w \in Window \ {v} : Expiring(w)' = Expiring(w)
  BY <1>1, <1>2, Leaves DEF SetExpiry
<1>4. /\ now' = now
      /\ admitted' = Bump(admitted, v) /\ refused' = refused
      /\ unlimited' = unlimited /\ wasted' = wasted /\ late' = late
      /\ unbounded \subseteq unbounded'
      /\ \/ redis' = Expire(redis, v, CounterTtl)
         \/ redis' = redis
      /\ redis' = Expire(redis, v, CounterTtl) \/ v \in unbounded'
  <2>1. /\ now' = now
        /\ admitted' = Bump(admitted, v) /\ refused' = refused
        /\ unlimited' = unlimited /\ wasted' = wasted /\ late' = late
    BY <1>2 DEF SetExpiry
  <2>2. PICK o \in Outcome :
          /\ redis' = After(o, redis, Expire(redis, v, CounterTtl))
          /\ IF o = "done" THEN unbounded' = unbounded
                           ELSE unbounded' = unbounded \cup {v}
    BY <1>2 DEF SetExpiry
  <2> QED BY <2>1, <2>2 DEF After, Outcome
<1>5. Passing(v)' = Passing(v) /\ (Ended(v)' <=> Ended(v))
  BY <1>1, <1>3, <1>4, There, ExpiringFinite, NumberTypes DEF Passing, Ended
<1>6. /\ Counter(redis', v) = Counter(redis, v) /\ Counter(redis, v) \in Nat
      /\ redis'[v].ttl = WindowLength \/ redis' = redis
      /\ TtlOf(redis', v) # NoExpiry => redis'[v].ttl = TtlOf(redis', v)
  <2>1. Counter(redis', v) = Counter(redis, v) /\ Counter(redis, v) \in Nat
    BY <1>1, <1>4, ExpireFacts, EntryFacts
  <2>2. redis'[v].ttl = WindowLength \/ redis' = redis
    BY <1>1, <1>4, ExpireFacts
  <2> QED BY <2>1, <2>2 DEF TtlOf
<1>7. (v + 1) * WindowLength <= now + WindowLength
  <2>1. v * WindowLength <= now
    BY <1>1, <1>2 DEF StartedInv
  <2> QED BY <1>1, <2>1, WindowEnd, NumberTypes, Numbers
<1>8. CountingAt(v)'
  <2>1. CASE redis' = redis
    BY <1>1, <1>4, <1>5, <2>1 DEF WindowInv, CountingAt
  <2>2. CASE redis'[v].ttl = WindowLength
    BY <1>1, <1>4, <1>5, <1>6, <1>7, <2>2 DEF WindowInv, CountingAt
  <2> QED BY <1>6, <2>1, <2>2
<1>9. PassingAt(v)' /\ ChargedAt(v)'
  BY <1>1, <1>4, <1>5, <1>6 DEF WindowInv, PassingAt, ChargedAt
<1>10. ExpiresAt(v)'
  <2>1. redis'[v].ttl = NoExpiry => v \in unbounded'
    BY <1>1, <1>4, ExpireFacts, EntryFacts, Numbers DEF Exists, NoExpiry
  <2> QED BY <2>1 DEF ExpiresAt
<1>11. ASSUME NEW w \in Window \ {v} PROVE WindowInv(w)'
  <2>1. Same(w)
    BY <1>1, <1>3, <1>4, ExpireFacts, Elsewhere DEF Same
  <2> QED BY <1>1, <2>1, SameKeeps
<1>12. StartedInv'
  BY <1>1, CallStarted DEF SetExpiry
<1> QED BY <1>8, <1>9, <1>10, <1>11, <1>12 DEF WindowInv

\* The calls that were about to pass have wasted their count.
LEMMA CrashKeeps ==
  ASSUME IInv, Crash
  PROVE  StartedInv' /\ \A w \in Window : WindowInv(w)'
<1>1. TypeOK /\ StartedInv /\ \A w \in Window : WindowInv(w)
  BY DEF IInv
<1>2. StartedInv'
  <2>1. 0 * WindowLength <= now
    BY <1>1, Numbers DEF TypeOK
  <2> QED BY <2>1 DEF Crash, StartedInv, Idle
<1>3. ASSUME NEW w \in Window PROVE WindowInv(w)'
  <2>1. Expiring(w)' = {}
    BY DEF Crash, Expiring, Idle
  <2>2. /\ now' = now /\ redis' = redis /\ admitted' = admitted /\ refused' = refused
        /\ unlimited' = unlimited /\ late' = late /\ unbounded' = unbounded
        /\ wasted'[w] = wasted[w] + Cardinality(Expiring(w))
    BY DEF Crash
  <2>3. /\ Passing(w)' = admitted[w] /\ Passing(w) = admitted[w] + Cardinality(Expiring(w))
        /\ Cardinality(Expiring(w)) \in Nat /\ (Ended(w)' <=> Ended(w))
        /\ Counter(redis, w) \in Nat /\ (Expiring(w) # {} => Cardinality(Expiring(w)) > 0)
    BY <1>1, <2>1, <2>2, FS_EmptySet, ExpiringFinite, EntryFacts, NumberTypes
       DEF Passing, Ended
  <2>4. CountingAt(w)'
    BY <1>1, <2>2, <2>3, NumberTypes DEF WindowInv, CountingAt
  <2>5. PassingAt(w)'
    BY <1>1, <2>2, <2>3, NumberTypes, Numbers DEF WindowInv, PassingAt
  <2>6. ChargedAt(w)'
    BY <1>1, <2>2, <2>3, NumberTypes, Numbers DEF WindowInv, ChargedAt
  <2>7. ExpiresAt(w)'
    BY <1>1, <2>2, <2>3, NumberTypes DEF WindowInv, ExpiresAt
  <2> QED BY <2>4, <2>5, <2>6, <2>7 DEF WindowInv
<1> QED BY <1>2, <1>3

\* A counter that expires in this tick belongs to a window that ends with it.
LEMMA TickKeeps ==
  ASSUME IInv, Tick
  PROVE  StartedInv' /\ \A w \in Window : WindowInv(w)'
<1> USE DEF history
<1>1. TypeOK /\ StartedInv /\ \A w \in Window : WindowInv(w)
  BY DEF IInv
<1>2. StartedInv'
  <2>1. \A r \in Req : call[r].window * WindowLength \in Nat
    BY <1>1, WindowEnd DEF TypeOK
  <2> QED BY <1>1, <2>1, Numbers DEF Tick, StartedInv, TypeOK
<1>3. ASSUME NEW w \in Window PROVE WindowInv(w)'
  <2>1. /\ now' = now + 1 /\ redis' = Elapse(redis)
        /\ call' = call /\ admitted' = admitted /\ refused' = refused
        /\ unlimited' = unlimited /\ late' = late /\ unbounded' = unbounded
        /\ wasted' = wasted
    BY DEF Tick
  <2>2. Passing(w)' = Passing(w) /\ Expiring(w)' = Expiring(w)
    BY <2>1 DEF Passing, Expiring
  <2>3. Ended(w) => Ended(w)'
    BY <1>1, <2>1, WindowEnd, NumberTypes DEF Ended
  <2>4. /\ Counter(redis', w) <= Counter(redis, w)
        /\ Counter(redis, w) \in Nat /\ Counter(redis', w) \in Nat
        /\ redis'[w].ttl = NoExpiry => redis[w].ttl = NoExpiry
    BY <1>1, <2>1, ElapseFacts, EntryFacts DEF Counter, Exists, CounterEntry, Absent
  <2>5. CountingAt(w)'
    <3> SUFFICES ASSUME ~Ended(w)' PROVE CountingAt(w)'
      BY DEF CountingAt
    <3>1. /\ ~Ended(w) /\ ~((w + 1) * WindowLength <= now + 1)
          /\ (w + 1) * WindowLength \in Nat
      BY <2>1, <2>3, WindowEnd DEF Ended
    <3>2. CASE TtlOf(redis, w) = NoExpiry
      <4>1. redis[w].ttl \in {0, NoExpiry}
        BY <1>1, <3>2, EntryFacts, Numbers DEF NoExpiry, Exists
      <4>2. redis'[w] = redis[w]
        BY <1>1, <2>1, <4>1, ElapseFacts
      <4> QED BY <1>1, <2>1, <2>2, <3>1, <3>2, <4>2
              DEF WindowInv, CountingAt, Counter, TtlOf, Exists
    <3>3. CASE (w + 1) * WindowLength <= now + redis[w].ttl
      <4>1. redis[w].ttl \in 2..WindowLength
        BY <1>1, <3>1, <3>3, EntryFacts, NumberTypes, Numbers DEF NoExpiry
      <4>2. Counter(redis', w) = Counter(redis, w) /\ redis'[w].ttl = redis[w].ttl - 1
        BY <1>1, <2>1, <4>1, ElapseFacts, EntryFacts, Numbers DEF NoExpiry
      <4>3. (w + 1) * WindowLength <= now' + redis'[w].ttl
        BY <1>1, <2>1, <3>1, <3>3, <4>1, <4>2, NumberTypes
      <4> QED BY <1>1, <2>1, <2>2, <3>1, <4>2, <4>3 DEF WindowInv, CountingAt
    <3> QED BY <1>1, <3>1, <3>2, <3>3 DEF WindowInv, CountingAt
  <2>6. PassingAt(w)' /\ ExpiresAt(w)'
    BY <1>1, <2>1, <2>2, <2>4 DEF WindowInv, PassingAt, ExpiresAt
  <2>7. ChargedAt(w)'
    BY <1>1, <2>1, <2>2, <2>4, NumberTypes DEF WindowInv, ChargedAt
  <2> QED BY <2>5, <2>6, <2>7 DEF WindowInv
<1> QED BY <1>2, <1>3

LEMMA StepInv == IInv /\ [Next]_vars => IInv'
<1> SUFFICES ASSUME IInv, [Next]_vars PROVE IInv'
  OBVIOUS
<1>1. TypeOK'
  BY StepType DEF IInv
<1>2. StartedInv' /\ \A w \in Window : WindowInv(w)'
  <2>1. CASE UNCHANGED vars
    BY <2>1 DEF IInv, vars, history, StartedInv, WindowInv, CountingAt, PassingAt, ChargedAt,
       ExpiresAt, Passing, Expiring, Ended, Counter, TtlOf, Exists
  <2>2. ASSUME NEW r \in Req, Handle(r), ~UNCHANGED vars
        PROVE  StartedInv' /\ \A w \in Window : WindowInv(w)'
    BY <2>2, ArriveKeeps, FirstKeeps, AdmitKeeps, RefuseKeeps, ResendKeeps,
       NoAnswerKeeps, SetExpiryKeeps DEF Handle, NotReady
  <2> QED BY <2>1, <2>2, CrashKeeps, TickKeeps DEF Next
<1> QED BY <1>1, <1>2 DEF IInv, Window

LEMMA Always == Spec => []IInv
  BY InitInv, StepInv, PTL DEF Spec

\* No window admits more than its limit, except for requests whose count
\* was lost or came after the window had ended.
THEOREM WithinLimit == Spec => []AdmittedWithinLimit
<1>1. IInv => AdmittedWithinLimit
  <2> SUFFICES ASSUME IInv, NEW w \in Window
               PROVE  admitted[w] <= Limit + unlimited[w] + late[w]
    BY DEF AdmittedWithinLimit
  <2>1. TypeOK /\ PassingAt(w)
    BY DEF IInv, WindowInv
  <2> QED BY <2>1, ExpiringFinite, NumberTypes, Numbers DEF PassingAt
<1> QED BY <1>1, Always, PTL

\* No request is refused before its window has used up its limit.
THEOREM NoEarlyRefusal == Spec => []RefusedOnlyAtLimit
<1>1. IInv => RefusedOnlyAtLimit
  <2> SUFFICES ASSUME IInv, NEW w \in Window, refused[w] > 0
               PROVE  admitted[w] + wasted[w] + Cardinality(Expiring(w)) >= Limit
    BY DEF RefusedOnlyAtLimit
  <2>1. TypeOK /\ ChargedAt(w)
    BY DEF IInv, WindowInv
  <2> QED BY <2>1, ExpiringFinite, NumberTypes, Numbers DEF ChargedAt
<1> QED BY <1>1, Always, PTL

\* A counter that never expires is explained by a fault or a crash.
THEOREM CountersHaveTtl == Spec => []CountersExpire
<1>1. IInv => CountersExpire
  BY DEF IInv, WindowInv, ExpiresAt, CountersExpire
<1> QED BY <1>1, Always, PTL

-----------------------------------------------------------------------------
(* While Redis answers                                                     *)

\* What the histories record needs a fault or a crash.
QuietInv ==
  /\ faults = 0 => unbounded = {} /\ \A w \in Window : unlimited[w] = 0
  /\ (faults = 0 /\ crashes = 0) => \A w \in Window : wasted[w] = 0

LEMMA QuietStep == TypeOK /\ QuietInv /\ [Next]_vars => QuietInv'
<1> SUFFICES ASSUME TypeOK, QuietInv, [Next]_vars PROVE QuietInv'
  OBVIOUS
<1>1. faults \in Nat /\ crashes \in Nat
  BY DEF TypeOK
<1>2. ASSUME NEW r \in Req, NotReady(r) \/ Arrive(r) \/ First(r) \/ Admit(r) \/ Refuse(r)
      PROVE  QuietInv'
  <2>1. UNCHANGED <<unlimited, wasted, unbounded, faults, crashes>>
    BY <1>2 DEF NotReady, Arrive, First, Admit, Refuse, Counts, history, vars
  <2> QED BY <2>1 DEF QuietInv
<1>3. ASSUME NEW r \in Req, Resend(r) \/ NoAnswer(r)
      PROVE  QuietInv'
  <2>1. faults' = faults + 1
    BY <1>3 DEF Resend, NoAnswer, Fails
  <2> QED BY <1>1, <2>1 DEF QuietInv
<1>4. ASSUME NEW r \in Req, SetExpiry(r)
      PROVE  QuietInv'
  <2>1. \/ UNCHANGED <<unlimited, wasted, unbounded, faults, crashes>>
        \/ faults' = faults + 1
    BY <1>4 DEF SetExpiry, Fails
  <2> QED BY <1>1, <2>1 DEF QuietInv
<1>5. CASE Crash
  <2>1. crashes' = crashes + 1 /\ UNCHANGED <<unlimited, unbounded, faults>>
    BY <1>5 DEF Crash
  <2> QED BY <1>1, <2>1 DEF QuietInv
<1>6. CASE Tick \/ UNCHANGED vars
  BY <1>6 DEF Tick, vars, history, QuietInv
<1> QED BY <1>2, <1>3, <1>4, <1>5, <1>6 DEF Next, Handle

LEMMA QuietAlways == Spec => []QuietInv
<1>1. Init => QuietInv
  BY DEF Init, QuietInv
<1> QED BY <1>1, QuietStep, TypeCorrect, PTL DEF Spec

NoneLate == \A w \in Window : late[w] = 0

LEMMA PromptStep == NoneLate /\ Prompt /\ [Next]_vars => NoneLate'
<1> SUFFICES ASSUME NoneLate, Prompt, [Next]_vars PROVE NoneLate'
  OBVIOUS
<1>1. ASSUME NEW r \in Req, First(r) \/ Admit(r) PROVE late' = late
  BY <1>1 DEF First, Admit, Counts, LateIfEnded, Prompt
<1>2. ASSUME NEW r \in Req,
             \/ NotReady(r) \/ Arrive(r) \/ Refuse(r) \/ Resend(r)
             \/ NoAnswer(r) \/ SetExpiry(r)
      PROVE  late' = late
  BY <1>2 DEF NotReady, Arrive, Refuse, Resend, NoAnswer, SetExpiry, history, vars
<1>3. CASE Crash \/ Tick \/ UNCHANGED vars
  BY <1>3 DEF Crash, Tick, vars, history, NoneLate
<1> QED BY <1>1, <1>2, <1>3 DEF Next, Handle, NoneLate

\* While Redis answers every command, and no INCR waits until its window is
\* over, no window admits more than the limit.
THEOREM LimitIsExact == Spec /\ []Prompt => []ExactLimit
<1>1. Init => NoneLate
  BY DEF Init, NoneLate
<1>2. TypeOK /\ QuietInv /\ NoneLate /\ AdmittedWithinLimit => ExactLimit
  <2> SUFFICES ASSUME TypeOK, QuietInv, NoneLate, AdmittedWithinLimit, faults = 0,
                      NEW w \in Window
               PROVE  admitted[w] <= Limit
    BY DEF ExactLimit
  <2>1. unlimited[w] = 0 /\ late[w] = 0 /\ admitted[w] <= Limit + unlimited[w] + late[w]
    BY DEF QuietInv, NoneLate, AdmittedWithinLimit
  <2> QED BY <2>1, NumberTypes, Numbers
<1> QED BY <1>1, <1>2, PromptStep, TypeCorrect, QuietAlways, WithinLimit, PTL DEF Spec

\* While Redis answers and the process lives, only a request beyond the limit is
\* refused.
THEOREM RefusalIsExact == Spec => []ExactRefusal
<1>1. TypeOK /\ QuietInv /\ RefusedOnlyAtLimit => ExactRefusal
  <2> SUFFICES ASSUME TypeOK, QuietInv, RefusedOnlyAtLimit, faults = 0, crashes = 0,
                      NEW w \in Window, refused[w] > 0
               PROVE  admitted[w] + Cardinality(Expiring(w)) >= Limit
    BY DEF ExactRefusal
  <2>1. wasted[w] = 0 /\ admitted[w] + wasted[w] + Cardinality(Expiring(w)) >= Limit
    BY DEF QuietInv, RefusedOnlyAtLimit
  <2> QED BY <2>1, NumberTypes, ExpiringFinite
<1> QED BY <1>1, TypeCorrect, QuietAlways, NoEarlyRefusal, PTL

\* While Redis answers, only a crash leaves a counter without a time to live.
THEOREM TtlSurvives == Spec => []TtlLostInCrash
<1>1. TypeOK /\ QuietInv /\ CountersExpire => TtlLostInCrash
  <2> SUFFICES ASSUME TypeOK, QuietInv, CountersExpire, faults = 0, crashes = 0,
                      NEW w \in Window, redis[w].ttl = NoExpiry
               PROVE  Expiring(w) # {}
    BY DEF TtlLostInCrash, TypeOK
  <2>1. unbounded = {} /\ unlimited[w] = 0 /\ wasted[w] = 0
    BY DEF QuietInv
  <2> QED BY <2>1 DEF CountersExpire
<1> QED BY <1>1, TypeCorrect, QuietAlways, CountersHaveTtl, PTL
=============================================================================
