----------------------------- MODULE RateLimiter -----------------------------
(***************************************************************************)
(* infrastructure/rateLimit/fixedWindowRateLimiter.js for one tier and one *)
(* identity; others use other keys.  A call is a request inside the        *)
(* middleware: it computes its window, awaits INCR on the window's counter *)
(* and, when the counter is new, EXPIRE.  Time passes in ticks.  A request *)
(* that finds Redis not ready is refused with 503 and changes nothing;     *)
(* redisService.increment repeats that test in the same synchronous run,   *)
(* so an INCR that was let in can only fail.                               *)
(***************************************************************************)
EXTENDS RedisStore, FiniteSets

CONSTANTS
  Req,           \* concurrent calls
  Limit,         \* requests a window admits
  WindowLength,  \* in ticks, also the time to live of a counter
  MaxTime, MaxCalls, MaxFaults, MaxCrashes   \* bounds of the model

ASSUME ReqAssumption == IsFiniteSet(Req)

ASSUME LimitAssumption == Limit \in Nat \ {0} /\ WindowLength \in Nat \ {0}

ASSUME BoundAssumption ==
  {MaxTime, MaxCalls, MaxFaults, MaxCrashes} \subseteq Nat

VARIABLES
  now,
  redis,      \* the counter of each window
  call,       \* each call: the command it awaits and the window it computed
  begun,      \* requests of each window, for the bound MaxCalls
  admitted,   \* history: requests of each window passed on to the handler
  refused,    \* history: requests of each window answered 429
  unlimited,  \* history: those admitted because INCR gave no answer
  late,       \* history: those let through by an INCR run after the window had ended
  wasted,     \* history: counts of requests that were never admitted or refused
  unbounded,  \* history: windows whose EXPIRE failed
  faults, crashes

history == <<admitted, refused, unlimited, late, wasted, unbounded>>

vars == <<now, redis, call, begun, history, faults, crashes>>

WindowAt(t) == t \div WindowLength

Window == 0..WindowAt(MaxTime)

\* No request computes this window from now on.
Ended(w) == (w + 1) * WindowLength <= now

Idle == [at |-> "idle", window |-> 0]

Expiring(w) == {r \in Req : call[r] = [at |-> "expire", window |-> w]}

Bump(counts, w) == [counts EXCEPT ![w] = @ + 1]

-----------------------------------------------------------------------------
Init ==
  /\ now = 0
  /\ redis = [w \in Window |-> Absent]
  /\ call = [r \in Req |-> Idle]
  /\ begun = [w \in Window |-> 0]
  /\ admitted = [w \in Window |-> 0]
  /\ refused = [w \in Window |-> 0]
  /\ unlimited = [w \in Window |-> 0]
  /\ late = [w \in Window |-> 0]
  /\ wasted = [w \in Window |-> 0]
  /\ unbounded = {}
  /\ faults = 0
  /\ crashes = 0

\* The window is computed before the first await.
Arrive(r) ==
  LET w == WindowAt(now) IN
  /\ call[r] = Idle
  /\ begun[w] < MaxCalls
  /\ begun' = Bump(begun, w)
  /\ call' = [call EXCEPT ![r] = [at |-> "incr", window |-> w]]
  /\ UNCHANGED <<now, redis, history, faults, crashes>>

\* A request refused with 503 before any await.
NotReady(r) ==
  /\ call[r] = Idle
  /\ UNCHANGED vars

\* What INCR answers.
Count(r) == Counter(redis, call[r].window) + 1

Counts(r) ==
  /\ call[r].at = "incr"
  /\ redis' = Incr(redis, call[r].window)
  /\ UNCHANGED <<now, begun, unlimited, unbounded, crashes>>

\* The window of call r counts as admitting late once it has ended.
LateIfEnded(r) ==
  late' = IF Ended(call[r].window) THEN Bump(late, call[r].window) ELSE late

\* Mutant: counted from zero.
IsNewFromZero(n) == n = 0

\* count === 1
IsNew(n) == n = 1

\* Mutant: the limit itself is refused (count >= limit).
MeetsLimit(n) == n >= Limit

\* count > limit
Exceeds(n) == n > Limit

\* A new counter: EXPIRE is awaited next.
First(r) ==
  /\ Counts(r)
  /\ IsNew(Count(r))
  /\ LateIfEnded(r)
  /\ call' = [call EXCEPT ![r].at = "expire"]
  /\ UNCHANGED <<admitted, refused, wasted, faults>>

Admit(r) ==
  /\ Counts(r)
  /\ ~IsNew(Count(r)) /\ ~Exceeds(Count(r))
  /\ LateIfEnded(r)
  /\ admitted' = Bump(admitted, call[r].window)
  /\ call' = [call EXCEPT ![r] = Idle]
  /\ UNCHANGED <<refused, wasted, faults>>

Refuse(r) ==
  /\ Counts(r)
  /\ ~IsNew(Count(r)) /\ Exceeds(Count(r))
  /\ refused' = Bump(refused, call[r].window)
  /\ call' = [call EXCEPT ![r] = Idle]
  /\ UNCHANGED <<admitted, late, wasted, faults>>

Fails ==
  /\ faults < MaxFaults
  /\ faults' = faults + 1

\* The connection drops before the answer and ioredis sends the INCR again
\* (maxRetriesPerRequest): the counter counts the request twice.
Resend(r) ==
  /\ Counts(r)
  /\ Fails
  /\ wasted' = Bump(wasted, call[r].window)
  /\ UNCHANGED <<call, admitted, refused, late>>

\* increment answers null: null === 1 and null > limit are both false, so
\* the request is passed on, whether or not the counter counted it.
NoAnswer(r) ==
  LET w == call[r].window IN
  /\ call[r].at = "incr"
  /\ Fails
  /\ \E o \in Outcome \ {"done"} : redis' = After(o, redis, Incr(redis, w))
  /\ unlimited' = Bump(unlimited, w)
  /\ admitted' = Bump(admitted, w)
  /\ call' = [call EXCEPT ![r] = Idle]
  /\ UNCHANGED <<now, begun, refused, late, wasted, unbounded, crashes>>

\* Mutant: the counter lives one tick less than its window.
CounterTtlShort == WindowLength - 1

CounterTtl == WindowLength

\* EXPIRE, whose answer is not looked at; 1 is within every limit.
SetExpiry(r) ==
  LET w == call[r].window IN
  /\ call[r].at = "expire"
  /\ \E o \in Outcome :
       /\ redis' = After(o, redis, Expire(redis, w, CounterTtl))
       /\ IF o = "done"
          THEN UNCHANGED <<unbounded, faults>>
          ELSE Fails /\ unbounded' = unbounded \cup {w}
  /\ admitted' = Bump(admitted, w)
  /\ call' = [call EXCEPT ![r] = Idle]
  /\ UNCHANGED <<now, begun, refused, unlimited, late, wasted, crashes>>

\* The process restarts: no call is answered.
Crash ==
  /\ crashes < MaxCrashes
  /\ crashes' = crashes + 1
  /\ wasted' = [w \in Window |-> wasted[w] + Cardinality(Expiring(w))]
  /\ call' = [r \in Req |-> Idle]
  /\ UNCHANGED <<now, redis, begun, admitted, refused, unlimited, late, unbounded, faults>>

Tick ==
  /\ now < MaxTime
  /\ now' = now + 1
  /\ redis' = Elapse(redis)
  /\ UNCHANGED <<call, begun, history, faults, crashes>>

Handle(r) ==
  \/ Arrive(r) \/ NotReady(r) \/ First(r) \/ Admit(r) \/ Refuse(r)
  \/ Resend(r) \/ NoAnswer(r) \/ SetExpiry(r)

Next == (\E r \in Req : Handle(r)) \/ Crash \/ Tick

Spec == Init /\ [][Next]_vars

-----------------------------------------------------------------------------
TypeOK ==
  /\ now \in 0..MaxTime
  /\ redis \in [Window -> {Absent} \cup
                  [val : Nat \ {0}, ttl : {NoExpiry} \cup 1..WindowLength]]
  /\ call \in [Req -> [at : {"idle", "incr", "expire"}, window : Window]]
  /\ {begun, admitted, refused, unlimited, late, wasted} \subseteq [Window -> Nat]
  /\ unbounded \subseteq Window
  /\ faults \in Nat /\ crashes \in Nat

\* A window admits its limit, plus each request whose INCR had no answer and
\* each whose INCR ran after the window had ended, when the counter may have
\* expired (fixedWindowRateLimiter.js:19 reads the clock before the await at
\* :28).
AdmittedWithinLimit ==
  \A w \in Window : admitted[w] <= Limit + unlimited[w] + late[w]

\* A request is refused only after its own window admitted the limit: no
\* count of another window is charged to it, only what a resent INCR or a
\* crash left in the counter.
RefusedOnlyAtLimit ==
  \A w \in Window :
    refused[w] > 0 =>
      admitted[w] + wasted[w] + Cardinality(Expiring(w)) >= Limit

\* A counter without a time to live has a call about to give it one, or
\* lost it to a failed command or a crash: racing calls never do that, as
\* only the call that counts 1 sets the time to live.
CountersExpire ==
  \A w \in Window :
    redis[w].ttl = NoExpiry =>
      \/ Expiring(w) # {}
      \/ unlimited[w] + wasted[w] > 0
      \/ w \in unbounded

-----------------------------------------------------------------------------
(* The inductive invariant                                                 *)

\* Admitted, or counted within the limit and about to be admitted.
Passing(w) == admitted[w] + Cardinality(Expiring(w))

\* The clock never runs back behind the window of a call.
StartedInv == \A r \in Req : call[r].window * WindowLength <= now

\* Until its window ends a counter cannot expire, and counts every request
\* that passes.
CountingAt(w) ==
  ~Ended(w) =>
    /\ late[w] = 0
    /\ Passing(w) <= Counter(redis, w) + unlimited[w]
    /\ \/ TtlOf(redis, w) = NoExpiry
       \/ (w + 1) * WindowLength <= now + redis[w].ttl

PassingAt(w) == Passing(w) <= Limit + unlimited[w] + late[w]

\* What a counter counts passed, until it refuses.
ChargedAt(w) ==
  IF refused[w] = 0
  THEN Counter(redis, w) <= Passing(w) + wasted[w]
  ELSE Limit <= Passing(w) + wasted[w]

ExpiresAt(w) ==
  redis[w].ttl = NoExpiry =>
    \/ Expiring(w) # {}
    \/ unlimited[w] + wasted[w] > 0
    \/ w \in unbounded

WindowInv(w) == CountingAt(w) /\ PassingAt(w) /\ ChargedAt(w) /\ ExpiresAt(w)

IInv == TypeOK /\ StartedInv /\ \A w \in Window : WindowInv(w)

-----------------------------------------------------------------------------
(* While Redis answers                                                     *)

\* No INCR is still to run when its window ends.
Prompt == \A r \in Req : call[r].at = "incr" => ~Ended(call[r].window)

\* A window admits its limit and no more (src/README.md:359).
ExactLimit == faults = 0 => \A w \in Window : admitted[w] <= Limit

\* Nobody is refused before his window has passed the limit.
ExactRefusal ==
  (faults = 0 /\ crashes = 0) =>
    \A w \in Window :
      refused[w] > 0 => admitted[w] + Cardinality(Expiring(w)) >= Limit

\* A counter misses its time to live only where the process died between INCR
\* and EXPIRE (src/README.md:787).
TtlLostInCrash ==
  faults = 0 =>
    \A w \in Window : redis[w].ttl = NoExpiry => Expiring(w) # {} \/ crashes > 0
=============================================================================
