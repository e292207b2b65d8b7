----------------------------- MODULE RedisStore -----------------------------
(***************************************************************************)
(* The Redis commands the program issues, as pure operators on a database  *)
(* db : [Key -> Entry \cup {Absent}], and what redis.service.js makes of   *)
(* their replies.  An entry is a value with its remaining time to live in  *)
(* ticks; NoExpiry is the -1 the TTL command reports for a key without one.*)
(*                                                                         *)
(* redisService never throws.  When the client is not ready, or a command  *)
(* fails, it returns a default (null, false, -2, 0) which callers cannot   *)
(* tell from a real answer.  An outcome names which of the three happened: *)
(*   "done"        the command ran and its reply came back                 *)
(*   "skipped"     isRedisReady() was false, or the command never ran      *)
(*   "unanswered"  the command ran and its reply was lost                  *)
(***************************************************************************)
EXTENDS Integers

Absent   == [ttl |-> 0]   \* no such key
NoExpiry == -1

Outcome == {"done", "skipped", "unanswered"}

Entry(v, t) == [val |-> v, ttl |-> t]

Exists(db, k) == db[k].ttl # 0

\* The database after a command with outcome o, when it would leave db2.
After(o, db, db2) == IF o = "skipped" THEN db ELSE db2

\* redisService.exists: FALSE when there is no answer.
SaysExists(o, db, k) == o = "done" /\ Exists(db, k)

SetEx(db, k, v, t) == [db EXCEPT ![k] = Entry(v, t)]

\* SET key value EX t NX
SetIfNotExists(db, k, v, t) == IF Exists(db, k) THEN db ELSE SetEx(db, k, v, t)

Del(db, k) == [db EXCEPT ![k] = Absent]

Counter(db, k) == IF Exists(db, k) THEN db[k].val ELSE 0

TtlOf(db, k) == IF Exists(db, k) THEN db[k].ttl ELSE NoExpiry

\* INCR keeps the time to live of a counter that exists, and creates one
\* that never expires when it does not.
Incr(db, k) == [db EXCEPT ![k] = Entry(Counter(db, k) + 1, TtlOf(db, k))]

Expire(db, k, t) == IF Exists(db, k) THEN SetEx(db, k, db[k].val, t) ELSE db

\* An entry one tick later.
Aged(e) ==
  IF e.ttl \in {0, NoExpiry} THEN e
  ELSE IF e.ttl = 1 THEN Absent
  ELSE Entry(e.val, e.ttl - 1)

Elapse(db) == [k \in DOMAIN db |-> Aged(db[k])]
=============================================================================
