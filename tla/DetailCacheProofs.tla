-------------------------- MODULE DetailCacheProofs --------------------------
(***************************************************************************)
(* Proofs about DetailCache, for every number of calls, time to live,      *)
(* number of writes and number of faults.                                  *)
(***************************************************************************)
EXTENDS DetailCache, FiniteSetTheorems, TLAPS

DetailOf(x) == IF x = "job" THEN JobView ELSE Company

Entry2 == {Absent} \cup [val: View, ttl: 1..DetailTtl]

-----------------------------------------------------------------------------
(* Entries                                                                 *)

\* An entry is there with a detail, or it is not there.
LEMMA EntryShape ==
  ASSUME TypeOK, NEW x \in Resource
  PROVE  /\ redis[x] \in Entry2
         /\ Exists(redis, x) => redis[x].val \in View /\ redis[x].ttl \in 1..DetailTtl
         /\ ~Exists(redis, x) => redis[x] = Absent
  BY DetailTtlAssumption DEF TypeOK, Exists, Absent, Entry2

LEMMA SetShape ==
  ASSUME TypeOK, NEW x \in Resource, NEW v \in View
  PROVE  /\ SetEx(redis, x, v, DetailTtl) \in [Resource -> Entry2]
         /\ SetEx(redis, x, v, DetailTtl)[x].val = v
         /\ Exists(SetEx(redis, x, v, DetailTtl), x)
         /\ \A y \in Resource \ {x} : SetEx(redis, x, v, DetailTtl)[y] = redis[y]
<1>1. Entry(v, DetailTtl) \in Entry2
  BY DetailTtlAssumption DEF Entry, Entry2
<1>2. SetEx(redis, x, v, DetailTtl) = [redis EXCEPT ![x] = Entry(v, DetailTtl)]
  BY DEF SetEx
<1>3. SetEx(redis, x, v, DetailTtl)[x] = Entry(v, DetailTtl)
  BY <1>2 DEF TypeOK
<1>4. \A y \in Resource \ {x} : SetEx(redis, x, v, DetailTtl)[y] = redis[y]
  BY <1>2 DEF TypeOK
<1>5. SetEx(redis, x, v, DetailTtl) \in [Resource -> Entry2]
  BY <1>1, <1>2 DEF TypeOK, Entry2
<1> QED BY <1>3, <1>4, <1>5, DetailTtlAssumption DEF Exists, Entry

LEMMA DelShape ==
  ASSUME TypeOK, NEW x \in Resource
  PROVE  /\ Del(redis, x) \in [Resource -> Entry2]
         /\ ~Exists(Del(redis, x), x)
         /\ \A y \in Resource \ {x} : Del(redis, x)[y] = redis[y]
<1>1. Del(redis, x) = [redis EXCEPT ![x] = Absent]
  BY DEF Del
<1>2. Del(redis, x)[x] = Absent /\ \A y \in Resource \ {x} : Del(redis, x)[y] = redis[y]
  BY <1>1 DEF TypeOK
<1>3. Del(redis, x) \in [Resource -> Entry2]
  BY <1>1 DEF TypeOK, Entry2
<1> QED BY <1>2, <1>3 DEF Exists, Absent

\* Time only removes entries.
LEMMA ElapseShape ==
  ASSUME TypeOK
  PROVE  /\ Elapse(redis) \in [Resource -> Entry2]
         /\ \A x \in Resource : Exists(Elapse(redis), x) =>
              /\ Exists(redis, x) /\ Elapse(redis)[x].val = redis[x].val
              /\ Elapse(redis)[x].ttl = redis[x].ttl - 1
<1>1. ASSUME NEW x \in Resource
      PROVE  /\ Aged(redis[x]) \in Entry2
             /\ Aged(redis[x]).ttl # 0 =>
                  /\ redis[x].ttl # 0 /\ Aged(redis[x]).val = redis[x].val
                  /\ Aged(redis[x]).ttl = redis[x].ttl - 1
  <2>1. CASE redis[x] = Absent
    BY <2>1 DEF Aged, Absent, Entry2
  <2>2. CASE redis[x].ttl = 1
    BY <2>2 DEF Aged, Absent, Entry2, NoExpiry
  <2>3. CASE redis[x] \in [val: View, ttl: 1..DetailTtl] /\ redis[x].ttl # 1
    <3>1. Aged(redis[x]) = Entry(redis[x].val, redis[x].ttl - 1)
      BY <2>3, DetailTtlAssumption DEF Aged, NoExpiry
    <3>2. redis[x].ttl - 1 \in 1..DetailTtl
      BY <2>3, DetailTtlAssumption
    <3> QED BY <2>3, <3>1, <3>2 DEF Entry, Entry2
  <2> QED BY <2>1, <2>2, <2>3, EntryShape DEF Entry2
<1>2. DOMAIN redis = Resource
  BY DEF TypeOK
<1> QED BY <1>1, <1>2 DEF Elapse, Exists

-----------------------------------------------------------------------------
(* Details                                                                 *)

LEMMA ViewShape ==
  ASSUME NEW j \in Nat \cup {Gone}, NEW c \in Company \cup {Gone}, NEW x \in Resource
  PROVE  ViewOf(x, j, c) \in DetailOf(x) \cup {Gone}
  BY GoneAssumption DEF ViewOf, DetailOf, Resource, JobView

LEMMA CallShape ==
  ASSUME TypeOK, NEW r \in Req, call[r].at # "idle"
  PROVE  /\ call[r] \in Call /\ call[r].on \in Resource
         /\ call[r].at \in {"populate", "set"} =>
              call[r].seen \in DetailOf(call[r].on) /\ call[r].seen \in View
         /\ call[r].at = "populate" => call[r].on = "job"
         /\ call[r].at \in {"find", "populate", "set", "write", "del"}
  BY DEF TypeOK, Call, Idle, DetailOf, Resource, View

\* The calls that begin, and those that have read a detail.
LEMMA NewCallShape ==
  ASSUME NEW x \in Resource
  PROVE  /\ [at |-> "find", on |-> x, seen |-> Gone, op |-> "get"] \in Call
         /\ \A op \in {"update", "delete"} :
              [at |-> "write", on |-> x, seen |-> Gone, op |-> op] \in Call
         /\ \A v \in DetailOf(x) : [at |-> "set", on |-> x, seen |-> v, op |-> "get"] \in Call
         /\ x = "job" => \A v \in DetailOf(x) :
              [at |-> "populate", on |-> x, seen |-> v, op |-> "get"] \in Call
  BY DEF Call, DetailOf, View, Resource

LEMMA WrittenCall ==
  ASSUME NEW c \in Call, c.at = "write"
  PROVE  /\ [c EXCEPT !.at = "del"] \in Call
         /\ [c EXCEPT !.at = "del"].at = "del" /\ [c EXCEPT !.at = "del"].on = c.on
  BY DEF Call

LEMMA ReplaceCall ==
  ASSUME TypeOK, NEW r \in Req, NEW c \in Call \cup {Idle},
         call' = [call EXCEPT ![r] = c]
  PROVE  /\ call' \in [Req -> Call \cup {Idle}]
         /\ call'[r] = c
         /\ \A q \in Req \ {r} : call'[q] = call[q]
  BY DEF TypeOK

LEMMA IdleShape == Idle.at = "idle"
  BY DEF Idle
-----------------------------------------------------------------------------
(* The steps                                                               *)

\* The writers that delete no key.
SilentWrite == CreateJob \/ ModifyJobAdmin \/ DeleteJobAdmin \/ ModerateCompany \/ AddFounder

LEMMA TypeInit == Init => TypeOK
<1> SUFFICES ASSUME Init PROVE TypeOK
  OBVIOUS
<1>1. company \in Company
  BY DEF Init, Company
<1>2. redis \in [Resource -> Entry2] /\ call \in [Req -> Call \cup {Idle}]
  BY DEF Init, Entry2
<1>3. since \in 0..DetailTtl /\ late \in [Resource -> Nat]
  BY DetailTtlAssumption DEF Init
<1> QED BY <1>1, <1>2, <1>3 DEF Init, TypeOK, Entry2

\* Commands counts faults.
LEMMA FaultsType ==
  ASSUME TypeOK, NEW o \in Outcome, Commands(o)
  PROVE  faults' \in Nat
  BY DEF TypeOK, Commands

\* What a miss or the start of a mutation changes: one call, which becomes one
\* that has read nothing.
LEMMA BeginStep ==
  ASSUME TypeOK, NEW r \in Req, GetMiss(r) \/ MutateFind(r)
  PROVE  /\ UNCHANGED <<db, redis, history>> /\ faults' \in Nat
         /\ call' \in [Req -> Call \cup {Idle}]
         /\ call[r].at = "idle" /\ call'[r].at \notin {"populate", "set"}
         /\ \A q \in Req \ {r} : call'[q] = call[q]
<1>1. CASE GetMiss(r)
  <2>1. PICK x \in Resource, o \in Outcome :
          /\ Commands(o)
          /\ call' = [call EXCEPT ![r] = [at |-> "find", on |-> x, seen |-> Gone, op |-> "get"]]
    BY <1>1 DEF GetMiss
  <2>2. [at |-> "find", on |-> x, seen |-> Gone, op |-> "get"] \in Call
    BY NewCallShape
  <2> QED BY <1>1, <2>1, <2>2, ReplaceCall, FaultsType DEF GetMiss
<1>2. CASE MutateFind(r)
  <2>1. PICK x \in Resource, op \in {"update", "delete"} :
          call' = [call EXCEPT ![r] = [at |-> "write", on |-> x, seen |-> Gone, op |-> op]]
    BY <1>2 DEF MutateFind
  <2>2. [at |-> "write", on |-> x, seen |-> Gone, op |-> op] \in Call
    BY NewCallShape
  <2> QED BY <1>2, <2>1, <2>2, ReplaceCall DEF MutateFind, TypeOK
<1> QED BY <1>1, <1>2

\* What a fill has read is stored only if it may be shown.
LEMMA ReadsStep ==
  ASSUME TypeOK, NEW r \in Req, NEW v, Reads(r, v), call[r].on \in Resource,
         v \in DetailOf(call[r].on) \cup {Gone}, v # Gone => CompanyIn(call[r].on, v) = company
  PROVE  /\ call' \in [Req -> Call \cup {Idle}]
         /\ call'[r].at # "populate"
         /\ call'[r].at = "set" =>
              ~IsBlocked(company) /\ call'[r].seen = v /\ call'[r].on = call[r].on
         /\ \A q \in Req \ {r} : call'[q] = call[q]
<1> DEFINE c == [at |-> "set", on |-> call[r].on, seen |-> v, op |-> "get"]
<1>1. CASE Shown(call[r].on, v)
  <2>1. c \in Call
    BY <1>1, NewCallShape DEF Shown
  <2>2. call' = [call EXCEPT ![r] = c]
    BY <1>1 DEF Reads
  <2> QED BY <1>1, <2>1, <2>2, ReplaceCall DEF Shown
<1>2. CASE ~Shown(call[r].on, v)
  BY <1>2, ReplaceCall, IdleShape DEF Reads
<1> QED BY <1>1, <1>2

\* A fill reads the details as they are, the company of a job after the job, and
\* goes on only if the company was not blocked.
LEMMA FindStep ==
  ASSUME TypeOK, NEW r \in Req, GetFind(r) \/ GetPopulate(r)
  PROVE  /\ UNCHANGED <<db, redis, faults, history>>
         /\ call' \in [Req -> Call \cup {Idle}]
         /\ call[r].at \in {"find", "populate"}
         /\ call'[r].at = "set" => ~IsBlocked(company)
         /\ call'[r].at = "set" =>
              \/ call[r].at = "find" /\ call'[r].seen = Current(call'[r].on)
              \/ /\ call[r].at = "populate" /\ call'[r].on = call[r].on
                 /\ call'[r].seen = [job |-> call[r].seen.job, company |-> company]
         /\ call'[r].at = "populate" =>
              call'[r].on = "job" /\ call'[r].seen.job = job /\ job \notin {0, Gone}
         /\ \A q \in Req \ {r} : call'[q] = call[q]
<1>1. call[r].on \in Resource /\ call[r].at \in {"find", "populate"}
  BY CallShape DEF GetFind, GetPopulate
<1>2. UNCHANGED <<db, redis, faults, history>>
  BY DEF GetFind, GetPopulate
<1>3. CASE GetFind(r) /\ call[r].on = "company"
  <2>1. Reads(r, company) /\ call[r].at = "find" /\ company = Current("company")
    BY <1>3 DEF GetFind, Current, ViewOf
  <2>2. company \in DetailOf("company") \cup {Gone} /\ CompanyIn("company", company) = company
    BY DEF TypeOK, DetailOf, CompanyIn
  <2> QED BY <1>1, <1>2, <1>3, <2>1, <2>2, ReadsStep
<1>4. CASE GetFind(r) /\ call[r].on # "company"
  <2> DEFINE c == [at |-> "populate", on |-> "job",
                   seen |-> [job |-> job, company |-> Gone], op |-> "get"]
  <2>1. CASE job \in {0, Gone}
    BY <1>1, <1>2, <1>4, <2>1, ReplaceCall, IdleShape DEF GetFind
  <2>2. CASE job \notin {0, Gone}
    <3>1. [job |-> job, company |-> Gone] \in DetailOf("job") /\ "job" \in Resource
      BY <2>2 DEF TypeOK, DetailOf, JobView, Resource
    <3>2. c \in Call
      BY <3>1, NewCallShape
    <3>3. call' = [call EXCEPT ![r] = c]
      BY <1>4, <2>2 DEF GetFind
    <3> QED BY <1>1, <1>2, <2>2, <3>2, <3>3, ReplaceCall
  <2> QED BY <2>1, <2>2
<1>5. CASE GetPopulate(r)
  <2> DEFINE v == [job |-> call[r].seen.job, company |-> company]
  <2>1. call[r].at = "populate" /\ Reads(r, v)
    BY <1>5 DEF GetPopulate
  <2>2. call[r].on = "job" /\ call[r].seen \in JobView
    BY <2>1, CallShape DEF DetailOf
  <2>3. v \in DetailOf("job") /\ CompanyIn("job", v) = company
    BY <2>2 DEF TypeOK, DetailOf, CompanyIn, JobView
  <2>4. /\ call' \in [Req -> Call \cup {Idle}]
        /\ call'[r].at # "populate"
        /\ call'[r].at = "set" =>
             ~IsBlocked(company) /\ call'[r].seen = v /\ call'[r].on = call[r].on
        /\ \A q \in Req \ {r} : call'[q] = call[q]
    BY <1>1, <2>1, <2>2, <2>3, ReadsStep
  <2> QED BY <1>1, <1>2, <2>1, <2>4
<1> QED BY <1>3, <1>4, <1>5

\* While the company is blocked, a fill that stores is counted.
LEMMA SetLate ==
  ASSUME TypeOK, NEW r \in Req, GetSet(r)
  PROVE  /\ since' = since
         /\ late' = late \/ late' = [late EXCEPT ![call[r].on] = @ + 1]
         /\ (IsBlocked(company) /\ late' = late) => redis' = redis
<1>1. PICK o \in Outcome :
        /\ redis' = After(o, redis, SetEx(redis, call[r].on, call[r].seen, DetailTtl))
        /\ late' = IF o # "skipped" /\ IsBlocked(company)
                   THEN [late EXCEPT ![call[r].on] = @ + 1] ELSE late
  BY DEF GetSet
<1>2. call[r].on \in Resource
  BY CallShape DEF GetSet
<1>3. ASSUME late' = [late EXCEPT ![call[r].on] = @ + 1] PROVE late' # late
  <2>1. late'[call[r].on] = late[call[r].on] + 1 /\ late[call[r].on] \in Nat
    BY <1>2, <1>3 DEF TypeOK
  <2> QED BY <2>1
<1> QED BY <1>1, <1>3 DEF GetSet, After

\* A fill leaves the detail it read in the cache, or the cache as it was.
LEMMA SetStep ==
  ASSUME TypeOK, NEW r \in Req, GetSet(r)
  PROVE  /\ UNCHANGED db /\ faults' \in Nat
         /\ call[r].at = "set" /\ call[r].on \in Resource
         /\ redis' \in [Resource -> Entry2]
         /\ call' \in [Req -> Call \cup {Idle}]
         /\ call'[r] = Idle /\ \A q \in Req \ {r} : call'[q] = call[q]
         /\ \A y \in Resource \ {call[r].on} :
              /\ redis'[y] = redis[y]
              /\ y \in raced \cup silent \cup failed => y \in (raced \cup silent \cup failed)'
         /\ \/ UNCHANGED <<redis, accidents>>
            \/ /\ Exists(redis', call[r].on)
               /\ redis'[call[r].on].val = call[r].seen
               /\ call[r].seen # Current(call[r].on) => call[r].on \in raced'
         /\ (raced \cup silent \cup failed)' \subseteq Resource
         /\ since' = since /\ late' \in [Resource -> Nat]
<1> DEFINE x == call[r].on
           db2 == SetEx(redis, x, call[r].seen, DetailTtl)
<1>1. PICK o \in Outcome :
        /\ call[r].at = "set" /\ Commands(o)
        /\ redis' = After(o, redis, db2)
        /\ call' = [call EXCEPT ![r] = Idle]
        /\ CASE o = "skipped" -> UNCHANGED accidents
             [] o # "skipped" /\ call[r].seen # Current(x) ->
                  raced' = raced \cup {x} /\ UNCHANGED <<silent, failed>>
             [] o # "skipped" /\ call[r].seen = Current(x) -> Forgiven(x)
        /\ UNCHANGED <<db, since>>
  BY DEF GetSet
<1>l. late' \in [Resource -> Nat]
  <2>1. call[r].on \in Resource
    BY <1>1, CallShape
  <2> QED BY <2>1, SetLate DEF TypeOK
<1>2. x \in Resource /\ call[r].seen \in View
  BY <1>1, CallShape
<1>3. /\ db2 \in [Resource -> Entry2] /\ db2[x].val = call[r].seen /\ Exists(db2, x)
      /\ \A y \in Resource \ {x} : db2[y] = redis[y]
  BY <1>2, SetShape
<1>4. /\ call' \in [Req -> Call \cup {Idle}] /\ call'[r] = Idle
      /\ \A q \in Req \ {r} : call'[q] = call[q]
  BY <1>1, ReplaceCall
<1>5. faults' \in Nat
  BY <1>1, FaultsType
<1>6. CASE o = "skipped"
  <2>1. redis' = redis /\ UNCHANGED accidents
    BY <1>1, <1>6 DEF After
  <2> QED BY <1>l, <1>1, <1>2, <1>4, <1>5, <2>1 DEF accidents, TypeOK, Entry2
<1>7. CASE o # "skipped"
  <2>1. redis' = db2
    BY <1>1, <1>7 DEF After
  <2>2. CASE call[r].seen # Current(x)
    <3>1. raced' = raced \cup {x} /\ UNCHANGED <<silent, failed>>
      BY <1>1, <1>7, <2>2
    <3> QED BY <1>l, <1>1, <1>2, <1>3, <1>4, <1>5, <2>1, <3>1 DEF TypeOK
  <2>3. CASE call[r].seen = Current(x)
    <3>1. /\ raced' = raced \ {x} /\ silent' = silent \ {x} /\ failed' = failed \ {x}
      BY <1>1, <1>7, <2>3 DEF Forgiven
    <3> QED BY <1>l, <1>1, <1>2, <1>3, <1>4, <1>5, <2>1, <2>3, <3>1 DEF TypeOK
  <2> QED BY <2>2, <2>3
<1> QED BY <1>6, <1>7

\* A deletion of a key leaves no entry, or records that it failed.
LEMMA DelStep ==
  ASSUME TypeOK, NEW r \in Req, MutateDel(r)
  PROVE  /\ UNCHANGED <<db, block>> /\ faults' \in Nat
         /\ call[r].at = "del" /\ call[r].on \in Resource
         /\ redis' \in [Resource -> Entry2]
         /\ call' \in [Req -> Call \cup {Idle}]
         /\ call'[r] = Idle /\ \A q \in Req \ {r} : call'[q] = call[q]
         /\ \A y \in Resource \ {call[r].on} :
              /\ redis'[y] = redis[y]
              /\ y \in raced \cup silent \cup failed => y \in (raced \cup silent \cup failed)'
         /\ \/ redis' = redis /\ call[r].on \in failed'
            \/ ~Exists(redis', call[r].on)
         /\ (raced \cup silent \cup failed)' \subseteq Resource
<1> DEFINE x == call[r].on
<1>1. PICK o \in Outcome :
        /\ call[r].at = "del" /\ Commands(o)
        /\ redis' = After(o, redis, Del(redis, x))
        /\ call' = [call EXCEPT ![r] = Idle]
        /\ IF o = "skipped" THEN failed' = failed \cup {x} /\ UNCHANGED <<raced, silent>>
           ELSE Forgiven(x)
        /\ UNCHANGED <<db, block>>
  BY DEF MutateDel
<1>2. x \in Resource
  BY <1>1, CallShape
<1>3. /\ Del(redis, x) \in [Resource -> Entry2] /\ ~Exists(Del(redis, x), x)
      /\ \A y \in Resource \ {x} : Del(redis, x)[y] = redis[y]
  BY <1>2, DelShape
<1>4. /\ call' \in [Req -> Call \cup {Idle}] /\ call'[r] = Idle
      /\ \A q \in Req \ {r} : call'[q] = call[q]
  BY <1>1, ReplaceCall
<1>5. faults' \in Nat
  BY <1>1, FaultsType
<1>6. CASE o = "skipped"
  <2>1. redis' = redis /\ failed' = failed \cup {x} /\ UNCHANGED <<raced, silent>>
    BY <1>1, <1>6 DEF After
  <2> QED BY <1>1, <1>2, <1>4, <1>5, <2>1 DEF TypeOK, Entry2
<1>7. CASE o # "skipped"
  <2>1. redis' = Del(redis, x)
    BY <1>1, <1>7 DEF After
  <2>2. /\ raced' = raced \ {x} /\ silent' = silent \ {x} /\ failed' = failed \ {x}
    BY <1>1, <1>7 DEF Forgiven
  <2> QED BY <1>1, <1>2, <1>3, <1>4, <1>5, <2>1, <2>2 DEF TypeOK
<1> QED BY <1>6, <1>7

\* What a write does to the record of the block: a change of it starts it anew.
BlockChange ==
  IF IsBlocked(company') = IsBlocked(company) THEN UNCHANGED block
  ELSE since' = 0 /\ late' = [x \in Resource |-> 0]

LEMMA BlockChangeType ==
  ASSUME TypeOK, BlockChange
  PROVE  since' \in 0..DetailTtl /\ late' \in [Resource -> Nat]
  BY DetailTtlAssumption DEF TypeOK, BlockChange, block

\* A change of the database makes stale only what the writer will delete, and
\* what it is recorded not to.
LEMMA ChangesStep ==
  ASSUME TypeOK, NEW j \in Nat \cup {Gone}, NEW c \in Company \cup {Gone},
         NEW keys \in SUBSET Resource, Changes(j, c, keys), redis' = redis
  PROVE  /\ job' \in Nat \cup {Gone} /\ company' \in Company \cup {Gone} /\ writes' \in Nat
         /\ silent \subseteq silent' /\ silent' \subseteq Resource
         /\ UNCHANGED <<raced, failed>> /\ BlockChange
         /\ \A x \in Resource : Stale(x)' => Stale(x) \/ x \in keys \/ x \in silent'
<1>1. /\ job' = j /\ company' = c /\ writes' = writes + 1
      /\ silent' = silent \cup {x \in Resource \ keys : ViewOf(x, j, c) # Current(x)}
      /\ UNCHANGED <<raced, failed>>
  BY DEF Changes
<1>2. \A x \in Resource : Current(x)' = ViewOf(x, j, c)
  BY <1>1 DEF Current
<1>3. BlockChange
  BY DEF Changes, BlockChange
<1> QED BY <1>1, <1>2, <1>3 DEF TypeOK, Stale
\* A write by a use case, whose call goes on to delete the key.
LEMMA MutateStep ==
  ASSUME TypeOK, NEW r \in Req, MutateWrite(r)
  PROVE  /\ UNCHANGED <<redis, faults, raced, failed>>
         /\ BlockChange /\ job' \in Nat \cup {Gone} /\ company' \in Company \cup {Gone} /\ writes' \in Nat
         /\ silent \subseteq silent' /\ silent' \subseteq Resource
         /\ call' \in [Req -> Call \cup {Idle}]
         /\ call[r].at = "write" /\ call'[r].at = "del" /\ call'[r].on = call[r].on
         /\ \A q \in Req \ {r} : call'[q] = call[q]
         /\ \A x \in Resource : Stale(x)' => Stale(x) \/ x = call[r].on \/ x \in silent'
<1> DEFINE x == call[r].on
           db2 == IF call[r].op = "update" THEN Updated(x) ELSE Deleted(x)
<1>1. /\ call[r].at = "write" /\ Changes(db2[1], db2[2], {x})
      /\ UNCHANGED <<redis, faults>>
  BY DEF MutateWrite
<1>2. call[r] \in Call /\ x \in Resource
  BY <1>1, CallShape
<1>3. db2[1] \in Nat \cup {Gone}
  BY DEF TypeOK, Updated, Deleted
<1>4. db2[2] \in Company \cup {Gone}
  BY DEF TypeOK, Updated, Deleted, Company
<1>5. call' = [call EXCEPT ![r] = [call[r] EXCEPT !.at = "del"]]
  BY <1>2 DEF MutateWrite, TypeOK
<1>6. /\ call' \in [Req -> Call \cup {Idle}]
      /\ call'[r].at = "del" /\ call'[r].on = x
      /\ \A q \in Req \ {r} : call'[q] = call[q]
  BY <1>1, <1>2, <1>5, WrittenCall, ReplaceCall
<1>7. {x} \in SUBSET Resource /\ redis' = redis
  BY <1>1, <1>2
<1>8. /\ job' \in Nat \cup {Gone} /\ company' \in Company \cup {Gone} /\ writes' \in Nat
      /\ silent \subseteq silent' /\ silent' \subseteq Resource
      /\ UNCHANGED <<raced, failed>> /\ BlockChange
      /\ \A y \in Resource : Stale(y)' => Stale(y) \/ y \in {x} \/ y \in silent'
  BY <1>1, <1>3, <1>4, <1>7, ChangesStep
<1> QED BY <1>1, <1>6, <1>8

LEMMA SilentStep ==
  ASSUME TypeOK, SilentWrite
  PROVE  /\ UNCHANGED <<redis, call, faults, raced, failed>>
         /\ BlockChange /\ job' \in Nat \cup {Gone} /\ company' \in Company \cup {Gone} /\ writes' \in Nat
         /\ silent \subseteq silent' /\ silent' \subseteq Resource
         /\ \A x \in Resource : Stale(x)' => Stale(x) \/ x \in silent'
<1>1. UNCHANGED <<redis, call, faults>>
  BY DEF SilentWrite, CreateJob, ModifyJobAdmin, DeleteJobAdmin, ModerateCompany, AddFounder
<1>2. PICK j \in Nat \cup {Gone}, c \in Company \cup {Gone} : Changes(j, c, {})
  <2>1. writes + 1 \in Nat
    BY DEF TypeOK
  <2>2. CASE CreateJob \/ ModifyJobAdmin \/ DeleteJobAdmin
    BY <2>1, <2>2 DEF TypeOK, CreateJob, ModifyJobAdmin, DeleteJobAdmin
  <2>3. CASE ModerateCompany
    <3>1. company \in Company
      BY <2>3 DEF ModerateCompany, TypeOK
    <3>2. \A b \in BOOLEAN : [company EXCEPT !.blocked = b] \in Company
      BY <3>1 DEF Company
    <3> QED BY <2>3, <3>2 DEF ModerateCompany, TypeOK
  <2>4. CASE AddFounder
    <3>1. [company EXCEPT !.content = writes + 1] \in Company
      BY <2>1, <2>4 DEF AddFounder, TypeOK, Company
    <3> QED BY <2>4, <3>1 DEF AddFounder, TypeOK
  <2> QED BY <2>2, <2>3, <2>4 DEF SilentWrite
<1>3. {} \in SUBSET Resource /\ redis' = redis
  BY <1>1
<1>4. /\ job' \in Nat \cup {Gone} /\ company' \in Company \cup {Gone} /\ writes' \in Nat
      /\ silent \subseteq silent' /\ silent' \subseteq Resource
      /\ UNCHANGED <<raced, failed>> /\ BlockChange
      /\ \A y \in Resource : Stale(y)' => Stale(y) \/ y \in {} \/ y \in silent'
  BY <1>2, <1>3, ChangesStep
<1> QED BY <1>1, <1>4

LEMMA CrashStep ==
  ASSUME TypeOK, Crash
  PROVE  /\ UNCHANGED <<db, redis, faults, raced, silent, block>>
         /\ \A r \in Req : call'[r] = Idle
         /\ call' \in [Req -> Call \cup {Idle}]
         /\ failed \subseteq failed' /\ failed' \subseteq Resource
         /\ \A r \in Req : call[r].at = "del" => call[r].on \in failed'
<1>1. \A r \in Req : call[r].at = "del" => call[r].on \in Resource
  BY CallShape
<1> QED BY <1>1 DEF Crash, TypeOK

-----------------------------------------------------------------------------
(* The invariant                                                           *)

LEMMA TypeStep == TypeOK /\ [Next]_vars => TypeOK'
<1> SUFFICES ASSUME TypeOK, [Next]_vars PROVE TypeOK'
  OBVIOUS
<1>1. ASSUME NEW r \in Req, GetMiss(r) \/ MutateFind(r) PROVE TypeOK'
  <2>1. UNCHANGED <<db, redis, history>> /\ faults' \in Nat /\ call' \in [Req -> Call \cup {Idle}]
    BY <1>1, BeginStep
  <2> QED BY <2>1 DEF TypeOK, db, history, accidents, block
<1>2. ASSUME NEW r \in Req, GetFind(r) \/ GetPopulate(r) PROVE TypeOK'
  <2>1. UNCHANGED <<db, redis, faults, history>> /\ call' \in [Req -> Call \cup {Idle}]
    BY <1>2, FindStep
  <2> QED BY <2>1 DEF TypeOK, db, history, accidents, block
<1>3. ASSUME NEW r \in Req, GetSet(r) PROVE TypeOK'
  <2>1. /\ UNCHANGED db /\ faults' \in Nat /\ redis' \in [Resource -> Entry2]
        /\ call' \in [Req -> Call \cup {Idle}]
        /\ (raced \cup silent \cup failed)' \subseteq Resource
        /\ since' = since /\ late' \in [Resource -> Nat]
    BY <1>3, SetStep
  <2> QED BY <2>1 DEF TypeOK, db, Entry2
<1>4. ASSUME NEW r \in Req, MutateDel(r) PROVE TypeOK'
  <2>1. /\ UNCHANGED <<db, block>> /\ faults' \in Nat /\ redis' \in [Resource -> Entry2]
        /\ call' \in [Req -> Call \cup {Idle}]
        /\ (raced \cup silent \cup failed)' \subseteq Resource
    BY <1>4, DelStep
  <2> QED BY <2>1 DEF TypeOK, db, block, Entry2
<1>5. ASSUME NEW r \in Req, MutateWrite(r) PROVE TypeOK'
  <2>1. /\ UNCHANGED <<redis, faults, raced, failed>>
        /\ job' \in Nat \cup {Gone} /\ company' \in Company \cup {Gone} /\ writes' \in Nat
        /\ silent' \subseteq Resource /\ call' \in [Req -> Call \cup {Idle}]
        /\ BlockChange
    BY <1>5, MutateStep
  <2> QED BY <2>1, BlockChangeType DEF TypeOK
<1>6. CASE SilentWrite
  <2>1. /\ UNCHANGED <<redis, call, faults, raced, failed>>
        /\ job' \in Nat \cup {Gone} /\ company' \in Company \cup {Gone} /\ writes' \in Nat
        /\ silent' \subseteq Resource /\ BlockChange
    BY <1>6, SilentStep
  <2> QED BY <2>1, BlockChangeType DEF TypeOK
<1>7. CASE Tick
  <2>1. redis' \in [Resource -> Entry2]
    BY <1>7, ElapseShape DEF Tick
  <2>2. since' \in 0..DetailTtl
    BY <1>7, DetailTtlAssumption DEF Tick, TypeOK
  <2> QED BY <1>7, <2>1, <2>2 DEF Tick, TypeOK, db, history, accidents, block, Entry2
<1>8. CASE Crash
  <2>1. /\ UNCHANGED <<db, redis, faults, raced, silent, block>>
        /\ call' \in [Req -> Call \cup {Idle}] /\ failed' \subseteq Resource
    BY <1>8, CrashStep
  <2> QED BY <2>1 DEF TypeOK, db, block
<1>9. CASE UNCHANGED vars
  BY <1>9 DEF TypeOK, vars, db, history, accidents, block
<1>10. ASSUME NEW r \in Req, GetHit(r) PROVE TypeOK'
  BY <1>9, <1>10 DEF GetHit
<1> QED BY <1>1, <1>2, <1>3, <1>4, <1>5, <1>6, <1>7, <1>8, <1>9, <1>10
  DEF Next, Proceed, SilentWrite

\* A step that changes neither the documents nor the cache, and under which no
\* pending deletion and no excuse goes away, keeps what is stale explained.
LEMMA StillExplained ==
  ASSUME StaleExplained, UNCHANGED <<db, redis>>,
         raced \cup silent \cup failed \subseteq (raced \cup silent \cup failed)',
         \A r \in Req : call[r].at = "del" =>
           \/ call'[r].at = "del" /\ call'[r].on = call[r].on
           \/ call[r].on \in failed'
  PROVE  StaleExplained'
<1>1. \A x \in Resource : Stale(x)' <=> Stale(x)
  BY DEF Stale, Current, db
<1> QED BY <1>1 DEF StaleExplained

LEMMA InvInit == Init => CacheInv
<1> SUFFICES ASSUME Init PROVE CacheInv
  OBVIOUS
<1>1. \A x \in Resource : ~Exists(redis, x)
  BY DEF Init, Exists, Absent
<1>2. \A r \in Req : call[r] = Idle
  BY DEF Init
<1> QED BY <1>1, <1>2, TypeInit, IdleShape
  DEF CacheInv, StaleExplained, Stale

LEMMA ReadStep ==
  ASSUME CacheInv, NEW r \in Req, GetMiss(r) \/ MutateFind(r) \/ GetFind(r) \/ GetPopulate(r)
  PROVE  StaleExplained'
<1>1. /\ UNCHANGED <<db, redis, history>>
      /\ call[r].at # "del"
      /\ \A q \in Req \ {r} : call'[q] = call[q]
  BY BeginStep, FindStep DEF CacheInv
<1> QED BY <1>1, StillExplained DEF CacheInv, history, accidents, block

LEMMA FillStep ==
  ASSUME CacheInv, NEW r \in Req, GetSet(r)
  PROVE  StaleExplained'
<1> DEFINE x == call[r].on
<1>1. /\ UNCHANGED db
      /\ call[r].at = "set" /\ x \in Resource
      /\ call'[r] = Idle /\ \A q \in Req \ {r} : call'[q] = call[q]
      /\ \A y \in Resource \ {x} :
           /\ redis'[y] = redis[y]
           /\ y \in raced \cup silent \cup failed => y \in (raced \cup silent \cup failed)'
      /\ \/ UNCHANGED <<redis, accidents>>
         \/ /\ Exists(redis', x) /\ redis'[x].val = call[r].seen
            /\ call[r].seen # Current(x) => x \in raced'
  BY SetStep DEF CacheInv
<1>2. \A y \in Resource : Current(y)' = Current(y)
  BY <1>1 DEF Current, db
<1>3. ASSUME NEW y \in Resource, Stale(y)'
      PROVE  \/ \E q \in Req : call'[q].at = "del" /\ call'[q].on = y
             \/ y \in (raced \cup silent \cup failed)'
  <2>1. CASE y # x \/ UNCHANGED <<redis, accidents>>
    <3>1. Stale(y)
      BY <1>1, <1>2, <1>3, <2>1 DEF Stale, Exists
    <3>2. \/ \E q \in Req : call[q].at = "del" /\ call[q].on = y
          \/ y \in raced \cup silent \cup failed
      BY <3>1 DEF CacheInv, StaleExplained
    <3> QED BY <1>1, <2>1, <3>2 DEF accidents
  <2>2. CASE y = x /\ ~UNCHANGED <<redis, accidents>>
    BY <1>1, <1>2, <1>3, <2>2 DEF Stale
  <2> QED BY <2>1, <2>2
<1> QED BY <1>3 DEF StaleExplained

LEMMA DropStep ==
  ASSUME CacheInv, NEW r \in Req, MutateDel(r)
  PROVE  StaleExplained'
<1> DEFINE x == call[r].on
<1>1. /\ UNCHANGED db
      /\ call[r].at = "del" /\ x \in Resource
      /\ call'[r] = Idle /\ \A q \in Req \ {r} : call'[q] = call[q]
      /\ \A y \in Resource \ {x} :
           /\ redis'[y] = redis[y]
           /\ y \in raced \cup silent \cup failed => y \in (raced \cup silent \cup failed)'
      /\ \/ redis' = redis /\ x \in failed'
         \/ ~Exists(redis', x)
  BY DelStep DEF CacheInv
<1>2. \A y \in Resource : Current(y)' = Current(y)
  BY <1>1 DEF Current, db
<1>3. ASSUME NEW y \in Resource, Stale(y)'
      PROVE  \/ \E q \in Req : call'[q].at = "del" /\ call'[q].on = y
             \/ y \in (raced \cup silent \cup failed)'
  <2>1. CASE y # x
    <3>1. Stale(y)
      BY <1>1, <1>2, <1>3, <2>1 DEF Stale, Exists
    <3>2. \/ \E q \in Req : call[q].at = "del" /\ call[q].on = y
          \/ y \in raced \cup silent \cup failed
      BY <3>1 DEF CacheInv, StaleExplained
    <3> QED BY <1>1, <2>1, <3>2
  <2>2. CASE y = x
    BY <1>1, <1>3, <2>2 DEF Stale
  <2> QED BY <2>1, <2>2
<1> QED BY <1>3 DEF StaleExplained

LEMMA WriteStep ==
  ASSUME CacheInv, NEW r \in Req, MutateWrite(r)
  PROVE  StaleExplained'
<1>1. /\ UNCHANGED <<redis, raced, failed>> /\ silent \subseteq silent'
      /\ call[r].at = "write" /\ call'[r].at = "del" /\ call'[r].on = call[r].on
      /\ \A q \in Req \ {r} : call'[q] = call[q]
      /\ \A x \in Resource : Stale(x)' => Stale(x) \/ x = call[r].on \/ x \in silent'
  BY MutateStep DEF CacheInv
<1> QED BY <1>1 DEF CacheInv, StaleExplained

LEMMA InvStep == CacheInv /\ [Next]_vars => CacheInv'
<1> SUFFICES ASSUME CacheInv, [Next]_vars PROVE StaleExplained'
  BY TypeStep DEF CacheInv
<1>1. ASSUME NEW r \in Req, GetMiss(r) \/ MutateFind(r) \/ GetFind(r) \/ GetPopulate(r)
      PROVE  StaleExplained'
  BY <1>1, ReadStep
<1>2. ASSUME NEW r \in Req, GetSet(r)
      PROVE  StaleExplained'
  BY <1>2, FillStep
<1>3. ASSUME NEW r \in Req, MutateDel(r)
      PROVE  StaleExplained'
  BY <1>3, DropStep
<1>4. ASSUME NEW r \in Req, MutateWrite(r)
      PROVE  StaleExplained'
  BY <1>4, WriteStep
<1>5. CASE SilentWrite
  <2>1. /\ UNCHANGED <<redis, call, raced, failed>> /\ silent \subseteq silent'
        /\ \A x \in Resource : Stale(x)' => Stale(x) \/ x \in silent'
    BY <1>5, SilentStep DEF CacheInv
  <2>2. StaleExplained'
    BY <2>1 DEF CacheInv, StaleExplained
  <2> QED BY <2>1, <2>2 DEF CacheInv
<1>6. CASE Tick
  <2>1. /\ UNCHANGED <<db, call, accidents>>
        /\ \A x \in Resource : Exists(redis', x) =>
             Exists(redis, x) /\ redis'[x].val = redis[x].val
    BY <1>6, ElapseShape DEF Tick, CacheInv
  <2>2. \A x \in Resource : Stale(x)' => Stale(x)
    BY <2>1 DEF Stale, Current, db
  <2>3. StaleExplained'
    BY <2>1, <2>2 DEF CacheInv, StaleExplained, history, accidents, block
  <2> QED BY <2>1, <2>3 DEF CacheInv
<1>7. CASE Crash
  <2>1. /\ UNCHANGED <<db, redis, raced, silent>> /\ failed \subseteq failed'
        /\ \A r \in Req : call'[r] = Idle
        /\ \A r \in Req : call[r].at = "del" => call[r].on \in failed'
    BY <1>7, CrashStep DEF CacheInv
  <2>2. StaleExplained'
    BY <2>1, StillExplained DEF CacheInv
  <2> QED BY <2>1, <2>2, IdleShape DEF CacheInv
<1>8. CASE UNCHANGED vars
  <2>1. StaleExplained'
    BY <1>8, StillExplained DEF CacheInv, vars, db, history, accidents, block
  <2> QED BY <1>8, <2>1 DEF CacheInv, vars
<1>9. ASSUME NEW r \in Req, GetHit(r)
      PROVE  StaleExplained'
  BY <1>8, <1>9 DEF GetHit
<1> QED BY <1>1, <1>2, <1>3, <1>4, <1>5, <1>6, <1>7, <1>8, <1>9
  DEF Next, Proceed, SilentWrite

LEMMA Invariance == Spec => []CacheInv
  BY InvInit, InvStep, PTL DEF Spec

\* The documents, the cache and the calls keep the shape the code assumes;
\* every cached detail has a time to live within the limit.
THEOREM TypeCorrect == Spec => []TypeOK
<1>1. CacheInv => TypeOK
  BY DEF CacheInv
<1> QED BY <1>1, Invariance, PTL

\* A stale detail is about to be deleted, or one of three accidents left it.
THEOREM StalenessExplained == Spec => []StaleExplained
<1>1. CacheInv => StaleExplained
  BY DEF CacheInv
<1> QED BY <1>1, Invariance, PTL

\* No update brings a deleted document back.
THEOREM DeletedForGood == Spec => GoneStaysGone
<1>1. [Next]_vars => [(job = Gone => job' = Gone) /\ (company = Gone => company' = Gone)]_vars
  <2> SUFFICES ASSUME Next
               PROVE  (job = Gone => job' = Gone) /\ (company = Gone => company' = Gone)
    OBVIOUS
  <2>1. ASSUME NEW r \in Req, MutateWrite(r)
        PROVE  (job = Gone => job' = Gone) /\ (company = Gone => company' = Gone)
    BY <2>1 DEF MutateWrite, Changes, Updated, Deleted
  <2>2. CASE CreateJob
    BY <2>2, GoneAssumption DEF CreateJob, Changes
  <2>3. CASE ModifyJobAdmin \/ DeleteJobAdmin \/ ModerateCompany \/ AddFounder
    BY <2>3 DEF ModifyJobAdmin, DeleteJobAdmin, ModerateCompany, AddFounder, Changes
  <2>4. CASE Tick \/ Crash
    BY <2>4 DEF Tick, Crash, db
  <2>5. ASSUME NEW r \in Req,
               GetHit(r) \/ GetMiss(r) \/ MutateFind(r) \/ GetFind(r) \/ GetPopulate(r) \/ GetSet(r)
                 \/ MutateDel(r)
        PROVE  UNCHANGED db
    BY <2>5 DEF GetHit, GetMiss, MutateFind, GetFind, GetPopulate, GetSet, MutateDel, vars
  <2> QED BY <2>1, <2>2, <2>3, <2>4, <2>5 DEF Next, Proceed, db
<1> QED BY <1>1, PTL DEF Spec, GoneStaysGone

-----------------------------------------------------------------------------
(* A block                                                                 *)

Stored == late["job"] + late["company"]

LEMMA Counts ==
  ASSUME TypeOK
  PROVE  /\ Stored \in Nat /\ late["job"] \in Nat /\ late["company"] \in Nat
         /\ Cardinality(Req) \in Nat /\ Cardinality(Filling) \in Nat
         /\ since \in Nat /\ DetailTtl \in Nat
  BY ReqAssumption, DetailTtlAssumption, FS_Subset, FS_CardinalityType
  DEF TypeOK, Stored, Filling, Resource

LEMMA FewerFilling ==
  ASSUME NEW A \in SUBSET Req, NEW B \in SUBSET A
  PROVE  Cardinality(B) \in Nat /\ Cardinality(A) \in Nat /\ Cardinality(B) <= Cardinality(A)
<1>1. IsFiniteSet(A)
  BY ReqAssumption, FS_Subset
<1> QED BY <1>1, FS_Subset, FS_CardinalityType

\* A step that unblocks, or stores no detail, counts nothing and begins no fill.
LEMMA BlockKept ==
  ASSUME TypeOK, BlockInv,
         IsBlocked(company') =>
           /\ IsBlocked(company) /\ UNCHANGED block /\ Filling' \subseteq Filling
           /\ \A x \in Resource : Exists(redis', x) => redis'[x] = redis[x] /\ Exists(redis, x)
  PROVE  BlockInv'
<1>1. CASE IsBlocked(company')
  <2>1. Cardinality(Filling') \in Nat /\ Cardinality(Filling') <= Cardinality(Filling)
    BY <1>1, FewerFilling DEF Filling
  <2>2. UNCHANGED <<since, late>>
    BY <1>1 DEF block
  <2> QED BY <1>1, <2>1, <2>2, Counts DEF BlockInv, BlockTakesEffect, Stored
<1>2. CASE ~IsBlocked(company')
  BY <1>2 DEF BlockInv, BlockTakesEffect
<1> QED BY <1>1, <1>2

\* A write to the database leaves the record of the block as it is, or starts it
\* anew: nothing has been stored, and no entry has more than its time to live.
LEMMA BlockWrite ==
  ASSUME TypeOK, TypeOK', BlockInv, BlockChange, redis' = redis, Filling' \subseteq Filling
  PROVE  BlockInv'
<1>1. CASE IsBlocked(company') = IsBlocked(company)
  <2>1. UNCHANGED block
    BY <1>1 DEF BlockChange
  <2> QED BY <1>1, <2>1, BlockKept
<1>2. CASE IsBlocked(company') # IsBlocked(company)
  <2>1. since' = 0 /\ late' = [x \in Resource |-> 0]
    BY <1>2 DEF BlockChange
  <2>2. late'["job"] = 0 /\ late'["company"] = 0
    BY <2>1 DEF Resource
  <2>3. \A x \in Resource : Exists(redis, x) => redis[x].ttl \in 1..DetailTtl
    BY EntryShape
  <2>4. \A x \in Resource : Exists(redis', x) => redis'[x].ttl + since' <= DetailTtl
    BY <2>1, <2>3, DetailTtlAssumption
  <2>5. Cardinality(Filling') \in Nat /\ Cardinality(Filling') <= Cardinality(Req)
    BY FewerFilling DEF Filling
  <2>6. Cardinality(Req) \in Nat
    BY Counts
  <2> QED BY <2>2, <2>4, <2>5, <2>6 DEF BlockInv, BlockTakesEffect
<1> QED BY <1>1, <1>2

\* A fill that stores while the company is blocked had read before, and does not
\* store again.
LEMMA BlockFill ==
  ASSUME TypeOK, BlockInv, NEW r \in Req, GetSet(r)
  PROVE  BlockInv'
<1> DEFINE x == call[r].on
<1>1. /\ UNCHANGED db /\ call[r].at = "set" /\ x \in Resource
      /\ call'[r] = Idle /\ \A q \in Req \ {r} : call'[q] = call[q]
      /\ \A y \in Resource \ {x} : redis'[y] = redis[y]
  BY SetStep
<1>2. /\ since' = since
      /\ late' = late \/ late' = [late EXCEPT ![x] = @ + 1]
      /\ (IsBlocked(company) /\ late' = late) => redis' = redis
  BY SetLate
<1>3. Filling' \subseteq Filling \ {r} /\ r \in Filling /\ company' = company
  BY <1>1, IdleShape DEF Filling, db
<1>4. CASE ~IsBlocked(company) \/ late' = late
  BY <1>2, <1>3, <1>4, BlockKept DEF block
<1>5. CASE IsBlocked(company) /\ late' = [late EXCEPT ![x] = @ + 1]
  <2>1. /\ late'["job"] + late'["company"] = Stored + 1
        /\ late'[x] # 0 /\ \A y \in Resource \ {x} : late'[y] = late[y]
    BY <1>1, <1>5, Counts DEF Stored, TypeOK, Resource
  <2>2. IsFiniteSet(Filling)
    BY ReqAssumption, FS_Subset DEF Filling
  <2>3. Cardinality(Filling \ {r}) = Cardinality(Filling) - 1
    BY <1>3, <2>2, FS_RemoveElement
  <2>4. Cardinality(Filling') \in Nat /\ Cardinality(Filling') <= Cardinality(Filling \ {r})
    BY <1>3, FewerFilling DEF Filling
  <2>5. Stored + Cardinality(Filling) <= Cardinality(Req)
    BY <1>5 DEF BlockInv, Stored
  <2>6. Stored + 1 + Cardinality(Filling') <= Cardinality(Req) /\ Stored + 1 <= Cardinality(Req)
    BY <2>3, <2>4, <2>5, Counts
  <2>7. \A y \in Resource : (Exists(redis', y) /\ late'[y] = 0) => redis'[y].ttl + since' <= DetailTtl
    BY <1>1, <1>2, <1>5, <2>1 DEF BlockInv, BlockTakesEffect, Exists
  <2> QED BY <2>1, <2>6, <2>7 DEF BlockInv, BlockTakesEffect
<1> QED BY <1>2, <1>4, <1>5

\* Time takes from every entry what it adds to the age of the block.
LEMMA BlockTick ==
  ASSUME TypeOK, BlockInv, Tick
  PROVE  BlockInv'
<1>1. UNCHANGED <<company, call, late>> /\ redis' = Elapse(redis)
  BY DEF Tick, db
<1>2. ASSUME NEW x \in Resource, Exists(redis', x)
      PROVE  Exists(redis, x) /\ redis'[x].ttl = redis[x].ttl - 1 /\ redis[x].ttl \in Nat
  BY <1>1, <1>2, ElapseShape, EntryShape, DetailTtlAssumption
<1>3. since' = since \/ since' = since + 1
  BY DEF Tick
<1>4. \A x \in Resource : (IsBlocked(company) /\ Exists(redis', x) /\ late[x] = 0)
        => redis'[x].ttl + since' <= DetailTtl
  BY <1>2, <1>3, Counts DEF BlockInv, BlockTakesEffect
<1>5. Filling' = Filling
  BY <1>1 DEF Filling
<1> QED BY <1>1, <1>4, <1>5 DEF BlockInv, BlockTakesEffect

LEMMA BlockStep == TypeOK /\ TypeOK' /\ BlockInv /\ [Next]_vars => BlockInv'
<1> SUFFICES ASSUME TypeOK, TypeOK', BlockInv, [Next]_vars PROVE BlockInv'
  OBVIOUS
<1>1. ASSUME NEW r \in Req, GetMiss(r) \/ MutateFind(r) \/ GetFind(r) \/ GetPopulate(r)
      PROVE  BlockInv'
  <2>1. /\ UNCHANGED <<db, redis, history>>
        /\ call'[r].at = "set" => ~IsBlocked(company)
        /\ \A q \in Req \ {r} : call'[q] = call[q]
    BY <1>1, BeginStep, FindStep
  <2>2. IsBlocked(company) => Filling' \subseteq Filling
    BY <2>1 DEF Filling
  <2> QED BY <2>1, <2>2, BlockKept DEF db, history, block
<1>2. ASSUME NEW r \in Req, GetSet(r) PROVE BlockInv'
  BY <1>2, BlockFill
<1>3. ASSUME NEW r \in Req, MutateDel(r) PROVE BlockInv'
  <2>1. /\ UNCHANGED <<db, block>> /\ call[r].on \in Resource
        /\ call'[r] = Idle /\ \A q \in Req \ {r} : call'[q] = call[q]
        /\ \A y \in Resource \ {call[r].on} : redis'[y] = redis[y]
        /\ redis' = redis \/ ~Exists(redis', call[r].on)
    BY <1>3, DelStep
  <2>2. Filling' \subseteq Filling
    BY <2>1, IdleShape DEF Filling
  <2>3. \A x \in Resource : Exists(redis', x) => redis'[x] = redis[x] /\ Exists(redis, x)
    BY <2>1 DEF Exists
  <2> QED BY <2>1, <2>2, <2>3, BlockKept DEF db
<1>4. ASSUME NEW r \in Req, MutateWrite(r) PROVE BlockInv'
  <2>1. /\ redis' = redis /\ BlockChange /\ call'[r].at = "del"
        /\ \A q \in Req \ {r} : call'[q] = call[q]
    BY <1>4, MutateStep
  <2>2. Filling' \subseteq Filling
    BY <2>1 DEF Filling
  <2> QED BY <2>1, <2>2, BlockWrite
<1>5. CASE SilentWrite
  <2>1. UNCHANGED <<redis, call>> /\ BlockChange
    BY <1>5, SilentStep
  <2>2. Filling' = Filling
    BY <2>1 DEF Filling
  <2> QED BY <2>1, <2>2, BlockWrite
<1>6. CASE Tick
  BY <1>6, BlockTick
<1>7. CASE Crash
  <2>1. UNCHANGED <<db, redis, block>> /\ Filling' = {}
    BY <1>7, CrashStep, IdleShape DEF Filling
  <2> QED BY <2>1, BlockKept DEF db
<1>8. CASE UNCHANGED vars
  <2>1. UNCHANGED <<db, redis, block, call>>
    BY <1>8 DEF vars, history
  <2>2. Filling' = Filling
    BY <2>1 DEF Filling
  <2> QED BY <2>1, <2>2, BlockKept DEF db
<1>9. ASSUME NEW r \in Req, GetHit(r) PROVE BlockInv'
  BY <1>8, <1>9 DEF GetHit
<1> QED BY <1>1, <1>2, <1>3, <1>4, <1>5, <1>6, <1>7, <1>8, <1>9
  DEF Next, Proceed, SilentWrite

\* Of a blocked company, only what a fill in flight at the block has stored is
\* cached for longer than a time to live after it, once for each such fill.
THEOREM BlockedGoes == Spec => []BlockTakesEffect
<1>1. Init => BlockInv
  BY DEF Init, BlockInv, BlockTakesEffect, IsBlocked
<1>2. BlockInv => BlockTakesEffect
  BY DEF BlockInv
<1> QED BY <1>1, <1>2, TypeCorrect, BlockStep, PTL DEF Spec
-----------------------------------------------------------------------------
(* When requests are handled one at a time                                 *)

\* Only a silent writer can come between the read of a fill and its SET.
SerialInv ==
  /\ raced \subseteq silent
  /\ \A r \in Req : call[r].at = "set" =>
       call[r].seen = Current(call[r].on) \/ call[r].on \in silent
  /\ \A r \in Req : call[r].at = "populate" =>
       \/ Current("job") # Gone /\ Current("job").job = call[r].seen.job
       \/ "job" \in silent

LEMMA SetHistory ==
  ASSUME SerialInv, NEW r \in Req, GetSet(r)
  PROVE  (raced \subseteq silent)'
<1> DEFINE x == call[r].on
<1>1. PICK o \in Outcome :
        CASE o = "skipped" -> UNCHANGED accidents
          [] o # "skipped" /\ call[r].seen # Current(x) ->
               raced' = raced \cup {x} /\ UNCHANGED <<silent, failed>>
          [] o # "skipped" /\ call[r].seen = Current(x) -> Forgiven(x)
  BY DEF GetSet
<1>2. call[r].seen = Current(x) \/ x \in silent
  BY DEF GetSet, SerialInv
<1>3. CASE o = "skipped"
  BY <1>1, <1>3 DEF SerialInv, accidents
<1>4. CASE o # "skipped" /\ call[r].seen # Current(x)
  <2>1. raced' = raced \cup {x} /\ silent' = silent
    BY <1>1, <1>4
  <2> QED BY <1>2, <1>4, <2>1 DEF SerialInv
<1>5. CASE o # "skipped" /\ call[r].seen = Current(x)
  <2>1. raced' = raced \ {x} /\ silent' = silent \ {x}
    BY <1>1, <1>5 DEF Forgiven
  <2> QED BY <2>1 DEF SerialInv
<1> QED BY <1>3, <1>4, <1>5

LEMMA DelHistory ==
  ASSUME SerialInv, NEW r \in Req, MutateDel(r)
  PROVE  (raced \subseteq silent)'
<1>1. \/ raced' = raced /\ silent' = silent
      \/ raced' = raced \ {call[r].on} /\ silent' = silent \ {call[r].on}
  BY DEF MutateDel, Forgiven
<1> QED BY <1>1 DEF SerialInv

\* A detail that a silent writer changes is recorded.
LEMMA SilentRecorded ==
  ASSUME SilentWrite, NEW x \in Resource
  PROVE  Current(x)' = Current(x) \/ x \in silent'
<1>1. PICK j, c : Changes(j, c, {})
  BY DEF SilentWrite, CreateJob, ModifyJobAdmin, DeleteJobAdmin, ModerateCompany, AddFounder
<1>2. Current(x)' = ViewOf(x, j, c)
  BY <1>1 DEF Changes, Current
<1> QED BY <1>1, <1>2 DEF Changes

LEMMA SerialStep == TypeOK /\ SerialInv /\ Serial /\ [Next]_vars => SerialInv'
<1> SUFFICES ASSUME TypeOK, SerialInv, Serial, [Next]_vars PROVE SerialInv'
  OBVIOUS
<1>1. ASSUME NEW r \in Req, GetMiss(r) \/ MutateFind(r) PROVE SerialInv'
  <2>1. /\ UNCHANGED <<db, history>> /\ call'[r].at \notin {"populate", "set"}
        /\ \A q \in Req \ {r} : call'[q] = call[q]
    BY <1>1, BeginStep
  <2> QED BY <2>1 DEF SerialInv, Current, db, history, accidents, block
<1>2. ASSUME NEW r \in Req, GetFind(r) \/ GetPopulate(r) PROVE SerialInv'
  <2>1. /\ UNCHANGED <<db, history>>
        /\ \A q \in Req \ {r} : call'[q] = call[q]
    BY <1>2, FindStep
  <2>2. call'[r].at = "set" => call'[r].seen = Current(call'[r].on) \/ call'[r].on \in silent
    <3>1. CASE call[r].at = "find"
      BY <1>2, <3>1, FindStep
    <3>2. CASE call[r].at = "populate"
      <4>1. call[r].on = "job"
        BY <3>2, CallShape
      <4>2. \/ Current("job") # Gone /\ Current("job").job = call[r].seen.job
            \/ "job" \in silent
        BY <3>2 DEF SerialInv
      <4>3. Current("job") # Gone => Current("job") = [job |-> job, company |-> company]
        BY DEF Current, ViewOf
      <4>4. call'[r].at = "set" =>
              /\ call'[r].on = call[r].on
              /\ call'[r].seen = [job |-> call[r].seen.job, company |-> company]
        BY <1>2, <3>2, FindStep
      <4>5. [job |-> job, company |-> company].job = job
        OBVIOUS
      <4>6. silent' = silent /\ Current("job")' = Current("job")
        BY <2>1 DEF Current, db, history, accidents
      <4> QED BY <4>1, <4>2, <4>3, <4>4, <4>5, <4>6
    <3> QED BY <1>2, <3>1, <3>2, FindStep
  <2>3. call'[r].at = "populate" => Current("job") # Gone /\ Current("job").job = call'[r].seen.job
    <3>1. job \notin {0, Gone} => Current("job") = [job |-> job, company |-> company]
      BY DEF Current, ViewOf
    <3>2. job \notin {0, Gone} => [job |-> job, company |-> company] # Gone
      BY GoneAssumption DEF TypeOK, Company
    <3>3. call'[r].at = "populate" => call'[r].seen.job = job /\ job \notin {0, Gone}
      BY <1>2, FindStep
    <3>4. [job |-> job, company |-> company].job = job
      OBVIOUS
    <3> QED BY <3>1, <3>2, <3>3, <3>4
  <2>4. \A x \in Resource : Current(x)' = Current(x)
    BY <2>1 DEF Current, db
  <2> QED BY <2>1, <2>2, <2>3, <2>4 DEF SerialInv, Current, db, history, accidents, block
<1>3. ASSUME NEW r \in Req, GetSet(r) \/ MutateDel(r) PROVE SerialInv'
  <2>1. call'[r] = Idle /\ call[r].at # "idle" /\ \A q \in Req \ {r} : call'[q] = call[q]
    BY <1>3, SetStep, DelStep
  <2>2. \A q \in Req : call'[q].at \notin {"populate", "set"}
    BY <2>1, IdleShape DEF Serial
  <2> QED BY <1>3, <2>2, SetHistory, DelHistory DEF SerialInv
<1>4. ASSUME NEW r \in Req, MutateWrite(r) PROVE SerialInv'
  <2>1. /\ UNCHANGED raced /\ silent \subseteq silent'
        /\ call[r].at = "write" /\ call'[r].at = "del"
        /\ \A q \in Req \ {r} : call'[q] = call[q]
    BY <1>4, MutateStep
  <2>2. \A q \in Req : call'[q].at \notin {"populate", "set"}
    BY <2>1 DEF Serial
  <2> QED BY <2>1, <2>2 DEF SerialInv
<1>5. CASE SilentWrite
  <2>1. UNCHANGED <<call, raced>> /\ silent \subseteq silent'
    BY <1>5, SilentStep
  <2>2. \A r \in Req : call[r].at = "set" => call[r].on \in Resource
    BY CallShape
  <2>3. "job" \in Resource
    BY DEF Resource
  <2> QED BY <1>5, <2>1, <2>2, <2>3, SilentRecorded DEF SerialInv
<1>6. CASE Crash
  BY <1>6, CrashStep, IdleShape DEF SerialInv
<1>7. CASE Tick \/ UNCHANGED vars
  BY <1>7 DEF Tick, vars, db, history, accidents, block, SerialInv, Current
<1>8. ASSUME NEW r \in Req, GetHit(r) PROVE SerialInv'
  BY <1>7, <1>8 DEF GetHit
<1> QED BY <1>1, <1>2, <1>3, <1>4, <1>5, <1>6, <1>7, <1>8
  DEF Next, Proceed, SilentWrite

\* When requests are handled one at a time, a fill never outlives the change it
\* missed: every stale detail is about to be deleted, or its writer deletes
\* nothing, or failed to.
THEOREM SerialDeletionSuffices == Spec /\ []Serial => []DeletionSuffices
<1>1. Init => SerialInv
  BY IdleShape DEF Init, SerialInv
<1>2. SerialInv /\ StaleExplained => DeletionSuffices
  BY DEF SerialInv, StaleExplained, DeletionSuffices
<1> QED BY <1>1, <1>2, SerialStep, TypeCorrect, StalenessExplained, PTL DEF Spec
=============================================================================
