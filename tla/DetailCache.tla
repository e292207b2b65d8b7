----------------------------- MODULE DetailCache -----------------------------
(***************************************************************************)
(* A job, its company, and the cached copies of their details: GetJob and  *)
(* GetCompany fill the cache, the use cases of the jobs and companies      *)
(* modules write the database and then delete the key, and the writers of  *)
(* the other modules (moderation, verification, invites) write only the    *)
(* database.  The detail of a job embeds its company.                      *)
(*                                                                         *)
(* Jobs share no key, so one job of one company stands for all.  What a    *)
(* document says is abstracted to the number of the write that said it.    *)
(***************************************************************************)
EXTENDS RedisStore, FiniteSets

CONSTANTS
  Req,        \* concurrent calls
  Gone,       \* a deleted document, or no detail
  DetailTtl,  \* 300 s, in ticks
  MaxWrites, MaxFaults   \* bounds of the model

ASSUME ReqAssumption == IsFiniteSet(Req)
ASSUME DetailTtlAssumption == DetailTtl \in Nat \ {0}
ASSUME DetailBoundAssumption == MaxWrites \in Nat /\ MaxFaults \in Nat
ASSUME GoneAssumption ==
  /\ Gone \notin Nat
  /\ Gone \notin [content: Nat, blocked: BOOLEAN]
  /\ Gone \notin [job: Nat, company: [content: Nat, blocked: BOOLEAN] \cup {Gone}]

VARIABLES
  job,      \* content of the job: 0 before it is created, or Gone
  company,  \* its company, or Gone
  redis,    \* the cached details
  call,     \* each call in progress
  writes, faults,
  raced,    \* history: details set by a fill that read them before a change
  silent,   \* history: details changed by a writer that deletes no key
  failed,   \* history: details whose key a writer failed to delete
  since,    \* history: ticks since the company was blocked, up to DetailTtl
  late      \* history: how often a fill has stored each detail since then

db        == <<job, company, writes>>
accidents == <<raced, silent, failed>>
block     == <<since, late>>
history   == <<accidents, block>>
vars    == <<db, redis, call, faults, history>>

Resource == {"job", "company"}
Company  == [content: Nat, blocked: BOOLEAN]
JobView  == [job: Nat, company: Company \cup {Gone}]
View     == JobView \cup Company

Call ==
  {c \in [at: {"find", "populate", "set", "write", "del"}, on: Resource,
          seen: View \cup {Gone}, op: {"get", "update", "delete"}] :
     /\ c.at = "populate" => c.on = "job"
     /\ c.at \in {"populate", "set"} => c.seen \in IF c.on = "job" THEN JobView ELSE Company}
Idle == [at |-> "idle"]

\* What GetJob and GetCompany answer: a job with the company populated.
ViewOf(x, j, c) ==
  IF x = "company" THEN c
  ELSE IF j \in {0, Gone} THEN Gone ELSE [job |-> j, company |-> c]

Current(x) == ViewOf(x, job, company)

IsBlocked(c) == c # Gone /\ c.blocked

CompanyIn(x, view) == IF x = "company" THEN view ELSE view.company

\* Mutant: the status of the company is not looked at.
ShownIfFound(x, view) == view # Gone

\* 404 when there is no document, or its company is blocked.
Shown(x, view) ==
  /\ view # Gone
  /\ ~IsBlocked(CompanyIn(x, view))

Stale(x) == Exists(redis, x) /\ redis[x].val # Current(x)

-----------------------------------------------------------------------------
Init ==
  /\ job = 0
  /\ company = [content |-> 0, blocked |-> FALSE]
  /\ redis = [x \in Resource |-> Absent]
  /\ call = [r \in Req |-> Idle]
  /\ writes = 0 /\ faults = 0
  /\ raced = {} /\ silent = {} /\ failed = {}
  /\ since = 0 /\ late = [x \in Resource |-> 0]

\* A Redis command ends with outcome o.
Commands(o) ==
  /\ o = "done" \/ faults < MaxFaults
  /\ faults' = IF o = "done" THEN faults ELSE faults + 1

\* The database changes to job j and company c; keys is what the writer will
\* delete.
Changes(j, c, keys) ==
  /\ writes < MaxWrites
  /\ writes' = writes + 1
  /\ job' = j /\ company' = c
  /\ silent' = silent \cup
       {x \in Resource \ keys : ViewOf(x, j, c) # Current(x)}
  /\ IF IsBlocked(c) = IsBlocked(company) THEN UNCHANGED block
     ELSE since' = 0 /\ late' = [x \in Resource |-> 0]
  /\ UNCHANGED <<raced, failed>>

\* The entry of x is as it should be.
Forgiven(x) ==
  raced' = raced \ {x} /\ silent' = silent \ {x} /\ failed' = failed \ {x}

-----------------------------------------------------------------------------
(* GetJob and GetCompany                                                   *)

\* Mutant: a hit renews the time to live.
GetHitRenews(r) ==
  /\ call[r].at = "idle"
  /\ \E x \in Resource :
       /\ Exists(redis, x)
       /\ redis' = SetEx(redis, x, redis[x].val, DetailTtl)
  /\ UNCHANGED <<db, call, faults, history>>

\* The cached detail is the answer.
GetHit(r) ==
  /\ call[r].at = "idle"
  /\ \E x \in Resource : Exists(redis, x)
  /\ UNCHANGED vars

\* No key, or no answer, which cacheService.get cannot tell apart.
GetMiss(r) ==
  \E x \in Resource, o \in Outcome :
    /\ call[r].at = "idle"
    /\ Commands(o)
    /\ ~SaysExists(o, redis, x)
    /\ call' = [call EXCEPT ![r] = [at |-> "find", on |-> x, seen |-> Gone, op |-> "get"]]
    /\ UNCHANGED <<db, redis, history>>

\* What a call has read is cached, or the answer is 404.
Reads(r, view) ==
  call' = [call EXCEPT ![r] =
             IF Shown(call[r].on, view)
             THEN [at |-> "set", on |-> call[r].on, seen |-> view, op |-> "get"]
             ELSE Idle]

GetFind(r) ==
  /\ call[r].at = "find"
  /\ IF call[r].on = "company" THEN Reads(r, company)
     ELSE call' = [call EXCEPT ![r] =
                     IF job \in {0, Gone} THEN Idle
                     ELSE [at |-> "populate", on |-> "job",
                           seen |-> [job |-> job, company |-> Gone], op |-> "get"]]
  /\ UNCHANGED <<db, redis, faults, history>>

\* Mongoose populates with a query of its own.
GetPopulate(r) ==
  /\ call[r].at = "populate"
  /\ Reads(r, [job |-> call[r].seen.job, company |-> company])
  /\ UNCHANGED <<db, redis, faults, history>>

\* The detail as it was read is cached, whatever the document is by now.
GetSet(r) ==
  LET x == call[r].on IN
  \E o \in Outcome :
    /\ call[r].at = "set"
    /\ Commands(o)
    /\ redis' = After(o, redis, SetEx(redis, x, call[r].seen, DetailTtl))
    /\ call' = [call EXCEPT ![r] = Idle]
    /\ late' = IF o # "skipped" /\ IsBlocked(company) THEN [late EXCEPT ![x] = @ + 1] ELSE late
    /\ CASE o = "skipped" -> UNCHANGED accidents
         [] o # "skipped" /\ call[r].seen # Current(x) ->
              raced' = raced \cup {x} /\ UNCHANGED <<silent, failed>>
         [] o # "skipped" /\ call[r].seen = Current(x) -> Forgiven(x)
    /\ UNCHANGED <<db, since>>

-----------------------------------------------------------------------------
(* UpdateJob, CloseJob, DeleteJob, UpdateCompany, DeleteCompany            *)

\* The document is read and the caller authorised: ADMIN, or a founder.
MutateFind(r) ==
  \E x \in Resource, op \in {"update", "delete"} :
    /\ call[r].at = "idle"
    /\ Current(x) # Gone
    /\ call' = [call EXCEPT ![r] = [at |-> "write", on |-> x, seen |-> Gone, op |-> op]]
    /\ UNCHANGED <<db, redis, faults, history>>

\* Mutant: the update is an upsert.
UpdatedUpsert(x) ==
  IF x = "job" THEN <<writes + 1, company>>
  ELSE <<job, [content |-> writes + 1,
               blocked |-> IF company = Gone THEN FALSE ELSE company.blocked]>>

\* findByIdAndUpdate: nothing, if the document is gone by now.
Updated(x) ==
  IF x = "job"
  THEN <<IF job = Gone THEN Gone ELSE writes + 1, company>>
  ELSE <<job, IF company = Gone THEN Gone ELSE [company EXCEPT !.content = writes + 1]>>

Deleted(x) == IF x = "job" THEN <<Gone, company>> ELSE <<job, Gone>>

MutateWrite(r) ==
  LET x  == call[r].on
      db2 == IF call[r].op = "update" THEN Updated(x) ELSE Deleted(x)
  IN
    /\ call[r].at = "write"
    /\ Changes(db2[1], db2[2], {x})
    /\ call' = [call EXCEPT ![r].at = "del"]
    /\ UNCHANGED <<redis, faults>>

\* Mutant: closing or deleting forgets the cache.
MutateDelUpdatesOnly(r) ==
  LET x == call[r].on IN
    /\ call[r].at = "del"
    /\ redis' = IF call[r].op = "update" THEN Del(redis, x) ELSE redis
    /\ call' = [call EXCEPT ![r] = Idle]
    /\ UNCHANGED <<db, faults, history>>

\* The key is deleted.  The deletion of "cache:jobs:list:*" that follows finds
\* nothing: no code caches a list.
MutateDel(r) ==
  LET x == call[r].on IN
  \E o \in Outcome :
    /\ call[r].at = "del"
    /\ Commands(o)
    /\ redis' = After(o, redis, Del(redis, x))
    /\ call' = [call EXCEPT ![r] = Idle]
    /\ IF o = "skipped" THEN failed' = failed \cup {x} /\ UNCHANGED <<raced, silent>>
       ELSE Forgiven(x)
    /\ UNCHANGED <<db, block>>

-----------------------------------------------------------------------------
(* The writers that delete no key                                          *)

CreateJob ==
  /\ job = 0
  /\ Changes(writes + 1, company, {})
  /\ UNCHANGED <<redis, call, faults>>

ModifyJobAdmin ==
  /\ job \notin {0, Gone}
  /\ Changes(writes + 1, company, {})
  /\ UNCHANGED <<redis, call, faults>>

DeleteJobAdmin ==
  /\ job \notin {0, Gone}
  /\ Changes(Gone, company, {})
  /\ UNCHANGED <<redis, call, faults>>

\* BlockCompany, UnblockCompany and the reviews of a company.
ModerateCompany ==
  /\ company # Gone
  /\ \E b \in BOOLEAN : Changes(job, [company EXCEPT !.blocked = b], {})
  /\ UNCHANGED <<redis, call, faults>>

\* AcceptFounderInvite pushes a founder.
AddFounder ==
  /\ company # Gone
  /\ Changes(job, [company EXCEPT !.content = writes + 1], {})
  /\ UNCHANGED <<redis, call, faults>>

-----------------------------------------------------------------------------
(* The environment                                                         *)

Tick ==
  /\ redis' = Elapse(redis)
  /\ since' = IF IsBlocked(company) /\ since < DetailTtl THEN since + 1 ELSE since
  /\ UNCHANGED <<db, call, faults, accidents, late>>

\* The process dies: a writer that has not deleted its key never will.
Crash ==
  /\ call' = [r \in Req |-> Idle]
  /\ failed' = failed \cup {call[r].on : r \in {q \in Req : call[q].at = "del"}}
  /\ UNCHANGED <<db, redis, faults, raced, silent, block>>

Proceed(r) == GetFind(r) \/ GetPopulate(r) \/ GetSet(r) \/ MutateWrite(r) \/ MutateDel(r)

Next ==
  \/ \E r \in Req : GetHit(r) \/ GetMiss(r) \/ MutateFind(r) \/ Proceed(r)
  \/ CreateJob \/ ModifyJobAdmin \/ DeleteJobAdmin \/ ModerateCompany \/ AddFounder
  \/ Tick \/ Crash

Spec == Init /\ [][Next]_vars

\* The event loop resumes every call, and time passes.
FairSpec == Spec /\ WF_vars(Tick) /\ \A r \in Req : WF_vars(Proceed(r))
-----------------------------------------------------------------------------
(* Guarantees                                                              *)

TypeOK ==
  /\ job \in Nat \cup {Gone}
  /\ company \in Company \cup {Gone}
  /\ redis \in [Resource -> {Absent} \cup [val: View, ttl: 1..DetailTtl]]
  /\ call \in [Req -> Call \cup {Idle}]
  /\ writes \in Nat /\ faults \in Nat
  /\ raced \subseteq Resource /\ silent \subseteq Resource /\ failed \subseteq Resource
  /\ since \in 0..DetailTtl /\ late \in [Resource -> Nat]

\* A cached detail differs from the database only while the use case that
\* changed it is about to delete the key, or after one of three accidents: a
\* fill that read before the change and wrote after the deletion, a writer that
\* deletes no key, a deletion lost to a crash or to Redis
\* (GetJobUseCase.js:21-30, UpdateJobUseCase.js:42-46).
StaleExplained ==
  \A x \in Resource : Stale(x) =>
    \/ \E r \in Req : call[r].at = "del" /\ call[r].on = x
    \/ x \in raced \cup silent \cup failed

\* A block takes effect although no key is deleted (BlockCompanyUseCase.js:13).
\* Of a blocked company, a detail that was cached before the block is gone when
\* its time to live has passed since the block, reads of it notwithstanding.  A
\* fill that had read the company before the block does store its detail after
\* it, for another time to live; but there are no more of these than there are
\* concurrent calls, and no call that reads the company later stores anything
\* (GetJobUseCase.js:21-30, GetCompanyUseCase.js:18-28, cache.service.js:16).
BlockTakesEffect ==
  IsBlocked(company) =>
    /\ late["job"] + late["company"] <= Cardinality(Req)
    /\ \A x \in Resource :
         (Exists(redis, x) /\ late[x] = 0) => redis[x].ttl + since <= DetailTtl

\* A deleted document stays deleted, although an update that found it may
\* write after the deletion (MongoJobRepository.js:28-31).
GoneStaysGone ==
  [][(job = Gone => job' = Gone) /\ (company = Gone => company' = Gone)]_vars

\* Once the writes end, every stale detail disappears for good, whatever
\* accident left it there, and however often it is read: the time to live runs
\* from the SET (cache.service.js:16).
EventuallyFresh == <>[](\A x \in Resource : ~Stale(x))

-----------------------------------------------------------------------------
(* The inductive invariant                                                 *)

\* The fills that have read their detail and not stored it.
Filling == {r \in Req : call[r].at = "set"}

\* Every fill since the block, and every one to come, is another call's that had
\* read before it.
BlockInv ==
  /\ BlockTakesEffect
  /\ IsBlocked(company) =>
       late["job"] + late["company"] + Cardinality(Filling) <= Cardinality(Req)

CacheInv == TypeOK /\ StaleExplained

-----------------------------------------------------------------------------
(* When requests are handled one at a time                                 *)

Serial == \A r, q \in Req : (call[r].at # "idle" /\ call[q].at # "idle") => r = q

\* The deletion that follows a write suffices: beside what a writer of another
\* module changed, and what it failed to delete, a stale detail is deleted
\* before the request that changed it is answered (UpdateJobUseCase.js:42-46,
\* DATABASE-ARCHITECTURE.md:994-1000).
DeletionSuffices ==
  \A x \in Resource : Stale(x) =>
    \/ \E r \in Req : call[r].at = "del" /\ call[r].on = x
    \/ x \in silent \cup failed

-----------------------------------------------------------------------------
(* What the documents say                                                  *)

\* admin-cache-decision.md:13: a blocked company is not shown from the cache.
BlockImmediate ==
  (company # Gone /\ company.blocked) => ~Exists(redis, "company")
=============================================================================
