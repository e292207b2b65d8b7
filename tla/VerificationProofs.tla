-------------------------- MODULE VerificationProofs --------------------------
(***************************************************************************)
(* Proofs about Verification, for every number of companies, requests,     *)
(* documents and concurrent calls.                                         *)
(***************************************************************************)
EXTENDS Verification, FiniteSetTheorems, TLAPS

-----------------------------------------------------------------------------
(* Calls                                                                   *)

LEMMA StepShape ==
  ASSUME NEW g \in {"create", "queue", "submit", "document", "activate"},
         NEW s \in Subject \cup {None},
         g \in {"create", "queue"} => s # None, g = "activate" => s = None
  PROVE  /\ Step(g, s) \in Call
         /\ Step(g, s).at = g /\ Step(g, s).subject = s /\ Step(g, s).of = None
  BY DEF Step, Call, Verdict

LEMMA CallShape ==
  ASSUME NEW c \in Call
  PROVE  /\ c.at \in {"create", "queue", "submit", "document", "decide", "activate", "judge"}
         /\ c.subject \in Subject \cup {None} /\ c.of \in Request \cup {None}
         /\ c.verdict \in Verdict /\ c.doc \in Nat
         /\ c.at \in {"decide", "judge"} => c.of \in Request
         /\ c.at \in {"create", "queue"} => c.subject \in Subject
         /\ (c.at = "activate" /\ c.of = None) => c.subject = None
  BY DEF Call

LEMMA FoundShape ==
  ASSUME NEW q \in Request, NEW v \in Verdict, NEW d \in Nat
  PROVE  [at |-> "decide", subject |-> None, of |-> q, verdict |-> v, doc |-> d] \in Call
  BY NameAssumption DEF Call

LEMMA DecidedShape ==
  ASSUME TypeOK, NEW c \in Call, c.at = "decide"
  PROVE  LET d == AfterDecision(c)
         IN  /\ d \in Call
             /\ d.at = IF c.verdict = "APPROVED" THEN "activate" ELSE "judge"
             /\ d.of = c.of /\ d.verdict = c.verdict /\ d.doc = c.doc
             /\ d.subject = about[c.of]
<1>1. about[c.of] \in Subject \cup {None}
  BY CallShape DEF TypeOK
<1> QED BY <1>1, NameAssumption DEF AfterDecision, Call

LEMMA ActivatedShape ==
  ASSUME NEW c \in Call, c.of # None
  PROVE  LET d == [c EXCEPT !.at = "judge"]
         IN  /\ d \in Call /\ d.at = "judge" /\ d.of = c.of /\ d.verdict = c.verdict
             /\ d.doc = c.doc /\ d.subject = c.subject
  BY DEF Call

LEMMA Busy ==
  ASSUME TypeOK, NEW r \in Req, call[r].at # "idle"
  PROVE  call[r] \in Call
  BY DEF TypeOK, Idle

\* The others' calls stay as they are.
Moves(r) ==
  /\ call' \in [Req -> Call \cup {Idle}]
  /\ \A p \in Req \ {r} : call'[p] = call[p]

LEMMA IdleAt == Idle.at = "idle"
  BY DEF Idle

LEMMA GoesFacts ==
  ASSUME TypeOK, NEW r \in Req, NEW c \in Call \cup {Idle}, Goes(r, c)
  PROVE  Moves(r) /\ call'[r] = c
  BY DEF TypeOK, Moves, Goes

LEMMA StartsFacts ==
  ASSUME TypeOK, NEW r \in Req, NEW c \in Call, Starts(r, c)
  PROVE  Moves(r) /\ call'[r] = c /\ call[r].at = "idle"
  BY DEF TypeOK, Moves, Starts

-----------------------------------------------------------------------------
(* What each action does                                                   *)

\* The steps by which a call only goes on.
LEMMA BeginFacts ==
  ASSUME TypeOK, NEW r \in Req,
         \/ \E s \in Subject : CreateBegin(r, s)
         \/ \E s \in Subject \cup {None} : SubmitBegin(r, s)
         \/ UpdateBegin(r)
  PROVE  /\ Moves(r) /\ call[r].at = "idle"
         /\ call'[r].at \in {"create", "submit", "document"}
         /\ call'[r].at = "submit" => Pending = {} /\ call'[r].subject \in Named
         /\ UNCHANGED <<status, document, activated, queue, history>>
<1>1. ASSUME NEW s \in Subject, CreateBegin(r, s)
      PROVE  Moves(r) /\ call[r].at = "idle" /\ call'[r].at = "create"
  BY <1>1, StepShape, StartsFacts, NameAssumption DEF CreateBegin
<1>2. ASSUME NEW s \in Subject \cup {None}, SubmitBegin(r, s)
      PROVE  /\ Moves(r) /\ call[r].at = "idle" /\ call'[r].at = "submit"
             /\ Pending = {} /\ call'[r].subject \in Named
  BY <1>2, StepShape, StartsFacts DEF SubmitBegin, MaySubmit
<1>3. CASE UpdateBegin(r)
  BY <1>3, StepShape, StartsFacts DEF UpdateBegin, Subject
<1> QED BY <1>1, <1>2, <1>3 DEF CreateBegin, SubmitBegin, UpdateBegin

LEMMA CreateSubjectFacts ==
  ASSUME TypeOK, NEW r \in Req, CreateSubject(r)
  PROVE  /\ Moves(r) /\ call[r].at = "create"
         /\ UNCHANGED <<activated, queue, history>>
         /\ \/ \E s \in Subject :
                 /\ s = call[r].subject /\ status[s] = "NONE"
                 /\ status' = [status EXCEPT ![s] = "PENDING"]
                 /\ document' = IF s = Profile THEN 1 ELSE document
                 /\ call'[r].at = "queue" /\ call'[r].subject = s
            \/ UNCHANGED <<status, document>> /\ call'[r] = Idle
<1>1. call[r].at = "create" /\ call[r].subject \in Subject
  BY Busy, CallShape DEF CreateSubject
<1>2. CASE status[call[r].subject] = "NONE"
  BY <1>1, <1>2, StepShape, GoesFacts, NameAssumption DEF CreateSubject
<1>3. CASE status[call[r].subject] # "NONE"
  BY <1>1, <1>3, GoesFacts DEF CreateSubject
<1> QED BY <1>2, <1>3

LEMMA InsertsFacts ==
  ASSUME TypeOK, NEW q \in Request, NEW s \in Subject \cup {None}, Inserts(q, s)
  PROVE  /\ request[q] = None /\ request'[q] = "PENDING"
         /\ about'[q] = s /\ company'[q] \in {s, None}
         /\ \A p \in Request \ {q} :
              /\ request'[p] = request[p] /\ about'[p] = about[p] /\ company'[p] = company[p]
         /\ request' \in [Request -> {None, "PENDING"} \cup Verdict]
         /\ about' \in [Request -> Subject \cup {None}]
         /\ company' \in [Request -> Company \cup {None}]
         /\ unqueued' = unqueued \ {s} /\ unqueued' \subseteq Subject
  BY DEF TypeOK, Inserts

LEMMA AimsFacts ==
  ASSUME TypeOK, NEW s \in Subject, NEW q \in Matches(s), Aims(q, s)
  PROVE  /\ q \in Pending /\ about'[q] = s
         /\ \A p \in Request \ {q} : about'[p] = about[p]
         /\ about' \in [Request -> Subject \cup {None}]
         /\ unqueued' = (unqueued \cup ({about[q]} \ {None})) \ {s}
         /\ unqueued' \subseteq Subject
  BY DEF TypeOK, Aims, Matches, Pending

LEMMA QueueFacts ==
  ASSUME TypeOK, NEW r \in Req, Queue(r)
  PROVE  /\ Moves(r) /\ call[r].at = "queue" /\ call[r].subject \in Subject
         /\ call'[r] = Idle
         /\ UNCHANGED <<status, document, activated, verdictBy, crossed, seen, late, lost>>
<1>1. call[r].at = "queue" /\ call[r].subject \in Subject
  BY Busy, CallShape DEF Queue
<1> QED BY <1>1, GoesFacts DEF Queue

LEMMA SubmitCreateFacts ==
  ASSUME TypeOK, NEW r \in Req, SubmitCreate(r)
  PROVE  /\ Moves(r) /\ call[r].at = "submit" /\ call[r].subject \in Subject \cup {None}
         /\ call'[r] = Idle
         /\ UNCHANGED <<status, document, activated,
                        verdictBy, crossed, seen, late, lost, enrolled>>
<1>1. call[r].at = "submit" /\ call[r].subject \in Subject \cup {None}
  BY Busy, CallShape DEF SubmitCreate
<1> QED BY <1>1, GoesFacts DEF SubmitCreate

LEMMA UpdateDocumentFacts ==
  ASSUME TypeOK, NEW r \in Req, UpdateDocument(r)
  PROVE  /\ Moves(r) /\ call[r].at = "document" /\ call'[r] = Idle
         /\ document' = document + 1 /\ seen' = FALSE
         /\ status' = [status EXCEPT ![Profile] = "PENDING"]
         /\ verdictBy' = [verdictBy EXCEPT ![Profile] = None]
         /\ unqueued' = unqueued \cup {Profile}
         /\ UNCHANGED <<activated, queue, crossed, late, lost, enrolled>>
  BY GoesFacts DEF UpdateDocument

LEMMA ReviewFindFacts ==
  ASSUME TypeOK, NEW r \in Req, NEW q \in Request, NEW v \in Verdict, ReviewFind(r, q, v)
  PROVE  /\ Moves(r) /\ call[r].at = "idle" /\ request[q] = "PENDING"
         /\ call'[r].at = "decide" /\ call'[r].of = q /\ call'[r].subject = None
         /\ call'[r].doc = IF about[q] = Profile THEN document ELSE 0
         /\ seen' = (seen \/ about[q] = Profile)
         /\ UNCHANGED <<status, document, activated, queue,
                        verdictBy, crossed, late, lost, enrolled, unqueued>>
<1> DEFINE d == IF about[q] = Profile THEN document ELSE 0
           c == [at |-> "decide", subject |-> None, of |-> q, verdict |-> v, doc |-> d]
<1>1. d \in Nat
  BY DEF TypeOK
<1>2. c \in Call
  BY <1>1, FoundShape
<1>3. Starts(r, c)
  BY DEF ReviewFind
<1> QED BY <1>2, <1>3, StartsFacts DEF ReviewFind, MayReview

LEMMA DecideFacts ==
  ASSUME TypeOK, NEW r \in Req, Decide(r)
  PROVE  LET q == call[r].of
         IN  /\ Moves(r) /\ call[r].at = "decide" /\ q \in Request
             /\ call[r].verdict \in Verdict
             /\ call'[r].at = IF call[r].verdict = "APPROVED" THEN "activate" ELSE "judge"
             /\ call'[r].of = q /\ call'[r].verdict = call[r].verdict
             /\ call'[r].doc = call[r].doc /\ call'[r].subject = about[q]
             /\ request' = [request EXCEPT ![q] = call[r].verdict]
             /\ crossed' = IF request[q] = "PENDING" THEN crossed ELSE crossed \cup {q}
             /\ UNCHANGED <<status, document, activated, about, company,
                            verdictBy, seen, late, lost, enrolled, unqueued>>
<1>1. call[r].at = "decide" /\ call[r] \in Call
  BY Busy DEF Decide
<1>2. Moves(r) /\ call'[r] = AfterDecision(call[r])
  BY <1>1, DecidedShape, GoesFacts DEF Decide
<1> QED BY <1>1, <1>2, DecidedShape, CallShape DEF Decide

LEMMA ActivateFacts ==
  ASSUME TypeOK, NEW r \in Req, Activate(r)
  PROVE  /\ Moves(r) /\ call[r].at = "activate" /\ activated' = TRUE
         /\ call[r].of \in Request \cup {None}
         /\ call[r].of = None => call'[r] = Idle /\ call[r].subject = None
         /\ call[r].of # None =>
              /\ call'[r].at = "judge" /\ call'[r].of = call[r].of
              /\ call'[r].verdict = call[r].verdict /\ call'[r].doc = call[r].doc
              /\ call'[r].subject = call[r].subject
         /\ UNCHANGED <<status, document, queue, history>>
<1>1. call[r].at = "activate" /\ call[r] \in Call
  BY Busy DEF Activate
<1>2. CASE call[r].of = None
  BY <1>1, <1>2, GoesFacts, CallShape DEF Activate
<1>3. CASE call[r].of # None
  <2>1. Goes(r, [call[r] EXCEPT !.at = "judge"])
    BY <1>3 DEF Activate
  <2>2. [call[r] EXCEPT !.at = "judge"] \in Call
    BY <1>1, <1>3, ActivatedShape
  <2>3. Moves(r) /\ call'[r] = [call[r] EXCEPT !.at = "judge"]
    BY <2>1, <2>2, GoesFacts
  <2> QED BY <1>1, <1>3, <2>3, ActivatedShape, CallShape DEF Activate
<1> QED BY <1>2, <1>3

LEMMA JudgedFacts ==
  ASSUME TypeOK, NEW s \in Subject, NEW v \in {"PASSED", "FAILED"},
         NEW q \in Request \cup {None}, NEW d, Judged(s, v, q, d)
  PROVE  /\ status'[s] = v /\ verdictBy'[s] = q
         /\ \A t \in Subject \ {s} : status'[t] = status[t] /\ verdictBy'[t] = verdictBy[t]
         /\ status' \in [Subject -> {"NONE", "PENDING", "PASSED", "FAILED", "GONE"}]
         /\ verdictBy' \in [Subject -> Request \cup {None}]
         /\ late' \in BOOLEAN /\ late' = IF s = Profile THEN d # document ELSE late
         /\ unqueued' = unqueued \ {s} /\ unqueued' \subseteq Subject
  BY DEF TypeOK, Judged

LEMMA DecisionShape == \A v : Decision(v) \in {"PASSED", "FAILED"}
  BY DEF Decision

LEMMA JudgeFacts ==
  ASSUME TypeOK, NEW r \in Req, Judge(r)
  PROVE  /\ Moves(r) /\ call[r].at = "judge" /\ call[r].of \in Request /\ call'[r] = Idle
         /\ call[r].subject \in Subject \cup {None} /\ call[r].doc \in Nat
         /\ UNCHANGED <<document, activated, queue, crossed, seen, lost, enrolled>>
         /\ \/ /\ call[r].subject # None /\ Exists(call[r].subject)
               /\ Judged(call[r].subject, Decision(call[r].verdict), call[r].of, call[r].doc)
            \/ /\ ~(call[r].subject # None /\ Exists(call[r].subject))
               /\ UNCHANGED <<status, verdictBy, late, unqueued>>
<1>1. call[r].at = "judge" /\ call[r] \in Call
  BY Busy DEF Judge
<1> QED BY <1>1, CallShape, GoesFacts DEF Judge

LEMMA PassSubjectFacts ==
  ASSUME TypeOK, NEW r \in Req, NEW s \in Subject, PassSubject(r, s)
  PROVE  /\ Moves(r) /\ call[r].at = "idle" /\ call'[r].at = "activate"
         /\ call'[r].of = None /\ call'[r].subject = None
  BY StepShape, StartsFacts DEF PassSubject

LEMMA CrashFacts ==
  ASSUME TypeOK, Crash
  PROVE  /\ call' \in [Req -> Call \cup {Idle}]
         /\ \A r \in Req : call'[r].at = "idle"
         /\ \A r \in Req : (call[r].at = "activate" /\ call[r].of # None) => call[r].of \in lost'
         /\ lost \subseteq lost' /\ lost' \subseteq Request
         /\ unqueued' = unqueued \cup InHand
         /\ UNCHANGED <<status, document, activated, queue,
                        verdictBy, crossed, seen, late, enrolled>>
<1>1. \A r \in Req : call[r].at \in {"activate", "judge"} => call[r].of \in Request \cup {None}
  BY Busy, CallShape
<1>2. lost' = lost \cup ({call[r].of : r \in At("activate") \cup At("judge")} \ {None})
  BY DEF Crash
<1>3. lost' \subseteq Request
  BY <1>1, <1>2 DEF At, TypeOK
<1>4. \A r \in Req : (call[r].at = "activate" /\ call[r].of # None) => call[r].of \in lost'
  BY <1>2 DEF At
<1> QED BY <1>2, <1>3, <1>4 DEF Crash, Idle

-----------------------------------------------------------------------------
(* How many submitted requests are pending                                 *)

CountInv ==
  /\ IsFiniteSet(Submitted)
  /\ Cardinality(Submitted) + Cardinality(At("submit")) <= Cardinality(Req)

LEMMA SubmittersFinite ==
  /\ IsFiniteSet(At("submit")) /\ Cardinality(At("submit")) \in Nat
  /\ Cardinality(At("submit")) <= Cardinality(Req) /\ Cardinality(Req) \in Nat
<1>1. At("submit") \in SUBSET Req
  BY DEF At
<1> QED BY <1>1, ReqAssumption, FS_Subset, FS_CardinalityType

\* No more pend or submit.
LEMMA NoMoreSubmitted ==
  ASSUME CountInv, Submitted' \subseteq Submitted, At("submit")' \subseteq At("submit")
  PROVE  CountInv'
<1>1. IsFiniteSet(Submitted') /\ Cardinality(Submitted') <= Cardinality(Submitted)
  BY FS_Subset DEF CountInv
<1>2. Cardinality(At("submit")') <= Cardinality(At("submit")) /\ IsFiniteSet(At("submit")')
  BY SubmittersFinite, FS_Subset
<1>3. /\ Cardinality(Submitted') \in Nat /\ Cardinality(Submitted) \in Nat
      /\ Cardinality(At("submit")') \in Nat
  BY <1>1, <1>2, FS_CardinalityType DEF CountInv
<1> QED BY <1>1, <1>2, <1>3, SubmittersFinite DEF CountInv

\* With nothing pending, as many may submit as there are calls.
LEMMA NoneSubmitted ==
  ASSUME Submitted' = {}
  PROVE  CountInv'
<1>1. At("submit")' \in SUBSET Req
  BY DEF At
<1>2. Cardinality(At("submit")') <= Cardinality(Req) /\ Cardinality(At("submit")') \in Nat
  BY <1>1, ReqAssumption, FS_Subset, FS_CardinalityType
<1> QED BY <1>2, FS_EmptySet DEF CountInv

\* A submission turns its call into a pending request.
LEMMA OneMoreSubmitted ==
  ASSUME CountInv, NEW q, q \notin Submitted, Submitted' = Submitted \cup {q},
         NEW r \in At("submit"), At("submit")' = At("submit") \ {r}
  PROVE  CountInv'
<1>1. IsFiniteSet(Submitted') /\ Cardinality(Submitted') = Cardinality(Submitted) + 1
  BY FS_AddElement DEF CountInv
<1>2. Cardinality(At("submit")') = Cardinality(At("submit")) - 1
  BY SubmittersFinite, FS_RemoveElement
<1>3. Cardinality(Submitted) \in Nat
  BY FS_CardinalityType DEF CountInv
<1> QED BY <1>1, <1>2, <1>3, SubmittersFinite DEF CountInv

-----------------------------------------------------------------------------
(* Parts of the invariant that most steps keep                             *)

\* What is left of the invariant when types and counting are set apart.
MainInv ==
  /\ ReviewsInv /\ NamesInv /\ RegisteredInv
  /\ VerdictAgrees /\ ApprovalActivates /\ PassedDocumentWasSeen
  /\ PendingIsQueued

LEMMA InvParts == VerificationInv <=> TypeOK /\ MainInv /\ CountInv
<1>1. RegisteredInv => \A p, q \in enrolled \cap Pending : about[p] = about[q] => p = q
  BY DEF RegisteredInv
<1> QED BY <1>1 DEF VerificationInv, MainInv, CountInv, PendingWithinOverlap

LEMMA InvPartsNext ==
  ASSUME TypeOK', MainInv', CountInv'
  PROVE  VerificationInv'
<1>1. (\A p, q \in enrolled \cap Pending : about[p] = about[q] => p = q)'
  BY DEF MainInv, RegisteredInv
<1> QED BY <1>1 DEF VerificationInv, MainInv, CountInv, PendingWithinOverlap

\* The queue, its registrations and what is in hand stay, but for the call that
\* moves.
LEMMA RegisteredKept ==
  ASSUME RegisteredInv, UNCHANGED <<queue, enrolled>>,
         \A p \in Req : call'[p].at = "queue" =>
           call[p].at = "queue" /\ call'[p].subject = call[p].subject
  PROVE  RegisteredInv'
  BY DEF RegisteredInv, queue, At

\* No name is lost.
LEMMA NamesKept ==
  ASSUME TypeOK, NamesInv, UNCHANGED <<document, queue>>,
         status' \in [Subject -> {"NONE", "PENDING", "PASSED", "FAILED", "GONE"}],
         \A s \in Subject : status[s] = "NONE" <=> status'[s] = "NONE",
         \A p \in Req : call'[p].at \in {"queue", "submit"} =>
           call[p].at = call'[p].at /\ call'[p].subject = call[p].subject
  PROVE  NamesInv'
<1>1. /\ \A q \in Request : about[q] \in Subject \cup {None}
      /\ \A q \in Request : company[q] \in Subject \cup {None}
      /\ Profile \in Subject
  BY DEF TypeOK, Subject
<1>2. \A p \in Req : call[p].at \in {"queue", "submit"} => call[p].subject \in Subject \cup {None}
  BY Busy, CallShape
<1> QED BY <1>1, <1>2 DEF NamesInv, queue

\* Reviews in progress stay as they are.
LEMMA ReviewsKept ==
  ASSUME ReviewsInv, UNCHANGED <<document, request, about, crossed>>, seen => seen',
         \A p \in Req : call'[p].at \in {"decide", "activate", "judge"} =>
           call'[p] = call[p] \/ call'[p].of = None
  PROVE  ReviewsInv'
  BY DEF ReviewsInv

LEMMA ApprovalsKept ==
  ASSUME ApprovalActivates, UNCHANGED <<request, lost>>, activated => activated',
         \A p \in Req : call[p].at = "activate" => call'[p] = call[p] \/ call[p].of = None
  PROVE  ApprovalActivates'
<1>1. \A q \in Request : q # None
  BY NameAssumption
<1> QED BY <1>1 DEF ApprovalActivates, At

\* No subject waits that did not, and none leaves queue or hand.
LEMMA QueuedKept ==
  ASSUME PendingIsQueued, UNCHANGED <<request, about>>,
         \A s \in Subject : status'[s] = "PENDING" =>
           status[s] = "PENDING" /\ (s \in unqueued => s \in unqueued'),
         \A p \in Req : call[p].at \in {"queue", "activate", "judge"} =>
           \/ call'[p].at \in {"queue", "activate", "judge"} /\ call'[p].subject = call[p].subject
           \/ call[p].subject \notin Subject
           \/ status'[call[p].subject] # "PENDING"
  PROVE  PendingIsQueued'
<1> SUFFICES ASSUME NEW s \in Subject, status'[s] = "PENDING"
             PROVE  \/ \E q \in Pending' : about'[q] = s
                    \/ s \in InHand'
                    \/ s \in unqueued'
  BY DEF PendingIsQueued
<1>1. CASE \E q \in Pending : about[q] = s
  BY <1>1 DEF Pending
<1>2. CASE s \in InHand
  <2>1. PICK p \in Req : call[p].at \in {"queue", "activate", "judge"} /\ call[p].subject = s
    BY <1>2 DEF InHand, At
  <2>2. call'[p].at \in {"queue", "activate", "judge"} /\ call'[p].subject = s
    BY <2>1
  <2> QED BY <2>2 DEF InHand, At
<1>3. CASE s \in unqueued
  BY <1>3
<1> QED BY <1>1, <1>2, <1>3 DEF PendingIsQueued

LEMMA InitInv == Init => VerificationInv
<1> SUFFICES ASSUME Init PROVE VerificationInv
  OBVIOUS
<1>1. TypeOK
  BY DEF Init, TypeOK
<1>2. \A r \in Req : call[r].at = "idle"
  BY DEF Init, Idle
<1>3. Profile \in Subject
  BY DEF Subject
<1>4. ReviewsInv /\ NamesInv /\ RegisteredInv
  BY <1>2, <1>3, NameAssumption DEF Init, ReviewsInv, NamesInv, RegisteredInv, At
<1>5. VerdictAgrees /\ ApprovalActivates /\ PassedDocumentWasSeen /\ PendingIsQueued
  BY <1>3, NameAssumption DEF Init, VerdictAgrees, ApprovalActivates,
     PassedDocumentWasSeen, PendingIsQueued
<1>6. Submitted = {} /\ At("submit") = {}
  BY <1>2, NameAssumption DEF Init, Submitted, Pending, At
<1>7. CountInv
  BY <1>6, SubmittersFinite, FS_EmptySet DEF CountInv
<1> QED BY <1>1, <1>4, <1>5, <1>7, InvParts DEF MainInv

-----------------------------------------------------------------------------
(* Every step keeps the invariant: the applicant's calls                   *)

LEMMA BeginInv ==
  ASSUME VerificationInv, NEW r \in Req,
         \/ \E s \in Subject : CreateBegin(r, s)
         \/ \E s \in Subject \cup {None} : SubmitBegin(r, s)
         \/ UpdateBegin(r)
  PROVE  VerificationInv'
<1>1. TypeOK /\ MainInv /\ CountInv
  BY InvParts
<1>2. /\ Moves(r) /\ call[r].at = "idle"
      /\ call'[r].at \in {"create", "submit", "document"}
      /\ call'[r].at = "submit" => Pending = {} /\ call'[r].subject \in Named
      /\ UNCHANGED <<status, document, activated, queue, history>>
  BY <1>1, BeginFacts
<1>3. TypeOK'
  BY <1>1, <1>2 DEF TypeOK, Moves, queue, history
<1>4. ReviewsInv' /\ ApprovalActivates' /\ RegisteredInv'
  BY <1>1, <1>2, ReviewsKept, ApprovalsKept, RegisteredKept DEF MainInv, Moves, queue, history
<1>5. PendingIsQueued'
  BY <1>1, <1>2, QueuedKept DEF MainInv, Moves, queue, history
<1>6. NamesInv'
  <2>1. \A q \in Request : about[q] \in Subject \cup {None} /\ company[q] \in Subject \cup {None}
    BY <1>1 DEF TypeOK, Subject
  <2>2. \A p \in Req : (call'[p].at \in {"queue", "submit"} /\ call'[p].subject # None) =>
          status[call'[p].subject] # "NONE"
    BY <1>1, <1>2 DEF MainInv, NamesInv, Moves, Named
  <2> QED BY <1>1, <1>2, <2>2 DEF MainInv, NamesInv, queue
<1>7. VerdictAgrees' /\ PassedDocumentWasSeen'
  BY <1>1, <1>2 DEF MainInv, VerdictAgrees, PassedDocumentWasSeen, queue, history
<1>8. CountInv'
  <2>1. Submitted' = Submitted
    BY <1>2 DEF Submitted, Pending, queue, history
  <2>2. CASE call'[r].at = "submit"
    BY <1>2, <2>1, <2>2, NoneSubmitted DEF Submitted
  <2>3. CASE call'[r].at # "submit"
    BY <1>1, <1>2, <2>1, <2>3, NoMoreSubmitted DEF At, Moves
  <2> QED BY <2>2, <2>3
<1> QED BY <1>3, <1>4, <1>5, <1>6, <1>7, <1>8, InvPartsNext DEF MainInv

LEMMA CreateSubjectInv ==
  ASSUME VerificationInv, NEW r \in Req, CreateSubject(r)
  PROVE  VerificationInv'
<1>1. TypeOK /\ MainInv /\ CountInv
  BY InvParts
<1>2. /\ Moves(r) /\ call[r].at = "create"
      /\ UNCHANGED <<activated, queue, history>>
  BY <1>1, CreateSubjectFacts
<1>3. CASE UNCHANGED <<status, document>> /\ call'[r] = Idle
  <2>1. call'[r].at = "idle"
    BY <1>3 DEF Idle
  <2>2. TypeOK'
    BY <1>1, <1>2, <1>3 DEF TypeOK, Moves, queue, history
  <2>3. ReviewsInv' /\ ApprovalActivates' /\ RegisteredInv' /\ NamesInv'
    <3>1. status' \in [Subject -> {"NONE", "PENDING", "PASSED", "FAILED", "GONE"}]
      BY <2>2 DEF TypeOK
    <3> QED BY <1>1, <1>2, <1>3, <2>1, <3>1, ReviewsKept, ApprovalsKept, RegisteredKept, NamesKept
        DEF MainInv, Moves, queue, history
  <2>4. PendingIsQueued'
    BY <1>1, <1>2, <1>3, QueuedKept DEF MainInv, Moves, queue, history
  <2>5. VerdictAgrees' /\ PassedDocumentWasSeen'
    BY <1>1, <1>2, <1>3 DEF MainInv, VerdictAgrees, PassedDocumentWasSeen, queue, history
  <2>6. CountInv'
    BY <1>1, <1>2, <2>1, NoMoreSubmitted DEF Submitted, Pending, At, Moves, queue, history
  <2> QED BY <2>2, <2>3, <2>4, <2>5, <2>6, InvPartsNext DEF MainInv
<1>4. ASSUME NEW s \in Subject, s = call[r].subject, status[s] = "NONE",
             status' = [status EXCEPT ![s] = "PENDING"],
             document' = IF s = Profile THEN 1 ELSE document,
             call'[r].at = "queue", call'[r].subject = s
      PROVE  VerificationInv'
  <2>1. /\ status' \in [Subject -> {"NONE", "PENDING", "PASSED", "FAILED", "GONE"}]
        /\ status'[s] = "PENDING" /\ \A t \in Subject \ {s} : status'[t] = status[t]
    BY <1>1, <1>4 DEF TypeOK
  <2>2. TypeOK'
    BY <1>1, <1>2, <1>4, <2>1 DEF TypeOK, Moves, queue, history
  <2>3. ReviewsInv'
    <3>1. document' # document => document = 0 /\ document' = 1
      BY <1>1, <1>4 DEF MainInv, NamesInv
    <3>2. \A p \in Req : call'[p].at \in {"decide", "activate", "judge"} =>
            p # r /\ call'[p] = call[p] /\ call[p].doc \in Nat
      BY <1>1, <1>2, <1>4, Busy, CallShape DEF Moves
    <3> QED BY <1>1, <1>2, <3>1, <3>2 DEF MainInv, ReviewsInv, TypeOK, queue, history
  <2>4. ApprovalActivates'
    BY <1>1, <1>2, ApprovalsKept DEF MainInv, Moves, queue, history
  <2>5. /\ \A q \in Request : about[q] # s /\ company[q] # s
        /\ \A p \in Req : call[p].at = "queue" => call[p].subject # s
    <3>1. s # None
      BY NameAssumption
    <3> QED BY <1>1, <1>4, <3>1 DEF MainInv, NamesInv
  <2>6. NamesInv'
    <3>1. \A q \in Request : about[q] \in Subject \cup {None} /\ company[q] \in Subject \cup {None}
      BY <1>1 DEF TypeOK, Subject
    <3>2. \A p \in Req : call[p].at \in {"queue", "submit"} => call[p].subject \in Subject \cup {None}
      BY <1>1, Busy, CallShape
    <3>3. status'[Profile] = "NONE" <=> document' = 0
      BY <1>1, <1>4, <2>1 DEF MainInv, NamesInv, Subject
    <3>4. \A t \in Subject : status[t] # "NONE" => status'[t] # "NONE"
      BY <2>1
    <3>5. \A p \in Req : (call'[p].at \in {"queue", "submit"} /\ call'[p].subject # None) =>
            status'[call'[p].subject] # "NONE"
      BY <1>1, <1>2, <1>4, <2>1, <3>2, <3>4 DEF MainInv, NamesInv, Moves
    <3> QED BY <1>1, <1>2, <3>1, <3>3, <3>4, <3>5 DEF MainInv, NamesInv, queue
  <2>7. RegisteredInv'
    <3>1. enrolled \subseteq Request
      BY <1>1 DEF TypeOK
    <3> QED BY <1>1, <1>2, <1>4, <2>5, <3>1 DEF MainInv, RegisteredInv, Moves, At, queue, history
  <2>8. VerdictAgrees' /\ PassedDocumentWasSeen'
    <3>1. \A t \in Subject : status'[t] \in {"PASSED", "FAILED"} => status'[t] = status[t]
      BY <2>1
    <3> QED BY <1>1, <1>2, <3>1 DEF MainInv, VerdictAgrees, PassedDocumentWasSeen, Subject, queue, history
  <2>9. PendingIsQueued'
    <3>1. s \in InHand'
      BY <1>4 DEF InHand, At
    <3>2. \A t \in Subject \ {s} : t \in InHand => t \in InHand'
      BY <1>2 DEF InHand, At, Moves
    <3> QED BY <1>1, <1>2, <2>1, <3>1, <3>2 DEF MainInv, PendingIsQueued, Pending, queue, history
  <2>10. CountInv'
    BY <1>1, <1>2, <1>4, NoMoreSubmitted DEF Submitted, Pending, At, Moves, queue, history
  <2> QED BY <2>2, <2>3, <2>4, <2>6, <2>7, <2>8, <2>9, <2>10, InvPartsNext DEF MainInv
<1> QED BY <1>1, <1>3, <1>4, CreateSubjectFacts

LEMMA SubmitCreateInv ==
  ASSUME VerificationInv, NEW r \in Req, SubmitCreate(r)
  PROVE  VerificationInv'
<1>1. TypeOK /\ MainInv /\ CountInv
  BY InvParts
<1>2. /\ Moves(r) /\ call[r].at = "submit" /\ call[r].subject \in Subject \cup {None}
      /\ call'[r] = Idle
      /\ UNCHANGED <<status, document, activated,
                     verdictBy, crossed, seen, late, lost, enrolled>>
  BY <1>1, SubmitCreateFacts
<1>3. call'[r].at = "idle"
  BY <1>2 DEF Idle
<1> DEFINE s == call[r].subject
<1>4. PICK q \in Request : Inserts(q, s)
  BY DEF SubmitCreate
<1>5. /\ request[q] = None /\ request'[q] = "PENDING"
      /\ about'[q] = s /\ company'[q] \in {s, None}
      /\ \A p \in Request \ {q} :
           /\ request'[p] = request[p] /\ about'[p] = about[p] /\ company'[p] = company[p]
      /\ request' \in [Request -> {None, "PENDING"} \cup Verdict]
      /\ about' \in [Request -> Subject \cup {None}]
      /\ company' \in [Request -> Company \cup {None}]
      /\ unqueued' = unqueued \ {s} /\ unqueued' \subseteq Subject
  BY <1>1, <1>2, <1>4, InsertsFacts
<1>6. s # None => status[s] # "NONE"
  BY <1>1, <1>2 DEF MainInv, NamesInv
<1> HIDE DEF s
<1>7. TypeOK'
  BY <1>1, <1>2, <1>5 DEF TypeOK, Moves
<1>8. \A p \in Request : request[p] \in Verdict \cup {"PENDING"} => p # q
  BY <1>5, NameAssumption DEF Verdict
<1>9. q \notin enrolled
  BY <1>1, <1>5 DEF MainInv, RegisteredInv
<1>10. ReviewsInv'
  <2>1. \A p \in Req : call'[p].at \in {"decide", "activate", "judge"} =>
          p # r /\ call'[p] = call[p] /\ call[p].of \in Request \cup {None}
    BY <1>1, <1>2, <1>3, Busy, CallShape DEF Moves
  <2> QED BY <1>1, <1>2, <1>5, <1>8, <2>1 DEF MainInv, ReviewsInv, TypeOK
<1>11. NamesInv'
  <2>1. \A p \in Request : about[p] \in Subject \cup {None} /\ company[p] \in Subject \cup {None}
    BY <1>1 DEF TypeOK, Subject
  <2>2. \A p \in Req : call'[p].at \in {"queue", "submit"} => call'[p] = call[p]
    BY <1>2, <1>3 DEF Moves
  <2> QED BY <1>1, <1>2, <1>5, <1>6, <2>1, <2>2 DEF MainInv, NamesInv
<1>12. RegisteredInv'
  <2>1. enrolled \subseteq Request
    BY <1>1 DEF TypeOK
  <2> QED BY <1>1, <1>2, <1>3, <1>5, <1>9, <2>1 DEF MainInv, RegisteredInv, Moves, At
<1>13. VerdictAgrees'
  <2>1. \A t \in Subject : verdictBy[t] \in Request \cup {None}
    BY <1>1 DEF TypeOK
  <2> QED BY <1>1, <1>2, <1>5, <1>8, <2>1 DEF MainInv, VerdictAgrees, ReviewsInv
<1>14. ApprovalActivates'
  BY <1>1, <1>2, <1>3, <1>5 DEF MainInv, ApprovalActivates, Moves, At
<1>15. PassedDocumentWasSeen'
  BY <1>1, <1>2 DEF MainInv, PassedDocumentWasSeen
<1>16. PendingIsQueued'
  <2>1. Pending \subseteq Pending' /\ q \in Pending' /\ \A p \in Pending : about'[p] = about[p]
    BY <1>5, <1>8 DEF Pending
  <2>2. InHand \subseteq InHand'
    BY <1>2 DEF InHand, At, Moves
  <2> QED BY <1>1, <1>2, <1>5, <2>1, <2>2 DEF MainInv, PendingIsQueued
<1>17. CountInv'
  <2>1. Submitted' = Submitted \cup {q} /\ q \notin Submitted
    BY <1>2, <1>5, <1>8, <1>9 DEF Submitted, Pending
  <2>2. At("submit")' = At("submit") \ {r} /\ r \in At("submit")
    BY <1>2, <1>3 DEF At, Moves
  <2> QED BY <1>1, <2>1, <2>2, OneMoreSubmitted
<1> QED BY <1>7, <1>10, <1>11, <1>12, <1>13, <1>14, <1>15, <1>16, <1>17, InvPartsNext DEF MainInv

\* The upsert finds a request.
LEMMA AimsInv ==
  ASSUME VerificationInv, NEW r \in Req, Queue(r), NEW q \in Matches(call[r].subject),
         Aims(q, call[r].subject), UNCHANGED <<request, company, enrolled>>
  PROVE  VerificationInv'
<1>1. TypeOK /\ MainInv /\ CountInv
  BY InvParts
<1>2. /\ Moves(r) /\ call[r].at = "queue" /\ call[r].subject \in Subject
      /\ call'[r] = Idle
      /\ UNCHANGED <<status, document, activated, verdictBy, crossed, seen, late, lost>>
  BY <1>1, QueueFacts
<1>3. call'[r].at = "idle"
  BY <1>2 DEF Idle
<1> DEFINE s == call[r].subject
<1>4. /\ q \in Pending /\ about'[q] = s
      /\ \A p \in Request \ {q} : about'[p] = about[p]
      /\ about' \in [Request -> Subject \cup {None}]
      /\ unqueued' = (unqueued \cup ({about[q]} \ {None})) \ {s}
      /\ unqueued' \subseteq Subject
  BY <1>1, <1>2, AimsFacts
<1>5. s \in Subject /\ status[s] # "NONE" /\ s # None
  BY <1>1, <1>2, NameAssumption DEF MainInv, NamesInv
<1> HIDE DEF s
<1>6. TypeOK'
  BY <1>1, <1>2, <1>4 DEF TypeOK, Moves
<1>7. \A p \in Request : request[p] \in Verdict => p # q
  BY <1>4 DEF Verdict, Pending
<1>8. ReviewsInv'
  <2>1. \A p \in Req : call'[p].at \in {"decide", "activate", "judge"} =>
          p # r /\ call'[p] = call[p] /\ call[p].of \in Request \cup {None}
    BY <1>1, <1>2, <1>3, Busy, CallShape DEF Moves
  <2> QED BY <1>1, <1>2, <1>4, <1>7, <2>1 DEF MainInv, ReviewsInv, TypeOK
<1>9. NamesInv'
  <2>1. \A p \in Request : about[p] \in Subject \cup {None} /\ company[p] \in Subject \cup {None}
    BY <1>1 DEF TypeOK, Subject
  <2>2. \A p \in Req : call'[p].at \in {"queue", "submit"} => call'[p] = call[p]
    BY <1>2, <1>3 DEF Moves
  <2> QED BY <1>1, <1>2, <1>4, <1>5, <2>1, <2>2 DEF MainInv, NamesInv
<1>10. RegisteredInv'
  <2>1. enrolled \subseteq Request
    BY <1>1 DEF TypeOK
  <2>2. \A p \in At("queue")' : p \in At("queue") /\ call'[p] = call[p] /\ call[p].subject # s
    BY <1>1, <1>2, <1>3 DEF MainInv, RegisteredInv, At, Moves, s
  <2>3. \A p \in enrolled : about[p] # s
    BY <1>1, <1>2 DEF MainInv, RegisteredInv, At, s
  <2> QED BY <1>1, <1>4, <2>1, <2>2, <2>3 DEF MainInv, RegisteredInv
<1>11. VerdictAgrees'
  <2>1. \A t \in Subject : verdictBy[t] \in Request \cup {None}
    BY <1>1 DEF TypeOK
  <2> QED BY <1>1, <1>2, <1>4, <1>7, <2>1 DEF MainInv, VerdictAgrees, ReviewsInv
<1>12. ApprovalActivates'
  BY <1>1, <1>2, <1>3 DEF MainInv, ApprovalActivates, Moves, At
<1>13. PassedDocumentWasSeen'
  BY <1>1, <1>2 DEF MainInv, PassedDocumentWasSeen
<1>14. PendingIsQueued'
  <2>1. Pending' = Pending /\ Pending \subseteq Request
    BY DEF Pending
  <2>2. \A t \in InHand : t = s \/ t \in InHand'
    BY <1>2 DEF InHand, At, Moves, s
  <2>3. \A t \in Subject : status'[t] = status[t] /\ t # None
    BY <1>2, NameAssumption
  <2> QED BY <1>1, <1>4, <2>1, <2>2, <2>3 DEF MainInv, PendingIsQueued
<1>15. CountInv'
  BY <1>1, <1>3, NoMoreSubmitted, <1>2 DEF Submitted, Pending, At, Moves
<1> QED BY <1>6, <1>8, <1>9, <1>10, <1>11, <1>12, <1>13, <1>14, <1>15, InvPartsNext DEF MainInv

\* The upsert inserts a request.
LEMMA EnrollInv ==
  ASSUME VerificationInv, NEW r \in Req, Queue(r), NEW q \in Request,
         Inserts(q, call[r].subject), enrolled' = enrolled \cup {q}
  PROVE  VerificationInv'
<1>1. TypeOK /\ MainInv /\ CountInv
  BY InvParts
<1>2. /\ Moves(r) /\ call[r].at = "queue" /\ call[r].subject \in Subject
      /\ call'[r] = Idle
      /\ UNCHANGED <<status, document, activated, verdictBy, crossed, seen, late, lost>>
  BY <1>1, QueueFacts
<1>3. call'[r].at = "idle"
  BY <1>2 DEF Idle
<1> DEFINE s == call[r].subject
<1>5. /\ request[q] = None /\ request'[q] = "PENDING"
      /\ about'[q] = s /\ company'[q] \in {s, None}
      /\ \A p \in Request \ {q} :
           /\ request'[p] = request[p] /\ about'[p] = about[p] /\ company'[p] = company[p]
      /\ request' \in [Request -> {None, "PENDING"} \cup Verdict]
      /\ about' \in [Request -> Subject \cup {None}]
      /\ company' \in [Request -> Company \cup {None}]
      /\ unqueued' = unqueued \ {s} /\ unqueued' \subseteq Subject
  BY <1>1, <1>2, InsertsFacts
<1>6. s \in Subject /\ status[s] # "NONE" /\ s # None
  BY <1>1, <1>2, NameAssumption DEF MainInv, NamesInv
<1>7. /\ \A p \in At("queue")' : p \in At("queue") /\ call'[p] = call[p] /\ call[p].subject # s
      /\ \A p \in At("queue")' : call[p].subject # None
  BY <1>1, <1>2, <1>3, Busy, CallShape, NameAssumption DEF MainInv, RegisteredInv, At, Moves
<1>8. \A p \in enrolled : about[p] # s /\ company[p] # s
  BY <1>1, <1>2 DEF MainInv, RegisteredInv, At
<1>9. \A t \in InHand : t = s \/ t \in InHand'
  BY <1>2 DEF InHand, At, Moves
<1> HIDE DEF s
<1>10. TypeOK'
  BY <1>1, <1>2, <1>5 DEF TypeOK, Moves
<1>11. \A p \in Request : request[p] \in Verdict \cup {"PENDING"} => p # q
  BY <1>5, NameAssumption DEF Verdict
<1>12. q \notin enrolled
  BY <1>1, <1>5 DEF MainInv, RegisteredInv
<1>13. ReviewsInv'
  <2>1. \A p \in Req : call'[p].at \in {"decide", "activate", "judge"} =>
          p # r /\ call'[p] = call[p] /\ call[p].of \in Request \cup {None}
    BY <1>1, <1>2, <1>3, Busy, CallShape DEF Moves
  <2> QED BY <1>1, <1>2, <1>5, <1>11, <2>1 DEF MainInv, ReviewsInv, TypeOK
<1>14. NamesInv'
  <2>1. \A p \in Request : about[p] \in Subject \cup {None} /\ company[p] \in Subject \cup {None}
    BY <1>1 DEF TypeOK, Subject
  <2>2. \A p \in Req : call'[p].at \in {"queue", "submit"} => call'[p] = call[p]
    BY <1>2, <1>3 DEF Moves
  <2> QED BY <1>1, <1>2, <1>5, <1>6, <2>1, <2>2 DEF MainInv, NamesInv
<1>15. RegisteredInv'
  <2>1. enrolled \subseteq Request
    BY <1>1 DEF TypeOK
  <2>2. \A p \in enrolled' : request'[p] # None
    BY <1>1, <1>5, <1>12, <2>1, NameAssumption DEF MainInv, RegisteredInv
  <2>3. \A p, x \in At("queue")' : call'[p].subject = call'[x].subject => p = x
    BY <1>1, <1>7 DEF MainInv, RegisteredInv
  <2>4. \A p \in At("queue")' : \A x \in enrolled' :
          about'[x] # call'[p].subject /\ company'[x] # call'[p].subject
    BY <1>1, <1>5, <1>7, <1>12, <2>1 DEF MainInv, RegisteredInv
  <2>5. \A p, x \in enrolled' :
          (about'[p] = about'[x] \/ (company'[p] = company'[x] /\ company'[p] # None)) => p = x
    BY <1>1, <1>5, <1>8, <1>12, <2>1 DEF MainInv, RegisteredInv
  <2> QED BY <2>2, <2>3, <2>4, <2>5 DEF RegisteredInv
<1>16. VerdictAgrees'
  <2>1. \A t \in Subject : verdictBy[t] \in Request \cup {None}
    BY <1>1 DEF TypeOK
  <2> QED BY <1>1, <1>2, <1>5, <1>11, <2>1 DEF MainInv, VerdictAgrees, ReviewsInv
<1>17. ApprovalActivates'
  BY <1>1, <1>2, <1>3, <1>5 DEF MainInv, ApprovalActivates, Moves, At
<1>18. PassedDocumentWasSeen'
  BY <1>1, <1>2 DEF MainInv, PassedDocumentWasSeen
<1>19. PendingIsQueued'
  <2>1. Pending \subseteq Pending' /\ q \in Pending' /\ \A p \in Pending : about'[p] = about[p]
    BY <1>5, <1>11 DEF Pending
  <2> QED BY <1>1, <1>2, <1>5, <1>9, <2>1 DEF MainInv, PendingIsQueued
<1>20. CountInv'
  <2>1. Submitted' \subseteq Submitted
    BY <1>5 DEF Submitted, Pending
  <2> QED BY <1>1, <1>2, <1>3, <2>1, NoMoreSubmitted DEF At, Moves
<1> QED BY <1>10, <1>13, <1>14, <1>15, <1>16, <1>17, <1>18, <1>19, <1>20, InvPartsNext DEF MainInv

LEMMA QueueInv ==
  ASSUME VerificationInv, NEW r \in Req, Queue(r)
  PROVE  VerificationInv'
<1>1. TypeOK /\ MainInv /\ CountInv
  BY InvParts
<1>2. /\ Moves(r) /\ call[r].at = "queue" /\ call[r].subject \in Subject
      /\ call'[r] = Idle
      /\ UNCHANGED <<status, document, activated, verdictBy, crossed, seen, late, lost>>
  BY <1>1, QueueFacts
<1>3. CASE /\ \E q \in Matches(call[r].subject) : Aims(q, call[r].subject)
           /\ UNCHANGED <<request, company, enrolled>>
  BY <1>3, AimsInv
<1>4. CASE \E q \in Request : Inserts(q, call[r].subject) /\ enrolled' = enrolled \cup {q}
  BY <1>4, EnrollInv
<1>5. CASE unqueued' = unqueued \cup {call[r].subject} /\ UNCHANGED <<queue, enrolled>>
  <2>1. call'[r].at = "idle"
    BY <1>2 DEF Idle
  <2>2. TypeOK'
    BY <1>1, <1>2, <1>5 DEF TypeOK, Moves, queue
  <2>3. ReviewsInv' /\ ApprovalActivates' /\ RegisteredInv'
    BY <1>1, <1>2, <1>5, <2>1, ReviewsKept, ApprovalsKept, RegisteredKept DEF MainInv, Moves, queue
  <2>4. NamesInv'
    BY <1>1, <1>2, <1>5, <2>1, <2>2, NamesKept DEF MainInv, Moves, TypeOK
  <2>5. VerdictAgrees' /\ PassedDocumentWasSeen'
    BY <1>1, <1>2, <1>5 DEF MainInv, VerdictAgrees, PassedDocumentWasSeen, queue
  <2>6. PendingIsQueued'
    <3>1. \A t \in InHand : t = call[r].subject \/ t \in InHand'
      BY <1>2 DEF InHand, At, Moves
    <3> QED BY <1>1, <1>2, <1>5, <3>1 DEF MainInv, PendingIsQueued, Pending, queue
  <2>7. CountInv'
    BY <1>1, <1>2, <1>5, <2>1, NoMoreSubmitted DEF Submitted, Pending, At, Moves, queue
  <2> QED BY <2>2, <2>3, <2>4, <2>5, <2>6, <2>7, InvPartsNext DEF MainInv
<1> QED BY <1>3, <1>4, <1>5 DEF Queue

LEMMA UpdateDocumentInv ==
  ASSUME VerificationInv, NEW r \in Req, UpdateDocument(r)
  PROVE  VerificationInv'
<1>1. TypeOK /\ MainInv /\ CountInv
  BY InvParts
<1>2. /\ Moves(r) /\ call[r].at = "document" /\ call'[r] = Idle
      /\ document' = document + 1 /\ seen' = FALSE
      /\ status' = [status EXCEPT ![Profile] = "PENDING"]
      /\ verdictBy' = [verdictBy EXCEPT ![Profile] = None]
      /\ unqueued' = unqueued \cup {Profile}
      /\ UNCHANGED <<activated, queue, crossed, late, lost, enrolled>>
  BY <1>1, UpdateDocumentFacts
<1>3. Profile \in Subject /\ call'[r].at = "idle"
  BY <1>2 DEF Subject, Idle
<1>4. /\ status'[Profile] = "PENDING" /\ verdictBy'[Profile] = None
      /\ \A t \in Subject \ {Profile} : status'[t] = status[t] /\ verdictBy'[t] = verdictBy[t]
  BY <1>1, <1>2, <1>3 DEF TypeOK
<1>5. TypeOK'
  <2>1. /\ status' \in [Subject -> {"NONE", "PENDING", "PASSED", "FAILED", "GONE"}]
        /\ verdictBy' \in [Subject -> Request \cup {None}]
        /\ document' \in Nat /\ unqueued' \subseteq Subject
    BY <1>1, <1>2, <1>3 DEF TypeOK
  <2> QED BY <1>1, <1>2, <2>1 DEF TypeOK, Moves, queue
<1>6. ReviewsInv'
  <2>1. \A p \in Req : call'[p].at \in {"decide", "activate", "judge"} =>
          call'[p] = call[p] /\ call[p].doc \in Nat
    BY <1>1, <1>2, <1>3, Busy, CallShape DEF Moves
  <2> QED BY <1>1, <1>2, <2>1 DEF MainInv, ReviewsInv, TypeOK, queue
<1>7. ApprovalActivates' /\ RegisteredInv'
  BY <1>1, <1>2, <1>3, ApprovalsKept, RegisteredKept DEF MainInv, Moves, queue
<1>8. NamesInv'
  <2>1. \A q \in Request : about[q] \in Subject \cup {None} /\ company[q] \in Subject \cup {None}
    BY <1>1 DEF TypeOK, Subject
  <2>2. \A p \in Req : call'[p].at \in {"queue", "submit"} =>
          call'[p] = call[p] /\ call[p].subject \in Subject \cup {None}
    BY <1>1, <1>2, <1>3, Busy, CallShape DEF Moves
  <2>3. document' # 0
    BY <1>1, <1>2 DEF TypeOK
  <2>4. \A t \in Subject : status[t] # "NONE" => status'[t] # "NONE"
    BY <1>4
  <2> QED BY <1>1, <1>2, <1>4, <2>1, <2>2, <2>3, <2>4 DEF MainInv, NamesInv, queue
<1>9. VerdictAgrees' /\ PassedDocumentWasSeen'
  BY <1>1, <1>2, <1>4 DEF MainInv, VerdictAgrees, PassedDocumentWasSeen, queue
<1>10. PendingIsQueued'
  <2>1. InHand \subseteq InHand'
    BY <1>2 DEF InHand, At, Moves
  <2> QED BY <1>1, <1>2, <1>4, <2>1 DEF MainInv, PendingIsQueued, Pending, queue
<1>11. CountInv'
  BY <1>1, <1>2, <1>3, NoMoreSubmitted DEF Submitted, Pending, At, Moves, queue
<1> QED BY <1>5, <1>6, <1>7, <1>8, <1>9, <1>10, <1>11, InvPartsNext DEF MainInv

-----------------------------------------------------------------------------
(* Every step keeps the invariant: reviews and direct verdicts             *)

LEMMA ReviewFindInv ==
  ASSUME VerificationInv, NEW r \in Req, NEW q \in Request, NEW v \in Verdict, ReviewFind(r, q, v)
  PROVE  VerificationInv'
<1>1. TypeOK /\ MainInv /\ CountInv
  BY InvParts
<1>2. /\ Moves(r) /\ call[r].at = "idle" /\ request[q] = "PENDING"
      /\ call'[r].at = "decide" /\ call'[r].of = q /\ call'[r].subject = None
      /\ call'[r].doc = IF about[q] = Profile THEN document ELSE 0
      /\ seen' = (seen \/ about[q] = Profile)
      /\ UNCHANGED <<status, document, activated, queue,
                     verdictBy, crossed, late, lost, enrolled, unqueued>>
  BY <1>1, ReviewFindFacts
<1>3. TypeOK'
  BY <1>1, <1>2 DEF TypeOK, Moves, queue
<1>4. ReviewsInv'
  <2>1. \A p \in Req \ {r} : call'[p] = call[p]
    BY <1>2 DEF Moves
  <2>2. document \in Nat /\ seen \in BOOLEAN
    BY <1>1 DEF TypeOK
  <2>3. call'[r].doc <= document /\ (call'[r].doc # 0 => seen')
    <3>1. CASE about[q] = Profile
      <4>1. call'[r].doc = document
        BY <1>2, <3>1
      <4>2. seen'
        BY <1>2, <3>1
      <4> QED BY <2>2, <4>1, <4>2
    <3>2. CASE about[q] # Profile
      <4>1. call'[r].doc = 0
        BY <1>2, <3>2
      <4> QED BY <2>2, <4>1
    <3> QED BY <3>1, <3>2
  <2>4. ASSUME NEW p \in Req, call'[p].at \in {"decide", "activate", "judge"}, call'[p].of # None
        PROVE  /\ call'[p].doc <= document'
               /\ (call'[p].doc # 0 /\ call'[p].doc = document') => seen'
               /\ call'[p].at # "decide" =>
                    /\ request'[call'[p].of] \in Verdict
                    /\ call'[p].subject = about'[call'[p].of]
                    /\ request'[call'[p].of] = call'[p].verdict \/ call'[p].of \in crossed'
    <3>1. CASE p = r
      BY <1>2, <2>3, <3>1
    <3>2. CASE p # r
      BY <1>1, <1>2, <2>1, <2>4, <3>2 DEF MainInv, ReviewsInv, queue
    <3> QED BY <3>1, <3>2
  <2> QED BY <1>1, <1>2, <2>4 DEF MainInv, ReviewsInv, queue
<1>5. ApprovalActivates' /\ RegisteredInv' /\ PendingIsQueued'
  BY <1>1, <1>2, ApprovalsKept, RegisteredKept, QueuedKept DEF MainInv, Moves, queue
<1>6. NamesInv'
  BY <1>1, <1>2, <1>3, NamesKept DEF MainInv, Moves, TypeOK
<1>7. VerdictAgrees' /\ PassedDocumentWasSeen'
  BY <1>1, <1>2 DEF MainInv, VerdictAgrees, PassedDocumentWasSeen, queue
<1>8. CountInv'
  BY <1>1, <1>2, NoMoreSubmitted DEF Submitted, Pending, At, Moves, queue
<1> QED BY <1>3, <1>4, <1>5, <1>6, <1>7, <1>8, InvPartsNext DEF MainInv

LEMMA DecideInv ==
  ASSUME VerificationInv, NEW r \in Req, Decide(r)
  PROVE  VerificationInv'
<1>1. TypeOK /\ MainInv /\ CountInv
  BY InvParts
<1>2. PICK q \in Request : q = call[r].of
  BY <1>1, DecideFacts
<1>3. /\ Moves(r) /\ call[r].at = "decide" /\ call[r].verdict \in Verdict
      /\ call'[r].at = IF call[r].verdict = "APPROVED" THEN "activate" ELSE "judge"
      /\ call'[r].of = q /\ call'[r].verdict = call[r].verdict
      /\ call'[r].doc = call[r].doc /\ call'[r].subject = about[q]
      /\ request' = [request EXCEPT ![q] = call[r].verdict]
      /\ crossed' = IF request[q] = "PENDING" THEN crossed ELSE crossed \cup {q}
      /\ UNCHANGED <<status, document, activated, about, company,
                     verdictBy, seen, late, lost, enrolled, unqueued>>
  BY <1>1, <1>2, DecideFacts
<1>4. /\ request'[q] = call[r].verdict /\ request'[q] \in Verdict
      /\ \A p \in Request \ {q} : request'[p] = request[p]
      /\ request' \in [Request -> {None, "PENDING"} \cup Verdict]
  BY <1>1, <1>3 DEF TypeOK
<1>5. TypeOK'
  BY <1>1, <1>3, <1>4 DEF TypeOK, Moves
<1>6. "PENDING" \notin Verdict /\ None \notin Verdict
  BY NameAssumption DEF Verdict
<1>7. ReviewsInv'
  <2>1. q # None
    BY NameAssumption
  <2>2. \A p \in Req \ {r} : call'[p] = call[p]
    BY <1>3 DEF Moves
  <2>3. \A p \in Req : (call[p].at \in {"decide", "activate", "judge"}) =>
          call[p].of \in Request \cup {None}
    BY <1>1, Busy, CallShape
  <2>4. call[r].doc <= document /\ ((call[r].doc # 0 /\ call[r].doc = document) => seen)
    BY <1>1, <1>2, <1>3, <2>1 DEF MainInv, ReviewsInv
  <2>5. \A x \in crossed' : request'[x] \in Verdict
    BY <1>1, <1>3, <1>4 DEF MainInv, ReviewsInv, TypeOK
  <2>6. ASSUME NEW p \in Req \ {r}, call[p].at \in {"activate", "judge"}, call[p].of # None
        PROVE  /\ request'[call[p].of] \in Verdict
               /\ call[p].subject = about'[call[p].of]
               /\ request'[call[p].of] = call[p].verdict \/ call[p].of \in crossed'
    <3>1. /\ request[call[p].of] \in Verdict /\ call[p].of \in Request
          /\ call[p].subject = about[call[p].of]
          /\ request[call[p].of] = call[p].verdict \/ call[p].of \in crossed
      BY <1>1, <2>3, <2>6 DEF MainInv, ReviewsInv
    <3>2. CASE call[p].of = q
      BY <1>3, <1>4, <1>6, <3>1, <3>2
    <3>3. CASE call[p].of # q
      BY <1>3, <1>4, <3>1, <3>3
    <3> QED BY <3>2, <3>3
  <2>7. ASSUME NEW p \in Req, call'[p].at \in {"decide", "activate", "judge"}, call'[p].of # None
        PROVE  /\ call'[p].doc <= document'
               /\ (call'[p].doc # 0 /\ call'[p].doc = document') => seen'
               /\ call'[p].at # "decide" =>
                    /\ request'[call'[p].of] \in Verdict
                    /\ call'[p].subject = about'[call'[p].of]
                    /\ request'[call'[p].of] = call'[p].verdict \/ call'[p].of \in crossed'
    <3>1. CASE p = r
      BY <1>3, <1>4, <2>4, <3>1
    <3>2. CASE p # r
      BY <1>1, <1>3, <2>2, <2>6, <2>7, <3>2 DEF MainInv, ReviewsInv
    <3> QED BY <3>1, <3>2
  <2> QED BY <2>5, <2>7 DEF ReviewsInv
<1>8. NamesInv'
  <2>1. \A p \in Req : call'[p].at \in {"queue", "submit"} => call'[p] = call[p]
    BY <1>3 DEF Moves
  <2> QED BY <1>1, <1>3, <2>1 DEF MainInv, NamesInv
<1>9. RegisteredInv'
  <2>1. enrolled \subseteq Request
    BY <1>1 DEF TypeOK
  <2> QED BY <1>1, <1>3, <1>4, <1>6, <2>1 DEF MainInv, RegisteredInv, At, Moves
<1>10. VerdictAgrees'
  <2>1. \A t \in Subject : verdictBy[t] \in Request \cup {None}
    BY <1>1 DEF TypeOK
  <2> QED BY <1>1, <1>3, <1>4, <1>6, <2>1 DEF MainInv, VerdictAgrees, ReviewsInv
<1>11. ApprovalActivates'
  <2>1. request'[q] = "APPROVED" => r \in At("activate")' /\ call'[r].of = q
    BY <1>3, <1>4 DEF At
  <2>2. \A p \in At("activate") : p \in At("activate")' /\ call'[p] = call[p]
    BY <1>3 DEF At, Moves
  <2> QED BY <1>1, <1>3, <1>4, <2>1, <2>2 DEF MainInv, ApprovalActivates
<1>12. PassedDocumentWasSeen'
  BY <1>1, <1>3 DEF MainInv, PassedDocumentWasSeen
<1>13. PendingIsQueued'
  <2>1. \A p \in Pending : p = q \/ p \in Pending'
    BY <1>4 DEF Pending
  <2>2. \A t \in Subject : about[q] = t => t \in InHand'
    BY <1>3 DEF InHand, At
  <2>3. InHand \subseteq InHand'
    BY <1>3 DEF InHand, At, Moves
  <2> QED BY <1>1, <1>3, <2>1, <2>2, <2>3 DEF MainInv, PendingIsQueued
<1>14. CountInv'
  <2>1. Submitted' \subseteq Submitted
    BY <1>3, <1>4, <1>6 DEF Submitted, Pending
  <2> QED BY <1>1, <1>3, <2>1, NoMoreSubmitted DEF At, Moves
<1> QED BY <1>5, <1>7, <1>8, <1>9, <1>10, <1>11, <1>12, <1>13, <1>14, InvPartsNext DEF MainInv

LEMMA ActivateInv ==
  ASSUME VerificationInv, NEW r \in Req, Activate(r)
  PROVE  VerificationInv'
<1>1. TypeOK /\ MainInv /\ CountInv
  BY InvParts
<1>2. /\ Moves(r) /\ call[r].at = "activate" /\ activated' = TRUE
      /\ UNCHANGED <<status, document, queue, history>>
  BY <1>1, ActivateFacts
<1>3. /\ call[r].of = None => call'[r].at = "idle" /\ call[r].subject = None
      /\ call[r].of # None =>
           /\ call'[r].at = "judge" /\ call'[r].of = call[r].of
           /\ call'[r].verdict = call[r].verdict /\ call'[r].doc = call[r].doc
           /\ call'[r].subject = call[r].subject
  <2>1. CASE call[r].of = None
    <3>1. call'[r] = Idle /\ call[r].subject = None
      BY <1>1, <2>1, ActivateFacts
    <3> QED BY <2>1, <3>1 DEF Idle
  <2>2. CASE call[r].of # None
    <3>1. /\ call'[r].at = "judge" /\ call'[r].of = call[r].of
          /\ call'[r].verdict = call[r].verdict /\ call'[r].doc = call[r].doc
          /\ call'[r].subject = call[r].subject
      BY <1>1, <2>2, ActivateFacts
    <3> QED BY <2>2, <3>1
  <2> QED BY <2>1, <2>2
<1>4. call'[r].at \in {"idle", "judge"} /\ \A p \in Req \ {r} : call'[p] = call[p]
  BY <1>2, <1>3 DEF Moves
<1>5. TypeOK'
  BY <1>1, <1>2 DEF TypeOK, Moves, queue, history
<1>6. ReviewsInv'
  <2>1. ASSUME NEW p \in Req, call'[p].at \in {"decide", "activate", "judge"}, call'[p].of # None
        PROVE  /\ call'[p].doc <= document'
               /\ (call'[p].doc # 0 /\ call'[p].doc = document') => seen'
               /\ call'[p].at # "decide" =>
                    /\ request'[call'[p].of] \in Verdict
                    /\ call'[p].subject = about'[call'[p].of]
                    /\ request'[call'[p].of] = call'[p].verdict \/ call'[p].of \in crossed'
    <3>1. CASE p = r
      BY <1>1, <1>2, <1>3, <2>1, <3>1 DEF MainInv, ReviewsInv, queue, history
    <3>2. CASE p # r
      BY <1>1, <1>2, <1>4, <2>1, <3>2 DEF MainInv, ReviewsInv, queue, history
    <3> QED BY <3>1, <3>2
  <2> QED BY <1>1, <1>2, <2>1 DEF MainInv, ReviewsInv, queue, history
<1>7. RegisteredInv'
  BY <1>1, <1>2, <1>4, RegisteredKept DEF MainInv, queue, history
<1>8. NamesInv'
  BY <1>1, <1>2, <1>4, <1>5, NamesKept DEF MainInv, TypeOK
<1>9. VerdictAgrees' /\ PassedDocumentWasSeen'
  BY <1>1, <1>2 DEF MainInv, VerdictAgrees, PassedDocumentWasSeen, queue, history
<1>10. ApprovalActivates'
  BY <1>2 DEF ApprovalActivates
<1>11. PendingIsQueued'
  <2>1. None \notin Subject
    BY NameAssumption
  <2> QED BY <1>1, <1>2, <1>3, <1>4, <2>1, QueuedKept DEF MainInv, queue, history
<1>12. CountInv'
  BY <1>1, <1>2, <1>4, NoMoreSubmitted DEF Submitted, Pending, At, queue, history
<1> QED BY <1>5, <1>6, <1>7, <1>8, <1>9, <1>10, <1>11, <1>12, InvPartsNext DEF MainInv

\* A verdict on s, by a call that ends, starts or is not of this applicant.
LEMMA JudgedInv ==
  ASSUME VerificationInv, NEW s \in Subject, NEW v \in {"PASSED", "FAILED"},
         NEW q \in Request \cup {None}, NEW d, Exists(s), Judged(s, v, q, d),
         call' \in [Req -> Call \cup {Idle}],
         UNCHANGED <<document, activated, queue, crossed, lost, enrolled>>,
         seen' \in BOOLEAN, seen => seen',
         (s = Profile /\ v = "PASSED") => seen' \/ d # document,
         q # None => /\ request[q] \in Verdict /\ about[q] = s
                     /\ v = Decision(request[q]) \/ q \in crossed,
         \A p \in Req :
           \/ call'[p] = call[p]
           \/ /\ call[p].at \in {"idle", "judge"}
              /\ call[p].at = "judge" => call[p].subject = s
              /\ \/ call'[p].at = "idle"
                 \/ call'[p].at = "activate" /\ call'[p].of = None
  PROVE  VerificationInv'
<1>1. TypeOK /\ MainInv /\ CountInv
  BY InvParts
<1>2. /\ status'[s] = v /\ verdictBy'[s] = q
      /\ \A t \in Subject \ {s} : status'[t] = status[t] /\ verdictBy'[t] = verdictBy[t]
      /\ status' \in [Subject -> {"NONE", "PENDING", "PASSED", "FAILED", "GONE"}]
      /\ verdictBy' \in [Subject -> Request \cup {None}]
      /\ late' \in BOOLEAN /\ late' = IF s = Profile THEN d # document ELSE late
      /\ unqueued' = unqueued \ {s} /\ unqueued' \subseteq Subject
  BY <1>1, JudgedFacts
<1>3. TypeOK'
  BY <1>1, <1>2 DEF TypeOK, queue
<1>4. ReviewsInv' /\ ApprovalActivates' /\ RegisteredInv'
  BY <1>1, ReviewsKept, ApprovalsKept, RegisteredKept DEF MainInv, queue
<1>5. NamesInv'
  <2>1. \A t \in Subject : status[t] = "NONE" <=> status'[t] = "NONE"
    BY <1>2 DEF Exists
  <2> QED BY <1>1, <1>2, <2>1, NamesKept DEF MainInv
<1>6. VerdictAgrees'
  BY <1>1, <1>2 DEF MainInv, VerdictAgrees, queue
<1>7. PassedDocumentWasSeen'
  BY <1>1, <1>2 DEF MainInv, PassedDocumentWasSeen, Subject
<1>8. PendingIsQueued'
  <2>1. \A t \in Subject : status'[t] = "PENDING" =>
          status[t] = "PENDING" /\ (t \in unqueued => t \in unqueued')
    BY <1>2
  <2>2. \A p \in Req : call[p].at \in {"queue", "activate", "judge"} =>
           \/ call'[p].at \in {"queue", "activate", "judge"} /\ call'[p].subject = call[p].subject
           \/ call[p].subject \notin Subject
           \/ status'[call[p].subject] # "PENDING"
    BY <1>2
  <2> QED BY <1>1, <2>1, <2>2, QueuedKept DEF MainInv, queue
<1>9. CountInv'
  BY <1>1, NoMoreSubmitted DEF Submitted, Pending, At, queue
<1> QED BY <1>3, <1>4, <1>5, <1>6, <1>7, <1>8, <1>9, InvPartsNext DEF MainInv

LEMMA JudgeInv ==
  ASSUME VerificationInv, NEW r \in Req, Judge(r)
  PROVE  VerificationInv'
<1>1. TypeOK /\ MainInv /\ CountInv
  BY InvParts
<1>2. /\ Moves(r) /\ call[r].at = "judge" /\ call[r].of \in Request /\ call'[r] = Idle
      /\ call[r].subject \in Subject \cup {None} /\ call[r].doc \in Nat
      /\ UNCHANGED <<document, activated, queue, crossed, seen, lost, enrolled>>
  BY <1>1, JudgeFacts
<1>3. call'[r].at = "idle" /\ \A p \in Req \ {r} : call'[p] = call[p]
  BY <1>2 DEF Idle, Moves
<1>4. CASE /\ ~(call[r].subject # None /\ Exists(call[r].subject))
           /\ UNCHANGED <<status, verdictBy, late, unqueued>>
  <2>1. TypeOK'
    BY <1>1, <1>2, <1>4 DEF TypeOK, Moves, queue
  <2>2. ReviewsInv' /\ ApprovalActivates' /\ RegisteredInv'
    BY <1>1, <1>2, <1>3, <1>4, ReviewsKept, ApprovalsKept, RegisteredKept DEF MainInv, queue
  <2>3. NamesInv'
    BY <1>1, <1>2, <1>3, <1>4, <2>1, NamesKept DEF MainInv, TypeOK
  <2>4. VerdictAgrees' /\ PassedDocumentWasSeen'
    BY <1>1, <1>2, <1>4 DEF MainInv, VerdictAgrees, PassedDocumentWasSeen, queue
  <2>5. PendingIsQueued'
    <3>1. call[r].subject \in Subject => status'[call[r].subject] # "PENDING"
      BY <1>4, NameAssumption DEF Exists
    <3> QED BY <1>1, <1>2, <1>3, <1>4, <3>1, QueuedKept DEF MainInv, queue
  <2>6. CountInv'
    BY <1>1, <1>2, <1>3, NoMoreSubmitted DEF Submitted, Pending, At, queue
  <2> QED BY <2>1, <2>2, <2>3, <2>4, <2>5, <2>6, InvPartsNext DEF MainInv
<1>5. CASE /\ call[r].subject # None /\ Exists(call[r].subject)
           /\ Judged(call[r].subject, Decision(call[r].verdict), call[r].of, call[r].doc)
  <2>1. PICK s \in Subject : s = call[r].subject
    BY <1>2, <1>5
  <2>2. PICK q \in Request : q = call[r].of
    BY <1>2
  <2>3. q # None
    BY NameAssumption
  <2>4. /\ call[r].doc <= document
        /\ (call[r].doc # 0 /\ call[r].doc = document) => seen
        /\ request[q] \in Verdict /\ s = about[q]
        /\ request[q] = call[r].verdict \/ q \in crossed
    BY <1>1, <1>2, <2>1, <2>2, <2>3 DEF MainInv, ReviewsInv
  <2>5. Decision(call[r].verdict) = Decision(request[q]) \/ q \in crossed
    BY <2>4
  <2>6. s = Profile => seen \/ call[r].doc # document
    <3>1. s = Profile => document # 0
      BY <1>1, <1>5, <2>1 DEF MainInv, NamesInv, Exists
    <3> QED BY <2>4, <3>1
  <2>7. Decision(call[r].verdict) \in {"PASSED", "FAILED"}
    BY DecisionShape
  <2>8. seen \in BOOLEAN /\ seen' = seen
    BY <1>1, <1>2 DEF TypeOK
  <2>9. Exists(s) /\ Judged(s, Decision(call[r].verdict), q, call[r].doc)
    BY <1>5, <2>1, <2>2
  <2>10. call' \in [Req -> Call \cup {Idle}]
    BY <1>2 DEF Moves
  <2>11. UNCHANGED <<document, activated, queue, crossed, lost, enrolled>>
    BY <1>2
  <2>12. \A p \in Req :
           \/ call'[p] = call[p]
           \/ /\ call[p].at \in {"idle", "judge"}
              /\ call[p].at = "judge" => call[p].subject = s
              /\ \/ call'[p].at = "idle"
                 \/ call'[p].at = "activate" /\ call'[p].of = None
    BY <1>2, <1>3, <2>1
  <2> QED BY <2>2, <2>4, <2>5, <2>6, <2>7, <2>8, <2>9, <2>10, <2>11, <2>12, JudgedInv
<1> QED BY <1>1, <1>4, <1>5, JudgeFacts

LEMMA PassSubjectInv ==
  ASSUME VerificationInv, NEW r \in Req, NEW s \in Subject, PassSubject(r, s)
  PROVE  VerificationInv'
<1>1. TypeOK
  BY InvParts
<1>2. /\ Moves(r) /\ call[r].at = "idle" /\ call'[r].at = "activate"
      /\ call'[r].of = None /\ call'[r].subject = None
  BY <1>1, PassSubjectFacts
<1>3. /\ Exists(s) /\ Judged(s, "PASSED", None, document)
      /\ seen' = (seen \/ s = Profile)
      /\ UNCHANGED <<document, activated, queue, crossed, lost, enrolled>>
  BY DEF PassSubject
<1> QED BY <1>1, <1>2, <1>3, JudgedInv DEF Moves, TypeOK

LEMMA OutsideInv ==
  ASSUME VerificationInv, NEW s \in Subject, NEW w \in Verdict, NEW d,
         FailSubject(s) \/ OthersVerdict(s, w, d)
  PROVE  VerificationInv'
<1>1. TypeOK
  BY InvParts
<1>2. CASE FailSubject(s)
  BY <1>1, <1>2, JudgedInv DEF FailSubject, TypeOK
<1>3. CASE OthersVerdict(s, w, d)
  <2>1. Decision(w) \in {"PASSED", "FAILED"}
    BY DecisionShape
  <2>2. (s = Profile /\ Decision(w) = "PASSED") => seen' \/ d # document
    BY <1>3 DEF OthersVerdict
  <2>3. seen' \in BOOLEAN /\ (seen => seen')
    BY <1>3 DEF OthersVerdict
  <2> QED BY <1>1, <1>3, <2>1, <2>2, <2>3, JudgedInv DEF OthersVerdict, TypeOK
<1> QED BY <1>2, <1>3

LEMMA WithdrawInv ==
  ASSUME VerificationInv, NEW s \in Company, Withdraw(s)
  PROVE  VerificationInv'
<1>1. TypeOK /\ MainInv /\ CountInv
  BY InvParts
<1>2. /\ status' = [status EXCEPT ![s] = "GONE"]
      /\ verdictBy' = [verdictBy EXCEPT ![s] = None]
      /\ UNCHANGED <<document, activated, queue, call,
                     crossed, seen, late, lost, enrolled, unqueued>>
  BY DEF Withdraw
<1>3. s \in Subject /\ s # Profile
  BY NameAssumption DEF Subject
<1>4. /\ status'[s] = "GONE" /\ verdictBy'[s] = None
      /\ \A t \in Subject \ {s} : status'[t] = status[t] /\ verdictBy'[t] = verdictBy[t]
      /\ status' \in [Subject -> {"NONE", "PENDING", "PASSED", "FAILED", "GONE"}]
      /\ verdictBy' \in [Subject -> Request \cup {None}]
  BY <1>1, <1>2, <1>3 DEF TypeOK
<1>5. TypeOK'
  BY <1>1, <1>2, <1>4 DEF TypeOK, queue
<1>6. ReviewsInv' /\ ApprovalActivates' /\ RegisteredInv'
  BY <1>1, <1>2, ReviewsKept, ApprovalsKept, RegisteredKept DEF MainInv, queue
<1>7. NamesInv'
  <2>1. \A t \in Subject : status[t] = "NONE" <=> status'[t] = "NONE"
    BY <1>3, <1>4 DEF Withdraw, Exists
  <2> QED BY <1>1, <1>2, <1>4, <2>1, NamesKept DEF MainInv
<1>8. VerdictAgrees' /\ PassedDocumentWasSeen'
  <2>1. status'[Profile] = status[Profile]
    BY <1>3, <1>4 DEF Subject
  <2> QED BY <1>1, <1>2, <1>4, <2>1 DEF MainInv, VerdictAgrees, PassedDocumentWasSeen, queue
<1>9. PendingIsQueued'
  <2>1. \A t \in Subject : status'[t] = "PENDING" => status[t] = "PENDING"
    BY <1>4
  <2> QED BY <1>1, <1>2, <2>1, QueuedKept DEF MainInv, queue
<1>10. CountInv'
  BY <1>1, <1>2, NoMoreSubmitted DEF Submitted, Pending, At, queue
<1> QED BY <1>5, <1>6, <1>7, <1>8, <1>9, <1>10, InvPartsNext DEF MainInv

LEMMA CrashInv ==
  ASSUME VerificationInv, Crash
  PROVE  VerificationInv'
<1>1. TypeOK /\ MainInv /\ CountInv
  BY InvParts
<1>2. /\ call' \in [Req -> Call \cup {Idle}]
      /\ \A r \in Req : call'[r].at = "idle"
      /\ \A r \in Req : (call[r].at = "activate" /\ call[r].of # None) => call[r].of \in lost'
      /\ lost \subseteq lost' /\ lost' \subseteq Request
      /\ unqueued' = unqueued \cup InHand
      /\ UNCHANGED <<status, document, activated, queue,
                     verdictBy, crossed, seen, late, enrolled>>
  BY <1>1, CrashFacts
<1>3. TypeOK'
  BY <1>1, <1>2 DEF TypeOK, InHand, queue
<1>4. ReviewsInv' /\ RegisteredInv'
  BY <1>1, <1>2, ReviewsKept, RegisteredKept DEF MainInv, queue
<1>5. NamesInv'
  BY <1>1, <1>2, <1>3, NamesKept DEF MainInv, TypeOK
<1>6. VerdictAgrees' /\ PassedDocumentWasSeen'
  BY <1>1, <1>2 DEF MainInv, VerdictAgrees, PassedDocumentWasSeen, queue
<1>7. ApprovalActivates'
  <2>1. \A q \in Request : \A r \in At("activate") : call[r].of = q => q \in lost'
    BY <1>2, NameAssumption DEF At
  <2> QED BY <1>1, <1>2, <2>1 DEF MainInv, ApprovalActivates, queue
<1>8. PendingIsQueued'
  BY <1>1, <1>2 DEF MainInv, PendingIsQueued, Pending, queue
<1>9. CountInv'
  BY <1>1, <1>2, NoMoreSubmitted DEF Submitted, Pending, At, queue
<1> QED BY <1>3, <1>4, <1>5, <1>6, <1>7, <1>8, <1>9, InvPartsNext DEF MainInv

LEMMA StepInv == VerificationInv /\ [Next]_vars => VerificationInv'
<1> SUFFICES ASSUME VerificationInv, [Next]_vars PROVE VerificationInv'
  OBVIOUS
<1>1. ASSUME NEW r \in Req,
             \/ \E s \in Subject : CreateBegin(r, s)
             \/ \E s \in Subject \cup {None} : SubmitBegin(r, s)
             \/ UpdateBegin(r)
             \/ CreateSubject(r) \/ Queue(r) \/ SubmitCreate(r) \/ UpdateDocument(r)
      PROVE  VerificationInv'
  BY <1>1, BeginInv, CreateSubjectInv, QueueInv, SubmitCreateInv, UpdateDocumentInv
<1>2. ASSUME NEW r \in Req,
             \/ \E q \in Request, v \in Verdict : ReviewFind(r, q, v)
             \/ Decide(r) \/ Activate(r) \/ Judge(r)
             \/ \E s \in Subject : PassSubject(r, s)
      PROVE  VerificationInv'
  BY <1>2, ReviewFindInv, DecideInv, ActivateInv, JudgeInv, PassSubjectInv
<1>3. CASE \/ \E s \in Subject, v \in Verdict, d \in {0, document} : OthersVerdict(s, v, d)
           \/ \E s \in Subject : FailSubject(s)
  <2>1. "APPROVED" \in Verdict
    BY DEF Verdict
  <2> QED BY <1>3, <2>1, OutsideInv
<1>4. CASE \E s \in Company : Withdraw(s)
  BY <1>4, WithdrawInv
<1>5. CASE Crash
  BY <1>5, CrashInv
<1>6. CASE UNCHANGED vars
  BY <1>6 DEF vars, queue, history, VerificationInv, TypeOK, ReviewsInv, NamesInv, RegisteredInv,
     VerdictAgrees, ApprovalActivates, PassedDocumentWasSeen, PendingIsQueued,
     PendingWithinOverlap, Submitted, InHand, At, Pending
<1> QED BY <1>1, <1>2, <1>3, <1>4, <1>5, <1>6 DEF Next

-----------------------------------------------------------------------------
(* Theorems                                                                *)

LEMMA Invariance == Spec => []VerificationInv
  BY InitInv, StepInv, PTL DEF Spec

\* Requests, subjects and calls always have the shape the schemas give them.
THEOREM TypeCorrect == Spec => []TypeOK
<1>1. VerificationInv => TypeOK
  BY DEF VerificationInv
<1> QED BY <1>1, Invariance, PTL

\* A subject's status is the verdict of the request whose review wrote it, and
\* of a request about this subject, unless two reviews of it overlapped.
THEOREM VerdictsAgree == Spec => []VerdictAgrees
<1>1. VerificationInv => VerdictAgrees
  BY DEF VerificationInv
<1> QED BY <1>1, Invariance, PTL

\* No approval leaves the account inactive, but for a crash.
THEOREM ApprovalsActivate == Spec => []ApprovalActivates
<1>1. VerificationInv => ApprovalActivates
  BY DEF VerificationInv
<1> QED BY <1>1, Invariance, PTL

\* Nobody passes on a document no admin's call read, unless the document or the
\* subject of the request changed during the call.
THEOREM DocumentsSeen == Spec => []PassedDocumentWasSeen
<1>1. VerificationInv => PassedDocumentWasSeen
  BY DEF VerificationInv
<1> QED BY <1>1, Invariance, PTL

\* A PENDING subject is in the queue or in a call's hands, but for the four
\* accidents.
THEOREM NobodyForgotten == Spec => []PendingIsQueued
<1>1. VerificationInv => PendingIsQueued
  BY DEF VerificationInv
<1> QED BY <1>1, Invariance, PTL

\* Of the applicant's pending requests, one for each subject comes from its
\* registration, and submissions add at most as many as calls run at a time.
THEOREM PendingBounded == Spec => []PendingWithinOverlap
<1>1. VerificationInv => PendingWithinOverlap
  BY DEF VerificationInv
<1> QED BY <1>1, Invariance, PTL

-----------------------------------------------------------------------------
(* When requests are handled one at a time                                 *)

\* What a handler checked still holds when it writes.
SerialInv ==
  /\ crossed = {}
  /\ OnePendingEach
  /\ \A p, q \in Submitted : p = q
  /\ \A r \in Req :
       /\ call[r].at = "submit" => Pending = {}
       /\ call[r].at = "decide" => request[call[r].of] = "PENDING"
       /\ call[r].at = "queue" => \A q \in Pending :
            about[q] # call[r].subject /\ company[q] # call[r].subject
  /\ \A q \in Pending : about[q] = None => q \notin enrolled

\* A review in progress found the profile as it is, if it is about the profile.
ReadInv ==
  /\ late = FALSE
  /\ \A r \in Req :
       /\ (call[r].at = "decide" /\ about[call[r].of] = Profile) => call[r].doc = document
       /\ (call[r].at \in {"activate", "judge"} /\ call[r].subject = Profile) =>
            call[r].doc = document

\* The queue stays, and no call comes to rely on it.
LEMMA SerialKept ==
  ASSUME SerialInv, UNCHANGED <<queue, enrolled, crossed>>,
         \A p \in Req : call'[p].at \in {"submit", "decide", "queue"} => call'[p] = call[p]
  PROVE  SerialInv'
  BY DEF SerialInv, OnePendingEach, Submitted, Pending, queue

LEMMA SerialApplicant ==
  ASSUME VerificationInv, SerialInv, Serial, NEW r \in Req,
         \/ \E s \in Subject : CreateBegin(r, s)
         \/ \E s \in Subject \cup {None} : SubmitBegin(r, s)
         \/ UpdateBegin(r)
         \/ CreateSubject(r) \/ Queue(r) \/ SubmitCreate(r) \/ UpdateDocument(r)
  PROVE  SerialInv'
<1>1. TypeOK /\ MainInv
  BY InvParts
<1>2. CASE \/ \E s \in Subject : CreateBegin(r, s)
           \/ \E s \in Subject \cup {None} : SubmitBegin(r, s)
           \/ UpdateBegin(r)
  <2>1. /\ Moves(r) /\ call'[r].at \in {"create", "submit", "document"}
        /\ call'[r].at = "submit" => Pending = {}
        /\ UNCHANGED <<queue, history>>
    BY <1>1, <1>2, BeginFacts
  <2> QED BY <2>1 DEF SerialInv, OnePendingEach, Submitted, Pending, Moves, queue, history
<1>3. ASSUME call[r].at # "idle"
      PROVE  \A p \in Req \ {r} : call[p].at = "idle"
  BY <1>3 DEF Serial
<1>4. CASE CreateSubject(r)
  <2>1. Moves(r) /\ call[r].at = "create" /\ UNCHANGED <<activated, queue, history>>
    BY <1>1, <1>4, CreateSubjectFacts
  <2>2. CASE call'[r] = Idle
    BY <2>1, <2>2, SerialKept DEF Idle, Moves, history
  <2>3. ASSUME NEW s \in Subject, status[s] = "NONE",
               call'[r].at = "queue", call'[r].subject = s
        PROVE  SerialInv'
    <3>1. \A q \in Request : about[q] # s /\ company[q] # s
      <4>1. s # None
        BY NameAssumption
      <4> QED BY <1>1, <2>3, <4>1 DEF MainInv, NamesInv
    <3> QED BY <2>1, <2>3, <3>1 DEF SerialInv, OnePendingEach, Submitted, Pending, Moves, queue, history
  <2> QED BY <1>1, <1>4, <2>2, <2>3, CreateSubjectFacts
<1>5. CASE UpdateDocument(r)
  <2>1. Moves(r) /\ call'[r] = Idle /\ UNCHANGED <<queue, enrolled, crossed>>
    BY <1>1, <1>5, UpdateDocumentFacts
  <2>2. call'[r].at = "idle"
    BY <2>1 DEF Idle
  <2> QED BY <2>1, <2>2, SerialKept DEF Moves
<1>6. CASE SubmitCreate(r)
  <2>1. /\ Moves(r) /\ call[r].at = "submit" /\ call[r].subject \in Subject \cup {None}
        /\ call'[r] = Idle
        /\ UNCHANGED <<crossed, enrolled>>
    BY <1>1, <1>6, SubmitCreateFacts
  <2>2. PICK q \in Request : Inserts(q, call[r].subject)
    BY <1>6 DEF SubmitCreate
  <2>3. Pending' = {q}
    BY <1>1, <2>1, <2>2, InsertsFacts, NameAssumption DEF SerialInv, Pending
  <2>4. \A p \in Req : call'[p].at = "idle"
    BY <1>3, <2>1 DEF Moves, Idle
  <2>5. q \notin enrolled
    BY <1>1, <2>1, <2>2, InsertsFacts DEF MainInv, RegisteredInv
  <2> QED BY <2>1, <2>3, <2>4, <2>5 DEF SerialInv, OnePendingEach, Submitted
<1>7. CASE Queue(r)
  <2>1. /\ Moves(r) /\ call[r].at = "queue" /\ call[r].subject \in Subject /\ call'[r] = Idle
        /\ UNCHANGED crossed
    BY <1>1, <1>7, QueueFacts
  <2>2. \A p \in Req : call'[p].at = "idle"
    BY <1>3, <2>1 DEF Moves, Idle
  <2>3. \A q \in Pending : about[q] # call[r].subject /\ company[q] # call[r].subject
    BY <2>1 DEF SerialInv
  <2>4. call[r].subject # None
    BY <2>1, NameAssumption
  <2>5. CASE UNCHANGED <<queue, enrolled>>
    BY <2>1, <2>2, <2>5, SerialKept
  <2>6. ASSUME NEW q \in Matches(call[r].subject), Aims(q, call[r].subject),
               UNCHANGED <<request, company, enrolled>>
        PROVE  SerialInv'
    <3>1. /\ q \in Pending /\ about'[q] = call[r].subject
          /\ \A p \in Request \ {q} : about'[p] = about[p]
      BY <1>1, <2>1, <2>6, AimsFacts
    <3>2. Pending' = Pending /\ Pending \subseteq Request
      BY <2>6 DEF Pending
    <3> QED BY <2>1, <2>2, <2>3, <2>4, <2>6, <3>1, <3>2 DEF SerialInv, OnePendingEach, Submitted
  <2>7. ASSUME NEW q \in Request, Inserts(q, call[r].subject), enrolled' = enrolled \cup {q}
        PROVE  SerialInv'
    <3>1. /\ request[q] = None /\ request'[q] = "PENDING" /\ about'[q] = call[r].subject
          /\ \A p \in Request \ {q} : request'[p] = request[p] /\ about'[p] = about[p]
      BY <1>1, <2>1, <2>7, InsertsFacts
    <3>2. Pending' = Pending \cup {q} /\ q \notin Pending /\ Pending \subseteq Request
      BY <3>1, NameAssumption DEF Pending
    <3>3. Submitted' = Submitted
      BY <2>7, <3>2 DEF Submitted
    <3> QED BY <2>1, <2>2, <2>3, <2>4, <2>7, <3>1, <3>2, <3>3 DEF SerialInv, OnePendingEach, Submitted
  <2> QED BY <1>7, <2>5, <2>6, <2>7 DEF Queue
<1> QED BY <1>2, <1>4, <1>5, <1>6, <1>7

LEMMA SerialReview ==
  ASSUME VerificationInv, SerialInv, Serial, NEW r \in Req,
         \/ \E q \in Request, v \in Verdict : ReviewFind(r, q, v)
         \/ Decide(r) \/ Activate(r) \/ Judge(r)
         \/ \E s \in Subject : PassSubject(r, s)
  PROVE  SerialInv'
<1>1. TypeOK
  BY InvParts
<1>2. CASE \E q \in Request, v \in Verdict : ReviewFind(r, q, v)
  <2>1. PICK q \in Request, v \in Verdict : ReviewFind(r, q, v)
    BY <1>2
  <2>2. /\ Moves(r) /\ request[q] = "PENDING" /\ call'[r].at = "decide" /\ call'[r].of = q
        /\ UNCHANGED <<queue, crossed, enrolled>>
    BY <1>1, <2>1, ReviewFindFacts
  <2> QED BY <2>2 DEF SerialInv, OnePendingEach, Submitted, Pending, Moves, queue
<1>3. CASE Decide(r)
  <2>1. /\ Moves(r) /\ call[r].at = "decide" /\ call[r].of \in Request
        /\ call[r].verdict \in Verdict /\ call'[r].at \in {"activate", "judge"}
        /\ request' = [request EXCEPT ![call[r].of] = call[r].verdict]
        /\ request[call[r].of] = "PENDING" => crossed' = crossed
        /\ UNCHANGED <<about, company, enrolled>>
    BY <1>1, <1>3, DecideFacts
  <2>2. \A p \in Req \ {r} : call'[p].at = "idle"
    BY <2>1 DEF Serial, Moves
  <2>3. Pending' \subseteq Pending
    BY <1>1, <2>1 DEF Pending, TypeOK, Verdict
  <2>4. \A p \in Req : call'[p].at \notin {"submit", "decide", "queue"}
    BY <2>1, <2>2
  <2> QED BY <2>1, <2>3, <2>4 DEF SerialInv, OnePendingEach, Submitted
<1>4. CASE Activate(r)
  <2>1. Moves(r) /\ UNCHANGED <<queue, history>> /\ call'[r].at \in {"idle", "judge"}
    <3>1. Moves(r) /\ UNCHANGED <<queue, history>>
      BY <1>1, <1>4, ActivateFacts
    <3>2. CASE call[r].of = None
      BY <1>1, <1>4, <3>1, <3>2, ActivateFacts, IdleAt
    <3>3. CASE call[r].of # None
      BY <1>1, <1>4, <3>1, <3>3, ActivateFacts
    <3> QED BY <3>1, <3>2, <3>3
  <2> QED BY <2>1, SerialKept DEF Moves, history
<1>5. CASE Judge(r)
  <2>1. Moves(r) /\ UNCHANGED <<queue, enrolled, crossed>> /\ call'[r].at = "idle"
    BY <1>1, <1>5, JudgeFacts DEF Idle
  <2> QED BY <2>1, SerialKept DEF Moves
<1>6. ASSUME NEW s \in Subject, PassSubject(r, s)
      PROVE  SerialInv'
  <2>1. Moves(r) /\ call'[r].at = "activate"
    BY <1>1, <1>6, PassSubjectFacts
  <2> QED BY <1>6, <2>1, SerialKept DEF Moves, PassSubject
<1> QED BY <1>2, <1>3, <1>4, <1>5, <1>6

LEMMA SerialStep == VerificationInv /\ SerialInv /\ Serial /\ [Next]_vars => SerialInv'
<1> SUFFICES ASSUME VerificationInv, SerialInv, Serial, [Next]_vars PROVE SerialInv'
  OBVIOUS
<1>1. CASE \/ \E s \in Subject, v \in Verdict, d \in {0, document} : OthersVerdict(s, v, d)
           \/ \E s \in Subject : FailSubject(s)
           \/ \E s \in Company : Withdraw(s)
  BY <1>1, SerialKept DEF OthersVerdict, FailSubject, Withdraw
<1>2. CASE Crash
  <2>1. TypeOK
    BY InvParts
  <2> QED BY <1>2, <2>1, CrashFacts, SerialKept
<1>3. CASE UNCHANGED vars
  BY <1>3, SerialKept DEF vars, history
<1> QED BY <1>1, <1>2, <1>3, SerialApplicant, SerialReview DEF Next

LEMMA SerialInvariance == Spec /\ []Serial => []SerialInv
<1>1. Init => SerialInv
  BY NameAssumption DEF Init, SerialInv, OnePendingEach, Submitted, Pending, Idle
<1> QED BY <1>1, SerialStep, Invariance, PTL DEF Spec

\* When requests are handled one at a time, no subject has two pending requests
\* of the applicant.
THEOREM SerialOnePending == Spec /\ []Serial => []OnePendingEach
<1>1. SerialInv => OnePendingEach
  BY DEF SerialInv
<1> QED BY <1>1, SerialInvariance, PTL

\* Nor does a status disagree with the verdict of the request that gave it.
THEOREM SerialVerdict == Spec /\ []Serial => []VerdictStands
<1>1. SerialInv /\ VerdictAgrees => VerdictStands
  BY DEF SerialInv, VerdictAgrees, VerdictStands
<1> QED BY <1>1, SerialInvariance, VerdictsAgree, PTL

LEMMA ReadStep ==
  ASSUME VerificationInv, SerialInv, ReadInv, Serial, Next,
         \A s \in Subject, v \in Verdict : document # 0 => ~OthersVerdict(s, v, 0)
  PROVE  ReadInv'
<1>1. TypeOK /\ MainInv
  BY InvParts
<1>2. ASSUME NEW r \in Req, call[r].at # "idle"
      PROVE  \A p \in Req \ {r} : call[p].at = "idle"
  BY <1>2 DEF Serial
<1>3. \A r \in Req : call[r].at = "decide" => request[call[r].of] = "PENDING"
  BY DEF SerialInv
<1>4. ASSUME NEW r \in Req,
             \/ \E s \in Subject : CreateBegin(r, s)
             \/ \E s \in Subject \cup {None} : SubmitBegin(r, s)
             \/ UpdateBegin(r)
      PROVE  ReadInv'
  <2>1. /\ Moves(r) /\ call'[r].at \in {"create", "submit", "document"}
        /\ UNCHANGED <<document, queue, history>>
    BY <1>1, <1>4, BeginFacts
  <2> QED BY <2>1 DEF ReadInv, Moves, queue, history
<1>5. ASSUME NEW r \in Req, CreateSubject(r) \/ Queue(r) \/ SubmitCreate(r) \/ UpdateDocument(r)
      PROVE  ReadInv'
  <2>1. Moves(r) /\ call[r].at \in {"create", "queue", "submit", "document"} /\ late' = late
    BY <1>1, <1>5, CreateSubjectFacts, QueueFacts, SubmitCreateFacts, UpdateDocumentFacts DEF history
  <2>2. call'[r].at \in {"idle", "queue"}
    BY <1>1, <1>5, CreateSubjectFacts, QueueFacts, SubmitCreateFacts, UpdateDocumentFacts, IdleAt
  <2>3. \A p \in Req \ {r} : call'[p].at = "idle"
    BY <1>2, <2>1 DEF Moves
  <2> QED BY <2>1, <2>2, <2>3 DEF ReadInv
<1>6. ASSUME NEW r \in Req, NEW q \in Request, NEW v \in Verdict, ReviewFind(r, q, v)
      PROVE  ReadInv'
  <2>1. /\ Moves(r) /\ call'[r].at = "decide" /\ call'[r].of = q
        /\ call'[r].doc = IF about[q] = Profile THEN document ELSE 0
        /\ UNCHANGED <<document, queue, late>>
    BY <1>1, <1>6, ReviewFindFacts
  <2> QED BY <2>1 DEF ReadInv, Moves, queue
<1>7. ASSUME NEW r \in Req, Decide(r)
      PROVE  ReadInv'
  <2>1. /\ Moves(r) /\ call[r].at = "decide" /\ call'[r].at \in {"activate", "judge"}
        /\ call'[r].doc = call[r].doc /\ call'[r].subject = about[call[r].of]
        /\ UNCHANGED <<document, late>>
    BY <1>1, <1>7, DecideFacts
  <2>2. \A p \in Req \ {r} : call'[p].at = "idle"
    BY <1>2, <2>1 DEF Moves
  <2> QED BY <2>1, <2>2 DEF ReadInv
<1>8. ASSUME NEW r \in Req, Activate(r)
      PROVE  ReadInv'
  <2>1. Moves(r) /\ call[r].at = "activate" /\ UNCHANGED <<document, queue, history>>
    BY <1>1, <1>8, ActivateFacts
  <2>2. \A p \in Req \ {r} : call'[p].at = "idle"
    BY <1>2, <2>1 DEF Moves
  <2>3. CASE call[r].of = None
    <3>1. call'[r].at = "idle"
      BY <1>1, <1>8, <2>3, ActivateFacts, IdleAt
    <3> QED BY <2>1, <2>2, <3>1 DEF ReadInv, history
  <2>4. CASE call[r].of # None
    <3>1. call'[r].at = "judge" /\ call'[r].doc = call[r].doc /\ call'[r].subject = call[r].subject
      BY <1>1, <1>8, <2>4, ActivateFacts
    <3> QED BY <2>1, <2>2, <3>1 DEF ReadInv, history
  <2> QED BY <2>3, <2>4
<1>9. ASSUME NEW r \in Req, Judge(r)
      PROVE  ReadInv'
  <2>1. /\ Moves(r) /\ call[r].at = "judge" /\ call'[r] = Idle /\ UNCHANGED document
        /\ \/ late' = late
           \/ late' = IF call[r].subject = Profile THEN call[r].doc # document ELSE late
    BY <1>1, <1>9, JudgeFacts DEF Judged
  <2>2. \A p \in Req : call'[p].at = "idle"
    BY <1>2, <2>1 DEF Moves, Idle
  <2> QED BY <2>1, <2>2 DEF ReadInv
<1>10. ASSUME NEW r \in Req, NEW s \in Subject, PassSubject(r, s)
       PROVE  ReadInv'
  <2>1. /\ Moves(r) /\ call'[r].at = "activate" /\ call'[r].subject = None
    BY <1>1, <1>10, PassSubjectFacts
  <2>2. late' = (IF s = Profile THEN FALSE ELSE late) /\ UNCHANGED <<document, queue>>
    BY <1>10 DEF PassSubject, Judged
  <2>3. Profile # None
    BY NameAssumption DEF Subject
  <2> QED BY <2>1, <2>2, <2>3 DEF ReadInv, Moves, queue
<1>11. ASSUME NEW s \in Subject, NEW v \in Verdict, NEW d \in {0, document},
              OthersVerdict(s, v, d) \/ FailSubject(s)
       PROVE  ReadInv'
  <2>1. UNCHANGED <<document, queue, call>>
    BY <1>11 DEF OthersVerdict, FailSubject
  <2>2. CASE OthersVerdict(s, v, d)
    <3>1. d = document
      BY <2>2
    <3> QED BY <2>1, <2>2, <3>1 DEF ReadInv, OthersVerdict, Judged, queue
  <2>3. CASE FailSubject(s)
    BY <2>1, <2>3 DEF ReadInv, FailSubject, Judged, queue
  <2> QED BY <1>11, <2>2, <2>3
<1>12. CASE \E s \in Company : Withdraw(s)
  BY <1>12 DEF Withdraw, ReadInv, queue
<1>13. CASE Crash
  BY <1>1, <1>13, CrashFacts DEF ReadInv
<1>14. "APPROVED" \in Verdict /\ document \in {0, document}
  BY DEF Verdict
<1> QED BY <1>4, <1>5, <1>6, <1>7, <1>8, <1>9, <1>10, <1>11, <1>12, <1>13, <1>14 DEF Next

\* When requests are handled one at a time, and reviews of other users' requests
\* too, nobody passes on a document no admin's call read.
THEOREM SerialDocument == Spec /\ []Serial /\ InTime => []PassedOnSeen
<1>1. Init => ReadInv
  BY DEF Init, ReadInv, Idle
<1>2. /\ VerificationInv /\ SerialInv /\ ReadInv /\ Serial /\ [Next]_vars
      /\ [\A s \in Subject, v \in Verdict : document # 0 => ~OthersVerdict(s, v, 0)]_vars
      => ReadInv'
  <2>1. UNCHANGED vars /\ ReadInv => ReadInv'
    BY DEF vars, queue, history, ReadInv
  <2> QED BY <2>1, ReadStep
<1>3. ReadInv /\ PassedDocumentWasSeen => PassedOnSeen
  BY DEF ReadInv, PassedDocumentWasSeen, PassedOnSeen
<1> QED BY <1>1, <1>2, <1>3, SerialInvariance, Invariance, DocumentsSeen, PTL DEF Spec, InTime

\* And a verdict is final.
THEOREM SerialDecidedForGood == Spec /\ []Serial => DecidedForGood
<1>1. VerificationInv /\ SerialInv /\ [Next]_vars =>
        [\A q \in Request : request[q] \in Verdict => request'[q] = request[q]]_vars
  <2> SUFFICES ASSUME VerificationInv, SerialInv, Next, NEW q \in Request, request[q] \in Verdict
               PROVE  request'[q] = request[q]
    OBVIOUS
  <2>1. TypeOK
    BY InvParts
  <2>2. request[q] # None /\ request[q] # "PENDING"
    BY NameAssumption DEF Verdict
  <2>3. ASSUME NEW r \in Req, SubmitCreate(r)
        PROVE  request'[q] = request[q]
    BY <2>1, <2>2, <2>3, InsertsFacts, SubmitCreateFacts DEF SubmitCreate
  <2>4. ASSUME NEW r \in Req, Queue(r)
        PROVE  request'[q] = request[q]
    BY <2>1, <2>2, <2>4, InsertsFacts, QueueFacts DEF Queue, queue
  <2>5. ASSUME NEW r \in Req, Decide(r)
        PROVE  request'[q] = request[q]
    <3>1. /\ request[call[r].of] = "PENDING"
          /\ request' = [request EXCEPT ![call[r].of] = call[r].verdict]
      BY <2>1, <2>5, DecideFacts DEF SerialInv
    <3> QED BY <2>1, <2>2, <3>1 DEF TypeOK
  <2>6. ASSUME NEW r \in Req,
               \/ \E s \in Subject : CreateBegin(r, s) \/ PassSubject(r, s)
               \/ \E s \in Subject \cup {None} : SubmitBegin(r, s)
               \/ CreateSubject(r) \/ UpdateBegin(r) \/ UpdateDocument(r)
               \/ \E p \in Request, v \in Verdict : ReviewFind(r, p, v)
               \/ Activate(r) \/ Judge(r)
        PROVE  UNCHANGED request
    BY <2>6 DEF CreateBegin, CreateSubject, SubmitBegin, UpdateBegin, UpdateDocument,
       ReviewFind, Activate, Judge, PassSubject, queue
  <2>7. CASE \/ \E s \in Subject, v \in Verdict, d \in {0, document} : OthersVerdict(s, v, d)
             \/ \E s \in Company : Withdraw(s)
             \/ \E s \in Subject : FailSubject(s)
             \/ Crash
    BY <2>7 DEF OthersVerdict, Withdraw, FailSubject, Crash, queue
  <2> QED BY <2>3, <2>4, <2>5, <2>6, <2>7 DEF Next
<1> QED BY <1>1, SerialInvariance, Invariance, PTL DEF Spec, DecidedForGood
=============================================================================
