----------------------------- MODULE Verification -----------------------------
(***************************************************************************)
(* The verification of one applicant: a student's profile and companies    *)
(* (the subjects), the requests an admin reviews, and the activation of    *)
(* the applicant's account.  A verdict is three writes in a row: the       *)
(* request, the account, the subject; subjects, queue and verdicts are     *)
(* also written by handlers that know nothing of the requests, and by      *)
(* reviews of other users' requests that name the applicant's subjects.    *)
(* The calls of Req interleave between their awaits.                       *)
(*                                                                         *)
(* A subject PASSED is a VERIFIED student or an ACTIVE company, a subject  *)
(* FAILED a REJECTED student or a BLOCKED company.                         *)
(***************************************************************************)
EXTENDS Naturals, FiniteSets

CONSTANTS
  Req,          \* concurrent calls
  Request,      \* the applicant's requests; their number is a bound of the model
  Profile,      \* the applicant's student profile
  Company,      \* the companies the applicant registers; a bound of the model
  None,         \* of a request: not created; of an id: nothing of the applicant's
  MaxDocument   \* bound of the model: documents uploaded for the profile

Subject == {Profile} \cup Company

ASSUME NameAssumption ==
  /\ None \notin Request \cup Subject \cup {"PENDING", "APPROVED", "REJECTED"}
  /\ Profile \notin Company
ASSUME BoundAssumption == MaxDocument \in Nat
ASSUME ReqAssumption == IsFiniteSet(Req)

VARIABLES
  status,    \* of the profile and of each company
  document,  \* the verification document of the profile: number of the upload
  activated, \* has a verdict set the account ACTIVE and verified?
  request,   \* status of each request, None before it is created
  about,     \* the subject each request is about, by applicantType and its ids
  company,   \* companyId of each request, which stays when the type changes
  call,      \* each call in progress
  verdictBy, \* history: the request whose review wrote a status last, or None
  crossed,   \* history: requests decided although already decided
  seen,      \* history: has a call that passes a verdict read the document?
  late,      \* history: the profile's last verdict was on another document
  lost,      \* history: requests whose verdict a crash interrupted
  enrolled,  \* history: requests that a registration has inserted
  unqueued   \* history: subjects that an accident may have left without request

history == <<verdictBy, crossed, seen, late, lost, enrolled, unqueued>>
queue   == <<request, about, company>>
vars    == <<status, document, activated, queue, call, history>>

Verdict == {"APPROVED", "REJECTED"}

\* The status a verdict gives the subject.
Decision(verdict) == IF verdict = "APPROVED" THEN "PASSED" ELSE "FAILED"

Call ==
  {c \in [at: {"create", "queue", "submit", "document", "decide", "activate", "judge"},
          subject: Subject \cup {None}, of: Request \cup {None},
          verdict: Verdict, doc: Nat] :
     /\ c.at \in {"decide", "judge"} => c.of # None
     /\ c.at \in {"create", "queue"} => c.subject # None
     /\ (c.at = "activate" /\ c.of = None) => c.subject = None}
Idle == [at |-> "idle"]

At(stage)   == {r \in Req : call[r].at = stage}
Pending     == {q \in Request : request[q] = "PENDING"}
Exists(s)   == status[s] \notin {"NONE", "GONE"}
Named       == {s \in Subject : status[s] # "NONE"} \cup {None}

Starts(r, c)    == call[r].at = "idle" /\ call' = [call EXCEPT ![r] = c]
Goes(r, c)      == call' = [call EXCEPT ![r] = c]
Step(stage, s)  == [at |-> stage, subject |-> s, of |-> None,
                    verdict |-> "APPROVED", doc |-> 0]

Init ==
  /\ status = [s \in Subject |-> "NONE"] /\ document = 0
  /\ activated = FALSE
  /\ request = [q \in Request |-> None]
  /\ about = [q \in Request |-> None] /\ company = [q \in Request |-> None]
  /\ call = [r \in Req |-> Idle]
  /\ verdictBy = [s \in Subject |-> None]
  /\ crossed = {} /\ seen = FALSE /\ late = FALSE
  /\ lost = {} /\ enrolled = {} /\ unqueued = {}

-----------------------------------------------------------------------------
(* The applicant                                                           *)

\* CreateStudentProfile and CreateCompany: no profile, no company of that
\* email yet.
CreateBegin(r, s) ==
  /\ status[s] = "NONE"
  /\ Starts(r, Step("create", s))
  /\ UNCHANGED <<status, document, activated, queue, history>>

\* The record; a unique index stops a second profile or company.
CreateSubject(r) ==
  LET s == call[r].subject IN
    /\ call[r].at = "create"
    /\ IF status[s] = "NONE"
       THEN /\ status' = [status EXCEPT ![s] = "PENDING"]
            /\ document' = IF s = Profile THEN 1 ELSE document
            /\ Goes(r, Step("queue", s))
       ELSE Goes(r, Idle) /\ UNCHANGED <<status, document>>
    /\ UNCHANGED <<activated, queue, history>>

\* A new PENDING request of the applicant, q, about s.
Inserts(q, s) ==
  /\ request[q] = None
  /\ request' = [request EXCEPT ![q] = "PENDING"]
  /\ about' = [about EXCEPT ![q] = s]
  /\ company' = [company EXCEPT ![q] = IF s \in Company THEN s ELSE None]
  /\ unqueued' = unqueued \ {s}

\* What the upsert of a registration finds: for a profile any pending request
\* of the applicant, for a company one that names it.
Matches(s) == {q \in Pending : s = Profile \/ company[q] = s}

\* The upsert gives a request it finds the type and the id of its own subject.
Aims(q, s) ==
  /\ about' = [about EXCEPT ![q] = s]
  /\ unqueued' = (unqueued \cup ({about[q]} \ {None})) \ {s}

\* Mutant: the subject is created without a request.
QueueNothing(r) ==
  /\ call[r].at = "queue"
  /\ Goes(r, Idle)
  /\ UNCHANGED <<status, document, activated, queue, history>>

\* The upsert of a PENDING request, whose failure is only logged.
Queue(r) ==
  LET s == call[r].subject IN
    /\ call[r].at = "queue"
    /\ Goes(r, Idle)
    /\ \/ /\ \E q \in Matches(s) : Aims(q, s)
          /\ UNCHANGED <<request, company, enrolled>>
       \/ /\ Matches(s) = {}
          /\ \E q \in Request : Inserts(q, s) /\ enrolled' = enrolled \cup {q}
       \/ unqueued' = unqueued \cup {s} /\ UNCHANGED <<queue, enrolled>>
    /\ UNCHANGED <<status, document, activated, verdictBy, crossed, seen, late, lost>>

\* Mutant: a pending request is not looked for.
MayAlwaysSubmit == TRUE

MaySubmit == Pending = {}

\* SubmitStudentVerification, about any id the body carries.
SubmitBegin(r, s) ==
  /\ MaySubmit /\ s \in Named
  /\ Starts(r, Step("submit", s))
  /\ UNCHANGED <<status, document, activated, queue, history>>

SubmitCreate(r) ==
  /\ call[r].at = "submit"
  /\ \E q \in Request : Inserts(q, call[r].subject)
  /\ Goes(r, Idle)
  /\ UNCHANGED <<status, document, activated,
                 verdictBy, crossed, seen, late, lost, enrolled>>

\* UpdateStudentDetails with a new document.
UpdateBegin(r) ==
  /\ Exists(Profile) /\ document < MaxDocument
  /\ Starts(r, Step("document", Profile))
  /\ UNCHANGED <<status, document, activated, queue, history>>

\* Mutant: the status is left alone.
UpdateKeepsStatus(r) ==
  /\ call[r].at = "document"
  /\ document' = document + 1 /\ seen' = FALSE
  /\ Goes(r, Idle)
  /\ UNCHANGED <<status, activated, queue, verdictBy, crossed, late, lost, enrolled, unqueued>>

\* After the upload: the new document and PENDING, and no new request.
UpdateDocument(r) ==
  /\ call[r].at = "document"
  /\ document' = document + 1 /\ seen' = FALSE
  /\ status' = [status EXCEPT ![Profile] = "PENDING"]
  /\ verdictBy' = [verdictBy EXCEPT ![Profile] = None]
  /\ unqueued' = unqueued \cup {Profile}
  /\ Goes(r, Idle)
  /\ UNCHANGED <<activated, queue, crossed, late, lost, enrolled>>

\* DeleteCompany leaves the requests behind.
Withdraw(s) ==
  /\ Exists(s)
  /\ status' = [status EXCEPT ![s] = "GONE"]
  /\ verdictBy' = [verdictBy EXCEPT ![s] = None]
  /\ UNCHANGED <<document, activated, queue, call,
                 crossed, seen, late, lost, enrolled, unqueued>>

-----------------------------------------------------------------------------
(* The admins                                                              *)

MayReview(q) == request[q] = "PENDING"

\* ReviewStudentVerification finds the request with its profile and checks
\* that it is PENDING.
ReviewFind(r, q, v) ==
  LET doc == IF about[q] = Profile THEN document ELSE 0 IN
    /\ MayReview(q)
    /\ Starts(r, [at |-> "decide", subject |-> None, of |-> q, verdict |-> v, doc |-> doc])
    /\ seen' = (seen \/ about[q] = Profile)
    /\ UNCHANGED <<status, document, activated, queue,
                   verdictBy, crossed, late, lost, enrolled, unqueued>>

\* Mutant: an approval goes on without the account.
NextOfDecided(c) == [c EXCEPT !.at = "judge", !.subject = about[c.of]]

\* The decided request, as the write returns it, says which subject to judge.
AfterDecision(c) ==
  [c EXCEPT !.at = IF c.verdict = "APPROVED" THEN "activate" ELSE "judge",
            !.subject = about[c.of]]

\* updateStatus writes the request whatever its status is by now.
Decide(r) ==
  LET c == call[r] IN
    /\ c.at = "decide"
    /\ request' = [request EXCEPT ![c.of] = c.verdict]
    /\ crossed' = IF request[c.of] = "PENDING" THEN crossed ELSE crossed \cup {c.of}
    /\ Goes(r, AfterDecision(c))
    /\ UNCHANGED <<status, document, activated, about, company,
                   verdictBy, seen, late, lost, enrolled, unqueued>>

\* The account of the request's user: of a review, which goes on to the
\* subject, or of PassSubject.
Activate(r) ==
  LET c == call[r] IN
    /\ c.at = "activate"
    /\ activated' = TRUE
    /\ Goes(r, IF c.of = None THEN Idle ELSE [c EXCEPT !.at = "judge"])
    /\ UNCHANGED <<status, document, queue, history>>

\* Subject s gets status v, by request q or by none, on document d.
Judged(s, v, q, d) ==
  /\ status' = [status EXCEPT ![s] = v]
  /\ verdictBy' = [verdictBy EXCEPT ![s] = q]
  /\ late' = IF s = Profile THEN d # document ELSE late
  /\ unqueued' = unqueued \ {s}

\* Mutant: a verdict passes whatever it was.
JudgePasses(r) ==
  LET c == call[r] IN
    /\ c.at = "judge"
    /\ IF c.subject # None /\ Exists(c.subject)
       THEN Judged(c.subject, "PASSED", c.of, c.doc)
       ELSE UNCHANGED <<status, verdictBy, late, unqueued>>
    /\ Goes(r, Idle)
    /\ UNCHANGED <<document, activated, queue, crossed, seen, lost, enrolled>>

\* The last write of updateStatus.
Judge(r) ==
  LET c == call[r] IN
    /\ c.at = "judge"
    /\ IF c.subject # None /\ Exists(c.subject)
       THEN Judged(c.subject, Decision(c.verdict), c.of, c.doc)
       ELSE UNCHANGED <<status, verdictBy, late, unqueued>>
    /\ Goes(r, Idle)
    /\ UNCHANGED <<document, activated, queue, crossed, seen, lost, enrolled>>

\* PATCH /students/:id/verify, UnblockCompany: the subject, then the account.
PassSubject(r, s) ==
  /\ Exists(s)
  /\ Starts(r, Step("activate", None))
  /\ Judged(s, "PASSED", None, document)
  /\ seen' = (seen \/ s = Profile)
  /\ UNCHANGED <<document, activated, queue, crossed, lost, enrolled>>

\* PATCH /students/:id/reject, BlockCompany.
FailSubject(s) ==
  /\ Exists(s)
  /\ Judged(s, "FAILED", None, document)
  /\ UNCHANGED <<document, activated, queue, call, crossed, seen, lost, enrolled>>

\* The last write of a review of another user's request that names s by now;
\* the review may have read an earlier document of the profile, or another
\* subject.
OthersVerdict(s, v, d) ==
  /\ Exists(s) /\ (s = Profile \/ d = document)
  /\ Judged(s, Decision(v), None, d)
  /\ seen' = (seen \/ (s = Profile /\ d = document))
  /\ UNCHANGED <<document, activated, queue, call, crossed, lost, enrolled>>

-----------------------------------------------------------------------------
\* The subjects that a call has in hand, between two of its writes.
InHand == {s \in Subject : \E r \in At("queue") \cup At("activate") \cup At("judge") :
                              call[r].subject = s}

\* The process dies between two writes.
Crash ==
  /\ call' = [r \in Req |-> Idle]
  /\ lost' = lost \cup ({call[r].of : r \in At("activate") \cup At("judge")} \ {None})
  /\ unqueued' = unqueued \cup InHand
  /\ UNCHANGED <<status, document, activated, queue,
                 verdictBy, crossed, seen, late, enrolled>>

Next ==
  \/ \E r \in Req :
       \/ \E s \in Subject : CreateBegin(r, s) \/ PassSubject(r, s)
       \/ \E s \in Subject \cup {None} : SubmitBegin(r, s)
       \/ CreateSubject(r) \/ Queue(r) \/ SubmitCreate(r)
       \/ UpdateBegin(r) \/ UpdateDocument(r)
       \/ \E q \in Request, v \in Verdict : ReviewFind(r, q, v)
       \/ Decide(r) \/ Activate(r) \/ Judge(r)
  \/ \E s \in Subject, v \in Verdict, d \in {0, document} : OthersVerdict(s, v, d)
  \/ \E s \in Company : Withdraw(s)
  \/ \E s \in Subject : FailSubject(s)
  \/ Crash

Spec == Init /\ [][Next]_vars

-----------------------------------------------------------------------------
(* Guarantees                                                              *)

TypeOK ==
  /\ status \in [Subject -> {"NONE", "PENDING", "PASSED", "FAILED", "GONE"}]
  /\ document \in Nat
  /\ activated \in BOOLEAN /\ seen \in BOOLEAN /\ late \in BOOLEAN
  /\ request \in [Request -> {None, "PENDING"} \cup Verdict]
  /\ about \in [Request -> Subject \cup {None}]
  /\ company \in [Request -> Company \cup {None}]
  /\ call \in [Req -> Call \cup {Idle}]
  /\ verdictBy \in [Subject -> Request \cup {None}]
  /\ crossed \subseteq Request /\ lost \subseteq Request /\ enrolled \subseteq Request
  /\ unqueued \subseteq Subject

\* The status of a subject is the verdict of the request whose review wrote
\* it, and that request is about this subject, unless two reviews of it
\* overlapped: the three separate writes disagree for no other reason, not even
\* because a registration turned the request to another subject during the
\* review (MongoStudentVerificationRepository.js:49-84).
VerdictAgrees ==
  \A s \in Subject :
    LET q == verdictBy[s] IN
      (q # None /\ status[s] \in {"PASSED", "FAILED"}) =>
        /\ about[q] = s
        /\ (request[q] \in Verdict /\ status[s] = Decision(request[q])) \/ q \in crossed

\* An approved request of the applicant has activated the account, or is about
\* to, or a crash came between (MongoStudentVerificationRepository.js:65-69).
ApprovalActivates ==
  \A q \in Request : request[q] = "APPROVED" =>
    \/ activated
    \/ \E r \in At("activate") : call[r].of = q
    \/ q \in lost

\* A student passes on the document some admin's call read, unless document or
\* subject of the request changed during the call (student.contoller.js:50-62,
\* 124-126).
PassedDocumentWasSeen == status[Profile] = "PASSED" => seen \/ late

\* A subject waits for its verdict only while a request of the applicant about
\* it is pending or a call has it in hand, or after one of four accidents: a
\* new document, a failed upsert, a crash, a profile that took over its request
\* (student.contoller.js:50-67, 126).
PendingIsQueued ==
  \A s \in Subject : status[s] = "PENDING" =>
    \/ \E q \in Pending : about[q] = s
    \/ s \in InHand
    \/ s \in unqueued

\* The pending requests that submissions have created.
Submitted == Pending \ enrolled

\* However checks and creations interleave, the applicant has no more pending
\* requests than one for each registered subject, and by submissions as many as
\* calls run at a time (CreateCompanyUseCase.js:38-49,
\* SubmitStudentVerificationUseCase.js:17-29).
PendingWithinOverlap ==
  /\ \A p, q \in enrolled \cap Pending : about[p] = about[q] => p = q
  /\ Cardinality(Submitted) + Cardinality(At("submit")) <= Cardinality(Req)

-----------------------------------------------------------------------------
(* The inductive invariant behind them                                     *)

\* A review past its decision carries the status and the subject of its
\* request, unless another review overlapped; its document was read.
ReviewsInv ==
  /\ \A r \in Req :
       (call[r].at \in {"decide", "activate", "judge"} /\ call[r].of # None) =>
         /\ call[r].doc <= document
         /\ (call[r].doc # 0 /\ call[r].doc = document) => seen
         /\ call[r].at # "decide" =>
              /\ request[call[r].of] \in Verdict
              /\ call[r].subject = about[call[r].of]
              /\ request[call[r].of] = call[r].verdict \/ call[r].of \in crossed
  /\ \A q \in crossed : request[q] \in Verdict

\* Nothing names a subject before it exists; the profile has a document.
NamesInv ==
  /\ status[Profile] = "NONE" <=> document = 0
  /\ \A q \in Request : about[q] # None => status[about[q]] # "NONE"
  /\ \A q \in Request : company[q] # None => status[company[q]] # "NONE"
  /\ \A r \in Req :
       (call[r].at \in {"queue", "submit"} /\ call[r].subject # None) =>
         status[call[r].subject] # "NONE"

\* Each subject is registered once: one call queues it, and only while no
\* registration has inserted a request for it.
RegisteredInv ==
  /\ \A q \in enrolled : request[q] # None
  /\ \A r, p \in At("queue") : call[r].subject = call[p].subject => r = p
  /\ \A r \in At("queue") : \A q \in enrolled :
       about[q] # call[r].subject /\ company[q] # call[r].subject
  /\ \A p, q \in enrolled :
       (about[p] = about[q] \/ (company[p] = company[q] /\ company[p] # None)) => p = q

VerificationInv ==
  /\ TypeOK /\ ReviewsInv /\ NamesInv /\ RegisteredInv
  /\ VerdictAgrees /\ ApprovalActivates /\ PassedDocumentWasSeen
  /\ PendingIsQueued
  /\ IsFiniteSet(Submitted) /\ PendingWithinOverlap

-----------------------------------------------------------------------------
(* When requests are handled one at a time                                 *)

Serial == \A r, p \in Req : (call[r].at # "idle" /\ call[p].at # "idle") => r = p

\* The applicant has no two pending requests about one subject.  (That there be
\* one for the applicant, student-verification-flow.md:17, fails: each company
\* registered adds one.)
OnePendingEach == \A p, q \in Pending : about[p] = about[q] => p = q

\* A subject's status is the verdict of the request whose review wrote it
\* (student-verification-flow.md:18).
VerdictStands ==
  \A s \in Subject :
    (verdictBy[s] # None /\ status[s] \in {"PASSED", "FAILED"}) =>
      /\ request[verdictBy[s]] \in Verdict
      /\ status[s] = Decision(request[verdictBy[s]])

\* A student passes on a document that some admin's call read.
PassedOnSeen == status[Profile] = "PASSED" => seen

\* No review of another user's request overlaps with what changes its subject.
InTime ==
  [][\A s \in Subject, v \in Verdict : document # 0 => ~OthersVerdict(s, v, 0)]_vars

\* A request once decided keeps its verdict.
DecidedForGood ==
  [][\A q \in Request : request[q] \in Verdict => request'[q] = request[q]]_vars
=============================================================================
