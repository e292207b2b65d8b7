----------------------------- MODULE Applications -----------------------------
(***************************************************************************)
(* The applications to one job, at most one per student (unique index on   *)
(* job and student), and the handlers that submit, review and delete them. *)
(* The calls of Req interleave between their awaits.                       *)
(*                                                                         *)
(* SubmitApplication asks the idempotency service for acquireLock, which   *)
(* the service does not have (it has reserve, storeResult and release): it *)
(* throws before its first query, so what follows is not modelled.  The    *)
(* collection may hold applications from before.                           *)
(***************************************************************************)
CONSTANTS
  Req,      \* concurrent calls
  Student

VARIABLES
  application, \* the application of each student, or NoApplication
  job,         \* "OPEN" to applications, "CLOSED" (inactive, past its deadline, or
               \* its company blocked) or "GONE"
  call,        \* each call in progress
  answered     \* history: students whose submission was answered

vars == <<application, job, call, answered>>

Status        == {"APPLIED", "SHORTLISTED", "OFFER", "REJECTED"}
\* letter: has it an offerLetterUrl?  recent: is it at most 24 hours old?
Application   == [status : Status, letter : BOOLEAN, recent : BOOLEAN]
NoApplication == [status |-> "none", letter |-> FALSE, recent |-> FALSE]
Idle          == [at |-> "idle"]

Applied(s) == application[s] # NoApplication

\* Where the service starts: a letter only with or after an offer.
Init ==
  /\ application \in
       [Student -> {NoApplication} \cup
                   {a \in Application : a.letter => a.status # "APPLIED"}]
  /\ \A s \in Student : application[s].status = "OFFER" => application[s].letter
  /\ job \in {"OPEN", "CLOSED"}
  /\ call = [r \in Req |-> Idle]
  /\ answered = {}

Starts(r, c) == call[r] = Idle /\ call' = [call EXCEPT ![r] = c]
Ends(r)      == call' = [call EXCEPT ![r] = Idle]

\* acquireLock is not a function: TypeError, whatever the job and the student.
Submit(s) ==
  /\ answered' = answered \cup {s}
  /\ UNCHANGED <<application, job, call>>

\* By a founder of the company the populated job belongs to.  The policy lets
\* an admin pass too, whatever became of the job, but the route admits none
\* (verifyRole("COMPANY"), application.routes.js:37).
ReviewFind(r) ==
  \E s \in Student, to \in Status \ {"APPLIED"} :
    /\ Applied(s) /\ job # "GONE"
    /\ Starts(r, [at |-> "review", of |-> s, to |-> to])
    /\ UNCHANGED <<application, job, answered>>

\* Whatever the status is by now; an offer brings its letter, and no other
\* verdict takes it away.
ReviewWrite(r) ==
  /\ call[r].at = "review"
  /\ LET s == call[r].of  to == call[r].to IN
       application' =
         IF Applied(s)
         THEN [application EXCEPT ![s].status = to, ![s].letter = @ \/ to = "OFFER"]
         ELSE application
  /\ Ends(r)
  /\ UNCHANGED <<job, answered>>

WithdrawFind(r) ==
  \E s \in Student :
    /\ application[s].recent
    /\ Starts(r, [at |-> "delete", of |-> s])
    /\ UNCHANGED <<application, job, answered>>

Deleted(s) == application' = [application EXCEPT ![s] = NoApplication]

WithdrawDelete(r) ==
  /\ call[r].at = "delete"
  /\ Deleted(call[r].of)
  /\ Ends(r)
  /\ UNCHANGED <<job, answered>>

DeleteApplicationAdmin(s) ==
  /\ Applied(s)
  /\ Deleted(s)
  /\ UNCHANGED <<job, call, answered>>

\* 24 hours have passed since the submission.
Age(s) ==
  /\ application[s].recent
  /\ application' = [application EXCEPT ![s].recent = FALSE]
  /\ UNCHANGED <<job, call, answered>>

\* The job or its company is closed, opened or deleted; applications stay.
ChangeJob(to) ==
  /\ job \notin {"GONE", to}
  /\ job' = to
  /\ UNCHANGED <<application, call, answered>>

Crash ==
  /\ call' = [r \in Req |-> Idle]
  /\ UNCHANGED <<application, job, answered>>

Next ==
  \/ \E r \in Req :
       ReviewFind(r) \/ ReviewWrite(r) \/ WithdrawFind(r) \/ WithdrawDelete(r)
  \/ \E s \in Student : Submit(s) \/ DeleteApplicationAdmin(s) \/ Age(s)
  \/ \E to \in {"OPEN", "CLOSED", "GONE"} : ChangeJob(to)
  \/ Crash

Spec == Init /\ [][Next]_vars

-----------------------------------------------------------------------------
(* What the documents say                                                  *)

\* application-lifecycle.md:10: a submission to an open job by a student
\* who has no application leaves one that is APPLIED
\* (SubmitApplicationUseCase.js:60-67).
SubmissionStores ==
  [][\A s \in answered' \ answered :
       job = "OPEN" /\ ~Applied(s) => application'[s].status = "APPLIED"]_vars
=============================================================================
