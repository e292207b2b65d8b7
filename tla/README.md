# Specification of JobPostingBackend

JobPostingBackend is a Node/Express job board: students, companies and admins
work on documents in MongoDB, and Redis holds one-time passwords, rate-limit
counters and cached details. One Node process runs every request; requests
interleave at each `await`, the process can be stopped at any of them, and every
Redis error is swallowed into a default answer. Nothing uses transactions: a
handler reads, decides, and then writes whatever the document has become.

That pattern (check, await, write) is what this directory is about. The modules
below describe it one action per awaited read or write, TLC checks them on small
instances, and TLAPS proves most of the safety properties for every number of
concurrent calls.

Paths in this file are relative to `src/src` unless they begin with `docs/`
(`src/docs`).

1. [The system](#1-the-system)
2. [Modules](#2-modules)
3. [What the runs check](#3-what-the-runs-check)
4. [Bounds](#4-bounds)
5. [Fairness](#5-fairness)
6. [What is proved](#6-what-is-proved)
7. [Where code and documents disagree](#7-where-code-and-documents-disagree)
8. [What is not modelled](#8-what-is-not-modelled)
9. [Plan](#9-plan)
10. [Running](#10-running)

## 1. The system

| Component | State | Operations | Hard behaviour | What makes it correct |
|---|---|---|---|---|
| OTP service (`infrastructure/otp`) | four Redis keys per purpose and address: password hash, attempts counter, cooldown, lockout | `storeOtp`, `verifyOtp` | up to five Redis commands per call, interleaved with other calls; commands that are skipped or lose their answer; crashes; expiry | a password is not accepted after it has been used up; wrong codes are limited; a lockout ends; each call is answered |
| Redis service (`infrastructure/redis`) | the connection | `get`, `set`, `setIfNotExists`, `exists`, `increment`, `expire`, `delete` | every error becomes `null`, `false` or `0` | - (it promises nothing; its callers must cope) |
| Accounts (`modules/auth`, `modules/admin`, `modules/users`) | e-mail address, role, status, `isVerified` of each user | register, verify email (two ways), change the address, block, unblock, verify, create and remove admin; also written by approvals and accepted invites | the check and the write are separate queries; six modules write the same four fields; one verification goes by document, the other by address | admins are never blocked, never made of other accounts, never all removed; a block stops what comes after it; a verified account proved its address |
| Sessions (`modules/auth`) | refresh token and password of a user | login, refresh, logout, change of password | tokens signed in one second are equal; an old login overwrites a new token; crash before the answer | a token in force is known to a client; rotation is not undone; a changed password soon opens nothing more |
| Jobs and companies, their cached details (`modules/jobs`, `modules/companies`, `infrastructure/cache`) | job and company documents; one cached detail each with a time to live | get (fills the cache), create, update, close, delete; moderation and invites write the documents too | a fill that read before a change writes after the deletion of the key; a writer that deletes no key; a lost deletion | a stale detail has a named cause and disappears; a block is seen when the time to live has passed; nothing deleted comes back |
| Verification (`modules/verification`, `controllers/student.contoller.js`, `routes/student.routes.js`) | status of a student's profile and of companies, document, requests, activation of the account | create profile or company, submit, replace document, review (approve, reject), verify and reject directly | a verdict is three writes in three collections; two reviews of one request; a request that turns from one subject to another; a crash between the writes | request, account and subject agree; who waits is queued |
| Founder invites (`controllers/companyinvite.controller.js`) | founders of a company, role of the users, invites to addresses, with a deadline | send, accept, reject, list (rejects what has expired), cancel | an acceptance is three writes; two calls on one invite; invites go by address and founders by user, and users change their addresses; the company is blocked or deleted meanwhile | an accepted invite made a founder, once for each address; an answer is final |
| Applications (`modules/applications`, `infrastructure/idempotency`) | at most one application per job and student | submit, review, withdraw, delete | review races withdrawal; submission depends on the idempotency service | a submission is stored; see section 7 |
| Rate limiter (`infrastructure/rateLimit`) | a counter per caller and window | count, admit or refuse | INCR and EXPIRE are separate; a command that fails or is sent twice; a request whose window ends while it waits | a window admits its limit, refuses nobody before, and its counter goes away |
| Uploads (`infrastructure/storage`, `utils/cloudinary.js`, `middlewares/multer.middleware.js`, the handlers that keep a URL) | files in `./public`, assets at Cloudinary, the photo, logo and document URLs | register, change photo, create profile, change document, create, update and delete company | all requests share the names in `./public`; an upload loses its answer; the old asset is destroyed before or after the write; a logo may be the text of any URL | a record shows its own file, and it exists; what is left behind has a cause |
| Stateless parts | - | validation, errors, logging, configuration, e-mail, listings, health checks, routes | - | - |

How they interact:

- `verifyEmail` and `verifyOtp` of the accounts call the OTP service and then
  write the account. `RequestOtp` and `RequestEmailVerification` call `storeOtp`.
- Verification approves a request and then activates the account; an accepted
  invite gives its user the role COMPANY and the company a founder; both write
  fields whose readers are elsewhere.
- Every detail the cache holds embeds data of another collection (a job its
  company, a company its founders), written by moderation and invites, which do
  not touch the cache.
- Middleware decides before a handler begins: `verifyJWT` loads the actor,
  `checkNotBlocked` and `verifyRole` look at it. What it saw may have changed
  when the handler writes.
- OTP, cache and rate limiter share the Redis service and its error defaults.

The hazards this gives rise to are listed, each at its line, under `hazards` in
`PROJECT.json`; the properties exist for them.

## 2. Modules

| Module | Models | Uses |
|---|---|---|
| `RedisStore` | `redis.service.js`: the commands on keys with a time to live, each of which is `done`, `skipped` or `unanswered` | - |
| `OtpService` | `otp.service.js`, one pair of purpose and address | `RedisStore` |
| `OneTimeCode` | the abstract one-time password: publish, withdraw, match, succeed | - |
| `OtpProperties` | guarantees of `OtpService`, its invariant, the refinement of `OneTimeCode` | `OtpService`, `OneTimeCode` |
| `Accounts` | address, role, status and verification of all users and every handler that writes them | `AccountLife` |
| `AccountLife` | the abstract account: created once with a free address, then changed by six kinds of atomic decision | - |
| `Sessions` | refresh token and password of one user | - |
| `DetailCache` | a job, its company and their cached details | `RedisStore` |
| `Verification` | one applicant: a profile and companies, their requests, activation | - |
| `FounderInvites` | one company, the invites it sends to addresses, the users who have them | `InviteLife` |
| `InviteLife` | the abstract invites: one at a time to an address, answered once, accepted in one step | - |
| `Applications` | the applications to one job | - |
| `RateLimiter` | `fixedWindowRateLimiter.js`, one tier and one caller | `RedisStore` |
| `Uploads` | uploaded files from the request to the record that shows them | - |
| `*Proofs` | theorems of the module without the suffix | the module, `TLAPS` |
| `MC*` | the symmetry sets and state constraints for TLC | the module |

**Correspondence.** `call[r]` is a request in progress: the record holds the
program counter (`at`: the next await) and the local variables that outlive it.
Each action is the code from one await to the next; where a handler reads two
documents that nothing else can tell apart, the reads are one action. A refused
request (an early return before any write) is a call that does not begin or goes
back to `Idle`. `Crash` is the death of the process (`index.js`: the shutdown
that is forced after ten seconds, or a kill): every call is gone, the databases
stay.

**OtpService.** `StoreBegin`, `StoreCheckLockout`, `StoreCheckCooldown`,
`StoreSetOtp`, `StoreSetCooldown`, `StoreResetAttempts` are the awaits of
`storeOtp`; `VerifyCheckLockout`, `VerifyGet...`, `VerifyIncr`, `VerifyExpire`,
then `Limit...` (the fifth wrong code) or `Redeem...` (a right one) those of
`verifyOtp`. A password is a number (`issued`), so that "the same code again"
and "the same password" differ; a code is a model value. Time passes in ticks
that lower every time to live.

**Accounts.** An account is a document; its address is a field that can change.
Every handler has one shape, so there is one set of actions (`Begin...`, `Check`,
`CodeChecked`, `Write`, `WriteFails`) with one operator per policy (`MayBlock`,
`MayRemoveAdmin`, ...), one case of `Written` per update and `Targets` for the
documents a write can go to: the one found before (`findByIdAndUpdate`), the one
that has the address now (`VerifyOtp`), or a new one, unless the unique index on
the address forbids it. A search by address is `Found`. The approvals of
`Verification` and the acceptances of `FounderInvites` appear as the operations
`activate` and `acceptInvite`.

**Sessions.** A refresh token is the second it was signed in, because
`JwtTokenProvider` signs only the user's id and `iat`. `Logout` leaves the token
in place, as Mongoose does with an `undefined` in `$set`. `outdated` counts the
tokens that logins have stored since the password they were given was replaced:
`Stale` are the logins that still may.

**DetailCache.** Contents are abstracted to the number of the write that made
them; `job` and `company` may be `Gone`. A company is read with one query
(`GetFind`), a job with two, since Mongoose populates the company by a query of its
own (`GetPopulate`). The use cases of the two modules are
`MutateFind`, `MutateWrite`, `MutateDel`; the writers that do not know the cache
are `ModifyJobAdmin`, `DeleteJobAdmin`, `ModerateCompany`, `AddFounder`.

**Verification.** A subject is the applicant's profile or one of the companies.
`Queue` is the upsert that ends a registration; `Matches` is its filter: for a
profile any PENDING request of the user (`student.contoller.js:53`), for a company
one with its own `companyId` (`CreateCompanyUseCase.js:39`), so every company adds a
request, and a profile may take over that of a company (`Aims`). `SubmitBegin` takes
whatever id the body carries and does not ask whether the subject exists.
`Decide`, `Activate`, `Judge` are the three writes of `updateStatus` (request,
account, subject). `PassSubject` and `FailSubject` are the direct routes in
`routes/student.routes.js` and the moderation of companies; `OthersVerdict` is the
last write of a review of another user's request that names one of these subjects.
A student VERIFIED and a company ACTIVE are both `PASSED`.

**FounderInvites.** An invite is sent `to` an address, and a call carries the address
its user had when `verifyJWT` read it. `SendLook` and `SendCheck` look for users and
pending invites by address (`companyinvite.controller.js:43`, `:64-68`), `MayAnswer`
compares addresses (`:113`), and `ChangeAddress` is `UpdateAccountDetails`. `Push`,
`Promote`, `Accept` are the three writes of an acceptance. `founders` counts how
often each user is in the company's list, which `$push` allows.

**Applications.** `Submit` throws (section 7) and changes nothing but the history
of answered students; review, withdrawal and deletion are complete.

**RateLimiter.** `Arrive` computes the window, `First`, `Admit` and `Refuse` are
the three outcomes of INCR, `SetExpiry` is the EXPIRE of a new counter.
`NoAnswer` is an INCR that fails (the request is let through), `Resend` one that
ioredis sends again after a lost connection, `NotReady` the 503 of a Redis that
is down. `Tick` passes time, for the windows and the times to live alike.

**Uploads.** `Receive` is multer's save of a file under the name it has on the
client. The awaits of the five handlers come in different orders, which
`Begin`, `AfterLook`, `AfterUpload`, `AfterDrop`, `AfterWrite` and
`AfterFailure` state; the awaits themselves (`Look`, `Send`, `Uploaded`, `Drop`,
`Write`) are the same for all. An upload's number also names the asset made by
it, and `asset` says of which file it was made. Cloudinary is external:
`Uploaded`, `UploadFails` and `Drop` have every outcome the code handles, the
asset whose answer was lost included. A default avatar, a missing logo and a URL of
another site are all `Elsewhere`. `CreateCompany` and `SetLogoUrl` store a logo that
is given as text: `Elsewhere` or any URL a record has ever shown, of an asset that is
gone or that another record shows (`typed`). `DeleteCompany` removes the record and
leaves its logo (`abandoned`); updates in progress (`gone`) find no company any more.
Documents are uploaded as raw (`raw`), and `destroy`, which is asked for an image,
never removes them.

## 3. What the runs check

Distinct states are counted after symmetry reduction.

| Run | Module, cfg | States | Question |
|---|---|---|---|
| `otp_faults` | `MCOtp`, `OtpFaults.cfg` | 1 596 152 | two passwords, overlapping calls and a Redis command that fails |
| `otp_live` | `MCOtp`, `OtpLive.cfg` | 47 600 | with crashes: does every call and every lockout end, and is it a one-time code? |
| `accounts_races` | `MCAccounts`, `AccountsRaces.cfg` | 1 566 681 | roles, blocks and verified addresses under interleaved handlers |
| `sessions_rotation` | `MCSessions`, `SessionsRotation.cfg` | 242 100 | tokens under overlapping logins and refreshes |
| `sessions_logout` | `MCSessions`, `SessionsLogout.cfg` | violation | does logout revoke the token? |
| `cache_races` | `MCDetailCache`, `CacheRaces.cfg` | 121 678 | where stale details come from, that they go, and when a block is seen |
| `cache_block` | `MCDetailCache`, `CacheBlock.cfg` | violation | is a blocked company gone from the cache? |
| `verification_races` | `MCVerification`, `VerificationRaces.cfg` | 1 549 798 | do request, account and subject agree? |
| `invite_races` | `MCFounderInvites`, `InviteRaces.cfg` | 2 991 259 | who becomes a founder, how often, by what |
| `applications_submit` | `MCApplications`, `ApplicationsSubmit.cfg` | violation | does a submission store an application? |
| `rate_limiter` | `MCRateLimiter`, `RateLimiter.cfg` | 115 041 | whom does a window admit and refuse, and does its counter go? |
| `uploads` | `MCUploads`, `Uploads.cfg` | 1 539 259 | what do records show, and what is left behind? |

The type invariants are theorems (section 6); `otp_faults` checks one with TLC too.
The other properties:

*OTP* (`OtpProperties`)

- `ImplementsOneTimeCode`: while Redis answers, the four keys and the calls are a
  one-time password in the sense of `OneTimeCode`: at most one is current, one
  that was matched or spent never becomes current again, and a call answers
  success only when the password it matched is no longer current.
- `RedeemedOnlyByOverlappingCalls`: no password is accepted more often than calls run
  at a time.
- `NoReplayAfterSuccess`: after the first success the password is out of Redis.
- `DeadStaysDead`: a password that has been compared with a code never enters
  Redis again, whatever fails.
- `LimitIsEnforced`, `CounterWillExpire`: a counter at the limit, or without a
  time to live, always has the call that will deal with it.
- `GuessBudget`: N overlapping calls compare one password with at most N times the
  limit of wrong codes (and what an older password left in the counter), however the
  counter is reset; a fault adds one limit, a crash one per call it stops.
- `LockoutOnlyExpires`: nothing but time ends a lockout.
- `LockoutEnds`, `CallsAnswered`: liveness, section 5.

*Accounts*: `AdminImmunity` (no admin is blocked), `LiftsKnown` (a block is lifted
by UnblockUser, by the handlers that do not look at the status, and by an e-mail
verification the block overtook; one that begins later never lifts it),
`VerifiedKnown` (a verified account was vouched for by an admin or by a code sent
to the address it has, unless it changed its address during or after the
verification), `AdminsRemain` (an admin is left unless
removals overlap or an admin accepts an invite), `ImplementsAccountLife` (every write
is a decision `AccountLife` allows about the account as it is at that moment: no
account that exists is made an admin or registered again, no verification is taken
back, no admin is blocked, nobody becomes pending again; so whatever the handlers'
checks miss when they interleave, it is none of these).

*Sessions*: `SpentComesBackOnlyLate` (an exchanged token is in force again only
through an overtaken write), `InForceIsKnown` (the token in force is with a client,
about to be answered, or lost to a crash), `OldPasswordRunsOut` (after a change of
password an old one still opens sessions, of logins that had compared it before and
store their token after the change, but fewer than calls run at a time: each stores
one, and no call that reads the account later does).

*DetailCache*: `StaleExplained` (a stale detail is about to be deleted or due to a
fill that raced, a writer that deletes no key, or a lost deletion),
`BlockTakesEffect` (moderation deletes no key, and a fill that read the company
before a block stores its detail after it; yet what was cached before the block is
gone a time to live after it, such fills are no more than the calls that run at a
time, and no call that reads the company later stores anything), `GoneStaysGone`,
`EventuallyFresh`.

*Verification*: `VerdictAgrees` and `ApprovalActivates` (the three writes of a
verdict agree unless two reviews overlap or a crash comes between),
`PassedDocumentWasSeen` (a student passes on a document some admin's call has read,
unless the document or the subject of the request changed during the review),
`PendingIsQueued` (a subject that waits is in the queue or in some call's hands, or
one of four accidents happened to it), `PendingWithinOverlap` (pending requests:
one for each registered subject, and by submissions as many as calls run at a time).

*FounderInvites*: `AcceptedIsFounder`, `FounderOnce` (a user is pushed at most once
for each address held in turn), `FounderWasInvited`, `OnePending` (one pending invite
to an address), `AnswerIsFinal`: each says what holds without an overlap and names
the overlaps that break it.

*RateLimiter*: `AdmittedWithinLimit` (a window admits its limit, plus those whose
INCR had no answer or ran after the window had ended), `RefusedOnlyAtLimit` (nobody
pays for the counts of another window), `CountersExpire` (a counter without a time
to live has a call about to set one, or a fault or a crash to blame).

*Uploads*: `PhotoAvailable` (a photo or document a record names exists, however two
replacements interleave; a photo may be missing only if a company was given its URL
as a logo, a document not even then), `LogoMissingExplained` (a logo that is gone
was typed, or destroyed by an update that has not written, or never will),
`OwnContent` (a record shows the file of the request that set it, unless a later
request saved another under its name before it was sent), `LeaksExplained` (an asset
nothing refers to was lost by a call that ended early, overtaken by one that did not
read it, kept by Cloudinary, or left by a company that was deleted).

Several of these have the form "this goes wrong only if ...". They are as strong
as the list after the "only if": it names every accident by what happened
(a history variable set by the action at fault), so a new way to fail, such as a
dropped check or a forgotten write, violates them. The mutants in `PROJECT.json`
(definitions with the comment "Mutant") are such changes, one per property, and
TLC finds each.

## 4. Bounds

| Constant | Where | Value and why it is enough |
|---|---|---|
| `Req` | all | 2: every known race needs two calls. The proofs are for any set |
| `MaxAttempts` | OTP | 3 (`otp_faults`) instead of 5: one miss short of the limit, at it, past it |
| `OtpTtl` 2, `CooldownTtl` 1, `AttemptsTtl` 2, `LockoutTtl` 3 | OTP | the order of the real times (600 s, 60 s, 600 s, 900 s) in ticks |
| `MaxIssues` | OTP | 1, or 2 where an old and a new password must meet |
| `MaxFaults` | OTP, cache, rate limiter | 1: one command is skipped or unanswered, at any point; 0 where a property is about a working Redis. The proofs have no bound |
| `MaxCrashes` | OTP, rate limiter | 1 or 0; the other modules crash any number of times |
| `User`, `Seed`, `Address` | accounts | two documents, one of them an admin: actor and target, or a new account; three addresses: one each, and one to change to |
| `MaxTime` 2, `RefreshTtl` 2 | sessions | same second, next second, expired |
| `DetailTtl` 2, `MaxWrites` 2 or 3 | cache | an entry can age without expiring; two changes of one document, or one of each. `cache_block` needs three |
| `Company` 1, `Request` 2, `MaxDocument` 2 | verification | a profile and a company, so that a request can turn from one to the other; one request for each, or two for one; a document and its replacement |
| `OneAccident` | verification | a state constraint: no step follows a second accident (two overlapping reviews of a request, a crash in a verdict, a new document with what it leads to, a subject left without request), and one of the two subjects is not judged outside the queue. The properties name their accidents one by one, so a second adds excuses and no cases |
| `User` 2, `Address` 3, `MaxMoves` 1 | invites | each user can take a free address or the one the other has given up |
| `Invite` 2, `MaxFounders` 2 | invites | an invite to each of two addresses, or two raced ones to one; pushed twice, which is one time too many without a change of address |
| `OneAccident` | invites | a state constraint: no step follows a second overlap, as for verification |
| `Student` 2 | applications | one with an application, one without |
| `Limit` 2, `WindowLength` 2, `MaxTime` 3, `MaxCalls` 4 | rate limiter | a first, an admitted and a refused request, and one more; two windows, each with a tick inside it |
| `Upload` 3, `Name` 2 | uploads | a file, the one it replaces and one of another request under the same name or another; and one that a logo given as text can name while another record shows it |

Symmetry (`MC*`) is used for calls and interchangeable values only, and in no run
that checks liveness. Deadlock is checked in every run.

## 5. Fairness

Only two runs check liveness.

- `otp_live` uses `FairSpec` of `OtpService`: `WF(Tick)` (Redis expires keys as
  time passes) and, for each call, weak fairness of its next step (the event loop
  resumes every call whose await has settled, and every awaited command settles,
  at the latest with an error after `maxRetriesPerRequest`). Nobody is obliged to
  call and nothing to crash. `LockoutEnds` needs more than expiry: calls that
  were in progress can renew a lockout, and the property says that they run out.
- `cache_races` uses `FairSpec` of `DetailCache`: `WF(Tick)` and weak fairness of
  each call that has begun (`Proceed`). `EventuallyFresh` is `<>[]`: with
  `MaxWrites` the writes end, and from some time on no detail is stale, although
  reads go on for ever and hit the stale entry: a hit does not renew the time to
  live.

The other specifications have no fairness because their properties are safety.

## 6. What is proved

All theorems hold for every value of the constants under the `ASSUME`s of their
module (times to live are positive, `MaxAttempts >= 2`, markers such as `None` are
no ordinary values, `Req` is finite in `OtpService`, `RateLimiter` and `Verification`). TLC evaluates each
assumption in the runs above.

| Module | Theorems about `Spec` | Theorems about serial behaviours |
|---|---|---|
| `OtpProofs` | `TypeCorrect`, `ReplaySafe` (`NoReplayAfterSuccess`), `NoResurrection` (`DeadStaysDead`), `LimitEnforced`, `CounterExpires`, `OnlyTimeUnlocks` (`LockoutOnlyExpires`), `OverlapOnly` (`RedeemedOnlyByOverlappingCalls`), `Budget` (`GuessBudget`), `Implementation` (`Spec => Abstract!Spec` without faults) | `SerialSingleUse` |
| `AccountsProofs` | `TypeCorrect`, `AdminsImmune`, `OnlyTheseLift` (`LiftsKnown`), `VerifiedAreKnown` (`VerifiedKnown`), `SomebodyIsAdmin`, `RolesOnlyFall` (`NoPromotion`), `AccountsImplement` (`ImplementsAccountLife`) | `SerialWritesWhatItChecked`, `SerialLiftsOnPurpose` |
| `SessionsProofs` | `TypeCorrect`, `RotationSafe`, `TokenKnown`, `OldPasswordOver` (`OldPasswordRunsOut`) | `SerialRotation`, `SerialPassword` |
| `DetailCacheProofs` | `TypeCorrect`, `StalenessExplained`, `BlockedGoes` (`BlockTakesEffect`), `DeletedForGood` | `SerialDeletionSuffices` |
| `VerificationProofs` | `TypeCorrect`, `VerdictsAgree`, `ApprovalsActivate`, `DocumentsSeen`, `NobodyForgotten`, `PendingBounded` | `SerialOnePending`, `SerialVerdict`, `SerialDocument`, `SerialDecidedForGood` |
| `FounderInvitesProofs` | `TypeCorrect`, `AcceptedAreFounders`, `FoundersOnce`, `FoundersInvited`, `PendingOnce`, `AnswersFinal` | `SerialOneFounder`, `SerialOneInvite`, `SerialFounderAccepted`, `SerialAnsweredForGood`, `InvitesImplement` (`ImplementsInviteLife`) |
| `RateLimiterProofs` | `TypeCorrect`, `WithinLimit`, `NoEarlyRefusal`, `CountersHaveTtl`, `RefusalIsExact`, `TtlSurvives` | `LimitIsExact` |
| `UploadsProofs` | `TypeCorrect`, `RecordsShowWhatExists`, `LogosGoneAreForsaken`, `RecordsShowTheirFile`, `NoUnexplainedLeak` | `SerialOwnFile` |

The argument is the same in each: an inductive invariant, defined next to the
properties, holds initially, is preserved by every action (one proof step per
action), and implies the properties. What the invariants add to the properties:

- `ReplayInv`: a password about to be stored is fresh and one call's own
  (`FreshInv`), and a call past its deletion of a password leaves none behind
  (`GoneInv`). Without the first a slow `storeOtp` could bring a used password
  back.
- `OverlapInv` (with `ReplayInv`): the successes a password has had and the calls
  that have matched it and not yet answered are together at most `Req`. A password
  that has left Redis only loses such calls, so the sum cannot grow.
- `BudgetInv`: the misses a password has had and those that can still come (calls
  that are guessing, resets in progress, what the counter leaves) are within the
  budget; a reset takes its limit from what was still to come.
- `AccountsInv`: a call about to write has found its target, a block about to be
  written is not one of an admin, the one removal in progress has an actor who
  stays admin (`RemainInv`), and an e-mail verification under way read no block
  (`EmailSawNoBlock`) and is about the address of its account (`AddressInv`),
  unless a block or a change of address overtook it.
- `SessionsInv`: a token about to be written is not spent unless overtaken, and
  no token is from the future (`ClockInv`), so a spent token differs from a new
  one. `OutdatedInv` counts with the sessions an old password has opened those it may
  still open: a change makes this the number of the other calls that are logging in,
  and afterwards a write only moves a login from one part of the sum to the other.
- `CacheInv` adds the types to `StaleExplained`, which is inductive with them.
  `BlockInv` counts with the fills since the block those that have yet to store what
  they read: a call joins them only if it read a company that was not blocked.
- `VerificationInv`: a review past its decision carries the status and the subject of
  its request unless another review overlapped (`ReviewsInv`), nothing names a subject
  that does not exist yet (`NamesInv`), and a subject is registered once, by a call
  that finds no request a registration made for it (`RegisteredInv`).
- `InvitesInv`: to an address without a raced Send there is one Send at a time and none
  during an acceptance (`SendersInv`); a call's invite is pending and only its own
  unless contested (`HandledInv`); and while nothing was raced or contested, a user
  to whose address an invite is open (pending, or being sent) has not been pushed
  since the last change of address (`CalmInv`).
- `IInv` of `RateLimiter`, window by window: until it ends its counter cannot expire
  and counts every request that passes (`CountingAt`), so those that pass are within
  the limit (`PassingAt`); until it refuses, what the counter counts has passed
  (`ChargedAt`). A call's window is never ahead of the clock (`StartedInv`).
- `IInv` of `Uploads`: a file belongs to one call (`OwnerInv`), an asset not stored
  yet is nobody's old one (`FreshInv`), records share no asset but one whose URL was typed (`SlotInv`), an
  old photo is destroyed only after it has left its record (`DoomedInv`), documents are
  raw and so never destroyed (`RawInv`), an asset was made of the right file
  (`ContentInv`), and an update that is about to write has dealt with the asset it
  read (`DroppedInv`).

- For `ImplementsAccountLife`, `AccountsInv` and `SettledInv`: the account an unblock
  is about to write is not pending, because none becomes pending again after the
  handler found it blocked. Every write is then shown to be a disjunct of
  `AccountLife`'s `Next`, and every other step to leave the accounts alone.

**When requests do not overlap.** The theorems about `Spec` name the accidents that
break what the documents promise. Those of the last column say that there are no
others: each has the form `Spec /\ []Serial => ...`, where `Serial` says that at
most one call is between its first and its last await, and concludes the promise as
it is written, with no "unless".

| Theorem | Promise |
|---|---|
| `SerialSingleUse` | a password is accepted once while Redis answers (`docs/phase-3/OTP_DESIGN.md:18`) |
| `SerialWritesWhatItChecked`, `SerialLiftsOnPurpose` | what a handler checked of the account holds when it writes; no e-mail verification lifts a block |
| `SerialRotation`, `SerialPassword` | no exchanged token is in force; no session is opened with a password that is not in force |
| `SerialDeletionSuffices` | the deletion after a write removes the stale detail, unless Redis failed or a module without a cache wrote (`docs/DATABASE-ARCHITECTURE.md:994-1000`) |
| `SerialOnePending`, `SerialVerdict`, `SerialDocument`, `SerialDecidedForGood` | one pending request about each subject (not one for the user, see section 7), a verdict that is final and agrees with the status (`docs/phase-3/student-verification-flow.md:18`), on a document that was read |
| `SerialOneFounder`, `SerialOneInvite`, `SerialFounderAccepted`, `SerialAnsweredForGood`, `InvitesImplement` | one membership for each address held in turn (see section 7), one pending invite to an address, an acceptance as good as atomic, an answer that stays (`docs/DATABASE-ARCHITECTURE.md:392-398`) |
| `LimitIsExact` | a window admits no more than its limit (`README.md:359` of the repository) |
| `SerialOwnFile` | a record shows the file of its own request |

What the hypothesis leaves out matters as much. Crashes stay in: all but the invites
keep their promise although a call may end between any two awaits, because none of
these promises is about the write that is missing. An acceptance that is interrupted
can be repeated, so the theorems about invites also assume `NoCrash`. Reviews of other
users' requests are not calls of `Verification`, so `SerialDocument` also assumes
`InTime`: none of them writes a verdict on a document that was replaced since it was
read. A rate limiter
whose requests come one at a time would be trivial, so `LimitIsExact` does not
assume `Serial` but `Prompt`: no INCR waits until its window has ended; any number
of requests still race. `RefusalIsExact` and `TtlSurvives` need no such hypothesis,
only a Redis that answers (`faults = 0`). Nor does `Serial` keep the handlers of one
await (`Logout`, `FailSubject`, `ModerateCompany` and the like), time, or the expiry
of keys out of the middle of a call.

These proofs add a second invariant to that of the module: what the call in progress
checked still holds (`SerialInv` in `AccountsProofs`, `SessionsProofs`,
`DetailCacheProofs` and `VerificationProofs`, `SingleInv` in `OtpProofs`), or the
histories of accidents stay empty (`SerialInv` in `FounderInvitesProofs`, `NoneLate`
in `RateLimiterProofs`, `Unreplaced` in `UploadsProofs`).

Each of these invariants was also checked with TLC, on the constants of the runs,
before it was proved; those about serial behaviours under
`Init /\ [][Next /\ Serial']_vars`, which reaches the writes of every handler.

Only model-checked: `LockoutEnds`, `CallsAnswered`, `EventuallyFresh` (liveness is
out of the prover's reach), and the violations. `Applications` has neither a passing
run nor a theorem: the handler that would create an application throws, and what is
left of its life are single writes, whose order `docs/phase-3/application-lifecycle.md`
does not have (section 7).

## 7. Where code and documents disagree

With a run whose counterexample shows it:

- **Every submission of an application fails.** `SubmitApplicationUseCase.js:24`
  awaits `idempotencyService.acquireLock`, which does not exist; the service has
  `reserve`, `storeResult` and `release`. The handler answers 500 before its first
  query. (`applications_submit`)
- **Logout does not revoke the refresh token.** `$set: { refreshToken: undefined }`
  is dropped by Mongoose. (`sessions_logout`)
- **A blocked company is served from the cache** until its entry expires;
  `docs/phase-3/admin-cache-decision.md:13` says otherwise. (`cache_block`)

Met while modelling, without a run of their own:

- `docs/phase-3/OTP_DESIGN.md:18` calls passwords single-use; calls that overlap
  can all succeed with one. `RedeemedOnlyByOverlappingCalls` is what does hold.
- The OTP cooldown is checked and set in separate commands, so two overlapping
  requests both pass it.
- `docs/phase-3/student-verification-flow.md:17` allows one pending request per user.
  Each company a user registers adds one, without any overlap, because
  `CreateCompanyUseCase.js:39` looks for one with the `companyId` it has just created;
  and overlapping submissions create two about one subject. `PendingWithinOverlap` and
  `SerialOnePending` are what holds.
- `docs/phase-3/student-verification-flow.md:18` calls the verdict atomic; it is three
  writes.
- `student.contoller.js:53` takes any pending request of the user for a new profile,
  that of a company too, which then waits with nothing queued.
- Two calls on one invite can accept it twice, or accept and then cancel it.
- `companyinvite.controller.js:43-68` looks for founders and pending invites by e-mail
  address, and `:113` lets whoever has the address accept. A user who changes the
  address between two invites has two pending, one to each address, and with a change
  back accepts both: one call after the other, with no overlap, the user is pushed
  twice. `FounderOnce` and `SerialOneFounder` say that each change allows once more.
- `LoginUserUseCase.js:27` stores the token of a login whose password was replaced
  since `:18` compared it, and `ChangePassword` revokes nothing
  (`OldPasswordRunsOut`).
- A detail read before a block is cached after it, for another time to live
  (`BlockTakesEffect`).
- `docs/phase-3/application-lifecycle.md:18-24` draws transitions that the review
  does not enforce: any verdict may follow any other.
- `docs/DATABASE-ARCHITECTURE.md:354-355` lets a blocked account become active by
  UnblockUser only; `VerifyOtpUseCase.js:24`, an approval, an admin's verification
  and an e-mail verification that overlaps the block do it too (`LiftsKnown`).
- The rate limiter says it fails closed; if INCR itself fails it admits the request
  uncounted, since `null > limit` is false (`unlimited` in `AdmittedWithinLimit`).
- `UpdateCompanyUseCase.js:31` destroys the old logo before `:43` refuses an e-mail
  address that is taken: the company keeps the URL of a logo that is gone
  (`forsaken`).
- `UpdateCompanyUseCase.js:26` and `:38` store any string as a logo. It leaks the old
  one (`overtaken`), and may be the URL of a logo an earlier update destroyed, or of a
  user's photo, which the next logo then destroys (`typed`).
- `DeleteCompanyUseCase.js:25` deletes the company and leaves its logo at Cloudinary
  (`abandoned`).
- Documents are uploaded as raw files and destroyed as images, so a replaced
  document stays at Cloudinary, where `docs/ENTERPRISE_ARCHITECTURE.md:175` has it
  deleted (`undropped`).
- `docs/DATABASE-ARCHITECTURE.md:108` has a local file unlinked immediately; that of
  a request refused before its upload stays in `./public`.
- `redis.service.js:114` scans without the key prefix, so `deleteByPattern` finds
  nothing. No key of a list is ever set.
- `UserPolicy.js:8` lets an account change its address and stay verified; one that
  changes it while its code is checked is verified under the new address (`moved`
  in `VerifiedKnown`).

## 8. What is not modelled

- What `SubmitApplication` would do after the missing function, and the idempotency
  service, which has no other caller.
- Requests that the rate limiter refuses are calls that do not begin, which every
  module allows.
- The Redis connection: it appears as commands that are skipped (no client) or
  unanswered (the connection was lost after the command ran).
  That ioredis sends a command again after a lost connection is only in
  `RateLimiter`, the one caller whose command is not idempotent and has no guard.
- The readiness check of Redis at the start of the e-mail verifications: a call that
  is refused there has changed nothing.
- E-mails, validation, listings, CORS, logging, health checks:
  stateless, or state outside the program that nothing here reads.
- MongoDB below the level of one query: each query on one document is atomic and
  answers; `withTransaction` is not used by the code. A failed write shows as a
  crash after the previous one, except where the code catches the error
  (`Queue` in `Verification`).
- In `FounderInvites`: the spelling of addresses. The schema of a user stores one
  lowercased and trimmed, an invite stores it as it was typed, so an invite to a
  mixed-case spelling can be cancelled but nobody can answer it; in the model the two
  spellings agree. The company's first founder, who need not be invited,
  is outside `User`. A new account at an address another user gave up is a user whose
  address moves there.
- In `Verification`: the requests of other users. The handlers that find a request by
  its user never see them; what a review of one writes to the applicant's subjects is
  `OthersVerdict`.
- In `Uploads`: more than one record of each kind, how multer streams a file (its save is one step), and the resume of
  a submission, whose handler fails before it stores anything.
- Names, notes, resumes, salaries and everything else no guard looks at.

## 9. Plan

Done, in this order: OTP over Redis with its abstract specification, accounts,
sessions, the detail cache, verification, invites, submission of applications, the
rate limiter, uploads, changes of address; the inductive invariants and proofs of
all but the submission; `AccountLife` and `InviteLife` with the proofs that they are
implemented; the theorems about serial behaviours.

To come:

1. `Applications`: a passing run on reviews and withdrawals (an offer keeps its
   letter; a withdrawn application is not brought back by a review), with proofs.
2. What an ACTIVE status lets an account do that was blocked and unblocked without
   ever being verified (`UnblockUserUseCase.js:22`).
3. Composition: `VerifyEmail` with the OTP service's actions in place of
   `CodeChecked`, by way of `OneTimeCode`, which is the interface already; the
   verdict of `Verification` and the acceptance of `FounderInvites` as refinements
   of the operations `activate` and `acceptInvite` of `Accounts`.

## 10. Running

    tlc -workers 2 -config OtpFaults.cfg MCOtp
    tlapm OtpProofs.tla

and likewise for the other rows of section 3 and section 6. Each run takes less
than five minutes with two workers.
