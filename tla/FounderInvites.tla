---------------------------- MODULE FounderInvites ----------------------------
(***************************************************************************)
(* The invites of one company to e-mail addresses, and the users who have  *)
(* those addresses.  An invite is sent to an address and answered by       *)
(* whoever has it; an address can be given up and taken by another user.   *)
(* An acceptance is three writes: the founders of the company, the role of *)
(* the user, the invite.  Every handler looks before it writes, and the    *)
(* calls of Req interleave between their awaits.                           *)
(*                                                                         *)
(* Who may call (a founder to send, nobody blocked) is checked before a    *)
(* handler's first write; a refused call changes nothing.  The company's   *)
(* first founder is none of User.                                          *)
(***************************************************************************)
EXTENDS Naturals

CONSTANTS
  Req,          \* concurrent calls
  User, Address,
  Invite,       \* invites; their number is a bound of the model
  None,
  MaxFounders,  \* bound of the model: acceptances begin below it
  MaxMoves      \* bound of the model: changes of address of each user

ASSUME NoneAssumption ==
  None \notin {"PENDING", "ACCEPTED", "REJECTED", "CANCELLED"} \cup User \cup Address
ASSUME BoundAssumption == MaxFounders \in Nat /\ MaxMoves \in Nat

VARIABLES
  company,    \* "OPEN", "BLOCKED" or "GONE"
  founders,   \* how often each user is among its founders
  promoted,   \* users an acceptance has given the role COMPANY
  email,      \* address of each user
  invite,     \* status of each invite, None before it is created
  to,         \* address it was sent to
  expired,    \* invites past their expiredAt
  call,       \* each call in progress
  by,         \* history: who accepted each invite
  moves,      \* history: how often each user has changed the address
  stray,      \* history: users who changed the address during an acceptance
  contested,  \* history: invites handled by two calls at once, or whose
              \*          acceptance a crash interrupted
  raced       \* history: addresses to which a Send overlapped a Send or an
              \*          acceptance of an invite to it

people  == <<founders, promoted, email, moves>>
invites == <<invite, to, by, expired>>
history == <<stray, contested, raced>>
vars    == <<company, people, invites, call, history>>

Answer   == {"ACCEPTED", "REJECTED", "CANCELLED"}
SendAt   == {"look", "check", "create"}
AcceptAt == {"push", "promote", "accept"}

\* at: the next step.  user: who calls, with the address to of that moment; of a
\* Send, to is the address it is for, and seen the founders it has read.  of: the
\* invites the call is about to write.
Call ==
  {c \in [at : SendAt \cup AcceptAt \cup {"begin", "reject", "cancel"},
          user : User \cup {None}, to : Address \cup {None},
          of : SUBSET Invite, seen : SUBSET User] :
     /\ c.at \in {"begin"} \cup AcceptAt => c.user \in User
     /\ c.at \in {"begin"} \cup AcceptAt \cup SendAt => c.to \in Address}
Idle == [at |-> "idle", user |-> None, to |-> None, of |-> {}, seen |-> {}]

At(stages) == {r \in Req : call[r].at \in stages}
Touched(i) == \E r \in Req : i \in call[r].of
Pending    == {i \in Invite : invite[i] = "PENDING"}
Founder    == {u \in User : founders[u] > 0}

Init ==
  /\ company = "OPEN" /\ founders = [u \in User |-> 0] /\ promoted = {}
  /\ email \in {f \in [User -> Address] : \A u, w \in User : f[u] = f[w] => u = w}
  /\ invite = [i \in Invite |-> None] /\ to = [i \in Invite |-> None]
  /\ expired = {} /\ by = [i \in Invite |-> None]
  /\ moves = [u \in User |-> 0] /\ stray = {}
  /\ call = [r \in Req |-> Idle]
  /\ contested = {} /\ raced = {}

Goes(r, stage) == call' = [call EXCEPT ![r].at = stage]
Ends(r)        == call' = [call EXCEPT ![r] = Idle]

\* A call that has looked at the invites S will write them.
Takes(S) == contested' = contested \cup {i \in S : Touched(i)}

\* A Send to a, or an acceptance of an invite to a, meets calls in stages.
Meets(a, stages) ==
  raced' = IF \E p \in At(stages) : call[p].to = a THEN raced \cup {a} ELSE raced

\* findByIdAndUpdate of the invite: a cancelled one stays deleted.
WrittenAs(i, s) ==
  IF invite[i] = "CANCELLED" THEN invite ELSE [invite EXCEPT ![i] = s]

-----------------------------------------------------------------------------
(* SendFounderInvite                                                       *)

\* The company and its founders are read.
SendFind(r) ==
  /\ call[r].at = "idle" /\ company = "OPEN"
  /\ \E a \in Address :
       /\ call' = [call EXCEPT ![r] =
                     [Idle EXCEPT !.at = "look", !.to = a, !.seen = Founder]]
       /\ Meets(a, SendAt \cup AcceptAt)
  /\ UNCHANGED <<company, people, invites, stray, contested>>

\* Mutant: a founder may be invited again.
AnyoneMayBeInvited(u, seen) == TRUE

MayBeInvited(u, seen) == u \notin seen

\* Who has the address, if anybody, is no founder.
SendLook(r) ==
  /\ call[r].at = "look"
  /\ IF \E u \in User : email[u] = call[r].to /\ MayBeInvited(u, call[r].seen)
     THEN call' = [call EXCEPT ![r].at = "check", ![r].seen = {}]
     ELSE Ends(r)
  /\ UNCHANGED <<company, people, invites, history>>

\* Mutant: a pending invite does not stop another one.
SendCheckNothing(r) ==
  /\ call[r].at = "check"
  /\ Goes(r, "create")
  /\ UNCHANGED <<company, people, invites, history>>

SendCheck(r) ==
  /\ call[r].at = "check"
  /\ IF \E i \in Pending : to[i] = call[r].to THEN Ends(r) ELSE Goes(r, "create")
  /\ UNCHANGED <<company, people, invites, history>>

SendCreate(r) ==
  /\ call[r].at = "create"
  /\ \E i \in Invite :
       /\ invite[i] = None
       /\ invite' = [invite EXCEPT ![i] = "PENDING"]
       /\ to' = [to EXCEPT ![i] = call[r].to]
  /\ Ends(r)
  /\ UNCHANGED <<company, people, by, expired, history>>

-----------------------------------------------------------------------------
(* The calls of the users                                                  *)

\* verifyJWT reads the user; the address is what it was then.
Authenticate(r) ==
  /\ call[r].at = "idle"
  /\ \E u \in User :
       call' = [call EXCEPT ![r] =
                  [Idle EXCEPT !.at = "begin", !.user = u, !.to = email[u]]]
  /\ UNCHANGED <<company, people, invites, history>>

\* Refused, or nothing to do.
Refused(r) ==
  /\ call[r].at = "begin"
  /\ Ends(r)
  /\ UNCHANGED <<company, people, invites, history>>

\* UpdateAccountDetails: one write, to an address nobody has.
ChangeAddress(r) ==
  LET u == call[r].user IN
    /\ call[r].at = "begin"
    /\ moves[u] < MaxMoves
    /\ \E a \in Address \ {email[w] : w \in User} : email' = [email EXCEPT ![u] = a]
    /\ moves' = [moves EXCEPT ![u] = @ + 1]
    /\ stray' = IF \E p \in At(AcceptAt) : call[p].user = u THEN stray \cup {u} ELSE stray
    /\ Ends(r)
    /\ UNCHANGED <<company, founders, promoted, invites, contested, raced>>

-----------------------------------------------------------------------------
(* AcceptFounderInvite                                                     *)

\* Mutant: the status of the invite is not looked at.
MayAnswerAgain(i, a) == invite[i] # None /\ to[i] = a

\* A pending invite to the caller's address.
MayAnswer(i, a) == invite[i] = "PENDING" /\ to[i] = a

\* Mutant: the company is forgotten.
PromoteFirst == "promote"

FirstWrite == "push"

\* Without its company the handler throws.
AcceptFind(r) ==
  /\ call[r].at = "begin"
  /\ \E i \in Invite \ expired :
       /\ MayAnswer(i, call[r].to)
       /\ company # "GONE" /\ founders[call[r].user] < MaxFounders
       /\ call' = [call EXCEPT ![r].at = FirstWrite, ![r].of = {i}]
       /\ Takes({i})
  /\ Meets(call[r].to, SendAt)
  /\ stray' = IF email[call[r].user] # call[r].to THEN stray \cup {call[r].user} ELSE stray
  /\ UNCHANGED <<company, people, invites>>

\* $push without a look at the founders; a company deleted meanwhile is no error.
Push(r) ==
  /\ call[r].at = "push"
  /\ founders' = IF company = "GONE" THEN founders
                 ELSE [founders EXCEPT ![call[r].user] = @ + 1]
  /\ Goes(r, "promote")
  /\ UNCHANGED <<company, promoted, email, moves, invites, history>>

Promote(r) ==
  /\ call[r].at = "promote"
  /\ promoted' = promoted \cup {call[r].user}
  /\ Goes(r, "accept")
  /\ UNCHANGED <<company, founders, email, moves, invites, history>>

Accept(r) ==
  /\ call[r].at = "accept"
  /\ \E i \in call[r].of :
       /\ invite' = WrittenAs(i, "ACCEPTED")
       /\ by' = IF invite[i] = "CANCELLED" THEN by ELSE [by EXCEPT ![i] = call[r].user]
  /\ Ends(r)
  /\ UNCHANGED <<company, people, to, expired, history>>

-----------------------------------------------------------------------------
(* RejectFounderInvite, GetMyInvites, CancelFounderInvite                  *)

WillReject(r, S) ==
  /\ call' = [call EXCEPT ![r] = [Idle EXCEPT !.at = "reject", !.of = S]]
  /\ Takes(S)

\* So does an acceptance that comes too late.
RejectFind(r) ==
  /\ call[r].at = "begin"
  /\ \E i \in Invite : MayAnswer(i, call[r].to) /\ WillReject(r, {i})
  /\ UNCHANGED <<company, people, invites, stray, raced>>

\* Mutant: every expired invite is marked.
ExpiredAll(a) == {i \in expired : to[i] = a}

Outdated(a) == {i \in Pending \cap expired : to[i] = a}

\* Looking at one's invites rejects those that have expired.
GetMyInvites(r) ==
  /\ call[r].at = "begin"
  /\ Outdated(call[r].to) # {}
  /\ WillReject(r, Outdated(call[r].to))
  /\ UNCHANGED <<company, people, invites, stray, raced>>

\* The invites of a call are written in any order.
Reject(r) ==
  /\ call[r].at = "reject"
  /\ \E i \in call[r].of :
       /\ invite' = WrittenAs(i, "REJECTED")
       /\ IF call[r].of = {i} THEN Ends(r)
          ELSE call' = [call EXCEPT ![r].of = @ \ {i}]
  /\ UNCHANGED <<company, people, to, by, expired, history>>

\* By a founder, the sender or an admin; without the company the handler throws.
CancelFind(r) ==
  /\ call[r].at = "idle" /\ company # "GONE"
  /\ \E i \in Pending :
       /\ call' = [call EXCEPT ![r] = [Idle EXCEPT !.at = "cancel", !.of = {i}]]
       /\ Takes({i})
  /\ UNCHANGED <<company, people, invites, stray, raced>>

Cancel(r) ==
  /\ call[r].at = "cancel"
  /\ \E i \in call[r].of : invite' = [invite EXCEPT ![i] = "CANCELLED"]
  /\ Ends(r)
  /\ UNCHANGED <<company, people, to, by, expired, history>>

-----------------------------------------------------------------------------
(* Around them                                                             *)

Expire(i) ==
  /\ invite[i] # None /\ i \notin expired
  /\ expired' = expired \cup {i}
  /\ UNCHANGED <<company, people, invite, to, by, call, history>>

\* BlockCompany, UnblockCompany, DeleteCompany; nothing touches the invites.
ChangeCompany(s) ==
  /\ company \notin {"GONE", s}
  /\ company' = s
  /\ UNCHANGED <<people, invites, call, history>>

\* The process dies between two writes.
Crash ==
  /\ call' = [r \in Req |-> Idle]
  /\ contested' = contested \cup UNION {call[r].of : r \in At({"promote", "accept"})}
  /\ UNCHANGED <<company, people, invites, stray, raced>>

Next ==
  \/ \E r \in Req :
       \/ SendFind(r) \/ SendLook(r) \/ SendCheck(r) \/ SendCreate(r)
       \/ Authenticate(r) \/ Refused(r) \/ ChangeAddress(r)
       \/ AcceptFind(r) \/ Push(r) \/ Promote(r) \/ Accept(r)
       \/ RejectFind(r) \/ GetMyInvites(r) \/ Reject(r)
       \/ CancelFind(r) \/ Cancel(r)
  \/ \E i \in Invite : Expire(i)
  \/ \E s \in {"OPEN", "BLOCKED", "GONE"} : ChangeCompany(s)
  \/ Crash

Spec == Init /\ [][Next]_vars

-----------------------------------------------------------------------------
(* Guarantees                                                              *)

TypeOK ==
  /\ company \in {"OPEN", "BLOCKED", "GONE"}
  /\ founders \in [User -> Nat] /\ moves \in [User -> Nat]
  /\ promoted \subseteq User /\ stray \subseteq User
  /\ email \in [User -> Address]
  /\ invite \in [Invite -> {None, "PENDING"} \cup Answer]
  /\ to \in [Invite -> Address \cup {None}] /\ by \in [Invite -> User \cup {None}]
  /\ expired \subseteq Invite /\ contested \subseteq Invite /\ raced \subseteq Address
  /\ call \in [Req -> Call \cup {Idle}]

\* An accepted invite has made the user who accepted it a founder, of a company
\* that still exists, and given the role: the invite is the last of the three
\* writes (companyinvite.controller.js:130-146).
AcceptedIsFounder ==
  \A i \in Invite : invite[i] = "ACCEPTED" =>
    by[i] \in promoted /\ (company = "GONE" \/ founders[by[i]] > 0)

\* Nothing but the checks keeps a user from being pushed twice, and they go by
\* the address: each change of it lets the user become a founder once more, and
\* no more than once.  A further time takes a Send that overlapped a Send or an
\* acceptance, two calls on one invite, a crash, or a change of address during
\* an acceptance (companyinvite.controller.js:43-72, 113-118, 130-140).
FounderOnce ==
  \A u \in User : founders[u] > moves[u] + 1 => u \in stray \/ raced # {} \/ contested # {}

\* A user is a founder by an invite that user accepted, an acceptance in progress,
\* or an invite on which two calls or a crash met
\* (companyinvite.controller.js:113-146).
FounderWasInvited ==
  \A u \in Founder :
    \/ \E i \in Invite : invite[i] = "ACCEPTED" /\ by[i] = u
    \/ \E r \in At({"promote", "accept"}) : call[r].user = u
    \/ contested # {}

\* At most one invite to an address is pending, unless a Send to it overlapped
\* another (companyinvite.controller.js:64-84).
OnePending ==
  \A i, j \in Pending : (i # j /\ to[i] = to[j]) => to[i] \in raced

\* The answer to an invite is final, unless two calls handled the invite at once
\* (companyinvite.controller.js:118, 125, 174, 217-219, 307).
AnswerIsFinal ==
  [][\A i \in Invite :
       invite[i] \in Answer /\ invite'[i] # invite[i] => i \in contested]_vars

-----------------------------------------------------------------------------
(* The inductive invariant behind them                                     *)

\* No two users have one address, and an invite that was sent has one.
AddressInv ==
  /\ \A u, w \in User : email[u] = email[w] => u = w
  /\ \A i \in Invite : invite[i] # None => to[i] \in Address

\* While no Send to an address has raced: one Send to it at a time and none during
\* an acceptance, and nothing pending when it creates.
SendersInv ==
  \A a \in Address \ raced :
    /\ \A r, p \in At(SendAt) : (call[r].to = a /\ call[p].to = a) => r = p
    /\ \A r \in At(SendAt), p \in At(AcceptAt) : ~(call[r].to = a /\ call[p].to = a)
    /\ \A r \in At({"create"}), i \in Pending : ~(call[r].to = a /\ to[i] = a)

\* An invite in the hands of a call has been sent; it is pending and in no other's
\* hands, unless it is contested.
HandledInv ==
  \A r \in Req :
    /\ \A i \in call[r].of : invite[i] # None
    /\ \A i \in call[r].of \ contested :
         /\ invite[i] = "PENDING"
         /\ \A p \in Req \ {r} : i \notin call[p].of

\* An acceptance is for one invite, to the caller's address, and has written what
\* it says.
AcceptingInv ==
  \A r \in At(AcceptAt) :
    /\ \E i \in Invite : call[r].of = {i} /\ to[i] = call[r].to
    /\ call[r].user \notin stray => call[r].to = email[call[r].user]
    /\ call[r].at # "push" => founders[call[r].user] > 0 \/ company = "GONE"
    /\ call[r].at = "accept" => call[r].user \in promoted

\* An invite to the user's address may still be accepted, or is being sent.
Open(u) ==
  \/ \E r \in At({"check", "create"}) : call[r].to = email[u]
  \/ \E r \in At({"look"}) : call[r].to = email[u] /\ u \notin call[r].seen
  \/ \E i \in Pending :
       to[i] = email[u] /\ \A r \in At({"promote", "accept"}) : i \notin call[r].of

\* Without the accidents, a user who may be pushed once more since the last change
\* of address has not been pushed since.
CalmInv ==
  (raced = {} /\ contested = {}) =>
    \A u \in User \ stray :
      /\ founders[u] <= moves[u] + 1
      /\ Open(u) => founders[u] <= moves[u]

InvitesInv ==
  /\ TypeOK
  /\ AddressInv /\ SendersInv /\ HandledInv /\ AcceptingInv /\ CalmInv
  /\ AcceptedIsFounder /\ FounderWasInvited /\ OnePending

-----------------------------------------------------------------------------
(* When requests are handled one at a time and no acceptance is interrupted *)

Serial == \A r, p \in Req : (call[r].at # "idle" /\ call[p].at # "idle") => r = p

\* An acceptance counts from its first write.
Accepting == At({"promote", "accept"})
NoCrash   == [][~(Crash /\ Accepting # {})]_vars

\* A user is a founder at most once for each address held in turn
\* (companyinvite.controller.js:43-62, 113, 130-140).
OneFounder == \A u \in User : founders[u] <= moves[u] + 1

\* At most one invite to an address is pending (companyinvite.controller.js:64-84).
OneInvite == \A i, j \in Pending : to[i] = to[j] => i = j

\* Every founder accepted an invite, or is about to have
\* (companyinvite.controller.js:130-146).
FounderAccepted ==
  \A u \in Founder :
    \/ \E i \in Invite : invite[i] = "ACCEPTED" /\ by[i] = u
    \/ \E r \in At({"promote", "accept"}) : call[r].user = u

\* No answer changes (DATABASE-ARCHITECTURE.md:392-395).
AnsweredForGood ==
  [][\A i \in Invite : invite[i] \in Answer => invite'[i] = invite[i]]_vars

AnsweredAs(i) == IF \E r \in Accepting : i \in call[r].of THEN "ACCEPTED" ELSE invite[i]

Life == INSTANCE InviteLife
          WITH promoted <- promoted \cup {call[r].user : r \in Accepting},
               invite   <- [i \in Invite |-> AnsweredAs(i)]

\* The three writes of an acceptance are as good as one
\* (DATABASE-ARCHITECTURE.md:398).
ImplementsInviteLife == Life!Spec
=============================================================================
