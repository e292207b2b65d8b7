------------------------------ MODULE InviteLife ------------------------------
(***************************************************************************)
(* What the invites of a company promise: each is sent to the address of a *)
(* user who is no founder, when none to that address is pending; each is   *)
(* answered once; and an acceptance, by whoever has the address by then,   *)
(* adds the user to the founders, gives the role and answers the invite in *)
(* one step.  FounderInvites does it in three, and keeps the promise while *)
(* its calls do not overlap and none is interrupted.                       *)
(***************************************************************************)
EXTENDS Naturals

CONSTANTS User, Address, Invite, None

VARIABLES
  company,   \* "OPEN", "BLOCKED" or "GONE"
  founders,  \* how often each user is among its founders
  promoted,  \* users with the role COMPANY
  email,     \* address of each user
  invite,    \* status of each invite, None before it is sent
  to         \* address it was sent to

vars == <<company, founders, promoted, email, invite, to>>

Init ==
  /\ company = "OPEN" /\ founders = [u \in User |-> 0] /\ promoted = {}
  /\ email \in {f \in [User -> Address] : \A u, w \in User : f[u] = f[w] => u = w}
  /\ invite = [i \in Invite |-> None] /\ to = [i \in Invite |-> None]

\* The company may have been blocked or deleted since the Send looked at it.
Send(i, u) ==
  /\ founders[u] = 0
  /\ \A j \in Invite : ~(invite[j] = "PENDING" /\ to[j] = email[u])
  /\ invite[i] = None
  /\ invite' = [invite EXCEPT ![i] = "PENDING"]
  /\ to' = [to EXCEPT ![i] = email[u]]
  /\ UNCHANGED <<company, founders, promoted, email>>

\* Nobody becomes a founder of a company that is gone.
Accept(i, u) ==
  /\ invite[i] = "PENDING" /\ to[i] = email[u]
  /\ founders' = IF company = "GONE" THEN founders ELSE [founders EXCEPT ![u] = @ + 1]
  /\ promoted' = promoted \cup {u}
  /\ invite' = [invite EXCEPT ![i] = "ACCEPTED"]
  /\ UNCHANGED <<company, email, to>>

\* A rejection, an expiry that is noticed, or a cancellation.
Refuse(i, answer) ==
  /\ invite[i] = "PENDING"
  /\ invite' = [invite EXCEPT ![i] = answer]
  /\ UNCHANGED <<company, founders, promoted, email, to>>

\* To an address nobody has.
ChangeAddress(u, a) ==
  /\ \A w \in User : email[w] # a
  /\ email' = [email EXCEPT ![u] = a]
  /\ UNCHANGED <<company, founders, promoted, invite, to>>

ChangeCompany(s) ==
  /\ company \notin {"GONE", s}
  /\ company' = s
  /\ UNCHANGED <<founders, promoted, email, invite, to>>

Next ==
  \/ \E i \in Invite :
       \/ \E u \in User : Send(i, u) \/ Accept(i, u)
       \/ \E answer \in {"REJECTED", "CANCELLED"} : Refuse(i, answer)
  \/ \E u \in User, a \in Address : ChangeAddress(u, a)
  \/ \E s \in {"OPEN", "BLOCKED", "GONE"} : ChangeCompany(s)

Spec == Init /\ [][Next]_vars
=============================================================================
