----------------------------- MODULE AccountLife -----------------------------
(***************************************************************************)
(* What the accounts subsystem promises, without calls, reads or codes: an *)
(* account comes into being once, with an address nobody else has, and from*)
(* then on changes in one of six ways at a time, each an atomic decision   *)
(* about the account as it is.  No decision makes an admin of an existing  *)
(* account, takes a verification back, blocks an admin, or makes an account*)
(* pending again.  Accounts implements this: although each handler checks  *)
(* the account in one query and writes it in another, its write is still   *)
(* one of these decisions.                                                 *)
(***************************************************************************)
CONSTANTS User, Seed, Address, NoUser

VARIABLE user

Exists(u) == user[u] # NoUser

\* Nobody else has the address.
Free(a, u) == \A v \in User \ {u} : Exists(v) => user[v].email # a

Init ==
  \E e \in [Seed -> Address] :
    /\ \A s, t \in Seed : e[s] = e[t] => s = t
    /\ user = [u \in User |->
         IF u \in Seed
         THEN [email |-> e[u], role |-> "ADMIN", status |-> "ACTIVE", verified |-> TRUE]
         ELSE NoUser]

\* By its owner, and then pending, or by an admin who makes it an admin's.
Create(u) ==
  \E a \in Address, role \in {"STUDENT", "COMPANY", "ADMIN"}, status \in {"PENDING", "ACTIVE"} :
    /\ ~Exists(u) /\ Free(a, u)
    /\ status = "ACTIVE" => role = "ADMIN"
    /\ user' = [user EXCEPT ![u] =
                  [email |-> a, role |-> role, status |-> status, verified |-> FALSE]]

Verify(u) == user' = [user EXCEPT ![u].status = "ACTIVE", ![u].verified = TRUE]

Block(u) ==
  /\ user[u].role # "ADMIN"
  /\ user' = [user EXCEPT ![u].status = "BLOCKED"]

Unblock(u) ==
  /\ user[u].status # "PENDING"
  /\ user' = [user EXCEPT ![u].status = "ACTIVE"]

StepDown(u) == user' = [user EXCEPT ![u].role = "STUDENT"]

JoinCompany(u) == user' = [user EXCEPT ![u].role = "COMPANY"]

ChangeAddress(u) ==
  \E a \in Address : Free(a, u) /\ user' = [user EXCEPT ![u].email = a]

Decide(u) ==
  /\ Exists(u)
  /\ \/ Verify(u) \/ Block(u) \/ Unblock(u)
     \/ StepDown(u) \/ JoinCompany(u) \/ ChangeAddress(u)

Next == \E u \in User : Create(u) \/ Decide(u)

Spec == Init /\ [][Next]_user
=============================================================================
