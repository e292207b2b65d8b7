----------------------------- MODULE OneTimeCode -----------------------------
(***************************************************************************)
(* What a one-time password service promises its callers, without Redis,   *)
(* keys or deadlines: at most one password is current; a call may match the*)
(* current password; and a call answers success only once the password it  *)
(* matched is no longer current.  A password that was ever matched or spent*)
(* is never made current again.  So the calls that succeed with a password *)
(* all overlapped the first of them.  OtpService implements this while     *)
(* Redis answers (OtpProperties).                                          *)
(***************************************************************************)
CONSTANTS Req, Issue, None

VARIABLES
  current,   \* the password calls can match, or None
  matched,   \* the password each call has matched and not yet answered for
  spent      \* the passwords some call has answered success to

vars == <<current, matched, spent>>

Init ==
  /\ current = None
  /\ matched = [r \in Req |-> None]
  /\ spent = {}

Publish(i) ==
  /\ i # current /\ i \notin spent
  /\ \A r \in Req : matched[r] # i
  /\ current' = i
  /\ UNCHANGED <<matched, spent>>

\* Consumed, expired, or dropped by a lockout.
Withdraw ==
  /\ current' = None
  /\ UNCHANGED <<matched, spent>>

Match(r) ==
  /\ current # None
  /\ matched' = [matched EXCEPT ![r] = current]
  /\ UNCHANGED <<current, spent>>

Succeed(r) ==
  /\ matched[r] \notin {None, current}
  /\ spent' = spent \cup {matched[r]}
  /\ matched' = [matched EXCEPT ![r] = None]
  /\ UNCHANGED current

\* Every call in progress dies.
Abandon ==
  /\ matched' = [r \in Req |-> None]
  /\ UNCHANGED <<current, spent>>

Next ==
  \/ \E i \in Issue : Publish(i)
  \/ Withdraw
  \/ \E r \in Req : Match(r) \/ Succeed(r)
  \/ Abandon

Spec == Init /\ [][Next]_vars
=============================================================================
