--------------------------- MODULE SessionsProofs ---------------------------
(***************************************************************************)
(* Proofs about Sessions, for every number of calls, passwords, lifetime   *)
(* of a token and length of time.                                          *)
(***************************************************************************)
EXTENDS Sessions, FiniteSetTheorems, TLAPS

USE DEF Second

-----------------------------------------------------------------------------
(* Calls                                                                   *)

\* What is known of a call from where it is.
LEMMA CallShape ==
  ASSUME NEW c \in Call
  PROVE  /\ c.at \in {"find", "sign", "write", "answer", "save"}
         /\ c.new \in Second \cup {None} /\ c.token \in Second \cup {None}
         /\ c.at \in {"write", "answer"} => c.new \in Second
         /\ c.at = "save" => c.to \in Password
         /\ c.op = "refresh" => c.at \in {"find", "write", "answer"} /\ c.token \in Second
         /\ c.at = "find" => c.op = "refresh"
         /\ c.overtaken \in BOOLEAN /\ c # Idle
  BY DEF Call, CallRecord, Idle

\* Signing keeps a call a call, and changes only its place and its new token.
LEMMA SignedShape ==
  ASSUME NEW c \in Call, now \in Second, c.at \in {"sign", "find"}
  PROVE  /\ Signed(c) \in Call
         /\ Signed(c).at = "write" /\ Signed(c).new = now
         /\ Signed(c).op = c.op /\ Signed(c).token = c.token
         /\ Signed(c).overtaken = c.overtaken
<1> DEFINE d == Signed(c)
<1>1. d \in CallRecord
  BY DEF Signed, Call, CallRecord
<1>2. /\ d.at = "write" /\ d.new = now /\ d.op = c.op /\ d.token = c.token
      /\ d.overtaken = c.overtaken
  BY DEF Signed, Call, CallRecord
<1>3. c.op = "refresh" => c.token \in Second
  BY CallShape
<1> QED BY <1>1, <1>2, <1>3 DEF Call

\* So do a write and its effect on the others.
LEMMA WrittenShape ==
  ASSUME NEW c \in Call, c.at = "write"
  PROVE  /\ [c EXCEPT !.at = "answer"] \in Call
         /\ [c EXCEPT !.overtaken = TRUE] \in Call
<1>1. c \in CallRecord /\ c.new \in Second /\ (c.op = "refresh" => c.token \in Second)
  BY DEF Call
<1>2. [c EXCEPT !.at = "answer"] \in CallRecord
  BY <1>1 DEF CallRecord
<1>3. [c EXCEPT !.overtaken = TRUE] \in CallRecord
  BY <1>1 DEF CallRecord
<1>4. [c EXCEPT !.at = "answer"] \in Call
  BY <1>1, <1>2 DEF Call, CallRecord
<1>5. [c EXCEPT !.overtaken = TRUE] \in Call
  BY <1>1, <1>3 DEF Call, CallRecord
<1> QED BY <1>4, <1>5

\* The calls that begin.
LEMMA LoginShape ==
  ASSUME NEW p \in Password
  PROVE  [Starts("login", "sign") EXCEPT !.pw = p] \in Call
  BY DEF Starts, Idle, Call, CallRecord

LEMMA RefreshShape ==
  ASSUME NEW t \in Second
  PROVE  [Starts("refresh", "find") EXCEPT !.token = t] \in Call
  BY DEF Starts, Idle, Call, CallRecord

LEMMA ChangeShape ==
  ASSUME NEW p \in Password, NEW q \in Password
  PROVE  [Starts("change", "save") EXCEPT !.pw = p, !.to = q] \in Call
  BY DEF Starts, Idle, Call, CallRecord

LEMMA IdleShape == Idle.at = "idle" /\ Idle.op = "none" /\ Idle.overtaken = FALSE
  BY DEF Idle
-----------------------------------------------------------------------------
(* Types                                                                   *)

LEMMA TypeInit == Init => TypeOK
<1> SUFFICES ASSUME Init PROVE TypeOK
  OBVIOUS
<1>1. now \in Second /\ stored \in Second \cup {None}
  BY TimeAssumption DEF Init
<1>2. given = {} /\ lost = {} /\ spent = {}
  BY DEF Init
<1>3. call \in [Req -> Call \cup {Idle}]
  BY DEF Init
<1> QED BY <1>1, <1>2, <1>3 DEF Init, TypeOK

\* Replacing one call by another keeps the type of all.
LEMMA ReplaceType ==
  ASSUME TypeOK, NEW r \in Req, NEW c \in Call \cup {Idle},
         call' = [call EXCEPT ![r] = c]
  PROVE  /\ call' \in [Req -> Call \cup {Idle}]
         /\ call'[r] = c
         /\ \A q \in Req \ {r} : call'[q] = call[q]
  BY DEF TypeOK

\* A call that is somewhere is a call.
LEMMA Busy ==
  ASSUME TypeOK, NEW r \in Req, call[r].at # "idle"
  PROVE  call[r] \in Call
  BY IdleShape DEF TypeOK

LEMMA TypeStep == TypeOK /\ [Next]_vars => TypeOK'
<1> SUFFICES ASSUME TypeOK, [Next]_vars PROVE TypeOK'
  OBVIOUS
<1> USE TimeAssumption, PasswordAssumption
<1>1. ASSUME NEW r \in Req, LoginFind(r) PROVE TypeOK'
  <2>1. call' \in [Req -> Call \cup {Idle}]
    BY <1>1, LoginShape, ReplaceType DEF LoginFind
  <2> QED BY <1>1, <2>1 DEF LoginFind, TypeOK, account, tokens
<1>2. ASSUME NEW r \in Req, LoginSign(r) PROVE TypeOK'
  <2>1. Signed(call[r]) \in Call
    BY <1>2, Busy, SignedShape DEF LoginSign, TypeOK
  <2>2. call' \in [Req -> Call \cup {Idle}]
    BY <1>2, <2>1, ReplaceType DEF LoginSign, TypeOK
  <2> QED BY <1>2, <2>2 DEF LoginSign, TypeOK, account, tokens
<1>3. ASSUME NEW r \in Req, RefreshBegin(r) PROVE TypeOK'
  <2>1. call' \in [Req -> Call \cup {Idle}]
    BY <1>3, RefreshShape, ReplaceType DEF RefreshBegin, TypeOK
  <2> QED BY <1>3, <2>1 DEF RefreshBegin, TypeOK, account, tokens
<1>4. ASSUME NEW r \in Req, RefreshFind(r) PROVE TypeOK'
  <2>1. Signed(call[r]) \in Call
    BY <1>4, Busy, SignedShape DEF RefreshFind, TypeOK
  <2>2. call' \in [Req -> Call \cup {Idle}]
    BY <1>4, <2>1, ReplaceType DEF RefreshFind, TypeOK
  <2> QED BY <1>4, <2>2 DEF RefreshFind, TypeOK, account, tokens
<1>5. ASSUME NEW r \in Req, WriteToken(r) PROVE TypeOK'
  <2>1. \A q \in Req : call[q].at = "write" =>
          /\ [call[q] EXCEPT !.at = "answer"] \in Call
          /\ [call[q] EXCEPT !.overtaken = TRUE] \in Call
    BY Busy, WrittenShape
  <2>2. call' \in [Req -> Call \cup {Idle}]
    BY <1>5, <2>1 DEF WriteToken, Overtaking, TypeOK
  <2>3. call[r] \in Call
    BY <1>5, Busy DEF WriteToken
  <2>4. stored' \in Second
    BY <1>5, <2>3, CallShape DEF WriteToken
  <2>5. spent' \subseteq Second
    BY <1>5, <2>3, CallShape DEF WriteToken, Exchanged, TypeOK
  <2>6. storedLate' \in BOOLEAN
    BY <1>5, <2>3, CallShape DEF WriteToken
  <2>7. outdated' \in Nat
    BY <1>5 DEF WriteToken, TypeOK
  <2> QED BY <1>5, <2>2, <2>4, <2>5, <2>6, <2>7 DEF WriteToken, TypeOK
<1>6. ASSUME NEW r \in Req, Answer(r) PROVE TypeOK'
  <2>1. call[r].new \in Second
    BY <1>6, Busy, CallShape DEF Answer
  <2>2. call' \in [Req -> Call \cup {Idle}]
    BY <1>6, ReplaceType DEF Answer
  <2> QED BY <1>6, <2>1, <2>2 DEF Answer, TypeOK, account
<1>7. ASSUME NEW r \in Req, ChangeFind(r) PROVE TypeOK'
  <2>1. call' \in [Req -> Call \cup {Idle}]
    BY <1>7, ChangeShape, ReplaceType DEF ChangeFind, MayChangeTo
  <2> QED BY <1>7, <2>1 DEF ChangeFind, TypeOK, account, tokens
<1>8. ASSUME NEW r \in Req, ChangeSave(r) PROVE TypeOK'
  <2>1. call[r].to \in Password
    BY <1>8, Busy, CallShape DEF ChangeSave
  <2>2. call' \in [Req -> Call \cup {Idle}]
    BY <1>8, ReplaceType DEF ChangeSave
  <2> QED BY <1>8, <2>1, <2>2 DEF ChangeSave, TypeOK, tokens
<1>9. CASE Logout
  BY <1>9 DEF Logout, TypeOK, tokens
<1>10. CASE Tick
  BY <1>10 DEF Tick, TypeOK, tokens, account
<1>11. CASE Crash
  <2>1. \A q \in Req : call[q].at = "answer" => call[q].new \in Second
    BY Busy, CallShape
  <2>2. lost' \subseteq Second
    BY <1>11, <2>1 DEF Crash, TypeOK
  <2> QED BY <1>11, <2>2 DEF Crash, TypeOK, account
<1>12. CASE UNCHANGED vars
  BY <1>12 DEF vars, account, tokens, TypeOK
<1> QED BY <1>1, <1>2, <1>3, <1>4, <1>5, <1>6, <1>7, <1>8, <1>9, <1>10, <1>11, <1>12
  DEF Next

\* The account, the calls and the tokens keep the shape the code assumes.
THEOREM TypeCorrect == Spec => []TypeOK
  BY TypeInit, TypeStep, PTL DEF Spec
-----------------------------------------------------------------------------
(* What a step does to the calls                                           *)

\* A step that is not a write of a token leaves the tokens in force and spent
\* alone, and a call it changes is new, has just signed, or has ended.
LEMMA QuietStep ==
  ASSUME TypeOK, NEW r \in Req,
         \/ LoginFind(r) \/ LoginSign(r) \/ RefreshBegin(r) \/ RefreshFind(r)
         \/ Answer(r) \/ ChangeFind(r)
  PROVE  /\ UNCHANGED <<now, stored, storedLate, spent, lost>>
         /\ \/ call[r].at # "answer" /\ given' = given
            \/ call[r].at = "answer" /\ given' = given \cup {call[r].new}
         /\ \A q \in Req \ {r} : call'[q] = call[q]
         /\ \/ call'[r].at \in {"idle", "sign", "save"} /\ call'[r].op # "refresh"
            \/ /\ call'[r].at = "find" /\ call'[r].token \in given
            \/ /\ call[r].at \in {"sign", "find"} /\ call'[r].at = "write"
               /\ call'[r].new = now
               /\ call'[r].op = call[r].op /\ call'[r].token = call[r].token
<1>1. CASE LoginFind(r)
  <2>1. PICK p \in Password : call' = [call EXCEPT ![r] = [Starts("login", "sign") EXCEPT !.pw = p]]
    BY <1>1 DEF LoginFind
  <2>2. /\ [Starts("login", "sign") EXCEPT !.pw = p].at = "sign"
        /\ [Starts("login", "sign") EXCEPT !.pw = p].op = "login"
    BY DEF Starts, Idle
  <2> QED BY <1>1, <2>1, <2>2, LoginShape, ReplaceType DEF LoginFind, account, tokens
<1>2. CASE LoginSign(r)
  <2>1. call[r] \in Call /\ call[r].at = "sign"
    BY <1>2, Busy DEF LoginSign
  <2>2. Signed(call[r]) \in Call /\ call' = [call EXCEPT ![r] = Signed(call[r])]
    BY <1>2, <2>1, SignedShape DEF LoginSign, TypeOK
  <2>3. call'[r] = Signed(call[r]) /\ \A q \in Req \ {r} : call'[q] = call[q]
    BY <2>2, ReplaceType
  <2> QED BY <1>2, <2>1, <2>3, SignedShape DEF LoginSign, TypeOK, account, tokens
<1>3. CASE RefreshBegin(r)
  <2>1. PICK t \in given : call' = [call EXCEPT ![r] = [Starts("refresh", "find") EXCEPT !.token = t]]
    BY <1>3 DEF RefreshBegin
  <2>2. /\ [Starts("refresh", "find") EXCEPT !.token = t].at = "find"
        /\ [Starts("refresh", "find") EXCEPT !.token = t].token = t
    BY DEF Starts, Idle
  <2> QED BY <1>3, <2>1, <2>2, RefreshShape, ReplaceType DEF RefreshBegin, TypeOK, account, tokens
<1>4. CASE RefreshFind(r)
  <2>1. call[r] \in Call /\ call[r].at = "find"
    BY <1>4, Busy DEF RefreshFind
  <2>2. Signed(call[r]) \in Call
    BY <1>4, <2>1, SignedShape DEF TypeOK
  <2>3. CASE call[r].token = stored
    <3>1. call' = [call EXCEPT ![r] = Signed(call[r])]
      BY <1>4, <2>3 DEF RefreshFind, TypeOK
    <3>2. call'[r] = Signed(call[r]) /\ \A q \in Req \ {r} : call'[q] = call[q]
      BY <3>1, <2>2, ReplaceType
    <3> QED BY <1>4, <2>1, <3>2, SignedShape DEF RefreshFind, TypeOK, account, tokens
  <2>4. CASE call[r].token # stored
    <3>1. call' = [call EXCEPT ![r] = Idle]
      BY <1>4, <2>4 DEF RefreshFind, TypeOK
    <3> QED BY <1>4, <3>1, IdleShape, ReplaceType DEF RefreshFind, account, tokens
  <2> QED BY <2>3, <2>4
<1>5. CASE Answer(r)
  BY <1>5, IdleShape, ReplaceType DEF Answer, account
<1>6. CASE ChangeFind(r)
  <2>1. PICK old \in Password, p \in Password :
          call' = [call EXCEPT ![r] = [Starts("change", "save") EXCEPT !.pw = old, !.to = p]]
    BY <1>6 DEF ChangeFind, MayChangeTo
  <2>2. /\ [Starts("change", "save") EXCEPT !.pw = old, !.to = p].at = "save"
        /\ [Starts("change", "save") EXCEPT !.pw = old, !.to = p].op = "change"
    BY DEF Starts, Idle
  <2> QED BY <1>6, <2>1, <2>2, ChangeShape, ReplaceType DEF ChangeFind, account, tokens
<1> QED BY <1>1, <1>2, <1>3, <1>4, <1>5, <1>6

\* What a write does to the call that writes and to the others.
LEMMA WriteStep ==
  ASSUME TypeOK, NEW r \in Req, WriteToken(r)
  PROVE  /\ call[r] \in Call /\ call[r].at = "write"
         /\ call'[r].at = "answer" /\ call'[r].new = call[r].new
         /\ call'[r].op = call[r].op /\ call'[r].token = call[r].token
         /\ \A q \in Req \ {r} :
              /\ call'[q].at = call[q].at /\ call'[q].new = call[q].new
              /\ call'[q].op = call[q].op /\ call'[q].token = call[q].token
              /\ call'[q].at = "write" => call'[q].overtaken
<1>1. call[r] \in Call /\ call[r].at = "write"
  BY Busy DEF WriteToken
<1>2. call'[r] = [call[r] EXCEPT !.at = "answer"]
  BY DEF WriteToken, Overtaking
<1>3. /\ call'[r].at = "answer" /\ call'[r].new = call[r].new
      /\ call'[r].op = call[r].op /\ call'[r].token = call[r].token
  BY <1>1, <1>2 DEF Call, CallRecord
<1>4. ASSUME NEW q \in Req \ {r}
      PROVE  /\ call'[q].at = call[q].at /\ call'[q].new = call[q].new
             /\ call'[q].op = call[q].op /\ call'[q].token = call[q].token
             /\ call'[q].at = "write" => call'[q].overtaken
  <2>1. CASE call[q].at = "write"
    <3>1. call[q] \in Call
      BY <1>4, <2>1, Busy
    <3>2. call'[q] = [call[q] EXCEPT !.overtaken = TRUE]
      BY <1>4, <2>1 DEF WriteToken, Overtaking
    <3> QED BY <3>1, <3>2 DEF Call, CallRecord
  <2>2. CASE call[q].at # "write"
    <3>1. call'[q] = call[q]
      BY <1>4, <2>2 DEF WriteToken, Overtaking
    <3> QED BY <2>2, <3>1
  <2> QED BY <2>1, <2>2
<1> QED BY <1>1, <1>3, <1>4

\* A save of a password leaves the calls where they are, but for its own.
LEMMA SaveStep ==
  ASSUME TypeOK, NEW r \in Req, ChangeSave(r)
  PROVE  /\ UNCHANGED <<now, stored, storedLate, spent, given, lost>>
         /\ call[r].at = "save" /\ call'[r] = Idle
         /\ \A q \in Req \ {r} : call'[q] = call[q]
  BY ReplaceType DEF ChangeSave, tokens
-----------------------------------------------------------------------------
(* The invariant                                                           *)

LEMMA InvInit == Init => SessionsInv
<1> SUFFICES ASSUME Init PROVE SessionsInv
  OBVIOUS
<1>1. \A r \in Req : call[r] = Idle
  BY DEF Init
<1>2. PendingInv
  BY <1>1, IdleShape DEF PendingInv
<1> QED BY <1>2, TypeInit DEF Init, SessionsInv, ClockInv, SpentComesBackOnlyLate, InForceIsKnown

\* The steps after which the calls, the clock and the tokens compare as before.
LEMMA PendingKept ==
  ASSUME TypeOK, PendingInv, spent' = spent, now' = now, NEW Q \in SUBSET Req,
         \A q \in Q : /\ call'[q].at = call[q].at /\ call'[q].new = call[q].new
                      /\ call'[q].op = call[q].op /\ call'[q].token = call[q].token
                      /\ call'[q].overtaken = call[q].overtaken
  PROVE  \A q \in Q :
           /\ call'[q].op = "refresh" => call'[q].token <= now'
           /\ call'[q].at \in {"write", "answer"} => call'[q].new <= now'
           /\ (call'[q].op = "refresh" /\ call'[q].at = "write") => call'[q].token <= call'[q].new
           /\ (call'[q].at = "write" /\ ~call'[q].overtaken) => call'[q].new \notin spent'
  BY DEF PendingInv

LEMMA InvQuiet ==
  ASSUME SessionsInv, TypeOK', NEW r \in Req,
         \/ LoginFind(r) \/ LoginSign(r) \/ RefreshBegin(r) \/ RefreshFind(r)
         \/ Answer(r) \/ ChangeFind(r)
  PROVE  SessionsInv'
<1>1. TypeOK
  BY DEF SessionsInv
<1>2. /\ UNCHANGED <<now, stored, storedLate, spent, lost>>
      /\ \/ call[r].at # "answer" /\ given' = given
         \/ call[r].at = "answer" /\ given' = given \cup {call[r].new}
      /\ \A q \in Req \ {r} : call'[q] = call[q]
  BY <1>1, QuietStep
<1>3. \/ call'[r].at \in {"idle", "sign", "save"} /\ call'[r].op # "refresh"
      \/ call'[r].at = "find" /\ call'[r].token \in given
      \/ /\ call[r].at \in {"sign", "find"} /\ call'[r].at = "write"
         /\ call'[r].new = now
         /\ call'[r].op = call[r].op /\ call'[r].token = call[r].token
  BY <1>1, QuietStep
<1>4. now \in Nat /\ ClockInv /\ PendingInv
  BY <1>1, TimeAssumption DEF SessionsInv, TypeOK
<1>5. PendingInv'
  <2>1. now \notin spent
    BY <1>4 DEF ClockInv
  <2>2. /\ call'[r].op = "refresh" => call'[r].token <= now'
        /\ call'[r].at \in {"write", "answer"} => call'[r].new <= now'
        /\ (call'[r].op = "refresh" /\ call'[r].at = "write") => call'[r].token <= call'[r].new
        /\ (call'[r].at = "write" /\ ~call'[r].overtaken) => call'[r].new \notin spent'
    BY <1>2, <1>3, <1>4, <2>1 DEF PendingInv, ClockInv
  <2>3. \A q \in Req \ {r} :
           /\ call'[q].op = "refresh" => call'[q].token <= now'
           /\ call'[q].at \in {"write", "answer"} => call'[q].new <= now'
           /\ (call'[q].op = "refresh" /\ call'[q].at = "write") => call'[q].token <= call'[q].new
           /\ (call'[q].at = "write" /\ ~call'[q].overtaken) => call'[q].new \notin spent'
    BY <1>1, <1>2, <1>4, PendingKept
  <2> QED BY <2>2, <2>3 DEF PendingInv
<1>6. ClockInv'
  BY <1>2, <1>4 DEF ClockInv, PendingInv
<1>7. SpentComesBackOnlyLate'
  BY <1>2 DEF SessionsInv, SpentComesBackOnlyLate
<1>8. InForceIsKnown'
  BY <1>2, <1>3 DEF SessionsInv, InForceIsKnown
<1> QED BY <1>5, <1>6, <1>7, <1>8 DEF SessionsInv

LEMMA InvWrite ==
  ASSUME SessionsInv, TypeOK', NEW r \in Req, WriteToken(r)
  PROVE  SessionsInv'
<1>1. TypeOK /\ PendingInv /\ ClockInv
  BY DEF SessionsInv
<1>2. /\ call[r] \in Call /\ call[r].at = "write"
      /\ call'[r].at = "answer" /\ call'[r].new = call[r].new
      /\ call'[r].op = call[r].op /\ call'[r].token = call[r].token
      /\ \A q \in Req \ {r} :
           /\ call'[q].at = call[q].at /\ call'[q].new = call[q].new
           /\ call'[q].op = call[q].op /\ call'[q].token = call[q].token
           /\ call'[q].at = "write" => call'[q].overtaken
  BY <1>1, WriteStep
<1>3. /\ stored' = call[r].new /\ storedLate' = call[r].overtaken
      /\ spent' = spent \cup Exchanged(call[r])
      /\ now' = now /\ given' = given
  BY DEF WriteToken
<1>4. now \in Nat /\ call[r].new \in Nat /\ call[r].overtaken \in BOOLEAN
  BY <1>1, <1>2, CallShape, TimeAssumption DEF TypeOK
<1>5. PendingInv'
  BY <1>1, <1>2, <1>3 DEF PendingInv
<1>6. ASSUME NEW t \in Exchanged(call[r]) PROVE t < now /\ t # call[r].new
  <2>1. call[r].op = "refresh" /\ t = call[r].token /\ t # call[r].new
    BY <1>6 DEF Exchanged
  <2>2. t \in Nat
    BY <1>2, <2>1, CallShape
  <2>3. t <= call[r].new /\ call[r].new <= now
    BY <1>1, <1>2, <2>1 DEF PendingInv
  <2> QED BY <1>4, <2>1, <2>2, <2>3
<1>7. ClockInv'
  BY <1>1, <1>3, <1>6 DEF ClockInv
<1>8. SpentComesBackOnlyLate'
  BY <1>1, <1>2, <1>3, <1>4, <1>6 DEF SpentComesBackOnlyLate, PendingInv
<1>9. InForceIsKnown'
  BY <1>2, <1>3 DEF InForceIsKnown
<1> QED BY <1>5, <1>7, <1>8, <1>9 DEF SessionsInv

LEMMA InvStep == SessionsInv /\ [Next]_vars => SessionsInv'
<1> SUFFICES ASSUME SessionsInv, [Next]_vars PROVE SessionsInv'
  OBVIOUS
<1>1. TypeOK /\ TypeOK'
  BY TypeStep DEF SessionsInv
<1>2. ASSUME NEW r \in Req,
             \/ LoginFind(r) \/ LoginSign(r) \/ RefreshBegin(r) \/ RefreshFind(r)
             \/ Answer(r) \/ ChangeFind(r)
      PROVE  SessionsInv'
  BY <1>1, <1>2, InvQuiet
<1>3. ASSUME NEW r \in Req, WriteToken(r) PROVE SessionsInv'
  BY <1>1, <1>3, InvWrite
<1>4. ASSUME NEW r \in Req, ChangeSave(r) PROVE SessionsInv'
  <2>1. /\ UNCHANGED <<now, stored, storedLate, spent, given, lost>>
        /\ call[r].at = "save" /\ call'[r] = Idle
        /\ \A q \in Req \ {r} : call'[q] = call[q]
    BY <1>1, <1>4, SaveStep
  <2>2. PendingInv'
    BY <2>1, IdleShape DEF SessionsInv, PendingInv
  <2>3. InForceIsKnown'
    BY <2>1 DEF SessionsInv, InForceIsKnown
  <2> QED BY <1>1, <2>1, <2>2, <2>3 DEF SessionsInv, ClockInv, SpentComesBackOnlyLate
<1>5. CASE Logout
  BY <1>1, <1>5 DEF Logout, tokens, SessionsInv, PendingInv, ClockInv,
     SpentComesBackOnlyLate, InForceIsKnown
<1>6. CASE Tick
  <2>1. UNCHANGED <<call, stored, storedLate, given, lost, spent>> /\ now' = now + 1
    BY <1>6 DEF Tick, account, tokens
  <2>2. now \in Nat /\ given \subseteq Nat /\ spent \subseteq Nat
    BY <1>1, TimeAssumption DEF TypeOK
  <2>3. ClockInv'
    BY <2>1, <2>2 DEF SessionsInv, ClockInv
  <2>4. ASSUME NEW q \in Req
        PROVE  /\ call[q].op = "refresh" => call[q].token \in Nat
               /\ call[q].at \in {"write", "answer"} => call[q].new \in Nat
    BY <1>1, CallShape, IdleShape DEF TypeOK
  <2>5. PendingInv'
    BY <2>1, <2>2, <2>4 DEF SessionsInv, PendingInv
  <2> QED BY <1>1, <2>1, <2>3, <2>5 DEF SessionsInv, SpentComesBackOnlyLate, InForceIsKnown
<1>7. CASE Crash
  <2>1. \A r \in Req : call'[r] = Idle
    BY <1>7 DEF Crash
  <2>2. /\ UNCHANGED <<now, stored, storedLate, given, spent>>
        /\ lost' = lost \cup {call[r].new : r \in {q \in Req : call[q].at = "answer"}}
    BY <1>7 DEF Crash, account
  <2>3. PendingInv'
    BY <2>1, IdleShape DEF PendingInv
  <2>4. InForceIsKnown'
    BY <2>2 DEF SessionsInv, InForceIsKnown
  <2> QED BY <1>1, <2>2, <2>3, <2>4 DEF SessionsInv, ClockInv, SpentComesBackOnlyLate
<1>8. CASE UNCHANGED vars
  BY <1>1, <1>8 DEF vars, account, tokens, SessionsInv, PendingInv, ClockInv,
     SpentComesBackOnlyLate, InForceIsKnown
<1> QED BY <1>2, <1>3, <1>4, <1>5, <1>6, <1>7, <1>8 DEF Next

LEMMA Invariance == Spec => []SessionsInv
  BY InvInit, InvStep, PTL DEF Spec

\* Rotation: a token that was exchanged for a later one is in force again only
\* if a call wrote it after another call's write had overtaken it.
THEOREM RotationSafe == Spec => []SpentComesBackOnlyLate
<1>1. SessionsInv => SpentComesBackOnlyLate
  BY DEF SessionsInv
<1> QED BY <1>1, Invariance, PTL

\* The token in force is held by a client, about to be answered, or lost to a
\* crash.
THEOREM TokenKnown == Spec => []InForceIsKnown
<1>1. SessionsInv => InForceIsKnown
  BY DEF SessionsInv
<1> QED BY <1>1, Invariance, PTL
-----------------------------------------------------------------------------
(* The password given                                                      *)

\* A call that begins was given the password in force, and the others keep
\* theirs.
LEMMA PasswordQuiet ==
  ASSUME TypeOK, NEW r \in Req,
         \/ LoginFind(r) \/ LoginSign(r) \/ RefreshBegin(r) \/ RefreshFind(r)
         \/ Answer(r) \/ ChangeFind(r)
  PROVE  /\ UNCHANGED <<password, outdated>>
         /\ \A q \in Req \ {r} : call'[q] = call[q]
         /\ \/ call'[r].at \in {"sign", "save"} /\ call'[r].pw = password
            \/ /\ call[r].at \in {"sign", "find"} /\ call'[r].at = "write"
               /\ call'[r].op = call[r].op /\ call'[r].pw = call[r].pw
            \/ call'[r].at \in {"idle", "find"}
<1>1. UNCHANGED <<password, outdated>>
  BY DEF LoginFind, LoginSign, RefreshBegin, RefreshFind, Answer, ChangeFind, account
<1>2. \A q \in Req \ {r} : call'[q] = call[q]
  BY QuietStep
<1>3. CASE LoginFind(r)
  <2>1. call' = [call EXCEPT ![r] = [Starts("login", "sign") EXCEPT !.pw = password]]
    BY <1>3 DEF LoginFind
  <2> QED BY <1>1, <1>2, <2>1 DEF Starts, Idle, TypeOK
<1>4. CASE ChangeFind(r)
  <2>1. PICK p \in Password :
          call' = [call EXCEPT ![r] =
                     [Starts("change", "save") EXCEPT !.pw = password, !.to = p]]
    BY <1>4 DEF ChangeFind, MayChangeTo
  <2> QED BY <1>1, <1>2, <2>1 DEF Starts, Idle, TypeOK
<1>5. CASE LoginSign(r) \/ RefreshFind(r)
  <2>1. call[r] \in CallRecord /\ call[r].at \in {"sign", "find"}
    BY <1>5, Busy DEF LoginSign, RefreshFind, Call
  <2>2. Signed(call[r]) = [call[r] EXCEPT !.at = "write", !.new = now]
    BY DEF Signed
  <2>3. /\ Signed(call[r]).at = "write" /\ Signed(call[r]).op = call[r].op
        /\ Signed(call[r]).pw = call[r].pw
    BY <2>1, <2>2 DEF CallRecord
  <2>4. call'[r] \in {Signed(call[r]), Idle}
    BY <1>5 DEF LoginSign, RefreshFind, TypeOK
  <2> QED BY <1>1, <1>2, <2>1, <2>3, <2>4, IdleShape
<1>6. CASE RefreshBegin(r)
  BY <1>1, <1>2, <1>6 DEF RefreshBegin, Starts, Idle, TypeOK
<1>7. CASE Answer(r)
  BY <1>1, <1>2, <1>7, IdleShape DEF Answer, TypeOK
<1> QED BY <1>3, <1>4, <1>5, <1>6, <1>7

\* A write ends the wait of the call that writes; the others keep theirs.
LEMMA PasswordWrite ==
  ASSUME TypeOK, NEW r \in Req, WriteToken(r)
  PROVE  /\ password' = password
         /\ outdated' = outdated + (IF r \in Stale THEN 1 ELSE 0)
         /\ call'[r].at = "answer"
         /\ \A q \in Req \ {r} :
              /\ call'[q].at = call[q].at /\ call'[q].op = call[q].op
              /\ call'[q].pw = call[q].pw
<1>1. call'[r].at = "answer"
  BY WriteStep
<1>2. ASSUME NEW q \in Req \ {r}
      PROVE  /\ call'[q].at = call[q].at /\ call'[q].op = call[q].op
             /\ call'[q].pw = call[q].pw
  <2>1. CASE call[q].at = "write"
    <3>1. call[q] \in CallRecord
      BY <2>1, Busy DEF Call
    <3>2. call'[q] = [call[q] EXCEPT !.overtaken = TRUE]
      BY <2>1 DEF WriteToken, Overtaking
    <3> QED BY <3>1, <3>2 DEF CallRecord
  <2>2. CASE call[q].at # "write"
    BY <2>2 DEF WriteToken, Overtaking
  <2> QED BY <2>1, <2>2
<1> QED BY <1>1, <1>2 DEF WriteToken

\* Sets of calls and how many they are.
LEMMA Fewer ==
  ASSUME NEW B \in SUBSET Req, NEW A \in SUBSET B
  PROVE  Cardinality(A) \in Nat /\ Cardinality(B) \in Nat /\ Cardinality(A) <= Cardinality(B)
<1>1. IsFiniteSet(B)
  BY FS_Subset, ReqAssumption
<1> QED BY <1>1, FS_Subset, FS_CardinalityType

LEMMA Without ==
  ASSUME NEW B \in SUBSET Req, NEW r \in B
  PROVE  Cardinality(B \ {r}) = Cardinality(B) - 1 /\ Cardinality(B) \in Nat
<1>1. IsFiniteSet(B)
  BY FS_Subset, ReqAssumption
<1> QED BY <1>1, FS_RemoveElement, FS_CardinalityType

\* Nothing new is stale and nothing is written: the bound stays.
LEMMA OutdatedKept ==
  ASSUME TypeOK, OutdatedInv, outdated' = outdated, Stale' \subseteq Stale
  PROVE  OutdatedInv'
<1>1. Cardinality(Stale') \in Nat /\ Cardinality(Stale) \in Nat
      /\ Cardinality(Stale') <= Cardinality(Stale)
  BY Fewer DEF Stale
<1>2. Cardinality(Req) \in Nat /\ outdated \in Nat
  BY ReqAssumption, FS_CardinalityType DEF TypeOK
<1> QED BY <1>1, <1>2 DEF OutdatedInv

LEMMA OutdatedStep == TypeOK /\ OutdatedInv /\ [Next]_vars => OutdatedInv'
<1> SUFFICES ASSUME TypeOK, OutdatedInv, [Next]_vars PROVE OutdatedInv'
  OBVIOUS
<1>c. Cardinality(Req) \in Nat /\ outdated \in Nat
  BY ReqAssumption, FS_CardinalityType DEF TypeOK
<1>1. ASSUME NEW r \in Req,
             \/ LoginFind(r) \/ LoginSign(r) \/ RefreshBegin(r) \/ RefreshFind(r)
             \/ Answer(r) \/ ChangeFind(r)
      PROVE  OutdatedInv'
  <2>1. /\ UNCHANGED <<password, outdated>>
        /\ \A q \in Req \ {r} : call'[q] = call[q]
        /\ \/ call'[r].at \in {"sign", "save"} /\ call'[r].pw = password
           \/ /\ call[r].at \in {"sign", "find"} /\ call'[r].at = "write"
              /\ call'[r].op = call[r].op /\ call'[r].pw = call[r].pw
           \/ call'[r].at \in {"idle", "find"}
    BY <1>1, PasswordQuiet
  <2>2. ASSUME NEW q \in Stale' PROVE q \in Stale
    <3>1. CASE q # r
      BY <2>1, <2>2, <3>1 DEF Stale
    <3>2. CASE q = r
      <4>1. call[r].at = "find" => call[r].op # "login"
        BY Busy, CallShape
      <4> QED BY <2>1, <2>2, <3>2, <4>1 DEF Stale
    <3> QED BY <3>1, <3>2
  <2> QED BY <2>1, <2>2, OutdatedKept
<1>2. ASSUME NEW r \in Req, WriteToken(r) PROVE OutdatedInv'
  <2>1. /\ password' = password
        /\ outdated' = outdated + (IF r \in Stale THEN 1 ELSE 0)
        /\ call'[r].at = "answer"
        /\ \A q \in Req \ {r} :
             /\ call'[q].at = call[q].at /\ call'[q].op = call[q].op
             /\ call'[q].pw = call[q].pw
    BY <1>2, PasswordWrite
  <2>2. Stale' \subseteq Stale \ {r}
    BY <2>1 DEF Stale
  <2>3. CASE r \in Stale
    <3>1. Cardinality(Stale \ {r}) = Cardinality(Stale) - 1 /\ Cardinality(Stale) \in Nat
      BY <2>3, Without DEF Stale
    <3>2. Cardinality(Stale') \in Nat /\ Cardinality(Stale') <= Cardinality(Stale \ {r})
      BY <2>2, Fewer DEF Stale
    <3> QED BY <1>c, <2>1, <2>3, <3>1, <3>2 DEF OutdatedInv
  <2>4. CASE r \notin Stale
    <3>1. outdated' = outdated /\ Stale' \subseteq Stale
      BY <1>c, <2>1, <2>2, <2>4
    <3> QED BY <3>1, OutdatedKept
  <2> QED BY <2>3, <2>4
<1>3. ASSUME NEW r \in Req, ChangeSave(r) PROVE OutdatedInv'
  <2>1. Stale' \subseteq Req \ {r} /\ outdated' = 0
    BY <1>3, SaveStep, IdleShape DEF ChangeSave, Stale
  <2>2. Cardinality(Req \ {r}) = Cardinality(Req) - 1
    BY Without
  <2>3. Cardinality(Stale') \in Nat /\ Cardinality(Stale') <= Cardinality(Req \ {r})
    BY <2>1, Fewer
  <2> QED BY <1>c, <2>1, <2>2, <2>3 DEF OutdatedInv
<1>4. CASE Logout \/ Tick \/ UNCHANGED vars
  <2>1. UNCHANGED <<password, outdated, call>>
    BY <1>4 DEF Logout, Tick, vars, account
  <2>2. Stale' = Stale
    BY <2>1 DEF Stale
  <2> QED BY <2>1, <2>2, OutdatedKept
<1>5. CASE Crash
  <2>1. outdated' = outdated /\ Stale' = {}
    BY <1>5, IdleShape DEF Crash, account, Stale
  <2> QED BY <2>1, OutdatedKept
<1> QED BY <1>1, <1>2, <1>3, <1>4, <1>5 DEF Next

LEMMA OutdatedInvariance == Spec => []OutdatedInv
<1>1. ASSUME Init PROVE OutdatedInv
  <2>1. outdated = 0 /\ Stale = {}
    BY <1>1, IdleShape DEF Init, Stale
  <2>2. Cardinality(Req) \in Nat /\ Cardinality(Req) # 0
    BY ReqAssumption, FS_CardinalityType, FS_EmptySet
  <2>3. Cardinality({}) = 0
    BY FS_EmptySet
  <2> QED BY <2>1, <2>2, <2>3 DEF OutdatedInv
<1>2. Init => OutdatedInv
  BY <1>1
<1> QED BY <1>2, TypeCorrect, OutdatedStep, PTL DEF Spec

\* An old password opens fewer sessions after the change than there are calls:
\* each is a login that had compared it before the change was saved.
THEOREM OldPasswordOver == Spec => []OldPasswordRunsOut
<1>1. TypeOK /\ OutdatedInv => OldPasswordRunsOut
  <2> SUFFICES ASSUME TypeOK, OutdatedInv PROVE OldPasswordRunsOut
    OBVIOUS
  <2>1. Cardinality(Stale) \in Nat /\ Cardinality(Req) \in Nat /\ outdated \in Nat
    BY Fewer, ReqAssumption, FS_CardinalityType DEF Stale, TypeOK
  <2> QED BY <2>1 DEF OutdatedInv, OldPasswordRunsOut
<1> QED BY <1>1, TypeCorrect, OutdatedInvariance, PTL
-----------------------------------------------------------------------------
(* When requests are handled one at a time, nothing is written between the  *)
(* read of a call and its own write.                                        *)

SerialInv ==
  /\ ~storedLate
  /\ outdated = 0
  /\ \A r \in Req :
       /\ ~call[r].overtaken
       /\ (call[r].op = "refresh" /\ call[r].at = "write") => call[r].token = stored
       /\ \/ call[r].at \in {"sign", "save"}
          \/ call[r].op = "login" /\ call[r].at = "write"
          => call[r].pw = password

LEMMA SerialQuiet ==
  ASSUME TypeOK, SerialInv, NEW r \in Req,
         \/ LoginFind(r) \/ LoginSign(r) \/ RefreshBegin(r) \/ RefreshFind(r)
         \/ Answer(r) \/ ChangeFind(r)
  PROVE  SerialInv'
<1>1. UNCHANGED <<stored, storedLate>> /\ \A q \in Req \ {r} : call'[q] = call[q]
  BY QuietStep
<1>2. /\ ~call'[r].overtaken
      /\ (call'[r].op = "refresh" /\ call'[r].at = "write") => call'[r].token = stored
  <2>1. CASE LoginFind(r)
    BY <2>1 DEF LoginFind, Starts, Idle, TypeOK
  <2>2. CASE LoginSign(r)
    <3>1. call[r] \in Call /\ call[r].at = "sign" /\ call'[r] = Signed(call[r])
      BY <2>2, Busy DEF LoginSign, TypeOK
    <3> QED BY <3>1 DEF SerialInv, Signed, Call, CallRecord
  <2>3. CASE RefreshBegin(r)
    BY <2>3 DEF RefreshBegin, Starts, Idle, TypeOK
  <2>4. CASE RefreshFind(r)
    <3>1. call[r] \in CallRecord
      BY <2>4, Busy DEF RefreshFind, Call
    <3>2. \/ call'[r] = Idle
          \/ call[r].token = stored /\ call'[r] = Signed(call[r])
      BY <2>4 DEF RefreshFind, TypeOK
    <3>3. Signed(call[r]) = [call[r] EXCEPT !.at = "write", !.new = now]
      BY DEF Signed
    <3>4. /\ Signed(call[r]).overtaken = call[r].overtaken
          /\ Signed(call[r]).token = call[r].token
      BY <3>1, <3>3 DEF CallRecord
    <3>5. CASE call'[r] = Idle
      BY <3>5 DEF Idle
    <3>6. CASE call[r].token = stored /\ call'[r] = Signed(call[r])
      BY <3>4, <3>6 DEF SerialInv
    <3> QED BY <3>2, <3>5, <3>6
  <2>5. CASE Answer(r)
    BY <2>5 DEF Answer, Idle, TypeOK
  <2>6. CASE ChangeFind(r)
    BY <2>6 DEF ChangeFind, Starts, Idle, TypeOK
  <2> QED BY <2>1, <2>2, <2>3, <2>4, <2>5, <2>6
<1>3. /\ UNCHANGED <<password, outdated>>
      /\ \/ call'[r].at \in {"sign", "save"} /\ call'[r].pw = password
         \/ /\ call[r].at \in {"sign", "find"} /\ call'[r].at = "write"
            /\ call'[r].op = call[r].op /\ call'[r].pw = call[r].pw
         \/ call'[r].at \in {"idle", "find"}
  BY PasswordQuiet
<1>4. call[r].at = "find" => call[r].op # "login"
  BY Busy, CallShape
<1>5. \/ call'[r].at \in {"sign", "save"}
      \/ call'[r].op = "login" /\ call'[r].at = "write"
      => call'[r].pw = password
  BY <1>3, <1>4 DEF SerialInv
<1> QED BY <1>1, <1>2, <1>3, <1>5 DEF SerialInv

LEMMA SerialStep == TypeOK /\ SerialInv /\ Serial /\ [Next]_vars => SerialInv'
<1> SUFFICES ASSUME TypeOK, SerialInv, Serial, [Next]_vars PROVE SerialInv'
  OBVIOUS
<1>1. ASSUME NEW r \in Req, call[r].at # "idle", NEW q \in Req \ {r}
      PROVE  call[q] = Idle
  BY <1>1, Busy, CallShape DEF Serial, TypeOK
<1>2. ASSUME NEW r \in Req,
             \/ LoginFind(r) \/ LoginSign(r) \/ RefreshBegin(r) \/ RefreshFind(r)
             \/ Answer(r) \/ ChangeFind(r)
      PROVE  SerialInv'
  BY <1>2, SerialQuiet
<1>3. ASSUME NEW r \in Req, WriteToken(r) PROVE SerialInv'
  <2>1. /\ call[r] \in CallRecord /\ call'[r] = [call[r] EXCEPT !.at = "answer"]
        /\ storedLate' = call[r].overtaken /\ r \notin Stale
        /\ UNCHANGED password /\ outdated' = outdated + (IF r \in Stale THEN 1 ELSE 0)
    BY <1>3, Busy DEF WriteToken, Overtaking, Call, SerialInv, Stale
  <2>2. \A q \in Req \ {r} : call'[q] = Idle
    BY <1>1, <1>3, IdleShape DEF WriteToken, Overtaking
  <2> QED BY <2>1, <2>2 DEF SerialInv, Idle, CallRecord
<1>4. ASSUME NEW r \in Req, ChangeSave(r) PROVE SerialInv'
  <2>1. \A q \in Req : call'[q] = Idle
    BY <1>1, <1>4, SaveStep DEF ChangeSave
  <2> QED BY <1>4, <2>1 DEF ChangeSave, SerialInv, Idle
<1>5. CASE Logout \/ Tick \/ UNCHANGED vars
  BY <1>5 DEF Logout, Tick, vars, account, SerialInv
<1>6. CASE Crash
  BY <1>6 DEF Crash, account, SerialInv, Idle
<1> QED BY <1>2, <1>3, <1>4, <1>5, <1>6 DEF Next

LEMMA SerialInvariance == Spec /\ []Serial => []SerialInv
<1>1. Init => SerialInv
  BY DEF Init, SerialInv, Idle
<1> QED BY <1>1, SerialStep, TypeCorrect, PTL DEF Spec

\* When requests are handled one at a time, a token that was exchanged for a
\* later one is never in force again.
THEOREM SerialRotation == Spec /\ []Serial => []RotationHolds
<1>1. SerialInv /\ SpentComesBackOnlyLate => RotationHolds
  BY DEF SerialInv, SpentComesBackOnlyLate, RotationHolds
<1> QED BY <1>1, SerialInvariance, RotationSafe, PTL

\* Nor does anybody open a session, or change the password, with a password
\* that has been changed.
THEOREM SerialPassword == Spec /\ []Serial => []OnlyPasswordInForce
<1>1. SerialInv => OnlyPasswordInForce
  BY DEF SerialInv, OnlyPasswordInForce
<1> QED BY <1>1, SerialInvariance, PTL
=============================================================================
