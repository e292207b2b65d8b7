------------------------- MODULE FounderInvitesProofs -------------------------
(***************************************************************************)
(* Proofs about FounderInvites, for every number of users, addresses,      *)
(* invites and concurrent calls.                                           *)
(***************************************************************************)
EXTENDS FounderInvites, TLAPS

Stages == SendAt \cup AcceptAt \cup {"begin", "reject", "cancel"}

-----------------------------------------------------------------------------
(* What the steps of a call do                                             *)

\* The other calls are left alone.
Moves(r) ==
  /\ r \in Req
  /\ call' \in [Req -> Call \cup {Idle}]
  /\ \A p \in Req \ {r} : call'[p] = call[p]

LEMMA CallShape ==
  ASSUME TypeOK, NEW r \in Req
  PROVE  /\ call[r].at \in Stages \cup {"idle"}
         /\ call[r].of \subseteq Invite
         /\ call[r].at = "idle" => call[r] = Idle
         /\ call[r].at # "idle" => call[r] \in Call
         /\ call[r].at \in {"begin"} \cup AcceptAt => call[r].user \in User
         /\ call[r].at \in {"begin"} \cup AcceptAt \cup SendAt => call[r].to \in Address
<1>1. CASE call[r] = Idle
  BY <1>1 DEF Idle, SendAt, AcceptAt
<1>2. CASE call[r] \in Call
  BY <1>2 DEF Call, Stages, SendAt, AcceptAt
<1> QED BY <1>1, <1>2 DEF TypeOK

LEMMA SetFacts ==
  ASSUME TypeOK, NEW r \in Req, NEW c \in Call \cup {Idle}, call' = [call EXCEPT ![r] = c]
  PROVE  Moves(r) /\ call'[r] = c
  BY DEF Moves, TypeOK

LEMMA GoesFacts ==
  ASSUME TypeOK, NEW r \in Req, NEW s, Goes(r, s),
         \/ call[r].at \in SendAt /\ s \in SendAt
         \/ call[r].at \in AcceptAt /\ s \in AcceptAt
  PROVE  /\ Moves(r)
         /\ call'[r].at = s /\ call'[r].of = call[r].of
         /\ call'[r].to = call[r].to /\ call'[r].user = call[r].user
<1>1. call[r] \in Call
  BY CallShape DEF SendAt, AcceptAt
<1>2. [call[r] EXCEPT !.at = s] \in Call
  BY <1>1 DEF Call, SendAt, AcceptAt
<1>3. call' = [call EXCEPT ![r] = [call[r] EXCEPT !.at = s]]
  BY DEF Goes
<1>4. Moves(r) /\ call'[r] = [call[r] EXCEPT !.at = s]
  BY <1>2, <1>3, SetFacts
<1> QED BY <1>1, <1>4 DEF Call

LEMMA EndsFacts ==
  ASSUME TypeOK, NEW r \in Req, Ends(r)
  PROVE  Moves(r) /\ call'[r] = Idle /\ call'[r].at = "idle" /\ call'[r].of = {}
<1>1. Moves(r) /\ call'[r] = Idle
  BY SetFacts DEF Ends
<1> QED BY <1>1 DEF Idle

LEMMA RejectStarts ==
  ASSUME TypeOK, NEW r \in Req, NEW S \in SUBSET Invite, NEW s \in {"reject", "cancel"},
         call' = [call EXCEPT ![r] = [Idle EXCEPT !.at = s, !.of = S]]
  PROVE  Moves(r) /\ call'[r].at = s /\ call'[r].of = S
<1>1. [Idle EXCEPT !.at = s, !.of = S] \in Call
  BY DEF Idle, Call, SendAt, AcceptAt
<1>2. Moves(r) /\ call'[r] = [Idle EXCEPT !.at = s, !.of = S]
  BY <1>1, SetFacts
<1> QED BY <1>2 DEF Idle

LEMMA TakesFacts ==
  ASSUME TypeOK, NEW S \in SUBSET Invite, Takes(S)
  PROVE  /\ contested \subseteq contested' /\ contested' \subseteq Invite
         /\ \A i \in S \ contested' : \A p \in Req : i \notin call[p].of
  BY DEF Takes, Touched, TypeOK

-----------------------------------------------------------------------------
(* What keeps each part of the invariant                                   *)

\* A call begins with pending invites.
LEMMA StartsHandled ==
  ASSUME TypeOK, HandledInv, NEW r \in Req, Moves(r), NEW S \in SUBSET Invite,
         call'[r].of = S, Takes(S), \A i \in S : invite[i] = "PENDING", UNCHANGED invite
  PROVE  HandledInv'
<1>1. \A p \in Req : \A i \in call'[p].of \ contested' :
        \/ p # r /\ call'[p] = call[p] /\ i \in call[p].of \ contested
        \/ p = r /\ i \in S /\ \A q \in Req : i \notin call[q].of
  BY TakesFacts DEF Moves
<1>2. ASSUME NEW p \in Req, NEW i \in call'[p].of \ contested'
      PROVE  /\ invite'[i] = "PENDING"
             /\ \A q \in Req \ {p} : i \notin call'[q].of
  <2>1. CASE p = r
    BY <1>1, <2>1 DEF Moves
  <2>2. CASE p # r
    <3>1. i \in call[p].of \ contested /\ i \notin S
      BY <1>1, <2>2, TakesFacts DEF Moves
    <3> QED BY <2>2, <3>1 DEF Moves, HandledInv
  <2> QED BY <2>1, <2>2
<1>3. \A p \in Req : \A i \in call'[p].of : invite'[i] # None
  BY NoneAssumption DEF Moves, HandledInv
<1> QED BY <1>2, <1>3 DEF HandledInv

\* A call lets go of invites; nobody else's invite is written.
LEMMA MovesHandled ==
  ASSUME HandledInv, NEW r \in Req, Moves(r),
         call'[r].of \subseteq call[r].of, contested \subseteq contested',
         \A p \in Req : \A i \in call'[p].of \ contested' : invite'[i] = invite[i],
         \A i \in UNION {call[p].of : p \in Req} : invite[i] # None => invite'[i] # None
  PROVE  HandledInv'
<1>1. \A p \in Req : call'[p].of \subseteq call[p].of
  BY DEF Moves
<1> QED BY <1>1 DEF HandledInv

\* A call that is no acceptance moves outside the acceptance.
LEMMA MovesAccepting ==
  ASSUME AcceptingInv, HandledInv, NEW r \in Req, Moves(r), call'[r].at \notin AcceptAt,
         \A i \in Invite : invite[i] # None => to'[i] = to[i],
         \A p \in At(AcceptAt) :
           call[p].user \notin stray' => email'[call[p].user] = email[call[p].user],
         stray \subseteq stray', UNCHANGED <<founders, promoted, company>>
  PROVE  AcceptingInv'
<1>1. \A p \in At(AcceptAt)' : p # r /\ p \in At(AcceptAt) /\ call'[p] = call[p]
  BY DEF At, Moves
<1>2. \A p \in At(AcceptAt) : \A i \in call[p].of : invite[i] # None
  BY DEF HandledInv, At
<1>3. SUFFICES ASSUME NEW p \in At(AcceptAt)'
               PROVE  /\ \E i \in Invite : call[p].of = {i} /\ to'[i] = call[p].to
                      /\ call[p].user \notin stray' => call[p].to = email'[call[p].user]
                      /\ call[p].at # "push" => founders[call[p].user] > 0 \/ company = "GONE"
                      /\ call[p].at = "accept" => call[p].user \in promoted
  BY <1>1 DEF AcceptingInv
<1>4. PICK i \in Invite : call[p].of = {i} /\ to[i] = call[p].to
  BY <1>1 DEF AcceptingInv
<1>5. to'[i] = to[i]
  BY <1>1, <1>2, <1>4
<1> QED BY <1>1, <1>4, <1>5 DEF AcceptingInv

\* A call goes on or ends, or begins as no Send, and nothing becomes pending.
LEMMA MovesSenders ==
  ASSUME SendersInv, NEW r \in Req, Moves(r), raced \subseteq raced', UNCHANGED to,
         call'[r].at \in SendAt => call[r].at \in SendAt /\ call'[r].to = call[r].to,
         call'[r].at \in AcceptAt =>
           \/ call[r].at \in AcceptAt /\ call'[r].to = call[r].to
           \/ call'[r].to \in raced'
           \/ \A p \in At(SendAt) : call[p].to # call'[r].to,
         call'[r].at = "create" =>
           call[r].at = "create" \/ \A i \in Pending : to[i] # call[r].to,
         Pending' \subseteq Pending
  PROVE  SendersInv'
<1> SUFFICES ASSUME NEW a \in Address \ raced'
             PROVE  /\ \A q, p \in At(SendAt)' : (call'[q].to = a /\ call'[p].to = a) => q = p
                    /\ \A q \in At(SendAt)', p \in At(AcceptAt)' :
                         ~(call'[q].to = a /\ call'[p].to = a)
                    /\ \A q \in At({"create"})', i \in Pending' : ~(call'[q].to = a /\ to'[i] = a)
  BY DEF SendersInv
<1>1. a \in Address \ raced
  OBVIOUS
<1>2. \A q \in At(SendAt)' : q \in At(SendAt) /\ call'[q].to = call[q].to
  BY DEF At, Moves
<1>3. \A p \in At(AcceptAt)' :
        \/ p \in At(AcceptAt) /\ call'[p].to = call[p].to
        \/ p = r /\ call'[r].to \in raced'
        \/ p = r /\ \A q \in At(SendAt) : call[q].to # call'[r].to
  BY DEF At, Moves
<1>4. \A q \in At({"create"})' :
        \/ q \in At({"create"})
        \/ q = r /\ \A i \in Pending : to[i] # call[r].to
  BY DEF At, Moves
<1>5. At({"create"})' \subseteq At(SendAt)'
  BY DEF At, SendAt
<1> QED BY <1>1, <1>2, <1>3, <1>4, <1>5 DEF SendersInv

\* No invite to the user's address comes up.
LEMMA QuietOpen ==
  ASSUME NEW r \in Req, Moves(r), NEW u \in User, Open(u)', email'[u] = email[u],
         call'[r].at \in {"check", "create"} =>
           call[r].at \in {"check", "create"} /\ call'[r].to = call[r].to,
         call'[r].at # "look",
         Pending' \subseteq Pending, \A i \in Pending' : to'[i] = to[i],
         call[r].at \in {"promote", "accept"} =>
           \/ call'[r].at \in {"promote", "accept"} /\ call'[r].of = call[r].of
           \/ Pending' \cap call[r].of = {}
  PROVE  Open(u)
<1>1. CASE \E p \in At({"check", "create"})' : call'[p].to = email'[u]
  BY <1>1 DEF Open, At, Moves
<1>2. CASE \E p \in At({"look"})' : call'[p].to = email'[u] /\ u \notin call'[p].seen
  BY <1>2 DEF Open, At, Moves
<1>3. CASE \E i \in Pending' :
             to'[i] = email'[u] /\ \A p \in At({"promote", "accept"})' : i \notin call'[p].of
  <2>1. PICK i \in Pending' :
          to'[i] = email'[u] /\ \A p \in At({"promote", "accept"})' : i \notin call'[p].of
    BY <1>3
  <2>2. \A p \in At({"promote", "accept"}) : i \notin call[p].of
    BY <2>1 DEF At, Moves
  <2> QED BY <2>1, <2>2 DEF Open
<1> QED BY <1>1, <1>2, <1>3 DEF Open

LEMMA MovesCalm ==
  ASSUME CalmInv, raced \subseteq raced', contested \subseteq contested', stray \subseteq stray',
         UNCHANGED <<founders, moves>>,
         (raced' = {} /\ contested' = {}) =>
           \A u \in User \ stray' : Open(u)' => Open(u) \/ founders[u] <= moves[u]
  PROVE  CalmInv'
  BY DEF CalmInv

\* Nothing new is accepted or pending, and no founder is pushed.
LEMMA MovesRest ==
  ASSUME NEW r \in Req, Moves(r), raced \subseteq raced', contested \subseteq contested',
         TypeOK, AddressInv, AcceptedIsFounder, FounderWasInvited, OnePending,
         UNCHANGED <<company, founders, promoted, by, to>>,
         Pending' \subseteq Pending,
         \A i \in Invite : invite'[i] = "ACCEPTED" <=> invite[i] = "ACCEPTED",
         call[r].at \in {"promote", "accept"} =>
           call'[r].at \in {"promote", "accept"} /\ call'[r].user = call[r].user
  PROVE  AcceptedIsFounder' /\ FounderWasInvited' /\ OnePending'
<1>1. AcceptedIsFounder'
  BY DEF AcceptedIsFounder
<1>2. \A p \in At({"promote", "accept"}) :
        p \in At({"promote", "accept"})' /\ call'[p].user = call[p].user
  BY DEF At, Moves
<1>3. FounderWasInvited'
  BY <1>2 DEF FounderWasInvited, Founder
<1>4. OnePending'
  BY DEF OnePending
<1> QED BY <1>1, <1>3, <1>4

-----------------------------------------------------------------------------
(* Initially, and for each action                                          *)

LEMMA InitInv == Init => InvitesInv
<1> SUFFICES ASSUME Init PROVE InvitesInv
  OBVIOUS
<1>1. TypeOK
  BY DEF Init, TypeOK, Idle
<1>2. /\ Pending = {} /\ Founder = {}
      /\ \A S \in SUBSET Stages : At(S) = {}
  BY NoneAssumption DEF Init, Pending, Founder, At, Stages, SendAt, AcceptAt, Idle
<1>3. At(SendAt) = {} /\ At(AcceptAt) = {} /\ At({"create"}) = {}
      /\ At({"check", "create"}) = {} /\ At({"look"}) = {}
  BY <1>2 DEF Stages, SendAt, AcceptAt
<1>4. SendersInv /\ AcceptingInv /\ FounderWasInvited /\ OnePending
  BY <1>2, <1>3 DEF SendersInv, AcceptingInv, FounderWasInvited, OnePending
<1>5. CalmInv
  BY <1>2, <1>3 DEF CalmInv, Open, Init
<1>6. AddressInv /\ HandledInv /\ AcceptedIsFounder
  BY NoneAssumption DEF Init, AddressInv, HandledInv, AcceptedIsFounder, Idle
<1> QED BY <1>1, <1>4, <1>5, <1>6 DEF InvitesInv

\* A call that has looked at its invites, or at nothing, and will write no founder.
LEMMA BeginInv ==
  ASSUME InvitesInv, NEW r \in Req, Moves(r), NEW S \in SUBSET Invite,
         call[r].at \in {"idle", "begin"}, call'[r].at \in {"idle", "begin", "reject", "cancel"},
         call'[r].of = S, Takes(S), \A i \in S : invite[i] = "PENDING",
         UNCHANGED <<company, people, invites, stray, raced>>
  PROVE  InvitesInv'
<1> USE DEF InvitesInv, people, invites
<1>1. contested \subseteq contested' /\ contested' \subseteq Invite /\ Pending' = Pending
  BY TakesFacts DEF Pending
<1>2. TypeOK' /\ AddressInv'
  BY <1>1 DEF TypeOK, AddressInv, Moves
<1>3. HandledInv'
  BY StartsHandled
<1>4. SendersInv' /\ AcceptingInv'
  BY <1>1, MovesSenders, MovesAccepting DEF SendAt, AcceptAt
<1>5. CalmInv'
  BY <1>1, QuietOpen, MovesCalm
<1>6. AcceptedIsFounder' /\ FounderWasInvited' /\ OnePending'
  BY <1>1, MovesRest
<1> QED BY <1>2, <1>3, <1>4, <1>5, <1>6

LEMMA TakesNothing ==
  ASSUME UNCHANGED contested
  PROVE  Takes({})
  BY DEF Takes

LEMMA RefusedInv ==
  ASSUME InvitesInv, NEW r \in Req, Refused(r)
  PROVE  InvitesInv'
<1>1. Moves(r) /\ call'[r].at = "idle" /\ call'[r].of = {} /\ Takes({})
  BY EndsFacts, TakesNothing DEF Refused, InvitesInv, history
<1> QED BY <1>1, BeginInv DEF Refused, history

LEMMA AuthenticateFacts ==
  ASSUME TypeOK, NEW r \in Req, Authenticate(r)
  PROVE  /\ Moves(r) /\ call[r].at = "idle" /\ call'[r].at = "begin" /\ call'[r].of = {}
         /\ call'[r].user \in User /\ call'[r].to = email[call'[r].user]
<1>1. PICK u \in User :
        call' = [call EXCEPT ![r] = [Idle EXCEPT !.at = "begin", !.user = u, !.to = email[u]]]
  BY DEF Authenticate
<1>2. [Idle EXCEPT !.at = "begin", !.user = u, !.to = email[u]] \in Call
  BY DEF Idle, Call, SendAt, AcceptAt, TypeOK
<1>3. /\ Moves(r)
      /\ call'[r] = [Idle EXCEPT !.at = "begin", !.user = u, !.to = email[u]]
  BY <1>1, <1>2, SetFacts
<1> QED BY <1>3 DEF Authenticate, Idle

LEMMA AuthenticateInv ==
  ASSUME InvitesInv, NEW r \in Req, Authenticate(r)
  PROVE  InvitesInv'
<1>1. Moves(r) /\ call'[r].at = "begin" /\ call'[r].of = {} /\ Takes({})
  BY AuthenticateFacts, TakesNothing DEF Authenticate, InvitesInv, history
<1> QED BY <1>1, BeginInv DEF Authenticate, history

\* RejectFind and GetMyInvites take the invites S.
LEMMA WillRejectInv ==
  ASSUME InvitesInv, NEW r \in Req, NEW S \in SUBSET Invite, call[r].at = "begin",
         WillReject(r, S), \A i \in S : invite[i] = "PENDING",
         UNCHANGED <<company, people, invites, stray, raced>>
  PROVE  InvitesInv'
<1>1. Moves(r) /\ call'[r].at = "reject" /\ call'[r].of = S /\ Takes(S)
  BY RejectStarts DEF WillReject, InvitesInv
<1> QED BY <1>1, BeginInv

LEMMA CancelFindInv ==
  ASSUME InvitesInv, NEW r \in Req, CancelFind(r)
  PROVE  InvitesInv'
<1>1. PICK i \in Pending :
        /\ call' = [call EXCEPT ![r] = [Idle EXCEPT !.at = "cancel", !.of = {i}]]
        /\ Takes({i})
  BY DEF CancelFind
<1>2. Moves(r) /\ call'[r].at = "cancel" /\ call'[r].of = {i} /\ {i} \in SUBSET Invite
  BY <1>1, RejectStarts DEF InvitesInv, Pending
<1> QED BY <1>1, <1>2, BeginInv DEF CancelFind, Pending

LEMMA ChangeAddressInv ==
  ASSUME InvitesInv, NEW r \in Req, ChangeAddress(r)
  PROVE  InvitesInv'
<1> USE DEF InvitesInv
<1> DEFINE u == call[r].user
<1>1. /\ Moves(r) /\ call[r].at = "begin" /\ call'[r].at = "idle" /\ call'[r].of = {}
      /\ u \in User
      /\ moves' = [moves EXCEPT ![u] = @ + 1]
      /\ UNCHANGED <<company, founders, promoted, invite, to, by, expired, contested, raced>>
  BY EndsFacts, CallShape DEF ChangeAddress, invites
<1>2. PICK a \in Address : (\A w \in User : email[w] # a) /\ email' = [email EXCEPT ![u] = a]
  BY DEF ChangeAddress
<1>3. /\ stray \subseteq stray' /\ stray' \subseteq User
      /\ \A p \in At(AcceptAt) : call[p].user = u => u \in stray'
  BY <1>1 DEF ChangeAddress, TypeOK
<1>4. Pending' = Pending
  BY <1>1 DEF Pending
<1>5. TypeOK'
  BY <1>1, <1>2, <1>3 DEF TypeOK, Moves
<1>6. AddressInv'
  BY <1>1, <1>2 DEF AddressInv, TypeOK
<1>7. HandledInv'
  BY <1>1, MovesHandled
<1>8. SendersInv'
  BY <1>1, <1>4, MovesSenders DEF SendAt, AcceptAt
<1>9. \A p \in At(AcceptAt) :
        call[p].user \notin stray' => email'[call[p].user] = email[call[p].user]
  BY <1>1, <1>2, <1>3 DEF TypeOK
<1>10. AcceptingInv'
  BY <1>1, <1>3, <1>9, MovesAccepting DEF AcceptAt
<1>11. CalmInv'
  <2> SUFFICES ASSUME raced' = {}, contested' = {}, NEW w \in User \ stray'
               PROVE  founders'[w] <= moves'[w] + 1 /\ (Open(w)' => founders'[w] <= moves'[w])
    BY DEF CalmInv
  <2>1. /\ founders[w] \in Nat /\ moves[w] \in Nat /\ w \notin stray
        /\ founders[w] <= moves[w] + 1 /\ (Open(w) => founders[w] <= moves[w])
    BY <1>1, <1>3 DEF CalmInv, TypeOK
  \* One more change allows for one more time.
  <2>2. CASE w = u
    BY <1>1, <2>1, <2>2 DEF TypeOK
  <2>3. CASE w # u
    <3>1. email'[w] = email[w] /\ moves'[w] = moves[w]
      BY <1>1, <1>2, <2>3 DEF TypeOK
    <3>2. Open(w)' => Open(w)
      BY <1>1, <1>4, <3>1, QuietOpen
    <3> QED BY <1>1, <2>1, <3>1, <3>2
  <2> QED BY <2>2, <2>3
<1>12. AcceptedIsFounder' /\ FounderWasInvited' /\ OnePending'
  BY <1>1, <1>4, MovesRest
<1> QED BY <1>5, <1>6, <1>7, <1>8, <1>10, <1>11, <1>12

LEMMA SendFindFacts ==
  ASSUME TypeOK, NEW r \in Req, SendFind(r)
  PROVE  /\ Moves(r) /\ call[r].at = "idle" /\ call[r].of = {}
         /\ call'[r].at = "look" /\ call'[r].of = {} /\ call'[r].seen = Founder
         /\ call'[r].to \in Address
         /\ raced \subseteq raced' /\ raced' \subseteq Address
         /\ call'[r].to \notin raced' =>
              \A p \in At(SendAt \cup AcceptAt) : call[p].to # call'[r].to
         /\ UNCHANGED <<company, people, invites, stray, contested>>
<1>1. PICK a \in Address :
        /\ call' = [call EXCEPT ![r] = [Idle EXCEPT !.at = "look", !.to = a, !.seen = Founder]]
        /\ Meets(a, SendAt \cup AcceptAt)
  BY DEF SendFind
<1>2. [Idle EXCEPT !.at = "look", !.to = a, !.seen = Founder] \in Call
  BY DEF Idle, Call, SendAt, AcceptAt, Founder
<1>3. /\ Moves(r)
      /\ call'[r] = [Idle EXCEPT !.at = "look", !.to = a, !.seen = Founder]
  BY <1>1, <1>2, SetFacts
<1>4. call[r].at = "idle" /\ call[r].of = {}
  BY CallShape DEF SendFind, Idle
<1>5. call'[r].at = "look" /\ call'[r].of = {} /\ call'[r].seen = Founder /\ call'[r].to = a
  BY <1>3 DEF Idle
<1> QED BY <1>1, <1>3, <1>4, <1>5 DEF SendFind, Meets, TypeOK

LEMMA SendFindInv ==
  ASSUME InvitesInv, NEW r \in Req, SendFind(r)
  PROVE  InvitesInv'
<1> USE DEF InvitesInv
<1>1. /\ Moves(r) /\ call[r].at = "idle" /\ call[r].of = {}
      /\ call'[r].at = "look" /\ call'[r].of = {} /\ call'[r].seen = Founder
      /\ raced \subseteq raced' /\ raced' \subseteq Address
      /\ call'[r].to \notin raced' =>
           \A p \in At(SendAt \cup AcceptAt) : call[p].to # call'[r].to
      /\ UNCHANGED <<company, founders, promoted, email, moves, invite, to, by, expired,
                     stray, contested>>
  BY SendFindFacts DEF people, invites
<1>2. Pending' = Pending
  BY <1>1 DEF Pending
<1>3. TypeOK' /\ AddressInv'
  BY <1>1 DEF TypeOK, AddressInv, Moves
<1>4. HandledInv'
  BY <1>1, MovesHandled
<1>5. SendersInv'
  <2> SUFFICES ASSUME NEW a \in Address \ raced'
               PROVE  /\ \A q, p \in At(SendAt)' : (call'[q].to = a /\ call'[p].to = a) => q = p
                      /\ \A q \in At(SendAt)', p \in At(AcceptAt)' :
                           ~(call'[q].to = a /\ call'[p].to = a)
                      /\ \A q \in At({"create"})', i \in Pending' :
                           ~(call'[q].to = a /\ to'[i] = a)
    BY DEF SendersInv
  <2>1. /\ \A q \in At(SendAt)' : q = r \/ (q \in At(SendAt) /\ call'[q] = call[q])
        /\ \A q \in At(AcceptAt)' : q \in At(AcceptAt) /\ call'[q] = call[q]
        /\ \A q \in At({"create"})' : q \in At({"create"}) /\ call'[q] = call[q]
    BY <1>1 DEF At, Moves, SendAt, AcceptAt
  <2>2. call'[r].to = a => \A p \in At(SendAt) \cup At(AcceptAt) : call[p].to # a
    BY <1>1 DEF At
  <2>3. a \in Address \ raced
    BY <1>1
  <2>4. \A q, p \in At(SendAt)' : (call'[q].to = a /\ call'[p].to = a) => q = p
    BY <2>1, <2>2, <2>3 DEF SendersInv
  <2>5. \A q \in At(SendAt)', p \in At(AcceptAt)' : ~(call'[q].to = a /\ call'[p].to = a)
    BY <2>1, <2>2, <2>3 DEF SendersInv
  <2>6. \A q \in At({"create"})', i \in Pending' : ~(call'[q].to = a /\ to'[i] = a)
    BY <1>1, <1>2, <2>1, <2>3 DEF SendersInv
  <2> QED BY <2>4, <2>5, <2>6
<1>6. AcceptingInv'
  BY <1>1, MovesAccepting DEF AcceptAt
<1>7. CalmInv'
  \* The Send has read the founders: an invite it will create is for none of them.
  <2>1. ASSUME NEW u \in User, Open(u)' PROVE Open(u) \/ founders[u] <= moves[u]
    <3>1. CASE \E p \in At({"look"})' : call'[p].to = email'[u] /\ u \notin call'[p].seen
      <4>1. PICK p \in At({"look"})' : call'[p].to = email'[u] /\ u \notin call'[p].seen
        BY <3>1
      <4>2. CASE p = r
        BY <1>1, <4>1, <4>2 DEF Founder, TypeOK
      <4>3. CASE p # r
        BY <1>1, <4>1, <4>3 DEF At, Moves, Open
      <4> QED BY <4>2, <4>3
    <3>2. CASE \E p \in At({"check", "create"})' : call'[p].to = email'[u]
      BY <1>1, <3>2 DEF At, Moves, Open
    <3>3. CASE \E i \in Pending' : to'[i] = email'[u] /\
                 \A p \in At({"promote", "accept"})' : i \notin call'[p].of
      <4>1. At({"promote", "accept"})' = At({"promote", "accept"})
            /\ \A p \in At({"promote", "accept"}) : call'[p] = call[p]
        BY <1>1 DEF At, Moves
      <4> QED BY <1>1, <1>2, <3>3, <4>1 DEF Open
    <3> QED BY <2>1, <3>1, <3>2, <3>3 DEF Open
  <2> QED BY <1>1, <2>1, MovesCalm
<1>8. AcceptedIsFounder' /\ FounderWasInvited' /\ OnePending'
  BY <1>1, <1>2, MovesRest
<1> QED BY <1>3, <1>4, <1>5, <1>6, <1>7, <1>8

LEMMA SendLookInv ==
  ASSUME InvitesInv, NEW r \in Req, SendLook(r)
  PROVE  InvitesInv'
<1> USE DEF InvitesInv
<1>1. /\ Moves(r) /\ call[r].at = "look" /\ call'[r].of \subseteq call[r].of
      /\ \/ call'[r].at = "idle"
         \/ /\ call'[r].at = "check" /\ call'[r].to = call[r].to
            /\ \E u \in User : email[u] = call[r].to /\ u \notin call[r].seen
      /\ UNCHANGED <<company, founders, promoted, email, moves, invite, to, by, expired,
                     stray, contested, raced>>
  <2>1. CASE Ends(r)
    BY <2>1, EndsFacts DEF SendLook, people, invites, history
  <2>2. CASE ~Ends(r)
    <3>1. /\ call' = [call EXCEPT ![r].at = "check", ![r].seen = {}]
          /\ \E u \in User : email[u] = call[r].to /\ u \notin call[r].seen
      BY <2>2 DEF SendLook, MayBeInvited
    <3>2. call[r] \in Call
      BY CallShape DEF SendLook, SendAt
    <3>3. [call[r] EXCEPT !.at = "check", !.seen = {}] \in Call
      BY <3>2 DEF SendLook, Call, SendAt, AcceptAt
    <3>4. call' = [call EXCEPT ![r] = [call[r] EXCEPT !.at = "check", !.seen = {}]]
      BY <3>1
    <3>5. Moves(r) /\ call'[r] = [call[r] EXCEPT !.at = "check", !.seen = {}]
      BY <3>3, <3>4, SetFacts
    <3>6. call'[r].at = "check" /\ call'[r].to = call[r].to /\ call'[r].of = call[r].of
      BY <3>2, <3>5 DEF Call
    <3> QED BY <3>1, <3>5, <3>6 DEF SendLook, people, invites, history
  <2> QED BY <2>1, <2>2
<1>2. Pending' = Pending
  BY <1>1 DEF Pending
<1>3. TypeOK' /\ AddressInv'
  BY <1>1 DEF TypeOK, AddressInv, Moves
<1>4. HandledInv'
  BY <1>1, MovesHandled
<1>5. SendersInv'
  BY <1>1, <1>2, MovesSenders DEF SendAt, AcceptAt
<1>6. AcceptingInv'
  BY <1>1, MovesAccepting DEF AcceptAt
<1>7. CalmInv'
  \* An address has one user.
  <2>1. ASSUME NEW u \in User, Open(u)' PROVE Open(u)
    <3>1. CASE call'[r].at = "check" /\ call'[r].to = email[u]
      BY <1>1, <3>1 DEF AddressInv, Open, At
    <3>2. CASE call'[r].at = "check" /\ call'[r].to # email[u]
      <4>1. At({"promote", "accept"})' = At({"promote", "accept"})
            /\ \A p \in At({"promote", "accept"}) : call'[p] = call[p]
        BY <1>1 DEF At, Moves
      <4>2. \A p \in At({"check", "create"})' : call'[p].to = email[u] =>
              p \in At({"check", "create"}) /\ call'[p] = call[p]
        BY <1>1, <3>2 DEF At, Moves
      <4>3. \A p \in At({"look"})' : p \in At({"look"}) /\ call'[p] = call[p]
        BY <1>1, <3>2 DEF At, Moves
      <4> QED BY <1>1, <1>2, <2>1, <4>1, <4>2, <4>3 DEF Open
    <3>3. CASE call'[r].at = "idle"
      BY <1>1, <1>2, <2>1, <3>3, QuietOpen
    <3> QED BY <1>1, <3>1, <3>2, <3>3
  <2> QED BY <1>1, <2>1, MovesCalm
<1>8. AcceptedIsFounder' /\ FounderWasInvited' /\ OnePending'
  BY <1>1, <1>2, MovesRest
<1> QED BY <1>3, <1>4, <1>5, <1>6, <1>7, <1>8

LEMMA SendCheckInv ==
  ASSUME InvitesInv, NEW r \in Req, SendCheck(r)
  PROVE  InvitesInv'
<1> USE DEF InvitesInv
<1>1. /\ Moves(r) /\ call[r].at = "check" /\ call'[r].of \subseteq call[r].of
      /\ \/ call'[r].at = "idle"
         \/ /\ call'[r].at = "create" /\ call'[r].to = call[r].to
            /\ \A i \in Pending : to[i] # call[r].to
      /\ UNCHANGED <<company, founders, promoted, email, moves, invite, to, by, expired,
                     stray, contested, raced>>
  <2>1. CASE \E i \in Pending : to[i] = call[r].to
    BY <2>1, EndsFacts DEF SendCheck, people, invites, history
  <2>2. CASE ~(\E i \in Pending : to[i] = call[r].to)
    BY <2>2, GoesFacts DEF SendCheck, SendAt, people, invites, history
  <2> QED BY <2>1, <2>2
<1>2. Pending' = Pending
  BY <1>1 DEF Pending
<1>3. TypeOK' /\ AddressInv'
  BY <1>1 DEF TypeOK, AddressInv, Moves
<1>4. HandledInv'
  BY <1>1, MovesHandled
<1>5. SendersInv'
  BY <1>1, <1>2, MovesSenders DEF SendAt, AcceptAt
<1>6. AcceptingInv'
  BY <1>1, MovesAccepting DEF AcceptAt
<1>7. CalmInv'
  BY <1>1, <1>2, QuietOpen, MovesCalm
<1>8. AcceptedIsFounder' /\ FounderWasInvited' /\ OnePending'
  BY <1>1, <1>2, MovesRest
<1> QED BY <1>3, <1>4, <1>5, <1>6, <1>7, <1>8

LEMMA SendCreateInv ==
  ASSUME InvitesInv, NEW r \in Req, SendCreate(r)
  PROVE  InvitesInv'
<1> USE DEF InvitesInv
<1>1. /\ Moves(r) /\ call[r].at = "create" /\ call'[r].at = "idle" /\ call'[r].of = {}
      /\ call[r].to \in Address
      /\ UNCHANGED <<company, founders, promoted, email, moves, by, expired,
                     stray, contested, raced>>
  BY EndsFacts, CallShape DEF SendCreate, SendAt, people, history
<1>2. PICK i \in Invite : /\ invite[i] = None /\ invite' = [invite EXCEPT ![i] = "PENDING"]
                          /\ to' = [to EXCEPT ![i] = call[r].to]
  BY DEF SendCreate
<1>3. /\ Pending' = Pending \cup {i} /\ i \notin Pending
      /\ \A j \in Invite \ {i} : to'[j] = to[j] /\ invite'[j] = invite[j]
      /\ to'[i] = call[r].to
  BY <1>1, <1>2, NoneAssumption DEF Pending, TypeOK
<1>4. TypeOK'
  BY <1>1, <1>2 DEF TypeOK, Moves
<1>5. AddressInv'
  BY <1>1, <1>3 DEF AddressInv
<1>6. \A p \in Req : i \notin call[p].of /\ call[p].of \subseteq Invite
  BY <1>2, CallShape DEF HandledInv
<1>7. HandledInv'
  BY <1>1, <1>3, <1>6, MovesHandled DEF Moves
<1>8. r \in At(SendAt) /\ r \in At({"create"})
  BY <1>1 DEF At, SendAt
<1>9. SendersInv'
  <2>1. /\ \A q \in At(SendAt)' : q \in At(SendAt) /\ q # r /\ call'[q] = call[q]
        /\ \A q \in At(AcceptAt)' : q \in At(AcceptAt) /\ call'[q] = call[q]
        /\ \A q \in At({"create"})' : q \in At({"create"}) /\ q # r /\ q \in At(SendAt) /\ call'[q] = call[q]
    BY <1>1 DEF At, Moves, SendAt, AcceptAt
  <2> SUFFICES ASSUME NEW a \in Address \ raced
               PROVE  /\ \A q, p \in At(SendAt)' : (call'[q].to = a /\ call'[p].to = a) => q = p
                      /\ \A q \in At(SendAt)', p \in At(AcceptAt)' :
                           ~(call'[q].to = a /\ call'[p].to = a)
                      /\ \A q \in At({"create"})', j \in Pending' :
                           ~(call'[q].to = a /\ to'[j] = a)
    BY <1>1 DEF SendersInv
  <2>2. \A q, p \in At(SendAt)' : (call'[q].to = a /\ call'[p].to = a) => q = p
    BY <2>1 DEF SendersInv
  <2>3. \A q \in At(SendAt)', p \in At(AcceptAt)' : ~(call'[q].to = a /\ call'[p].to = a)
    BY <2>1 DEF SendersInv
  <2>4. ASSUME NEW q \in At({"create"})', NEW j \in Pending', call'[q].to = a, to'[j] = a
        PROVE  FALSE
    <3>1. CASE j = i
      BY <1>3, <1>8, <2>1, <2>4, <3>1 DEF SendersInv
    <3>2. CASE j # i
      <4>1. j \in Pending /\ to[j] = a
        BY <1>3, <2>4, <3>2 DEF Pending
      <4> QED BY <2>1, <2>4, <4>1 DEF SendersInv
    <3> QED BY <3>1, <3>2
  <2> QED BY <2>2, <2>3, <2>4
<1>10. AcceptingInv'
  BY <1>1, <1>2, <1>3, MovesAccepting DEF AcceptAt
<1>11. CalmInv'
  <2>1. ASSUME NEW u \in User, Open(u)' PROVE Open(u)
    <3>1. CASE to'[i] = email[u]
      BY <1>1, <1>3, <3>1 DEF Open, At
    <3>2. CASE to'[i] # email[u]
      <4>1. At({"promote", "accept"})' = At({"promote", "accept"})
            /\ \A p \in At({"promote", "accept"}) : call'[p] = call[p]
        BY <1>1 DEF At, Moves
      <4>2. \A p \in At({"check", "create"})' : p \in At({"check", "create"}) /\ call'[p] = call[p]
        BY <1>1 DEF At, Moves
      <4>3. \A p \in At({"look"})' : p \in At({"look"}) /\ call'[p] = call[p]
        BY <1>1 DEF At, Moves
      <4>4. \A j \in Pending' : to'[j] = email[u] => j \in Pending /\ to[j] = email[u]
        BY <1>3, <3>2 DEF Pending
      <4> QED BY <1>1, <2>1, <4>1, <4>2, <4>3, <4>4 DEF Open
    <3> QED BY <3>1, <3>2
  <2> QED BY <1>1, <2>1, MovesCalm
<1>12. \A j \in Invite : invite'[j] = "ACCEPTED" <=> invite[j] = "ACCEPTED"
  BY <1>2, <1>3, NoneAssumption DEF TypeOK, Pending
<1>13. AcceptedIsFounder'
  BY <1>1, <1>12 DEF AcceptedIsFounder
<1>14. \A p \in At({"promote", "accept"}) : p \in At({"promote", "accept"})' /\ call'[p] = call[p]
  BY <1>1 DEF At, Moves
<1>15. FounderWasInvited'
  BY <1>1, <1>12, <1>14 DEF FounderWasInvited, Founder
<1>16. OnePending'
  <2>1. \A j \in Pending : to[j] = call[r].to => call[r].to \in raced
    BY <1>1, <1>8 DEF SendersInv
  <2>2. \A j \in Pending : j # i /\ to'[j] = to[j]
    BY <1>3 DEF Pending
  <2> QED BY <1>1, <1>3, <2>1, <2>2 DEF OnePending
<1> QED BY <1>4, <1>5, <1>7, <1>9, <1>10, <1>11, <1>13, <1>15, <1>16

LEMMA AcceptFindFacts ==
  ASSUME TypeOK, NEW r \in Req, AcceptFind(r)
  PROVE  /\ Moves(r) /\ call[r].at = "begin" /\ call'[r].at = "push"
         /\ call'[r].user = call[r].user /\ call'[r].user \in User /\ call'[r].to = call[r].to
         /\ raced \subseteq raced' /\ raced' \subseteq Address
         /\ call[r].to \notin raced' => \A p \in At(SendAt) : call[p].to # call[r].to
         /\ stray \subseteq stray' /\ stray' \subseteq User
         /\ call[r].user \notin stray' => email[call[r].user] = call[r].to
         /\ \E i \in Invite : /\ call'[r].of = {i} /\ to[i] = call[r].to
                              /\ invite[i] = "PENDING" /\ Takes({i})
         /\ UNCHANGED <<company, people, invites>>
<1>1. PICK i \in Invite :
        /\ invite[i] = "PENDING" /\ to[i] = call[r].to /\ Takes({i})
        /\ call' = [call EXCEPT ![r].at = "push", ![r].of = {i}]
  BY DEF AcceptFind, MayAnswer, FirstWrite
<1>2. /\ call[r].at = "begin" /\ call[r] \in Call
      /\ call[r].user \in User /\ call[r].to \in Address
  BY CallShape DEF AcceptFind
<1>3. [call[r] EXCEPT !.at = "push", !.of = {i}] \in Call
  BY <1>2 DEF Call, SendAt, AcceptAt
<1>4. call' = [call EXCEPT ![r] = [call[r] EXCEPT !.at = "push", !.of = {i}]]
  BY <1>1
<1>5. Moves(r) /\ call'[r] = [call[r] EXCEPT !.at = "push", !.of = {i}]
  BY <1>3, <1>4, SetFacts
<1>6. /\ call'[r].at = "push" /\ call'[r].of = {i}
      /\ call'[r].user = call[r].user /\ call'[r].to = call[r].to
  BY <1>2, <1>5 DEF Call
<1> QED BY <1>1, <1>2, <1>5, <1>6 DEF AcceptFind, Meets, TypeOK

LEMMA AcceptFindInv ==
  ASSUME InvitesInv, NEW r \in Req, AcceptFind(r)
  PROVE  InvitesInv'
<1> USE DEF InvitesInv
<1>1. /\ Moves(r) /\ call[r].at = "begin" /\ call'[r].at = "push"
      /\ call'[r].user = call[r].user /\ call'[r].user \in User /\ call'[r].to = call[r].to
      /\ raced \subseteq raced' /\ raced' \subseteq Address
      /\ call[r].to \notin raced' => \A p \in At(SendAt) : call[p].to # call[r].to
      /\ stray \subseteq stray' /\ stray' \subseteq User
      /\ call[r].user \notin stray' => email[call[r].user] = call[r].to
      /\ UNCHANGED <<company, founders, promoted, email, moves, invite, to, by, expired>>
  BY AcceptFindFacts DEF people, invites
<1>2. PICK i \in Invite : /\ call'[r].of = {i} /\ to[i] = call[r].to
                          /\ invite[i] = "PENDING" /\ Takes({i})
  BY AcceptFindFacts
<1>3. contested \subseteq contested' /\ contested' \subseteq Invite /\ Pending' = Pending
  BY <1>1, <1>2, TakesFacts DEF Pending
<1>4. TypeOK' /\ AddressInv'
  BY <1>1, <1>3 DEF TypeOK, AddressInv, Moves
<1>5. HandledInv'
  BY <1>1, <1>2, StartsHandled
<1>6. SendersInv'
  BY <1>1, <1>3, MovesSenders DEF SendAt, AcceptAt
<1>7. AcceptingInv'
  <2>1. \A p \in At(AcceptAt)' : p = r \/ (p \in At(AcceptAt) /\ call'[p] = call[p])
    BY <1>1 DEF At, Moves
  <2> QED BY <1>1, <1>2, <2>1 DEF AcceptingInv
<1>8. CalmInv'
  BY <1>1, <1>3, QuietOpen, MovesCalm
<1>9. AcceptedIsFounder' /\ FounderWasInvited' /\ OnePending'
  BY <1>1, <1>3, MovesRest
<1> QED BY <1>4, <1>5, <1>6, <1>7, <1>8, <1>9

LEMMA PushInv ==
  ASSUME InvitesInv, NEW r \in Req, Push(r)
  PROVE  InvitesInv'
<1> USE DEF InvitesInv
<1> DEFINE u == call[r].user
<1>1. /\ Moves(r) /\ call[r].at = "push" /\ call'[r].at = "promote"
      /\ call'[r].of = call[r].of /\ call'[r].to = call[r].to /\ call'[r].user = u
      /\ u \in User /\ call[r].to \in Address
      /\ UNCHANGED <<company, promoted, email, moves, invite, to, by, expired,
                     stray, contested, raced>>
  BY GoesFacts, CallShape DEF Push, AcceptAt, invites, history
<1>2. /\ founders' \in [User -> Nat]
      /\ \A w \in User \ {u} : founders'[w] = founders[w]
      /\ founders[u] <= founders'[u] /\ founders'[u] <= founders[u] + 1
      /\ founders'[u] > 0 \/ company = "GONE"
      /\ founders' = founders \/ founders'[u] > 0
  BY <1>1 DEF Push, TypeOK
<1>3. Pending' = Pending
  BY <1>1 DEF Pending
<1>4. TypeOK' /\ AddressInv'
  BY <1>1, <1>2 DEF TypeOK, AddressInv, Moves
<1>5. HandledInv'
  BY <1>1, MovesHandled
<1>6. SendersInv'
  BY <1>1, <1>3, MovesSenders DEF SendAt, AcceptAt
<1>7. \A w \in User : founders[w] > 0 => founders'[w] > 0
  BY <1>2 DEF TypeOK
<1>8. AcceptingInv'
  <2>1. \A p \in At(AcceptAt)' : p \in At(AcceptAt) /\ (p = r \/ call'[p] = call[p])
    BY <1>1 DEF At, Moves, AcceptAt
  <2>2. \A p \in At(AcceptAt) : call[p].user \in User
    BY CallShape DEF At
  <2> QED BY <1>1, <1>2, <1>7, <2>1, <2>2 DEF AcceptingInv
<1>9. PICK i \in Invite : call[r].of = {i} /\ to[i] = call[r].to
  BY <1>1 DEF AcceptingInv, At, AcceptAt
<1>10. r \in At(AcceptAt) /\ (u \notin stray => call[r].to = email[u])
  BY <1>1 DEF AcceptingInv, At, AcceptAt
<1>11. CalmInv'
  <2> SUFFICES ASSUME raced' = {}, contested' = {}, NEW w \in User \ stray'
               PROVE  founders'[w] <= moves'[w] + 1 /\ (Open(w)' => founders'[w] <= moves'[w])
    BY DEF CalmInv
  <2>1. /\ founders[w] \in Nat /\ moves[w] \in Nat /\ w \notin stray
        /\ founders[w] <= moves[w] + 1 /\ (Open(w) => founders[w] <= moves[w])
    BY <1>1 DEF CalmInv, TypeOK
  <2>2. CASE w = u
    <3>1. /\ invite[i] = "PENDING"
          /\ \A p \in Req \ {r} : i \notin call[p].of
      BY <1>1, <1>9 DEF HandledInv
    \* The invite was pending for the user, and is pending for nobody any more.
    <3>2. Open(w)
      BY <1>1, <1>9, <1>10, <2>1, <2>2, <3>1 DEF Open, Pending, At
    <3>3. \A p \in At(SendAt)' : call'[p].to # email'[w]
      <4>1. \A p \in At(SendAt)' : p \in At(SendAt) /\ call'[p] = call[p]
        BY <1>1 DEF At, Moves, SendAt
      <4> QED BY <1>1, <1>10, <2>1, <2>2, <4>1 DEF SendersInv
    <3>4. \A j \in Pending' : to'[j] = email'[w] => j = i
      BY <1>1, <1>3, <1>9, <1>10, <2>1, <2>2, <3>1 DEF OnePending, Pending
    <3>5. r \in At({"promote", "accept"})' /\ i \in call'[r].of
      BY <1>1, <1>9 DEF At
    <3>6. At({"check", "create"})' \subseteq At(SendAt)' /\ At({"look"})' \subseteq At(SendAt)'
      BY DEF At, SendAt
    <3>7. ~Open(w)'
      BY <3>3, <3>4, <3>5, <3>6 DEF Open
    <3>8. founders[w] <= moves[w] /\ founders'[w] <= founders[w] + 1 /\ moves'[w] = moves[w]
      BY <1>1, <1>2, <2>1, <2>2, <3>2
    <3>9. founders'[w] \in Nat
      BY <1>2
    <3> QED BY <2>1, <3>7, <3>8, <3>9
  <2>3. CASE w # u
    <3>1. Open(w)' => Open(w)
      BY <1>1, <1>3, QuietOpen
    <3> QED BY <1>1, <1>2, <2>1, <2>3, <3>1
  <2> QED BY <2>2, <2>3
<1>12. AcceptedIsFounder'
  BY <1>1, <1>7, NoneAssumption DEF AcceptedIsFounder, TypeOK
<1>13. \A p \in At({"promote", "accept"}) :
         p \in At({"promote", "accept"})' /\ call'[p].user = call[p].user
  BY <1>1 DEF At, Moves
<1>14. r \in At({"promote", "accept"})' /\ call'[r].user = u
  BY <1>1 DEF At
<1>15. Founder' \subseteq Founder \cup {u}
  BY <1>2 DEF Founder
<1>16. FounderWasInvited'
  BY <1>1, <1>13, <1>14, <1>15 DEF FounderWasInvited
<1>17. OnePending'
  BY <1>1, <1>3 DEF OnePending
<1> QED BY <1>4, <1>5, <1>6, <1>8, <1>11, <1>12, <1>16, <1>17

LEMMA PromoteInv ==
  ASSUME InvitesInv, NEW r \in Req, Promote(r)
  PROVE  InvitesInv'
<1> USE DEF InvitesInv
<1>1. /\ Moves(r) /\ call[r].at = "promote" /\ call'[r].at = "accept"
      /\ call'[r].of = call[r].of /\ call'[r].to = call[r].to /\ call'[r].user = call[r].user
      /\ call[r].user \in User
      /\ promoted' = promoted \cup {call[r].user}
      /\ UNCHANGED <<company, founders, email, moves, invite, to, by, expired,
                     stray, contested, raced>>
  BY GoesFacts, CallShape DEF Promote, AcceptAt, invites, history
<1>2. Pending' = Pending
  BY <1>1 DEF Pending
<1>3. TypeOK' /\ AddressInv'
  BY <1>1 DEF TypeOK, AddressInv, Moves
<1>4. HandledInv'
  BY <1>1, MovesHandled
<1>5. SendersInv'
  BY <1>1, <1>2, MovesSenders DEF SendAt, AcceptAt
<1>6. AcceptingInv'
  <2>1. \A p \in At(AcceptAt)' : p \in At(AcceptAt) /\ (p = r \/ call'[p] = call[p])
    BY <1>1 DEF At, Moves, AcceptAt
  <2> QED BY <1>1, <2>1 DEF AcceptingInv
<1>7. CalmInv'
  BY <1>1, <1>2, QuietOpen, MovesCalm
<1>8. AcceptedIsFounder'
  BY <1>1 DEF AcceptedIsFounder
<1>9. \A p \in At({"promote", "accept"}) :
        p \in At({"promote", "accept"})' /\ call'[p].user = call[p].user
  BY <1>1 DEF At, Moves
<1>10. FounderWasInvited'
  BY <1>1, <1>9 DEF FounderWasInvited, Founder
<1>11. OnePending'
  BY <1>1, <1>2 DEF OnePending
<1> QED BY <1>3, <1>4, <1>5, <1>6, <1>7, <1>8, <1>10, <1>11

\* An answer that changes was contested before the step.
Final == \A i \in Invite : invite[i] \in Answer /\ invite'[i] # invite[i] => i \in contested

LEMMA AcceptInv ==
  ASSUME InvitesInv, NEW r \in Req, Accept(r)
  PROVE  InvitesInv' /\ Final
<1> USE DEF InvitesInv
<1> DEFINE u == call[r].user
<1>1. /\ Moves(r) /\ call[r].at = "accept" /\ call'[r].at = "idle" /\ call'[r].of = {}
      /\ u \in User
      /\ UNCHANGED <<company, founders, promoted, email, moves, to, expired,
                     stray, contested, raced>>
  BY EndsFacts, CallShape DEF Accept, AcceptAt, people, history
<1>2. PICK i \in Invite : call[r].of = {i}
  BY <1>1 DEF AcceptingInv, At, AcceptAt
<1>3. u \in promoted /\ (founders[u] > 0 \/ company = "GONE")
  BY <1>1 DEF AcceptingInv, At, AcceptAt
<1>4. /\ invite[i] = "PENDING" \/ i \in contested
      /\ invite[i] # None
      /\ \/ invite' = [invite EXCEPT ![i] = "ACCEPTED"] /\ by' = [by EXCEPT ![i] = u]
         \/ invite' = invite /\ by' = by
      /\ invite[i] = "PENDING" => invite' = [invite EXCEPT ![i] = "ACCEPTED"]
      /\ invite[i] = "PENDING" => by' = [by EXCEPT ![i] = u]
  BY <1>2 DEF Accept, WrittenAs, HandledInv
<1>5. Pending' \subseteq Pending
  BY <1>4 DEF Pending, TypeOK
<1>6. TypeOK'
  BY <1>1, <1>4 DEF TypeOK, Moves, Answer
<1>7. /\ \A j \in Invite \ {i} : invite'[j] = invite[j] /\ by'[j] = by[j]
      /\ \A j \in Invite : invite[j] # None <=> invite'[j] # None
  BY <1>4, NoneAssumption DEF TypeOK
<1>8. AddressInv'
  BY <1>1, <1>7 DEF AddressInv
<1>9. \A p \in Req : \A j \in call'[p].of \ contested' : j \in Invite \ {i}
  BY <1>1, <1>2, <1>4, CallShape DEF HandledInv, Moves
<1>10. \A p \in Req : call[p].of \subseteq Invite
  BY CallShape
<1>11. HandledInv'
  BY <1>1, <1>7, <1>9, <1>10, MovesHandled
<1>12. SendersInv' /\ AcceptingInv'
  BY <1>1, <1>5, MovesSenders, MovesAccepting DEF SendAt, AcceptAt
<1>13. CalmInv'
  <2>1. CASE contested = {}
    <3>1. i \notin Pending'
      BY <1>4, <2>1 DEF Pending, TypeOK
    <3> QED BY <1>1, <1>2, <1>5, <3>1, QuietOpen, MovesCalm
  <2>2. CASE contested # {}
    BY <1>1, <2>2 DEF CalmInv
  <2> QED BY <2>1, <2>2
<1>14. AcceptedIsFounder'
  BY <1>1, <1>3, <1>4, <1>7 DEF AcceptedIsFounder, TypeOK
<1>15. FounderWasInvited'
  <2>1. CASE contested = {}
    <3>1. invite'[i] = "ACCEPTED" /\ by'[i] = u
      BY <1>4, <2>1 DEF TypeOK
    <3>2. \A j \in Invite : invite[j] = "ACCEPTED" => invite'[j] = "ACCEPTED" /\ by'[j] = by[j]
      BY <1>4, <1>7, <2>1
    <3>3. \A p \in At({"promote", "accept"}) :
            p = r \/ (p \in At({"promote", "accept"})' /\ call'[p] = call[p])
      BY <1>1 DEF At, Moves
    <3> QED BY <1>1, <3>1, <3>2, <3>3 DEF FounderWasInvited, Founder
  <2>2. CASE contested # {}
    BY <1>1, <2>2 DEF FounderWasInvited
  <2> QED BY <2>1, <2>2
<1>16. OnePending'
  BY <1>1, <1>5 DEF OnePending
<1>17. Final
  BY <1>4, <1>7 DEF Final, Answer
<1> QED BY <1>6, <1>8, <1>11, <1>12, <1>13, <1>14, <1>15, <1>16, <1>17

\* A call rejects or cancels an invite it found.
LEMMA WriteInv ==
  ASSUME InvitesInv, NEW r \in Req, Moves(r), NEW i \in call[r].of,
         NEW s \in {"REJECTED", "CANCELLED"},
         invite' = [invite EXCEPT ![i] = s] \/ (invite[i] = "CANCELLED" /\ invite' = invite),
         call[r].at \in {"reject", "cancel"}, call'[r].at \in {"idle", "reject"},
         call'[r].of \subseteq call[r].of \ {i},
         UNCHANGED <<company, people, to, by, expired, history>>
  PROVE  InvitesInv' /\ Final
<1> USE DEF InvitesInv, people, history
<1>1. /\ i \in Invite /\ invite[i] # None
      /\ invite[i] = "PENDING" \/ i \in contested
  BY CallShape DEF HandledInv
<1>2. /\ \A j \in Invite \ {i} : invite'[j] = invite[j]
      /\ \A j \in Invite : invite[j] # None <=> invite'[j] # None
      /\ invite' \in [Invite -> {None, "PENDING"} \cup Answer]
      /\ invite'[i] # "PENDING" /\ invite'[i] # "ACCEPTED"
  BY <1>1, NoneAssumption DEF TypeOK, Answer
<1>3. Pending' \subseteq Pending
  BY <1>2 DEF Pending
<1>4. TypeOK' /\ AddressInv'
  BY <1>2 DEF TypeOK, AddressInv, Moves
<1>5. \A p \in Req : \A j \in call'[p].of \ contested' : j \in Invite \ {i}
  BY <1>1, CallShape DEF HandledInv, Moves
<1>6. \A p \in Req : call[p].of \subseteq Invite
  BY CallShape
<1>7. HandledInv'
  BY <1>2, <1>5, <1>6, MovesHandled
<1>8. SendersInv' /\ AcceptingInv'
  BY <1>3, MovesSenders, MovesAccepting DEF SendAt, AcceptAt
<1>9. CalmInv'
  BY <1>3, QuietOpen, MovesCalm
<1>10. AcceptedIsFounder' /\ OnePending'
  BY <1>2, <1>3 DEF AcceptedIsFounder, OnePending
<1>11. \A p \in At({"promote", "accept"}) : p \in At({"promote", "accept"})' /\ call'[p] = call[p]
  BY DEF At, Moves
<1>12. FounderWasInvited'
  <2>1. CASE contested = {}
    BY <1>1, <1>2, <1>11, <2>1 DEF FounderWasInvited, Founder
  <2>2. CASE contested # {}
    BY <2>2 DEF FounderWasInvited
  <2> QED BY <2>1, <2>2
<1>13. Final
  BY <1>1, <1>2 DEF Final, Answer
<1> QED BY <1>4, <1>7, <1>8, <1>9, <1>10, <1>12, <1>13

LEMMA RejectFacts ==
  ASSUME TypeOK, NEW r \in Req, Reject(r)
  PROVE  \E i \in call[r].of :
           /\ invite' = WrittenAs(i, "REJECTED") /\ Moves(r)
           /\ call'[r].at \in {"idle", "reject"} /\ call'[r].of \subseteq call[r].of \ {i}
<1>1. PICK i \in call[r].of :
        /\ invite' = WrittenAs(i, "REJECTED")
        /\ IF call[r].of = {i} THEN Ends(r) ELSE call' = [call EXCEPT ![r].of = @ \ {i}]
  BY DEF Reject
<1>2. CASE Ends(r)
  BY <1>1, <1>2, EndsFacts
<1>3. CASE call' = [call EXCEPT ![r].of = @ \ {i}]
  <2>1. call[r] \in Call /\ call[r].at = "reject"
    BY CallShape DEF Reject
  <2>2. [call[r] EXCEPT !.of = @ \ {i}] \in Call
    BY <2>1 DEF Call, SendAt, AcceptAt
  <2>3. call' = [call EXCEPT ![r] = [call[r] EXCEPT !.of = @ \ {i}]]
    BY <1>3
  <2>4. Moves(r) /\ call'[r] = [call[r] EXCEPT !.of = @ \ {i}]
    BY <2>2, <2>3, SetFacts
  <2>5. call'[r].at = "reject" /\ call'[r].of = call[r].of \ {i}
    BY <2>1, <2>4 DEF Call
  <2> QED BY <1>1, <2>4, <2>5
<1> QED BY <1>1, <1>2, <1>3

LEMMA RejectInv ==
  ASSUME InvitesInv, NEW r \in Req, Reject(r)
  PROVE  InvitesInv' /\ Final
<1>1. PICK i \in call[r].of :
        /\ invite' = WrittenAs(i, "REJECTED") /\ Moves(r)
        /\ call'[r].at \in {"idle", "reject"} /\ call'[r].of \subseteq call[r].of \ {i}
  BY RejectFacts DEF InvitesInv
<1>2. \/ invite' = [invite EXCEPT ![i] = "REJECTED"]
      \/ invite[i] = "CANCELLED" /\ invite' = invite
  BY <1>1 DEF WrittenAs
<1> QED BY <1>1, <1>2, WriteInv DEF Reject

LEMMA CancelInv ==
  ASSUME InvitesInv, NEW r \in Req, Cancel(r)
  PROVE  InvitesInv' /\ Final
<1>1. PICK i \in call[r].of : invite' = [invite EXCEPT ![i] = "CANCELLED"]
  BY DEF Cancel
<1>2. Moves(r) /\ call'[r].at = "idle" /\ call'[r].of = {}
  BY EndsFacts DEF Cancel, InvitesInv
<1> QED BY <1>1, <1>2, WriteInv DEF Cancel

\* Expiry, moderation and the deletion of the company.
LEMMA AroundInv ==
  ASSUME InvitesInv, UNCHANGED <<people, invite, to, by, call, history>>,
         company' \in {"OPEN", "BLOCKED", "GONE"}, company = "GONE" => company' = "GONE",
         expired' \subseteq Invite
  PROVE  InvitesInv'
<1> USE DEF InvitesInv, people, history
<1>1. Pending' = Pending /\ Founder' = Founder /\ \A S : At(S)' = At(S)
  BY DEF Pending, Founder, At
<1>2. TypeOK' /\ AddressInv' /\ AcceptedIsFounder' /\ HandledInv'
  BY DEF TypeOK, AddressInv, AcceptedIsFounder, HandledInv
<1>3. SendersInv' /\ AcceptingInv' /\ FounderWasInvited' /\ OnePending'
  BY <1>1 DEF SendersInv, AcceptingInv, FounderWasInvited, OnePending
<1>4. \A u \in User : Open(u)' => Open(u)
  BY <1>1 DEF Open
<1>5. CalmInv'
  BY <1>4, MovesCalm
<1> QED BY <1>2, <1>3, <1>5

LEMMA CrashInv ==
  ASSUME InvitesInv, Crash
  PROVE  InvitesInv'
<1> USE DEF InvitesInv
<1>1. /\ UNCHANGED <<company, founders, promoted, email, moves, invite, to, by, expired,
                     stray, raced>>
      /\ call' = [r \in Req |-> Idle]
      /\ contested \subseteq contested'
      /\ \A r \in At({"promote", "accept"}) : call[r].of \subseteq contested'
  BY DEF Crash, people, invites
<1>2. \A r \in Req : call[r].of \subseteq Invite
  BY CallShape
<1>3. TypeOK' /\ AddressInv'
  BY <1>1, <1>2 DEF Crash, TypeOK, AddressInv, At
<1>4. Pending' = Pending /\ Founder' = Founder
  BY <1>1 DEF Pending, Founder
<1>5. \A S \in SUBSET Stages : At(S)' = {}
  BY <1>1 DEF At, Stages, SendAt, AcceptAt, Idle
<1>6. /\ At(SendAt)' = {} /\ At(AcceptAt)' = {} /\ At({"create"})' = {}
      /\ At({"check", "create"})' = {} /\ At({"look"})' = {}
  BY <1>5 DEF Stages, SendAt, AcceptAt
<1>7. HandledInv'
  BY <1>1 DEF HandledInv, Idle
<1>8. SendersInv' /\ AcceptingInv'
  BY <1>6 DEF SendersInv, AcceptingInv
\* An acceptance that had pushed the founder leaves its invite contested.
<1>9. At({"promote", "accept"}) # {} => contested' # {}
  <2>1. ASSUME NEW r \in At({"promote", "accept"}) PROVE contested' # {}
    <3>1. PICK i \in Invite : call[r].of = {i}
      BY DEF AcceptingInv, At, AcceptAt
    <3> QED BY <1>1, <3>1
  <2> QED BY <2>1
<1>10. CalmInv'
  <2>1. ASSUME contested' = {}, NEW u \in User, Open(u)' PROVE Open(u)
    BY <1>1, <1>4, <1>6, <1>9, <2>1 DEF Open
  <2> QED BY <1>1, <2>1, MovesCalm
<1>11. AcceptedIsFounder' /\ OnePending'
  BY <1>1, <1>4 DEF AcceptedIsFounder, OnePending
<1>12. FounderWasInvited'
  BY <1>1, <1>4, <1>9 DEF FounderWasInvited
<1> QED BY <1>3, <1>7, <1>8, <1>10, <1>11, <1>12

-----------------------------------------------------------------------------
(* Every step                                                              *)

LEMMA StepInv ==
  ASSUME InvitesInv, [Next]_vars
  PROVE  InvitesInv' /\ Final
<1>0. TypeOK /\ "PENDING" \notin Answer /\ None \notin Answer
  BY NoneAssumption DEF InvitesInv, Answer
<1>1. CASE UNCHANGED vars
  BY <1>0, <1>1, AroundInv DEF vars, invites, Final, TypeOK
<1>2. ASSUME NEW r \in Req, SendFind(r) PROVE InvitesInv' /\ Final
  BY <1>2, SendFindInv DEF SendFind, Final, invites
<1>3. ASSUME NEW r \in Req, SendLook(r) PROVE InvitesInv' /\ Final
  BY <1>3, SendLookInv DEF SendLook, Final, invites
<1>4. ASSUME NEW r \in Req, SendCheck(r) PROVE InvitesInv' /\ Final
  BY <1>4, SendCheckInv DEF SendCheck, Final, invites
<1>5. ASSUME NEW r \in Req, SendCreate(r) PROVE InvitesInv' /\ Final
  BY <1>0, <1>5, SendCreateInv DEF SendCreate, Final, TypeOK
<1>6. ASSUME NEW r \in Req, Authenticate(r) PROVE InvitesInv' /\ Final
  BY <1>6, AuthenticateInv DEF Authenticate, Final, invites
<1>7. ASSUME NEW r \in Req, Refused(r) PROVE InvitesInv' /\ Final
  BY <1>7, RefusedInv DEF Refused, Final, invites
<1>8. ASSUME NEW r \in Req, ChangeAddress(r) PROVE InvitesInv' /\ Final
  BY <1>8, ChangeAddressInv DEF ChangeAddress, Final, invites
<1>9. ASSUME NEW r \in Req, AcceptFind(r) PROVE InvitesInv' /\ Final
  BY <1>9, AcceptFindInv DEF AcceptFind, Final, invites
<1>10. ASSUME NEW r \in Req, Push(r) PROVE InvitesInv' /\ Final
  BY <1>10, PushInv DEF Push, Final, invites
<1>11. ASSUME NEW r \in Req, Promote(r) PROVE InvitesInv' /\ Final
  BY <1>11, PromoteInv DEF Promote, Final, invites
<1>12. ASSUME NEW r \in Req, Accept(r) PROVE InvitesInv' /\ Final
  BY <1>12, AcceptInv
<1>13. ASSUME NEW r \in Req, RejectFind(r) PROVE InvitesInv' /\ Final
  <2>1. PICK i \in Invite : invite[i] = "PENDING" /\ WillReject(r, {i})
    BY <1>13 DEF RejectFind, MayAnswer
  <2>2. InvitesInv'
    BY <1>13, <2>1, WillRejectInv DEF RejectFind
  <2> QED BY <1>13, <2>2 DEF RejectFind, Final, invites
<1>14. ASSUME NEW r \in Req, GetMyInvites(r) PROVE InvitesInv' /\ Final
  <2>1. PICK S \in SUBSET Invite : WillReject(r, S) /\ \A i \in S : invite[i] = "PENDING"
    BY <1>14 DEF GetMyInvites, Outdated, Pending
  <2>2. InvitesInv'
    BY <1>14, <2>1, WillRejectInv DEF GetMyInvites
  <2> QED BY <1>14, <2>2 DEF GetMyInvites, Final, invites
<1>15. ASSUME NEW r \in Req, Reject(r) PROVE InvitesInv' /\ Final
  BY <1>15, RejectInv
<1>16. ASSUME NEW r \in Req, CancelFind(r) PROVE InvitesInv' /\ Final
  BY <1>16, CancelFindInv DEF CancelFind, Final, invites
<1>17. ASSUME NEW r \in Req, Cancel(r) PROVE InvitesInv' /\ Final
  BY <1>17, CancelInv
<1>18. ASSUME NEW i \in Invite, Expire(i) PROVE InvitesInv' /\ Final
  BY <1>0, <1>18, AroundInv DEF Expire, Final, TypeOK
<1>19. ASSUME NEW s \in {"OPEN", "BLOCKED", "GONE"}, ChangeCompany(s) PROVE InvitesInv' /\ Final
  BY <1>0, <1>19, AroundInv DEF ChangeCompany, Final, TypeOK, invites
<1>20. CASE Crash
  BY <1>20, CrashInv DEF Crash, Final, invites
<1> QED
  BY <1>1, <1>2, <1>3, <1>4, <1>5, <1>6, <1>7, <1>8, <1>9, <1>10, <1>11, <1>12, <1>13,
     <1>14, <1>15, <1>16, <1>17, <1>18, <1>19, <1>20 DEF Next

LEMMA Invariance == Spec => []InvitesInv
<1>1. InvitesInv /\ [Next]_vars => InvitesInv'
  BY StepInv
<1> QED BY <1>1, InitInv, PTL DEF Spec

-----------------------------------------------------------------------------
(* The theorems                                                            *)

\* Company, users, invites and calls keep their shape.
THEOREM TypeCorrect == Spec => []TypeOK
<1>1. InvitesInv => TypeOK
  BY DEF InvitesInv
<1> QED BY <1>1, Invariance, PTL

\* An accepted invite has made the user who accepted it a founder and given the
\* role, in whatever way acceptances, changes of address, other handlers and
\* crashes interleave (companyinvite.controller.js:130-146).
THEOREM AcceptedAreFounders == Spec => []AcceptedIsFounder
<1>1. InvitesInv => AcceptedIsFounder
  BY DEF InvitesInv
<1> QED BY <1>1, Invariance, PTL

\* A user becomes a founder once, and once more with each change of address; more
\* often only through a raced Send, two calls on one invite, a crash, or a change
\* during an acceptance (companyinvite.controller.js:43-72, 113-118, 130-140).
THEOREM FoundersOnce == Spec => []FounderOnce
<1>1. InvitesInv => FounderOnce
  <2> SUFFICES ASSUME InvitesInv, NEW u \in User \ stray, raced = {}, contested = {}
               PROVE  ~(founders[u] > moves[u] + 1)
    BY DEF FounderOnce
  <2>1. founders[u] <= moves[u] + 1 /\ founders[u] \in Nat /\ moves[u] \in Nat
    BY DEF InvitesInv, CalmInv, TypeOK
  <2> QED BY <2>1
<1> QED BY <1>1, Invariance, PTL

\* Nobody is a founder without an invite that user accepted, an acceptance in
\* progress or a contested invite (companyinvite.controller.js:113-146).
THEOREM FoundersInvited == Spec => []FounderWasInvited
<1>1. InvitesInv => FounderWasInvited
  BY DEF InvitesInv
<1> QED BY <1>1, Invariance, PTL

\* Only overlapping Sends to an address leave two invites to it pending
\* (companyinvite.controller.js:64-84).
THEOREM PendingOnce == Spec => []OnePending
<1>1. InvitesInv => OnePending
  BY DEF InvitesInv
<1> QED BY <1>1, Invariance, PTL

\* No step changes the answer to an invite that only one call at a time has
\* handled (companyinvite.controller.js:118, 125, 174, 217-219, 307).
THEOREM AnswersFinal == Spec => AnswerIsFinal
<1>1. InvitesInv /\ [Next]_vars =>
        [\A i \in Invite : invite[i] \in Answer /\ invite'[i] # invite[i] => i \in contested]_vars
  BY StepInv DEF Final
<1> QED BY <1>1, Invariance, PTL DEF Spec, AnswerIsFinal

-----------------------------------------------------------------------------
(* When requests are handled one at a time and no acceptance is interrupted *)

\* There is no accident, and what a call has read is still so.
SerialInv ==
  /\ raced = {} /\ contested = {} /\ stray = {}
  /\ \A r \in At({"begin"}) : call[r].of = {} /\ call[r].to = email[call[r].user]
  /\ \A r \in At({"look"}) : call[r].seen = Founder
  /\ \A r \in At({"check", "create"}) :
       \E u \in User : email[u] = call[r].to /\ founders[u] = 0

\* A call at work works alone.
LEMMA Alone ==
  ASSUME Serial, NEW r \in Req, call[r].at # "idle"
  PROVE  \A p \in Req \ {r} : call[p].at = "idle"
  BY DEF Serial

\* Nobody else is at work when a call begins, and none is.
LEMMA AloneAtStart ==
  ASSUME TypeOK, Serial', NEW r \in Req, Moves(r), call[r].at = "idle", call'[r].at # "idle"
  PROVE  \A p \in Req : call[p].at = "idle" /\ call[p].of = {}
<1>1. \A p \in Req : call[p].at = "idle"
  BY DEF Serial, Moves
<1> QED BY <1>1, CallShape DEF Idle

\* A call that holds nothing takes nothing that others hold.
LEMMA TakesAlone ==
  ASSUME contested = {}, NEW S, Takes(S), \A p \in Req : S \cap call[p].of = {}
  PROVE  contested' = {}
  BY DEF Takes, Touched

\* Where everybody else is idle.
LEMMA SerialMove ==
  ASSUME SerialInv, NEW r \in Req, Moves(r), \A p \in Req \ {r} : call[p].at = "idle",
         raced' = {}, contested' = {}, stray' = {},
         call'[r].at = "begin" => call'[r].of = {} /\ call'[r].to = email'[call'[r].user],
         call'[r].at = "look" => call'[r].seen = Founder',
         call'[r].at \in {"check", "create"} =>
           \E u \in User : email'[u] = call'[r].to /\ founders'[u] = 0
  PROVE  SerialInv'
<1>1. \A p \in Req \ {r} : call'[p].at = "idle"
  BY DEF Moves
<1> QED BY <1>1 DEF SerialInv, At

LEMMA SerialStep ==
  ASSUME TypeOK, SerialInv, Serial, Serial', [Next]_vars, [~(Crash /\ Accepting # {})]_vars
  PROVE  SerialInv'
<1>1. CASE UNCHANGED vars
  BY <1>1 DEF vars, people, history, SerialInv, At, Founder
<1>2. ASSUME NEW r \in Req, SendFind(r) PROVE SerialInv'
  <2>1. /\ Moves(r) /\ call[r].at = "idle" /\ call'[r].at = "look" /\ call'[r].seen = Founder
        /\ UNCHANGED <<founders, stray, contested>>
    BY <1>2, SendFindFacts DEF people
  <2>2. \A p \in Req : call[p].at = "idle"
    BY <2>1, AloneAtStart
  <2>3. raced' = raced
    <3>1. At(SendAt \cup AcceptAt) = {}
      BY <2>2 DEF At, SendAt, AcceptAt
    <3> QED BY <1>2, <3>1 DEF SendFind, Meets
  <2> QED BY <2>1, <2>2, <2>3, SerialMove DEF SerialInv, Founder
<1>3. ASSUME NEW r \in Req, Authenticate(r) PROVE SerialInv'
  <2>1. /\ Moves(r) /\ call[r].at = "idle" /\ call'[r].at = "begin" /\ call'[r].of = {}
        /\ call'[r].to = email[call'[r].user]
        /\ UNCHANGED <<email, raced, stray, contested>>
    BY <1>3, AuthenticateFacts DEF Authenticate, people, history
  <2>2. \A p \in Req : call[p].at = "idle"
    BY <2>1, AloneAtStart
  <2> QED BY <2>1, <2>2, SerialMove DEF SerialInv
<1>4. ASSUME NEW r \in Req, CancelFind(r) PROVE SerialInv'
  <2>1. PICK i \in Pending :
          /\ call' = [call EXCEPT ![r] = [Idle EXCEPT !.at = "cancel", !.of = {i}]]
          /\ Takes({i})
    BY <1>4 DEF CancelFind
  <2>2. Moves(r) /\ call[r].at = "idle" /\ call'[r].at = "cancel" /\ UNCHANGED <<raced, stray>>
    BY <1>4, <2>1, RejectStarts DEF CancelFind, Pending
  <2>3. \A p \in Req : call[p].at = "idle" /\ call[p].of = {}
    BY <2>2, AloneAtStart
  <2>4. contested' = {}
    BY <2>1, <2>3, TakesAlone DEF SerialInv
  <2> QED BY <2>2, <2>3, <2>4, SerialMove DEF SerialInv
\* The calls of a user who has been authenticated.
<1>5. ASSUME NEW r \in Req, call[r].at = "begin"
      PROVE  /\ call[r].of = {} /\ call[r].to = email[call[r].user]
             /\ \A p \in Req \ {r} : call[p].at = "idle"
             /\ \A p \in Req : call[p].of = {}
             /\ At(SendAt) = {} /\ At(AcceptAt) = {}
  <2>1. call[r].of = {} /\ call[r].to = email[call[r].user]
    BY <1>5 DEF SerialInv, At
  <2>2. \A p \in Req \ {r} : call[p].at = "idle" /\ call[p].of = {}
    BY <1>5, Alone, CallShape DEF Idle
  <2> QED BY <1>5, <2>1, <2>2 DEF At, SendAt, AcceptAt
<1>6. ASSUME NEW r \in Req, AcceptFind(r) PROVE SerialInv'
  <2>1. Moves(r) /\ call[r].at = "begin" /\ call'[r].at = "push"
    BY <1>6, AcceptFindFacts
  <2>2. contested' = {}
    <3>1. PICK i \in Invite : Takes({i})
      BY <1>6 DEF AcceptFind
    <3> QED BY <1>5, <2>1, <3>1, TakesAlone DEF SerialInv
  <2>3. raced' = {} /\ stray' = {}
    BY <1>5, <1>6, <2>1 DEF AcceptFind, Meets, SerialInv
  <2> QED BY <1>5, <2>1, <2>2, <2>3, SerialMove
<1>7. ASSUME NEW r \in Req, RejectFind(r) \/ GetMyInvites(r) PROVE SerialInv'
  <2>1. PICK S \in SUBSET Invite : WillReject(r, S)
    <3>1. \A a : Outdated(a) \in SUBSET Invite
      BY DEF Outdated, Pending
    <3> QED BY <1>7, <3>1 DEF RejectFind, GetMyInvites
  <2>2. /\ Moves(r) /\ call[r].at = "begin" /\ call'[r].at = "reject"
        /\ UNCHANGED <<raced, stray>>
    BY <1>7, <2>1, RejectStarts DEF RejectFind, GetMyInvites, WillReject
  <2>3. contested' = {}
    BY <1>5, <2>1, <2>2, TakesAlone DEF WillReject, SerialInv
  <2> QED BY <1>5, <2>2, <2>3, SerialMove DEF SerialInv
<1>8. ASSUME NEW r \in Req, ChangeAddress(r) PROVE SerialInv'
  <2>1. /\ Moves(r) /\ call[r].at = "begin" /\ call'[r].at = "idle"
        /\ UNCHANGED <<raced, contested>>
    BY <1>8, EndsFacts DEF ChangeAddress
  <2>2. stray' = {}
    BY <1>5, <1>8, <2>1 DEF ChangeAddress, SerialInv
  <2> QED BY <1>5, <2>1, <2>2, SerialMove DEF SerialInv
<1>9. ASSUME NEW r \in Req, SendLook(r) PROVE SerialInv'
  <2>1. \A p \in Req \ {r} : call[p].at = "idle"
    BY <1>9, Alone DEF SendLook
  <2>2. CASE Ends(r)
    BY <1>9, <2>1, <2>2, EndsFacts, SerialMove DEF SendLook, SerialInv, history
  <2>3. CASE ~Ends(r)
    <3>1. PICK u \in User : email[u] = call[r].to /\ u \notin call[r].seen
      BY <1>9, <2>3 DEF SendLook, MayBeInvited
    <3>2. founders[u] = 0
      BY <1>9, <3>1 DEF SendLook, SerialInv, At, Founder, TypeOK
    <3>3. call[r] \in Call /\ call[r].at = "look"
      BY <1>9, CallShape DEF SendLook
    <3>4. [call[r] EXCEPT !.at = "check", !.seen = {}] \in Call
      BY <3>3 DEF Call, SendAt, AcceptAt
    <3>5. call' = [call EXCEPT ![r] = [call[r] EXCEPT !.at = "check", !.seen = {}]]
      BY <1>9, <2>3 DEF SendLook
    <3>6. Moves(r) /\ call'[r] = [call[r] EXCEPT !.at = "check", !.seen = {}]
      BY <3>4, <3>5, SetFacts
    <3>7. call'[r].at = "check" /\ call'[r].to = call[r].to
      BY <3>3, <3>6 DEF Call
    <3>8. UNCHANGED <<founders, email, raced, contested, stray>>
      BY <1>9 DEF SendLook, people, history
    <3> QED BY <2>1, <3>1, <3>2, <3>6, <3>7, <3>8, SerialMove DEF SerialInv
  <2> QED BY <2>2, <2>3
<1>10. ASSUME NEW r \in Req, SendCheck(r) PROVE SerialInv'
  <2>1. (\A p \in Req \ {r} : call[p].at = "idle") /\ call[r].at = "check"
    BY <1>10, Alone DEF SendCheck
  <2>2. /\ Moves(r)
        /\ call'[r].at = "idle" \/ (call'[r].at = "create" /\ call'[r].to = call[r].to)
    BY <1>10, <2>1, EndsFacts, GoesFacts DEF SendCheck, SendAt
  <2>3. UNCHANGED <<founders, email, raced, contested, stray>>
    BY <1>10 DEF SendCheck, people, history
  <2>4. \E u \in User : email[u] = call[r].to /\ founders[u] = 0
    BY <2>1 DEF SerialInv, At
  <2> QED BY <2>1, <2>2, <2>3, <2>4, SerialMove DEF SerialInv
<1>11. ASSUME NEW r \in Req,
             \/ SendCreate(r) \/ Refused(r) \/ Push(r) \/ Promote(r) \/ Accept(r)
             \/ Reject(r) \/ Cancel(r)
       PROVE SerialInv'
  <2>1. UNCHANGED history /\ \A p \in Req \ {r} : call[p].at = "idle"
    BY <1>11, Alone DEF SendCreate, Refused, Push, Promote, Accept, Reject, Cancel
  <2>2. Moves(r) /\ call'[r].at \in {"idle", "promote", "accept", "reject"}
    BY <1>11, EndsFacts, GoesFacts, RejectFacts
      DEF SendCreate, Refused, Push, Promote, Accept, Cancel, AcceptAt
  <2> QED BY <2>1, <2>2, SerialMove DEF SerialInv, history
<1>12. ASSUME \/ \E i \in Invite : Expire(i)
              \/ \E s \in {"OPEN", "BLOCKED", "GONE"} : ChangeCompany(s)
       PROVE  SerialInv'
  BY <1>12 DEF Expire, ChangeCompany, people, history, SerialInv, At, Founder
<1>13. CASE Crash
  <2>1. CASE Accepting = {}
    <3>1. contested' = contested /\ raced' = raced /\ stray' = stray
      BY <1>13, <2>1 DEF Crash, Accepting
    <3>2. \A r \in Req : call'[r].at = "idle"
      BY <1>13 DEF Crash, Idle
    <3> QED BY <3>1, <3>2 DEF SerialInv, At
  <2>2. CASE Accepting # {}
    BY <1>1, <1>13, <2>2
  <2> QED BY <2>1, <2>2
<1> QED
  BY <1>1, <1>2, <1>3, <1>4, <1>6, <1>7, <1>8, <1>9, <1>10, <1>11, <1>12, <1>13 DEF Next

LEMMA SerialInvariance == Spec /\ []Serial /\ NoCrash => []SerialInv
<1>1. Init => SerialInv
  BY DEF Init, SerialInv, At, Idle
<1>2. TypeOK /\ SerialInv /\ Serial /\ Serial' /\ [Next]_vars
        /\ [~(Crash /\ Accepting # {})]_vars => SerialInv'
  BY SerialStep
<1> QED BY <1>1, <1>2, TypeCorrect, PTL DEF Spec, NoCrash

\* While requests do not overlap and no acceptance is interrupted, a user becomes
\* a founder at most once for each address held in turn.
THEOREM SerialOneFounder == Spec /\ []Serial /\ NoCrash => []OneFounder
<1>1. TypeOK /\ SerialInv /\ FounderOnce => OneFounder
  BY DEF TypeOK, SerialInv, FounderOnce, OneFounder
<1> QED BY <1>1, SerialInvariance, TypeCorrect, FoundersOnce, PTL

\* Nor are two invites to one address pending.
THEOREM SerialOneInvite == Spec /\ []Serial /\ NoCrash => []OneInvite
<1>1. SerialInv /\ OnePending => OneInvite
  BY DEF SerialInv, OnePending, OneInvite
<1> QED BY <1>1, SerialInvariance, PendingOnce, PTL

\* Nor is there a founder who has not accepted.
THEOREM SerialFounderAccepted == Spec /\ []Serial /\ NoCrash => []FounderAccepted
<1>1. SerialInv /\ FounderWasInvited => FounderAccepted
  BY DEF SerialInv, FounderWasInvited, FounderAccepted
<1> QED BY <1>1, SerialInvariance, FoundersInvited, PTL

\* And no answer changes.
THEOREM SerialAnsweredForGood == Spec /\ []Serial /\ NoCrash => AnsweredForGood
<1>1. SerialInv /\ [\A i \in Invite :
                     invite[i] \in Answer /\ invite'[i] # invite[i] => i \in contested]_vars
        => [\A i \in Invite : invite[i] \in Answer => invite'[i] = invite[i]]_vars
  BY DEF SerialInv
<1> QED BY <1>1, SerialInvariance, AnswersFinal, PTL DEF AnswerIsFinal, AnsweredForGood

-----------------------------------------------------------------------------
(* The three writes of an acceptance as one                                *)

Promoted == promoted \cup {call[r].user : r \in Accepting}

\* A step that ends, begins or continues no acceptance changes no answer.
LEMMA QuietAnswers ==
  ASSUME NEW r \in Req, Moves(r),
         call[r].at \notin {"promote", "accept"}, call'[r].at \notin {"promote", "accept"}
  PROVE  /\ Accepting' = Accepting
         /\ \A p \in Accepting : call'[p] = call[p]
         /\ promoted' = promoted => Promoted' = Promoted
         /\ invite' = invite => \A i \in Invite : AnsweredAs(i)' = AnsweredAs(i)
<1>1. Accepting' = Accepting /\ \A p \in Accepting : call'[p] = call[p]
  BY DEF Accepting, At, Moves
<1> QED BY <1>1 DEF AnsweredAs, Promoted

\* The calls that begin or are refused, and the checks of a Send.
LEMMA BeginsQuietly ==
  ASSUME TypeOK, NEW r \in Req,
         \/ SendFind(r) \/ SendLook(r) \/ SendCheck(r) \/ Authenticate(r) \/ Refused(r)
         \/ AcceptFind(r) \/ RejectFind(r) \/ GetMyInvites(r) \/ CancelFind(r)
  PROVE  UNCHANGED Life!vars
<1>1. UNCHANGED <<company, people, invites>>
  BY DEF SendFind, SendLook, SendCheck, Authenticate, Refused, AcceptFind, RejectFind,
         GetMyInvites, CancelFind
<1>2. call[r].at \notin {"promote", "accept"}
  BY DEF SendFind, SendLook, SendCheck, Authenticate, Refused, AcceptFind, RejectFind,
         GetMyInvites, CancelFind
<1>3. Moves(r) /\ call'[r].at \notin {"promote", "accept"}
  <2>1. CASE SendLook(r)
    <3>1. CASE Ends(r)
      BY <3>1, EndsFacts
    <3>2. CASE ~Ends(r)
      <4>1. call' = [call EXCEPT ![r] = [call[r] EXCEPT !.at = "check", !.seen = {}]]
        BY <2>1, <3>2 DEF SendLook
      <4>2. call[r] \in Call
        BY <2>1, CallShape DEF SendLook
      <4>3. [call[r] EXCEPT !.at = "check", !.seen = {}] \in Call
        BY <2>1, <4>2 DEF SendLook, Call, SendAt, AcceptAt
      <4>4. Moves(r) /\ call'[r] = [call[r] EXCEPT !.at = "check", !.seen = {}]
        BY <4>1, <4>3, SetFacts
      <4> QED BY <4>2, <4>4 DEF Call
    <3> QED BY <3>1, <3>2
  <2>2. CASE SendCheck(r)
    BY <2>2, GoesFacts, EndsFacts DEF SendCheck, SendAt
  <2>3. CASE SendFind(r) \/ Authenticate(r) \/ Refused(r) \/ AcceptFind(r)
    BY <2>3, SendFindFacts, AuthenticateFacts, AcceptFindFacts, EndsFacts DEF Refused
  <2>4. CASE RejectFind(r) \/ GetMyInvites(r) \/ CancelFind(r)
    <3>1. \A a : Outdated(a) \in SUBSET Invite
      BY DEF Outdated, Pending
    <3>2. PICK S \in SUBSET Invite, s \in {"reject", "cancel"} :
            call' = [call EXCEPT ![r] = [Idle EXCEPT !.at = s, !.of = S]]
      BY <2>4, <3>1 DEF RejectFind, GetMyInvites, CancelFind, WillReject, Pending
    <3> QED BY <3>2, RejectStarts
  <2> QED BY <2>1, <2>2, <2>3, <2>4
<1>4. Promoted' = Promoted /\ \A i \in Invite : AnsweredAs(i)' = AnsweredAs(i)
  BY <1>1, <1>2, <1>3, QuietAnswers DEF people, invites
<1> QED BY <1>1, <1>4 DEF Life!vars, Promoted, people, invites

\* A call at work on something else than an acceptance: nobody accepts.
LEMMA NobodyAccepts ==
  ASSUME Serial, NEW r \in Req, call[r].at \notin {"idle", "promote", "accept"}
  PROVE  Accepting = {} /\ Promoted = promoted /\ \A i : AnsweredAs(i) = invite[i]
<1>1. Accepting = {}
  BY Alone DEF Accepting, At
<1> QED BY <1>1 DEF AnsweredAs, Promoted

\* And nobody does after a step that begins no acceptance.
LEMMA NobodyAcceptsYet ==
  ASSUME Serial, NEW r \in Req, Moves(r), call[r].at # "idle",
         call'[r].at \notin {"promote", "accept"}
  PROVE  Accepting' = {} /\ Promoted' = promoted' /\ \A i : AnsweredAs(i)' = invite'[i]
<1>1. Accepting' = {}
  BY Alone DEF Accepting, At, Moves
<1> QED BY <1>1 DEF AnsweredAs, Promoted

LEMMA SendCreates ==
  ASSUME InvitesInv, SerialInv, Serial, NEW r \in Req, SendCreate(r)
  PROVE  \E i \in Invite, u \in User : Life!Send(i, u)
<1> USE DEF InvitesInv
<1>1. PICK i \in Invite : /\ invite[i] = None /\ invite' = [invite EXCEPT ![i] = "PENDING"]
                          /\ to' = [to EXCEPT ![i] = call[r].to]
  BY DEF SendCreate
<1>2. /\ call[r].at = "create" /\ Moves(r) /\ call'[r].at = "idle" /\ call[r].to \in Address
      /\ UNCHANGED <<company, founders, promoted, email>>
  BY EndsFacts, CallShape DEF SendCreate, people, SendAt
<1>3. /\ Promoted = promoted /\ \A j : AnsweredAs(j) = invite[j]
      /\ Promoted' = promoted /\ \A j : AnsweredAs(j)' = invite'[j]
  BY <1>2, NobodyAccepts, NobodyAcceptsYet
<1>4. PICK u \in User : email[u] = call[r].to /\ founders[u] = 0
  BY <1>2 DEF SerialInv, At
<1>5. \A j \in Invite : ~(invite[j] = "PENDING" /\ to[j] = email[u])
  BY <1>2, <1>4 DEF SendersInv, SerialInv, Pending, At
<1>6. [j \in Invite |-> AnsweredAs(j)]' =
        [[j \in Invite |-> AnsweredAs(j)] EXCEPT ![i] = "PENDING"]
  BY <1>1, <1>3 DEF TypeOK
<1>7. to' = [to EXCEPT ![i] = email[u]]
  BY <1>1, <1>4
<1>8. \A j \in Invite : ~([k \in Invite |-> AnsweredAs(k)][j] = "PENDING" /\ to[j] = email[u])
  BY <1>3, <1>5
<1>9. [k \in Invite |-> AnsweredAs(k)][i] = None
  BY <1>1, <1>3
<1>10. Life!Send(i, u)
  BY <1>2, <1>3, <1>4, <1>6, <1>7, <1>8, <1>9 DEF Life!Send, Promoted
<1> QED BY <1>10

\* The first write of an acceptance is the acceptance.
LEMMA PushAccepts ==
  ASSUME InvitesInv, SerialInv, Serial, NEW r \in Req, Push(r)
  PROVE  \E i \in Invite, u \in User : Life!Accept(i, u)
<1> USE DEF InvitesInv
<1>0. PICK u \in User : u = call[r].user
  BY CallShape DEF Push, AcceptAt
<1>1. /\ call[r].at = "push" /\ Moves(r)
      /\ call'[r].at = "promote" /\ call'[r].of = call[r].of /\ call'[r].user = u
      /\ founders' = IF company = "GONE" THEN founders ELSE [founders EXCEPT ![u] = @ + 1]
      /\ UNCHANGED <<company, promoted, email, invite, to>>
  BY <1>0, GoesFacts DEF Push, AcceptAt, invites
<1>2. r \in At(AcceptAt)
  BY <1>1 DEF At, AcceptAt
<1>3. PICK i \in Invite : call[r].of = {i} /\ to[i] = email[u]
  BY <1>0, <1>2 DEF AcceptingInv, SerialInv
<1>4. invite[i] = "PENDING"
  BY <1>3 DEF HandledInv, SerialInv
<1>5. Promoted = promoted /\ \A j : AnsweredAs(j) = invite[j]
  BY <1>1, NobodyAccepts
<1>6. Accepting' = {r}
  BY <1>1, Alone DEF Accepting, At, Moves
<1>7. /\ \A j : AnsweredAs(j)' = IF j = i THEN "ACCEPTED" ELSE invite[j]
      /\ Promoted' = promoted \cup {u}
  BY <1>1, <1>3, <1>6 DEF AnsweredAs, Promoted
<1>8. [j \in Invite |-> AnsweredAs(j)]' =
        [[j \in Invite |-> AnsweredAs(j)] EXCEPT ![i] = "ACCEPTED"]
  BY <1>5, <1>7
<1>9. [j \in Invite |-> AnsweredAs(j)][i] = "PENDING"
  BY <1>4, <1>5
<1>10. Life!Accept(i, u)
  BY <1>1, <1>3, <1>5, <1>7, <1>8, <1>9 DEF Life!Accept, Promoted
<1> QED BY <1>10

\* The other two writes change nothing more.
LEMMA PromoteFollows ==
  ASSUME InvitesInv, NEW r \in Req, Promote(r)
  PROVE  UNCHANGED Life!vars
<1>1. /\ call[r].at = "promote" /\ Moves(r)
      /\ call'[r].at = "accept" /\ call'[r].of = call[r].of /\ call'[r].user = call[r].user
      /\ promoted' = promoted \cup {call[r].user}
      /\ UNCHANGED <<company, founders, email, invite, to>>
  BY GoesFacts DEF InvitesInv, Promote, AcceptAt, invites
<1>2. /\ Accepting' = Accepting /\ r \in Accepting
      /\ \A p \in Accepting : call'[p].of = call[p].of /\ call'[p].user = call[p].user
  BY <1>1 DEF Accepting, At, Moves
<1>3. \A i \in Invite : AnsweredAs(i)' = AnsweredAs(i)
  BY <1>1, <1>2 DEF AnsweredAs
<1>4. Promoted' = Promoted
  BY <1>1, <1>2 DEF Promoted
<1> QED BY <1>1, <1>3, <1>4 DEF Life!vars, Promoted

LEMMA AcceptFollows ==
  ASSUME InvitesInv, SerialInv, Serial, NEW r \in Req, Accept(r)
  PROVE  UNCHANGED Life!vars
<1> USE DEF InvitesInv
<1>1. /\ call[r].at = "accept" /\ Moves(r) /\ call'[r].at = "idle"
      /\ UNCHANGED <<company, founders, promoted, email, to>>
  BY EndsFacts DEF Accept, people
<1>2. r \in At(AcceptAt)
  BY <1>1 DEF At, AcceptAt
<1>3. PICK i \in Invite : call[r].of = {i}
  BY <1>2 DEF AcceptingInv
<1>4. call[r].user \in promoted
  BY <1>1, <1>2 DEF AcceptingInv
<1>5. invite[i] = "PENDING"
  BY <1>3 DEF HandledInv, SerialInv
<1>6. invite' = [invite EXCEPT ![i] = "ACCEPTED"]
  BY <1>3, <1>5 DEF Accept, WrittenAs
<1>7. Accepting = {r}
  BY <1>1, Alone DEF Accepting, At
<1>8. Promoted' = promoted /\ \A j : AnsweredAs(j)' = invite'[j]
  BY <1>1, NobodyAcceptsYet
<1>9. \A j : AnsweredAs(j) = IF j = i THEN "ACCEPTED" ELSE invite[j]
  BY <1>3, <1>7 DEF AnsweredAs
<1>10. \A j \in Invite : AnsweredAs(j)' = AnsweredAs(j)
  BY <1>6, <1>8, <1>9 DEF TypeOK
<1>11. Promoted' = Promoted
  BY <1>4, <1>7, <1>8 DEF Promoted
<1> QED BY <1>1, <1>10, <1>11 DEF Life!vars, Promoted

LEMMA RefusalWrites ==
  ASSUME InvitesInv, SerialInv, Serial, NEW r \in Req, Reject(r) \/ Cancel(r)
  PROVE  \E i \in Invite, answer \in {"REJECTED", "CANCELLED"} : Life!Refuse(i, answer)
<1> USE DEF InvitesInv
<1>1. /\ call[r].at \in {"reject", "cancel"}
      /\ UNCHANGED <<company, founders, promoted, email, to>>
  BY DEF Reject, Cancel, people
<1>2. \A i \in call[r].of : i \in Invite /\ invite[i] = "PENDING"
  BY CallShape DEF HandledInv, SerialInv
<1>3. PICK i \in call[r].of, answer \in {"REJECTED", "CANCELLED"} :
        invite' = [invite EXCEPT ![i] = answer]
  BY <1>2 DEF Reject, Cancel, WrittenAs
<1>4. Moves(r) /\ call'[r].at \in {"idle", "reject"}
  BY RejectFacts, EndsFacts DEF Cancel
<1>5. /\ Promoted = promoted /\ \A j : AnsweredAs(j) = invite[j]
      /\ Promoted' = promoted' /\ \A j : AnsweredAs(j)' = invite'[j]
  BY <1>1, <1>4, NobodyAccepts, NobodyAcceptsYet
<1>6. [j \in Invite |-> AnsweredAs(j)]' =
        [[j \in Invite |-> AnsweredAs(j)] EXCEPT ![i] = answer]
  BY <1>2, <1>3, <1>5 DEF TypeOK
<1>7. [j \in Invite |-> AnsweredAs(j)][i] = "PENDING" /\ i \in Invite
  BY <1>2, <1>5
<1>8. Life!Refuse(i, answer)
  BY <1>1, <1>5, <1>6, <1>7 DEF Life!Refuse, Promoted
<1> QED BY <1>7, <1>8

LEMMA AddressChanges ==
  ASSUME InvitesInv, Serial, NEW r \in Req, ChangeAddress(r)
  PROVE  \E u \in User, a \in Address : Life!ChangeAddress(u, a)
<1> DEFINE u == call[r].user
<1>1. /\ call[r].at = "begin" /\ Moves(r) /\ call'[r].at = "idle" /\ u \in User
      /\ UNCHANGED <<company, founders, promoted, invite, to>>
  BY EndsFacts, CallShape DEF ChangeAddress, invites, InvitesInv
<1>2. PICK a \in Address : (\A w \in User : email[w] # a) /\ email' = [email EXCEPT ![u] = a]
  BY DEF ChangeAddress
<1>3. Promoted' = Promoted /\ \A j \in Invite : AnsweredAs(j)' = AnsweredAs(j)
  BY <1>1, QuietAnswers
<1>4. Life!ChangeAddress(u, a)
  BY <1>1, <1>2, <1>3 DEF Life!ChangeAddress, Promoted
<1> QED BY <1>1, <1>4

LEMMA LifeStep ==
  ASSUME InvitesInv, SerialInv, Serial, [Next]_vars, [~(Crash /\ Accepting # {})]_vars
  PROVE  [Life!Next]_Life!vars
<1>0. TypeOK
  BY DEF InvitesInv
<1>1. ASSUME NEW r \in Req,
             \/ SendFind(r) \/ SendLook(r) \/ SendCheck(r) \/ Authenticate(r) \/ Refused(r)
             \/ AcceptFind(r) \/ RejectFind(r) \/ GetMyInvites(r) \/ CancelFind(r)
             \/ Promote(r) \/ Accept(r)
      PROVE  UNCHANGED Life!vars
  BY <1>0, <1>1, BeginsQuietly, PromoteFollows, AcceptFollows
<1>2. ASSUME NEW r \in Req,
             SendCreate(r) \/ Push(r) \/ Reject(r) \/ Cancel(r) \/ ChangeAddress(r)
      PROVE  Life!Next
  BY <1>2, SendCreates, PushAccepts, RefusalWrites, AddressChanges DEF Life!Next
<1>3. ASSUME UNCHANGED <<call, invite, promoted>>
      PROVE  Promoted' = Promoted /\ \A i \in Invite : AnsweredAs(i)' = AnsweredAs(i)
  BY <1>3 DEF AnsweredAs, Promoted, Accepting, At
<1>4. CASE (\E i \in Invite : Expire(i)) \/ UNCHANGED vars
  BY <1>3, <1>4 DEF Expire, vars, people, invites, Life!vars, Promoted
<1>5. ASSUME NEW s \in {"OPEN", "BLOCKED", "GONE"}, ChangeCompany(s)
      PROVE  Life!Next
  <2>1. Life!ChangeCompany(s)
    BY <1>3, <1>5 DEF ChangeCompany, people, invites, Life!ChangeCompany, Promoted
  <2> QED BY <2>1 DEF Life!Next
\* A crash outside the acceptances.
<1>6. CASE Crash /\ ~(UNCHANGED vars)
  <2>1. Accepting = {} /\ Accepting' = {}
    BY <1>6 DEF Crash, Accepting, At, Idle
  <2>2. UNCHANGED <<company, people, invites>>
    BY <1>6 DEF Crash
  <2> QED BY <2>1, <2>2 DEF people, invites, Life!vars, AnsweredAs
<1> QED BY <1>1, <1>2, <1>4, <1>5, <1>6 DEF Next

\* While requests do not overlap and no acceptance is interrupted, the three writes
\* of an acceptance are as good as one: company, users and invites change only as
\* InviteLife says.
THEOREM InvitesImplement == Spec /\ []Serial /\ NoCrash => ImplementsInviteLife
<1>1. Init => Life!Init
  <2> SUFFICES ASSUME Init PROVE Life!Init
    OBVIOUS
  <2>1. Accepting = {}
    BY DEF Init, Accepting, At, Idle
  <2> QED BY <2>1 DEF Init, Life!Init, AnsweredAs
<1>2. InvitesInv /\ SerialInv /\ Serial /\ [Next]_vars /\ [~(Crash /\ Accepting # {})]_vars
        => [Life!Next]_Life!vars
  BY LifeStep
<1> QED BY <1>1, <1>2, Invariance, SerialInvariance, PTL
  DEF Spec, NoCrash, ImplementsInviteLife, Life!Spec
=============================================================================
