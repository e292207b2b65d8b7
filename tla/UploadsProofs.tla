---------------------------- MODULE UploadsProofs ----------------------------
(***************************************************************************)
(* Proofs about Uploads, for any number of calls, names of files and       *)
(* uploads: every action preserves IInv, which holds the properties.       *)
(***************************************************************************)
EXTENDS Uploads, TLAPS

\* The initial states.
LEMMA InitStep == Init => IInv
<1> SUFFICES ASSUME Init PROVE IInv
  OBVIOUS
<1>1. TypeOK
  BY UploadAssumption DEF Init, TypeOK, Slot, Idle
<1>2. StageInv /\ OwnerInv /\ DoomedInv /\ DroppedInv /\ RawInv
  BY UploadAssumption DEF Init, RawInv, Slot, StageInv, OwnerInv, DoomedInv, DroppedInv, Idle, Active, At
<1>3. Stored = {} /\ Olds(Req) = {}
  BY UploadAssumption DEF Init, Stored, Olds, Slot, Idle
<1>4. FreshInv /\ SlotInv /\ PhotoAvailable /\ LogoMissingExplained
  BY <1>3, UploadAssumption
     DEF Init, FreshInv, SlotInv, PhotoAvailable, LogoMissingExplained, Slot, Idle, Active, Unstored
<1>5. CarryingInv /\ ContentInv
  BY DEF Init, CarryingInv, ContentInv, Carrying, Sending, At, Idle
<1>6. OwnContent /\ LeaksExplained
  BY <1>3 DEF Init, OwnContent, LeaksExplained
<1> QED BY <1>1, <1>2, <1>3, <1>4, <1>5, <1>6 DEF IInv

\* A file is received.
LEMMA ReceiveStep ==
  ASSUME IInv, NEW r \in Req,
         NEW op \in Op, NEW name \in Name, NEW u \in Upload, Receive(r, op, name, u)
  PROVE  IInv'
<1>1. /\ call[r] = Idle /\ u \notin received /\ (op = "changePhoto" => field.photo # Absent)
      /\ UNCHANGED <<asset, live, raw, field, shown, typed, lost, overtaken, undropped,
                     forsaken, abandoned>>
  BY DEF Receive
<1>2. /\ call' = [call EXCEPT ![r] = [at |-> Begin(op), op |-> op, name |-> name, own |-> u, old |-> Absent, gone |-> FALSE]]
      /\ received' = received \cup {u}
      /\ disk' = [disk EXCEPT ![name] = u]
      /\ replaced' = replaced \cup {call[q].own : q \in {p \in Sending : call[p].name = name}}
  BY DEF Receive, Goes, Saved
<1>3. TypeOK'
  <2>1. {call[q].own : q \in {p \in Sending : call[p].name = name}} \subseteq Upload
    BY DEF IInv, TypeOK, Call, Idle, Sending
  <2>2. call' \in [Req -> Call \cup {Idle}]
    BY <1>1, <1>2 DEF IInv, TypeOK, Call, Begin
  <2> QED BY <1>1, <1>2, <2>1, <2>2 DEF IInv, TypeOK
<1>4. StageInv'
  BY <1>1, <1>2, <1>3 DEF IInv, TypeOK, StageInv, Call, Idle, Creates, Begin
<1>5. OwnerInv'
  BY <1>1, <1>2, <1>3 DEF IInv, TypeOK, OwnerInv, Active, Call, Idle, Begin
<1>6. FreshInv'
  BY <1>1, <1>2, <1>3, UploadAssumption DEF IInv, history, TypeOK, FreshInv, Active, Unstored, At,
     Stored, Olds, SlotOf, Slot, Call, Op, Idle, Begin
<1>7. SlotInv'
  BY <1>1, <1>2, <1>3, UploadAssumption
     DEF IInv, history, TypeOK, SlotInv, Active, SlotOf, Slot, Call, Op, Idle, Begin
<1>8. DoomedInv'
  BY <1>1, <1>2, <1>3 DEF IInv, history, TypeOK, DoomedInv, At, Call, Op, Idle, Begin
<1>9. CarryingInv'
  BY <1>1, <1>2, <1>3 DEF IInv, TypeOK, CarryingInv, Carrying, At, Call, Op, Idle, Begin
<1>10. ContentInv'
  BY <1>1, <1>2, <1>3
     DEF IInv, TypeOK, ContentInv, Sending, Carrying, At, Call, Op, Idle, history, Begin
<1>11. DroppedInv'
  BY <1>1, <1>2, <1>3 DEF IInv, TypeOK, DroppedInv, At, Call, Op, Idle, history, Begin
<1>12. PhotoAvailable'
  BY <1>1, <1>2, <1>3 DEF IInv, history, TypeOK, PhotoAvailable, Slot, Begin
<1>13. LogoMissingExplained'
  BY <1>1, <1>2, <1>3
     DEF IInv, TypeOK, LogoMissingExplained, Olds, At, Call, Op, Idle, history, Begin
<1>14. OwnContent'
  BY <1>1, <1>2, <1>3 DEF IInv, TypeOK, OwnContent, Stored, history, Begin
<1>15. LeaksExplained'
  BY <1>1, <1>2, <1>3 DEF IInv, TypeOK, LeaksExplained, Stored, Held, Carrying, Olds, At,
     Call, Op, Idle, history, Begin
<1>16. RawInv'
  BY <1>1, <1>2, <1>3, UploadAssumption
     DEF IInv, TypeOK, RawInv, SlotOf, Slot, Call, Op, Idle, history, Begin
<1> QED BY <1>3, <1>4, <1>5, <1>6, <1>7, <1>8, <1>9, <1>10, <1>11, <1>12, <1>13, <1>14,
           <1>15, <1>16 DEF IInv

\* A record is read.
LEMMA LookStep ==
  ASSUME IInv, NEW r \in Req, Look(r)
  PROVE  IInv'
<1>1. /\ call[r] \in Call /\ call[r].at = "look"
      /\ field[SlotOf(call[r].op)] \in Upload \cup {Absent, Elsewhere}
  BY DEF Look, IInv, TypeOK, Call, Idle, Op, Slot, SlotOf
<1>2. /\ call' = [call EXCEPT ![r] = [call[r] EXCEPT !.at = AfterLook(call[r].op),
                                                !.old = field[SlotOf(call[r].op)]]]
      /\ UNCHANGED <<received, disk, asset, live, raw, field, history>>
  BY DEF Look, Goes
<1>3. TypeOK'
  BY <1>1, <1>2 DEF IInv, TypeOK, Call, Op, Slot, SlotOf, history, AfterLook
<1>4. StageInv'
  BY <1>1, <1>2, <1>3 DEF IInv, TypeOK, StageInv, Call, Idle, Creates, AfterLook
<1>5. OwnerInv'
  BY <1>1, <1>2, <1>3 DEF IInv, TypeOK, OwnerInv, Active, Call, Idle, AfterLook
<1>6. FreshInv'
  <2> DEFINE f == field[SlotOf(call[r].op)]
  <2>1. /\ \A q \in Req : call'[q].own = call[q].own /\ call'[q].at \in {call[q].at, "write", "send"}
        /\ \A q \in Req : call'[q].old \in {call[q].old, f}
        /\ Unstored' = Unstored
    BY <1>1, <1>2 DEF IInv, TypeOK, Call, Idle, Op, AfterLook, Unstored, Active, At
  <2>2. /\ Stored' = Stored /\ received' = received /\ ({f} \cap Upload) \subseteq Stored
        /\ shown' = shown /\ typed' = typed
    BY <1>1, <1>2 DEF Stored, SlotOf, Slot, Call, Op, history
  <2>3. Olds(Req)' \subseteq Olds(Req) \cup Stored
    BY <2>1, <2>2 DEF Olds
  <2> QED BY <2>1, <2>2, <2>3 DEF IInv, FreshInv, Unstored, Active
<1>7. SlotInv'
  <2>1. /\ field' = field /\ typed' = typed /\ SlotOf(call[r].op) \in Slot
        /\ \A q \in Req : call'[q].op = call[q].op /\ (q # r => call'[q] = call[q])
        /\ call'[r].old = field[SlotOf(call[r].op)]
    BY <1>1, <1>2 DEF IInv, TypeOK, Call, Op, Slot, SlotOf, history
  <2>2. Active' = Active
    BY <1>1, <1>2 DEF IInv, TypeOK, Call, Op, AfterLook, Active
  <2>3. \A q \in Active, t \in Slot :
          call'[q].old \in Upload \ typed /\ t # SlotOf(call[q].op) => field[t] # call'[q].old
    <3> SUFFICES ASSUME NEW q \in Active, NEW t \in Slot,
                        call'[q].old \in Upload \ typed, t # SlotOf(call[q].op)
        PROVE  field[t] # call'[q].old
      OBVIOUS
    <3>1. CASE q = r
      BY <2>1, <3>1 DEF IInv, SlotInv
    <3>2. CASE q # r
      BY <2>1, <3>2 DEF IInv, SlotInv, Active
    <3> QED BY <3>1, <3>2
  <2>4. SlotOf(call[r].op)' = SlotOf(call[r].op) /\ \A q \in Active : SlotOf(call[q].op)' = SlotOf(call[q].op)
    BY <2>1 DEF SlotOf, Active
  <2> QED BY <2>1, <2>2, <2>3, <2>4 DEF IInv, SlotInv
<1>8. DoomedInv'
  BY <1>1, <1>2, <1>3 DEF IInv, history, TypeOK, DoomedInv, At, Call, Op, Idle, AfterLook
<1>9. CarryingInv'
  BY <1>1, <1>2, <1>3 DEF IInv, TypeOK, CarryingInv, Carrying, At, Call, Op, Idle, AfterLook
<1>10. ContentInv'
  BY <1>1, <1>2, <1>3
     DEF IInv, TypeOK, ContentInv, Sending, Carrying, At, Call, Op, Idle, history, AfterLook
<1>11. DroppedInv'
  BY <1>1, <1>2, <1>3 DEF IInv, TypeOK, DroppedInv, At, Call, Op, Idle, history, AfterLook
<1>12. PhotoAvailable'
  BY <1>1, <1>2, <1>3 DEF IInv, history, TypeOK, PhotoAvailable, Slot, AfterLook
<1>13. LogoMissingExplained'
  BY <1>1, <1>2, <1>3
     DEF IInv, TypeOK, LogoMissingExplained, Olds, At, Call, Op, Idle, history, AfterLook
<1>14. OwnContent'
  BY <1>1, <1>2, <1>3 DEF IInv, TypeOK, OwnContent, Stored, history, AfterLook
<1>15. LeaksExplained'
  BY <1>1, <1>2, <1>3 DEF IInv, TypeOK, LeaksExplained, Stored, Held, Carrying, Olds, At,
     Call, Op, Idle, history, AfterLook
<1>16. RawInv'
  BY <1>1, <1>2, <1>3, UploadAssumption
     DEF IInv, TypeOK, RawInv, SlotOf, Slot, Call, Op, Idle, history, AfterLook
<1> QED BY <1>3, <1>4, <1>5, <1>6, <1>7, <1>8, <1>9, <1>10, <1>11, <1>12, <1>13, <1>14,
           <1>15, <1>16 DEF IInv

\* A call is refused.
LEMMA RefuseStep ==
  ASSUME IInv, NEW r \in Req, Refuse(r)
  PROVE  IInv'
<1>1. call[r] \in Call /\ call[r].at = "look" /\ call[r].op # "changePhoto"
  BY DEF Refuse, IInv, TypeOK, Call, Idle, Op, Slot, SlotOf
<1>2. /\ call' = [call EXCEPT ![r] = Idle]
      /\ UNCHANGED <<received, disk, asset, live, raw, field, history>>
  BY DEF Refuse, Ends, Goes
<1>3. TypeOK'
  BY <1>1, <1>2 DEF IInv, TypeOK, Call, Op, Slot, SlotOf, history
<1>4. StageInv'
  BY <1>1, <1>2, <1>3 DEF IInv, TypeOK, StageInv, Call, Idle, Creates
<1>5. OwnerInv'
  BY <1>1, <1>2, <1>3 DEF IInv, TypeOK, OwnerInv, Active, Call, Idle
<1>6. FreshInv'
  BY <1>1, <1>2, <1>3, UploadAssumption DEF IInv, history, TypeOK, FreshInv, Active, Unstored, At,
     Stored, Olds, SlotOf, Slot, Call, Op, Idle
<1>7. SlotInv'
  BY <1>1, <1>2, <1>3, UploadAssumption
     DEF IInv, history, TypeOK, SlotInv, Active, SlotOf, Slot, Call, Op, Idle
<1>8. DoomedInv'
  BY <1>1, <1>2, <1>3 DEF IInv, history, TypeOK, DoomedInv, At, Call, Op, Idle
<1>9. CarryingInv'
  BY <1>1, <1>2, <1>3 DEF IInv, TypeOK, CarryingInv, Carrying, At, Call, Op, Idle
<1>10. ContentInv'
  BY <1>1, <1>2, <1>3
     DEF IInv, TypeOK, ContentInv, Sending, Carrying, At, Call, Op, Idle, history
<1>11. DroppedInv'
  BY <1>1, <1>2, <1>3 DEF IInv, TypeOK, DroppedInv, At, Call, Op, Idle, history
<1>12. PhotoAvailable'
  BY <1>1, <1>2, <1>3 DEF IInv, history, TypeOK, PhotoAvailable, Slot
<1>13. LogoMissingExplained'
  BY <1>1, <1>2, <1>3
     DEF IInv, TypeOK, LogoMissingExplained, Olds, At, Call, Op, Idle, history
<1>14. OwnContent'
  BY <1>1, <1>2, <1>3 DEF IInv, TypeOK, OwnContent, Stored, history
<1>15. LeaksExplained'
  BY <1>1, <1>2, <1>3 DEF IInv, TypeOK, LeaksExplained, Stored, Held, Carrying, Olds, At,
     Call, Op, Idle, history
<1>16. RawInv'
  BY <1>1, <1>2, <1>3, UploadAssumption
     DEF IInv, TypeOK, RawInv, SlotOf, Slot, Call, Op, Idle, history
<1> QED BY <1>3, <1>4, <1>5, <1>6, <1>7, <1>8, <1>9, <1>10, <1>11, <1>12, <1>13, <1>14,
           <1>15, <1>16 DEF IInv

\* An upload begins.
LEMMA SendStep ==
  ASSUME IInv, NEW r \in Req, Send(r)
  PROVE  IInv'
<1>1. call[r] \in Call /\ call[r].at = "send"
  BY DEF Send, IInv, TypeOK, Call, Idle, Op, Slot, SlotOf
<1>2. /\ call' = [call EXCEPT ![r] = [call[r] EXCEPT !.at = "wait"]]
      /\ asset' = [asset EXCEPT ![call[r].own] = disk[call[r].name]]
      /\ UNCHANGED <<received, disk, live, field, history>>
      /\ raw' = IF SlotOf(call[r].op) = "document" THEN raw \cup {call[r].own} ELSE raw
  BY DEF Send, Proceeds, Goes
<1>3. call[r].own \notin shown \cup Stored \cup Olds(Req) \cup typed
  BY <1>1 DEF IInv, FreshInv, Active, Unstored, At
<1>4. TypeOK'
  BY <1>1, <1>2, <1>3 DEF IInv, TypeOK, Call, Op, Slot, SlotOf, history
<1>5. StageInv'
  BY <1>1, <1>2, <1>3, <1>4 DEF IInv, TypeOK, StageInv, Call, Idle, Creates
<1>6. OwnerInv'
  BY <1>1, <1>2, <1>3, <1>4 DEF IInv, TypeOK, OwnerInv, Active, Call, Idle
<1>7. FreshInv'
  BY <1>1, <1>2, <1>3, <1>4, UploadAssumption DEF IInv, history, TypeOK, FreshInv, Active, Unstored,
     At, Stored, Olds, SlotOf, Slot, Call, Op, Idle
<1>8. SlotInv'
  BY <1>1, <1>2, <1>3, <1>4, UploadAssumption
     DEF IInv, history, TypeOK, SlotInv, Active, SlotOf, Slot, Call, Op, Idle
<1>9. DoomedInv'
  BY <1>1, <1>2, <1>3, <1>4 DEF IInv, history, TypeOK, DoomedInv, At, Call, Op, Idle
<1>10. CarryingInv'
  BY <1>1, <1>2, <1>3, <1>4 DEF IInv, TypeOK, CarryingInv, Carrying, At, Call, Op, Idle
<1>11. ContentInv'
  <2>1. /\ Sending' \subseteq Sending /\ Carrying' \subseteq Carrying /\ r \in Sending
        /\ \A q \in Sending' \cup Carrying' : q # r
    BY <1>1, <1>2, <1>3 DEF IInv, TypeOK, Call, Op, Sending, Carrying, At
  <2>2. \A q \in Req \ {r} : call'[q] = call[q] /\ (q \in Active => asset'[call[q].own] = asset[call[q].own])
    BY <1>1, <1>2, <1>3 DEF IInv, TypeOK, OwnerInv, Active
  <2>3. Carrying \subseteq Active
    BY DEF Carrying, Active, At
  <2>4. call'[r].own = call[r].own /\ asset'[call[r].own] = disk[call[r].name]
    BY <1>1, <1>2, <1>3 DEF IInv, TypeOK, Call
  <2> QED BY <1>1, <1>2, <1>3, <2>1, <2>2, <2>3, <2>4
     DEF IInv, TypeOK, ContentInv, Active, history
<1>12. DroppedInv'
  BY <1>1, <1>2, <1>3, <1>4 DEF IInv, TypeOK, DroppedInv, At, Call, Op, Idle, history
<1>13. PhotoAvailable'
  BY <1>1, <1>2, <1>3, <1>4 DEF IInv, history, TypeOK, PhotoAvailable, Slot
<1>14. LogoMissingExplained'
  BY <1>1, <1>2, <1>3, <1>4
     DEF IInv, TypeOK, LogoMissingExplained, Olds, At, Call, Op, Idle, history
<1>15. OwnContent'
  <2>1. Stored' = Stored /\ replaced' = replaced
    BY <1>1, <1>2, <1>3 DEF Stored, history
  <2>2. \A u \in Stored : asset'[u] = asset[u]
    BY <1>1, <1>2, <1>3 DEF IInv, TypeOK, Stored
  <2> QED BY <2>1, <2>2 DEF IInv, OwnContent
<1>16. LeaksExplained'
  BY <1>1, <1>2, <1>3, <1>4 DEF IInv, TypeOK, LeaksExplained, Stored, Held, Carrying, Olds,
     At, Call, Op, Idle, history
<1>17. RawInv'
  BY <1>1, <1>2, <1>3, <1>4, UploadAssumption
     DEF IInv, TypeOK, RawInv, SlotOf, Slot, Call, Op, Idle, history
<1> QED BY <1>4, <1>5, <1>6, <1>7, <1>8, <1>9, <1>10, <1>11, <1>12, <1>13, <1>14, <1>15,
           <1>16, <1>17 DEF IInv

\* An upload succeeds.
LEMMA UploadedStep ==
  ASSUME IInv, NEW r \in Req, Uploaded(r)
  PROVE  IInv'
<1>1. call[r] \in Call /\ call[r].at = "wait" /\ asset[call[r].own] # None
  BY DEF Uploaded, IInv, TypeOK, Call, Idle, Op, Slot, SlotOf
<1>2. /\ call' = [call EXCEPT ![r] = [call[r] EXCEPT !.at = AfterUpload(call[r].op)]]
      /\ disk' = [disk EXCEPT ![call[r].name] = None]
      /\ live' = live \cup {call[r].own}
      /\ UNCHANGED <<received, asset, raw, field, history>>
  BY <1>1 DEF Uploaded, Unlink, Proceeds, Goes, AfterUpload, Creates, Call, Op
<1>3. call[r].own \notin shown \cup Stored \cup Olds(Req) \cup typed
  BY <1>1 DEF IInv, FreshInv, Active, Unstored, At
<1>4. TypeOK'
  BY <1>1, <1>2, <1>3
     DEF IInv, TypeOK, Call, Op, Slot, SlotOf, history, AfterUpload, Creates
<1>5. StageInv'
  BY <1>1, <1>2, <1>3, <1>4
     DEF IInv, TypeOK, StageInv, Call, Idle, Creates, AfterUpload, Creates
<1>6. OwnerInv'
  BY <1>1, <1>2, <1>3, <1>4
     DEF IInv, TypeOK, OwnerInv, Active, Call, Idle, AfterUpload, Creates
<1>7. FreshInv'
  BY <1>1, <1>2, <1>3, <1>4, UploadAssumption DEF IInv, history, TypeOK, FreshInv, Active, Unstored,
     At, Stored, Olds, SlotOf, Slot, Call, Op, Idle, AfterUpload, Creates
<1>8. SlotInv'
  <2>1. /\ \A q \in Req : call'[q].op = call[q].op /\ call'[q].old = call[q].old /\ call'[q].own = call[q].own
        /\ \A q \in Req \ {r} : call'[q] = call[q]
        /\ Active' = Active
    BY <1>1, <1>2, <1>3 DEF IInv, TypeOK, Call, Op, Active, AfterUpload, Creates
  <2> QED BY <1>1, <1>2, <1>3, <2>1 DEF IInv, SlotInv, history
<1>9. DoomedInv'
  BY <1>1, <1>2, <1>3, <1>4
     DEF IInv, history, TypeOK, DoomedInv, At, Call, Op, Idle, AfterUpload, Creates
<1>10. CarryingInv'
  BY <1>1, <1>2, <1>3, <1>4
     DEF IInv, TypeOK, CarryingInv, Carrying, At, Call, Op, Idle, AfterUpload, Creates
<1>11. ContentInv'
  <2>1. /\ \A q \in Req : call'[q].op = call[q].op /\ call'[q].old = call[q].old /\ call'[q].own = call[q].own
        /\ \A q \in Req \ {r} : call'[q] = call[q]
        /\ Active' = Active
    BY <1>1, <1>2, <1>3 DEF IInv, TypeOK, Call, Op, Active, AfterUpload, Creates
  <2>2. /\ Sending' \subseteq Sending \ {r} /\ Carrying' = Carrying \cup {r}
    BY <1>1, <1>2, <1>3
       DEF IInv, TypeOK, Call, Op, Sending, Carrying, At, AfterUpload, Creates
  <2>3. \A q \in Sending : call'[q].name = call[q].name /\ disk'[call[q].name] \in {disk[call[q].name], None}
    BY <1>1, <1>2, <1>3 DEF IInv, TypeOK, Call, Sending
  <2>4. \A q \in Req : call'[q].at = "wait" => q # r
    BY <1>1, <1>2, <1>3 DEF IInv, TypeOK, Call, Op, AfterUpload, Creates
  <2> QED BY <1>1, <1>2, <1>3, <2>1, <2>2, <2>3, <2>4 DEF IInv, ContentInv, history
<1>12. DroppedInv'
  <2>1. /\ \A q \in Req : call'[q].op = call[q].op /\ call'[q].old = call[q].old /\ call'[q].own = call[q].own
        /\ \A q \in Req \ {r} : call'[q] = call[q]
        /\ Active' = Active
    BY <1>1, <1>2, <1>3 DEF IInv, TypeOK, Call, Op, Active, AfterUpload, Creates
  <2>2. \A op \in {"changeLogo", "changeDocument"} : At(op, "write")' \subseteq At(op, "write")
    BY <1>1, <1>2, <1>3 DEF IInv, TypeOK, Call, Op, At, AfterUpload, Creates
  <2>3. \A q \in Req : call[q].old \in live' => call[q].old \in live
    BY <1>1, <1>2, <1>3 DEF IInv, TypeOK, Olds, Call
  <2> QED BY <1>1, <1>2, <1>3, <2>1, <2>2, <2>3 DEF IInv, DroppedInv, history, At
<1>13. PhotoAvailable'
  BY <1>1, <1>2, <1>3, <1>4 DEF IInv, history, TypeOK, PhotoAvailable, Slot, AfterUpload, Creates
<1>14. LogoMissingExplained'
  BY <1>1, <1>2, <1>3, <1>4 DEF IInv, TypeOK, LogoMissingExplained, Olds, At, Call, Op,
     Idle, history, AfterUpload, Creates
<1>15. OwnContent'
  BY <1>1, <1>2, <1>3, <1>4
     DEF IInv, TypeOK, OwnContent, Stored, history, AfterUpload, Creates
<1>16. LeaksExplained'
  <2>1. /\ \A q \in Req : call'[q].op = call[q].op /\ call'[q].old = call[q].old /\ call'[q].own = call[q].own
        /\ \A q \in Req \ {r} : call'[q] = call[q]
        /\ Active' = Active
    BY <1>1, <1>2, <1>3 DEF IInv, TypeOK, Call, Op, Active, AfterUpload, Creates
  <2>2. Carrying' = Carrying \cup {r} /\ At("changePhoto", "drop")' = At("changePhoto", "drop")
    BY <1>1, <1>2, <1>3 DEF IInv, TypeOK, Call, Op, Carrying, At, AfterUpload, Creates
  <2>3. Held' = Held \cup {call[r].own}
    BY <2>1, <2>2 DEF Held, Olds, Carrying, At
  <2> QED BY <1>1, <1>2, <1>3, <2>3 DEF IInv, LeaksExplained, Stored, history
<1>17. RawInv'
  BY <1>1, <1>2, <1>3, <1>4, UploadAssumption
     DEF IInv, TypeOK, RawInv, SlotOf, Slot, Call, Op, Idle, history, AfterUpload, Creates
<1> QED BY <1>4, <1>5, <1>6, <1>7, <1>8, <1>9, <1>10, <1>11, <1>12, <1>13, <1>14, <1>15,
           <1>16, <1>17 DEF IInv

\* An upload fails.
LEMMA UploadFailsStep ==
  ASSUME IInv, NEW r \in Req, UploadFails(r)
  PROVE  IInv'
<1>1. call[r] \in Call /\ call[r].at = "wait"
  BY DEF UploadFails, IInv, TypeOK, Call, Idle, Op, Slot, SlotOf
<1>2. /\ call' = [call EXCEPT ![r] = Idle]
      /\ disk' = [disk EXCEPT ![call[r].name] = None]
      /\ UNCHANGED <<received, asset, raw, field, shown, typed, replaced, overtaken, undropped,
                     forsaken, abandoned>>
  BY DEF UploadFails, Unlink, Proceeds, Ends, Goes, AfterFailure
<1>3. \/ UNCHANGED <<live, lost>>
      \/ live' = live \cup {call[r].own} /\ lost' = lost \cup {call[r].own}
  BY DEF UploadFails
<1>4. call[r].own \notin shown \cup Stored \cup Olds(Req) \cup typed
  BY <1>1 DEF IInv, FreshInv, Active, Unstored, At
<1>5. TypeOK'
  BY <1>1, <1>2, <1>3, <1>4 DEF IInv, TypeOK, Call, Op, Slot, SlotOf, history
<1>6. StageInv'
  BY <1>1, <1>2, <1>3, <1>4, <1>5 DEF IInv, TypeOK, StageInv, Call, Idle, Creates
<1>7. OwnerInv'
  BY <1>1, <1>2, <1>3, <1>4, <1>5 DEF IInv, TypeOK, OwnerInv, Active, Call, Idle
<1>8. FreshInv'
  BY <1>1, <1>2, <1>3, <1>4, <1>5, UploadAssumption DEF IInv, history, TypeOK, FreshInv, Active,
     Unstored, At, Stored, Olds, SlotOf, Slot, Call, Op, Idle
<1>9. SlotInv'
  BY <1>1, <1>2, <1>3, <1>4, <1>5, UploadAssumption
     DEF IInv, history, TypeOK, SlotInv, Active, SlotOf, Slot, Call, Op, Idle
<1>10. DoomedInv'
  BY <1>1, <1>2, <1>3, <1>4, <1>5 DEF IInv, history, TypeOK, DoomedInv, At, Call, Op, Idle
<1>11. CarryingInv'
  BY <1>1, <1>2, <1>3, <1>4, <1>5
     DEF IInv, TypeOK, CarryingInv, Carrying, At, Call, Op, Idle
<1>12. ContentInv'
  BY <1>1, <1>2, <1>3, <1>4, <1>5
     DEF IInv, TypeOK, ContentInv, Sending, Carrying, At, Call, Op, Idle, history
<1>13. DroppedInv'
  <2>1. \A q \in Req : call[q].old \in live' => call[q].old \in live
    BY <1>1, <1>2, <1>3, <1>4 DEF IInv, TypeOK, Olds, Call
  <2> QED BY <1>1, <1>2, <1>3, <1>4, <2>1 DEF IInv, TypeOK, DroppedInv, At, Idle
<1>14. PhotoAvailable'
  BY <1>1, <1>2, <1>3, <1>4, <1>5 DEF IInv, history, TypeOK, PhotoAvailable, Slot
<1>15. LogoMissingExplained'
  BY <1>1, <1>2, <1>3, <1>4, <1>5
     DEF IInv, TypeOK, LogoMissingExplained, Olds, At, Call, Op, Idle, history
<1>16. OwnContent'
  BY <1>1, <1>2, <1>3, <1>4, <1>5 DEF IInv, TypeOK, OwnContent, Stored, history
<1>17. LeaksExplained'
  BY <1>1, <1>2, <1>3, <1>4, <1>5 DEF IInv, TypeOK, LeaksExplained, Stored, Held, Carrying,
     Olds, At, Call, Op, Idle, history
<1>18. RawInv'
  BY <1>1, <1>2, <1>3, <1>4, <1>5, UploadAssumption
     DEF IInv, TypeOK, RawInv, SlotOf, Slot, Call, Op, Idle, history
<1> QED BY <1>5, <1>6, <1>7, <1>8, <1>9, <1>10, <1>11, <1>12, <1>13, <1>14, <1>15, <1>16,
           <1>17, <1>18 DEF IInv

\* An old asset is destroyed, or kept.
LEMMA DropStep ==
  ASSUME IInv, NEW r \in Req, Drop(r)
  PROVE  IInv'
<1>1. call[r] \in Call /\ call[r].at = "drop" /\ call[r].op \in {"changePhoto", "changeDocument", "changeLogo"}
  BY DEF Drop, StageInv, Creates, IInv, TypeOK, Call, Idle, Op, Slot, SlotOf
<1>2. /\ call' = [call EXCEPT ![r] = IF call[r].op = "changePhoto" THEN Idle
                                     ELSE [call[r] EXCEPT !.at = "write"]]
      /\ UNCHANGED <<received, disk, asset, raw, field, shown, typed, replaced, lost, overtaken,
                     forsaken, abandoned>>
  BY DEF Drop, Proceeds, Ends, Goes, AfterDrop
<1>3. \/ /\ call[r].old \in Upload \ raw
         /\ live' = live \ {call[r].old} /\ UNCHANGED undropped
      \/ undropped' = undropped \cup ({call[r].old} \cap Upload) /\ UNCHANGED live
  BY DEF Drop, Doomed
<1>4. TypeOK'
  BY <1>1, <1>2, <1>3 DEF IInv, TypeOK, Call, Op, Slot, SlotOf, history
<1>5. StageInv'
  BY <1>1, <1>2, <1>3, <1>4 DEF IInv, TypeOK, StageInv, Call, Idle, Creates
<1>6. OwnerInv'
  BY <1>1, <1>2, <1>3, <1>4 DEF IInv, TypeOK, OwnerInv, Active, Call, Idle
<1>7. FreshInv'
  BY <1>1, <1>2, <1>3, <1>4, UploadAssumption DEF IInv, history, TypeOK, FreshInv, Active, Unstored,
     At, Stored, Olds, SlotOf, Slot, Call, Op, Idle
<1>8. SlotInv'
  BY <1>1, <1>2, <1>3, <1>4, UploadAssumption
     DEF IInv, history, TypeOK, SlotInv, Active, SlotOf, Slot, Call, Op, Idle
<1>9. DoomedInv'
  BY <1>1, <1>2, <1>3, <1>4 DEF IInv, history, TypeOK, DoomedInv, At, Call, Op, Idle
<1>10. CarryingInv'
  <2>1. Carrying' \subseteq Carrying /\ \A q \in Carrying' : call'[q].own = call[q].own
    BY <1>1, <1>2, <1>3 DEF IInv, TypeOK, Call, Idle, Carrying, At
  <2>2. \A q \in Carrying : call[q].own \notin Olds(Req)
    BY DEF IInv, FreshInv, Carrying, Unstored, Active, At
  <2> QED BY <1>1, <1>2, <1>3, <2>1, <2>2 DEF IInv, CarryingInv, Olds
<1>11. ContentInv'
  BY <1>1, <1>2, <1>3, <1>4
     DEF IInv, TypeOK, ContentInv, Sending, Carrying, At, Call, Op, Idle, history
<1>12. DroppedInv'
  BY <1>1, <1>2, <1>3, <1>4 DEF IInv, TypeOK, DroppedInv, At, Call, Op, Idle, history
<1>13. PhotoAvailable'
  <2>1. r \in Active /\ r \in At(call[r].op, "drop")
    BY <1>1 DEF Active, At
  <2>2. live' # live => /\ call[r].old \in Upload \ raw
                        /\ field.photo \in typed \/ field.photo # call[r].old
    BY <1>1, <1>2, <1>3, <2>1, UploadAssumption
       DEF IInv, SlotInv, DoomedInv, SlotOf, Slot, Creates
  <2> QED BY <1>1, <1>2, <1>3, <2>2 DEF IInv, TypeOK, PhotoAvailable, RawInv, Slot
<1>14. LogoMissingExplained'
  <2> SUFFICES ASSUME field'.logo \in Upload \ (live' \cup typed')
      PROVE  \/ field'.logo \in forsaken'
             \/ \E q \in At("changeLogo", "write")' : call'[q].old = field'.logo
    BY DEF LogoMissingExplained
  <2>1. CASE field.logo \in live
    <3>1. field.logo = call[r].old /\ field.logo \in Upload \ typed
      BY <1>1, <1>2, <1>3, <2>1
    <3>2. call[r].op = "changeLogo"
      BY <1>1, <3>1 DEF IInv, SlotInv, SlotOf, Slot, Active
    <3> QED BY <1>1, <1>2, <1>3, <3>1, <3>2 DEF IInv, TypeOK, Call, At
  <2>2. CASE field.logo \notin live
    <3>1. field.logo \in Upload \ (live \cup typed) /\ UNCHANGED <<field, forsaken>>
      BY <1>1, <1>2, <2>2
    <3>2. \A q \in At("changeLogo", "write") :
            q \in At("changeLogo", "write")' /\ call'[q].old = call[q].old
      BY <1>1, <1>2 DEF IInv, TypeOK, Call, Idle, At
    <3> QED BY <3>1, <3>2 DEF IInv, LogoMissingExplained
  <2> QED BY <2>1, <2>2
<1>15. OwnContent'
  BY <1>1, <1>2, <1>3, <1>4 DEF IInv, TypeOK, OwnContent, Stored, history
<1>16. LeaksExplained'
  BY <1>1, <1>2, <1>3, <1>4 DEF IInv, TypeOK, LeaksExplained, Stored, Held, Carrying, Olds,
     At, Call, Op, Idle, history
<1>17. RawInv'
  BY <1>1, <1>2, <1>3, <1>4, UploadAssumption
     DEF IInv, TypeOK, RawInv, SlotOf, Slot, Call, Op, Idle, history
<1> QED BY <1>4, <1>5, <1>6, <1>7, <1>8, <1>9, <1>10, <1>11, <1>12, <1>13, <1>14, <1>15,
           <1>16, <1>17 DEF IInv

\* A record is created or its URL replaced.
LEMMA WriteStep ==
  ASSUME IInv, NEW r \in Req, Write(r)
  PROVE  IInv'
<1>1. /\ call[r] \in Call /\ call[r].at = "write" /\ SlotOf(call[r].op) \in Slot
      /\ call[r].op \in Creates => field[SlotOf(call[r].op)] = Absent
  BY DEF Write, IInv, TypeOK, Call, Idle, Op, Slot, SlotOf
<1>2. /\ call' = [call EXCEPT ![r] = IF call[r].op = "changePhoto"
                                     THEN [call[r] EXCEPT !.at = "drop"] ELSE Idle]
      /\ field' = [field EXCEPT ![SlotOf(call[r].op)] = call[r].own]
      /\ shown' = shown \cup {call[r].own}
      /\ UNCHANGED <<received, disk, asset, live, raw, typed, replaced, lost, undropped,
                     forsaken, abandoned>>
  BY DEF Write, Proceeds, Ends, Goes, AfterWrite
<1>3. /\ call[r].own \in live /\ call[r].own \in received /\ call[r].own \notin shown \cup Stored \cup Olds(Req) \cup typed
      /\ asset[call[r].own] = call[r].own \/ call[r].own \in replaced
      /\ \A q \in Active \ {r} : call[q].own # call[r].own
  BY <1>1 DEF IInv, TypeOK, CarryingInv, OwnerInv, FreshInv, ContentInv, Carrying, Active,
     Unstored, At
<1>4. overtaken' = IF field[SlotOf(call[r].op)] \in Upload /\ field[SlotOf(call[r].op)] # call[r].old
                    THEN overtaken \cup {field[SlotOf(call[r].op)]} ELSE overtaken
  BY DEF Write
<1>5. TypeOK'
  BY <1>1, <1>2, <1>3, <1>4, UploadAssumption
     DEF IInv, TypeOK, Call, Op, Slot, SlotOf, history, Creates
<1>6. StageInv'
  BY <1>1, <1>2, <1>3, <1>4, <1>5, UploadAssumption
     DEF IInv, TypeOK, StageInv, Call, Idle, Creates
<1>7. OwnerInv'
  BY <1>1, <1>2, <1>3, <1>4, <1>5, UploadAssumption
     DEF IInv, TypeOK, OwnerInv, Active, Call, Idle, Creates
<1>8. FreshInv'
  <2> DEFINE s == SlotOf(call[r].op)
             u == call[r].own
  <2>1. /\ s \in Slot /\ u \in Upload /\ field' = [field EXCEPT ![s] = u] /\ field \in [Slot -> Upload \cup {Absent, Elsewhere}]
        /\ u \in live /\ u \in received /\ u \notin shown \cup Stored \cup Olds(Req) \cup typed
        /\ \A q \in Active \ {r} : call[q].own # u
        /\ received' = received /\ live' = live /\ typed' = typed /\ shown' = shown \cup {u}
    BY <1>1, <1>2, <1>3, <1>4 DEF Call, IInv, TypeOK
  <2>2. /\ \A q \in Req \ {r} : call'[q] = call[q]
        /\ call'[r] = IF call[r].op = "changePhoto" THEN [call[r] EXCEPT !.at = "drop"] ELSE Idle
        /\ Active' \subseteq Active /\ Olds(Req)' \subseteq Olds(Req) /\ Unstored' \subseteq Unstored \ {r}
    BY <1>1, <1>2, <1>3, <1>4, UploadAssumption
       DEF IInv, TypeOK, Call, Idle, Active, Olds, Unstored, At
  <2> HIDE DEF s, u
  <2>3. Stored' \subseteq Stored \cup {u}
    BY <2>1 DEF Stored
  <2>4. \A q \in Unstored' : q \in Active \ {r} /\ call'[q].own = call[q].own
    BY <2>2 DEF Unstored, Active
  <2> QED BY <2>1, <2>2, <2>3, <2>4 DEF IInv, FreshInv
<1>9. SlotInv'
  <2> DEFINE s == SlotOf(call[r].op)
             u == call[r].own
  <2>1. /\ s \in Slot /\ u \in Upload /\ field' = [field EXCEPT ![s] = u] /\ field \in [Slot -> Upload \cup {Absent, Elsewhere}]
        /\ u \in live /\ u \in received /\ u \notin shown \cup Stored \cup Olds(Req) \cup typed
        /\ \A q \in Active \ {r} : call[q].own # u
        /\ received' = received /\ live' = live /\ typed' = typed /\ shown' = shown \cup {u}
    BY <1>1, <1>2, <1>3, <1>4 DEF Call, IInv, TypeOK
  <2>2. /\ \A q \in Req \ {r} : call'[q] = call[q]
        /\ call'[r] = IF call[r].op = "changePhoto" THEN [call[r] EXCEPT !.at = "drop"] ELSE Idle
        /\ Active' \subseteq Active /\ Olds(Req)' \subseteq Olds(Req) /\ Unstored' \subseteq Unstored \ {r}
    BY <1>1, <1>2, <1>3, <1>4, UploadAssumption
       DEF IInv, TypeOK, Call, Idle, Active, Olds, Unstored, At
  <2> HIDE DEF s, u
  <2>3. /\ \A t \in Slot : field[t] # u /\ field'[t] = IF t = s THEN u ELSE field[t]
        /\ typed' = typed
    BY <2>1 DEF Stored
  <2>4. \A q \in Active' : /\ call[q].old \in Upload => call[q].old # u
                           /\ call'[q].old = call[q].old /\ call'[q].op = call[q].op /\ q \in Active
    BY <2>1, <2>2, <1>1 DEF Olds, Active, Idle, Call
  <2> QED BY <2>3, <2>4 DEF IInv, SlotInv
<1>10. DoomedInv'
  <2> DEFINE s == SlotOf(call[r].op)
             u == call[r].own
  <2>1. /\ s \in Slot /\ u \in Upload /\ field' = [field EXCEPT ![s] = u] /\ field \in [Slot -> Upload \cup {Absent, Elsewhere}]
        /\ u \in live /\ u \in received /\ u \notin shown \cup Stored \cup Olds(Req) \cup typed
        /\ \A q \in Active \ {r} : call[q].own # u
        /\ received' = received /\ live' = live /\ typed' = typed /\ shown' = shown \cup {u}
    BY <1>1, <1>2, <1>3, <1>4 DEF Call, IInv, TypeOK
  <2>2. /\ \A q \in Req \ {r} : call'[q] = call[q]
        /\ call'[r] = IF call[r].op = "changePhoto" THEN [call[r] EXCEPT !.at = "drop"] ELSE Idle
        /\ Active' \subseteq Active /\ Olds(Req)' \subseteq Olds(Req) /\ Unstored' \subseteq Unstored \ {r}
    BY <1>1, <1>2, <1>3, <1>4, UploadAssumption
       DEF IInv, TypeOK, Call, Idle, Active, Olds, Unstored, At
  <2> HIDE DEF s, u
  <2>3. \A q \in At("changePhoto", "drop")' :
          /\ call'[q].old = call[q].old /\ (call[q].old \in Upload => call[q].old # u)
          /\ q = r => s = "photo"
          /\ q # r => q \in At("changePhoto", "drop")
    BY <2>1, <2>2, <1>1 DEF At, Olds, Idle, Call, s, SlotOf
  <2>4. "photo" \in Slot /\ field'.photo \in {field.photo, u} /\ (s = "photo" => field'.photo = u)
    BY <2>1 DEF Slot
  <2> QED BY <2>3, <2>4 DEF IInv, DoomedInv
<1>11. CarryingInv'
  BY <1>1, <1>2, <1>3, <1>4, <1>5, UploadAssumption
     DEF IInv, TypeOK, CarryingInv, Carrying, At, Call, Op, Idle, Creates
<1>12. ContentInv'
  BY <1>1, <1>2, <1>3, <1>4, <1>5, UploadAssumption
     DEF IInv, TypeOK, ContentInv, Sending, Carrying, At, Call, Op, Idle, history, Creates
<1>13. DroppedInv'
  BY <1>1, <1>2, <1>3, <1>4, <1>5, UploadAssumption
     DEF IInv, TypeOK, DroppedInv, At, Call, Op, Idle, history, Creates
<1>14. PhotoAvailable'
  BY <1>1, <1>2, <1>3, <1>4, <1>5, UploadAssumption
     DEF IInv, history, TypeOK, PhotoAvailable, Slot, Creates
<1>15. LogoMissingExplained'
  <2> DEFINE s == SlotOf(call[r].op)
             u == call[r].own
  <2>1. /\ s \in Slot /\ u \in Upload /\ field' = [field EXCEPT ![s] = u] /\ field \in [Slot -> Upload \cup {Absent, Elsewhere}]
        /\ u \in live /\ u \in received /\ u \notin shown \cup Stored \cup Olds(Req) \cup typed
        /\ \A q \in Active \ {r} : call[q].own # u
        /\ received' = received /\ live' = live /\ typed' = typed /\ shown' = shown \cup {u}
    BY <1>1, <1>2, <1>3, <1>4 DEF Call, IInv, TypeOK
  <2>2. /\ \A q \in Req \ {r} : call'[q] = call[q]
        /\ call'[r] = IF call[r].op = "changePhoto" THEN [call[r] EXCEPT !.at = "drop"] ELSE Idle
        /\ Active' \subseteq Active /\ Olds(Req)' \subseteq Olds(Req) /\ Unstored' \subseteq Unstored \ {r}
    BY <1>1, <1>2, <1>3, <1>4, UploadAssumption
       DEF IInv, TypeOK, Call, Idle, Active, Olds, Unstored, At
  <2> HIDE DEF s, u
  <2>3. "logo" \in Slot /\ (s = "logo" => field'.logo = u) /\ (s # "logo" => field'.logo = field.logo)
    BY <2>1 DEF Slot
  <2>4. CASE s = "logo"
    BY <2>1, <2>3, <2>4 DEF LogoMissingExplained
  <2>5. CASE s # "logo"
    <3>1. r \notin At("changeLogo", "write")
      BY <2>5 DEF s, SlotOf, At
    <3>2. \A q \in At("changeLogo", "write") : q \in At("changeLogo", "write")' /\ call'[q].old = call[q].old
      BY <2>2, <3>1 DEF At
    <3> QED BY <1>1, <1>2, <1>3, <1>4, <2>1, <2>3, <2>5, <3>2 DEF IInv, LogoMissingExplained
  <2> QED BY <2>4, <2>5
<1>16. OwnContent'
  BY <1>1, <1>2, <1>3, <1>4, <1>5, UploadAssumption
     DEF IInv, TypeOK, OwnContent, Stored, history, Creates
<1>17. LeaksExplained'
  <2> DEFINE s == SlotOf(call[r].op)
             u == call[r].own
  <2>1. /\ s \in Slot /\ u \in Upload /\ field' = [field EXCEPT ![s] = u] /\ field \in [Slot -> Upload \cup {Absent, Elsewhere}]
        /\ u \in live /\ u \in received /\ u \notin shown \cup Stored \cup Olds(Req) \cup typed
        /\ \A q \in Active \ {r} : call[q].own # u
        /\ received' = received /\ live' = live /\ typed' = typed /\ shown' = shown \cup {u}
    BY <1>1, <1>2, <1>3, <1>4 DEF Call, IInv, TypeOK
  <2>2. /\ \A q \in Req \ {r} : call'[q] = call[q]
        /\ call'[r] = IF call[r].op = "changePhoto" THEN [call[r] EXCEPT !.at = "drop"] ELSE Idle
        /\ Active' \subseteq Active /\ Olds(Req)' \subseteq Olds(Req) /\ Unstored' \subseteq Unstored \ {r}
    BY <1>1, <1>2, <1>3, <1>4, UploadAssumption
       DEF IInv, TypeOK, Call, Idle, Active, Olds, Unstored, At
  <2> HIDE DEF s, u
  <2>3. Stored' \subseteq Upload /\ u \in Stored' /\ \A v \in Stored : v = field[s] \/ v \in Stored'
    BY <2>1 DEF Stored
  <2>4. /\ \A q \in Carrying \ {r} : q \in Carrying' /\ call'[q].own = call[q].own
        /\ \A q \in At("changePhoto", "drop") : q \in At("changePhoto", "drop")' /\ call'[q].old = call[q].old
    BY <2>2, <1>1 DEF Carrying, At
  <2>5. Held \subseteq Held' \cup {u}
    BY <2>4 DEF Held, Olds, u
  <2>6. CASE field[s] \in live /\ field[s] = call[r].old
    <3>1. CASE call[r].op = "changePhoto"
      <4>1. r \in At("changePhoto", "drop")' /\ call'[r].old = call[r].old
        BY <2>2, <3>1, <1>1 DEF At, Call
      <4>2. field[s] \in Held'
        BY <4>1, <2>6 DEF Held, Olds, IInv, TypeOK
      <4> QED BY <1>1, <1>2, <1>3, <1>4, <2>1, <2>3, <2>5, <4>2 DEF IInv, LeaksExplained
    <3>2. CASE call[r].op \in {"changeLogo", "changeDocument"}
      <4>1. field[s] \in undropped'
        BY <1>1, <1>2, <1>3, <1>4, <2>6, <3>2 DEF IInv, DroppedInv, At
      <4> QED BY <1>1, <1>2, <1>3, <1>4, <2>1, <2>3, <2>5, <4>1 DEF IInv, LeaksExplained
    <3>3. CASE call[r].op \in Creates
      BY <1>1, <1>2, <1>3, <1>4, <2>6, <3>3, UploadAssumption DEF s, IInv, TypeOK
    <3> QED BY <3>1, <3>2, <3>3, <1>1 DEF Call, Op, Creates
  <2>7. CASE field[s] \in live /\ field[s] # call[r].old
    <3>1. field[s] \in overtaken'
      BY <1>1, <1>2, <1>3, <1>4, <2>7 DEF s, IInv, TypeOK
    <3> QED BY <1>1, <1>2, <1>3, <1>4, <2>1, <2>3, <2>5, <3>1 DEF IInv, LeaksExplained
  <2>8. CASE field[s] \notin live
    BY <1>1, <1>2, <1>3, <1>4, <2>1, <2>3, <2>5, <2>8 DEF IInv, LeaksExplained
  <2> QED BY <2>6, <2>7, <2>8
<1>18. RawInv'
  BY <1>1, <1>2, <1>3, <1>4, <1>5, UploadAssumption
     DEF IInv, TypeOK, RawInv, SlotOf, Slot, Call, Op, Idle, history
<1> QED BY <1>5, <1>6, <1>7, <1>8, <1>9, <1>10, <1>11, <1>12, <1>13, <1>14, <1>15, <1>16,
           <1>17, <1>18 DEF IInv

\* A write fails.
LEMMA WriteFailsStep ==
  ASSUME IInv, NEW r \in Req, WriteFails(r)
  PROVE  IInv'
<1>1. call[r] \in Call /\ call[r].at = "write"
  BY DEF WriteFails, IInv, TypeOK, Call, Idle, Op, Slot, SlotOf
<1>2. /\ call' = [call EXCEPT ![r] = Idle]
      /\ UNCHANGED <<received, disk, asset, live, raw, field, shown, typed, replaced, overtaken,
                     abandoned>>
  BY DEF WriteFails, Ends, Goes
<1>3. /\ lost' = lost \cup {call[q].own : q \in {r} \cap Carrying}
      /\ undropped' = undropped \cup Olds({r} \cap At("changePhoto", "drop"))
      /\ forsaken' = forsaken \cup Olds({r} \cap At("changeLogo", "write"))
  BY DEF WriteFails, Leave
<1>4. TypeOK'
  <2>1. /\ {call[q].own : q \in {r} \cap Carrying} \subseteq Upload
        /\ Olds({r} \cap At("changePhoto", "drop")) \subseteq Upload
        /\ Olds({r} \cap At("changeLogo", "write")) \subseteq Upload
    BY DEF IInv, TypeOK, Call, Idle, Carrying, At, Olds
  <2>2. /\ {live, raw, shown, typed, replaced, overtaken, abandoned}' \subseteq SUBSET Upload
        /\ {lost, undropped, forsaken}' \subseteq SUBSET Upload
    BY <1>2, <1>3, <2>1 DEF IInv, TypeOK
  <2> QED BY <1>1, <1>2, <2>2 DEF IInv, TypeOK
<1>5. StageInv'
  BY <1>1, <1>2, <1>3, <1>4 DEF IInv, TypeOK, StageInv, Call, Idle, Creates
<1>6. OwnerInv'
  BY <1>1, <1>2, <1>3, <1>4 DEF IInv, TypeOK, OwnerInv, Active, Call, Idle
<1>7. FreshInv'
  BY <1>1, <1>2, <1>3, <1>4, UploadAssumption DEF IInv, history, TypeOK, FreshInv, Active, Unstored,
     At, Stored, Olds, SlotOf, Slot, Call, Op, Idle
<1>8. SlotInv'
  BY <1>1, <1>2, <1>3, <1>4, UploadAssumption
     DEF IInv, history, TypeOK, SlotInv, Active, SlotOf, Slot, Call, Op, Idle
<1>9. DoomedInv'
  BY <1>1, <1>2, <1>3, <1>4 DEF IInv, history, TypeOK, DoomedInv, At, Call, Op, Idle
<1>10. CarryingInv'
  BY <1>1, <1>2, <1>3, <1>4 DEF IInv, TypeOK, CarryingInv, Carrying, At, Call, Op, Idle
<1>11. ContentInv'
  BY <1>1, <1>2, <1>3, <1>4
     DEF IInv, TypeOK, ContentInv, Sending, Carrying, At, Call, Op, Idle, history
<1>12. DroppedInv'
  BY <1>1, <1>2, <1>3, <1>4 DEF IInv, TypeOK, DroppedInv, At, Call, Op, Idle, history
<1>13. PhotoAvailable'
  BY <1>1, <1>2, <1>3, <1>4 DEF IInv, history, TypeOK, PhotoAvailable, Slot
<1>14. LogoMissingExplained'
  BY <1>1, <1>2, <1>3, <1>4
     DEF IInv, TypeOK, LogoMissingExplained, Olds, At, Call, Op, Idle, history
<1>15. OwnContent'
  BY <1>1, <1>2, <1>3, <1>4 DEF IInv, TypeOK, OwnContent, Stored, history
<1>16. LeaksExplained'
  BY <1>1, <1>2, <1>3, <1>4 DEF IInv, TypeOK, LeaksExplained, Stored, Held, Carrying, Olds,
     At, Call, Op, Idle, history
<1>17. RawInv'
  BY <1>1, <1>2, <1>3, <1>4, UploadAssumption
     DEF IInv, TypeOK, RawInv, SlotOf, Slot, Call, Op, Idle, history
<1> QED BY <1>4, <1>5, <1>6, <1>7, <1>8, <1>9, <1>10, <1>11, <1>12, <1>13, <1>14, <1>15,
           <1>16, <1>17 DEF IInv

\* A user without a photo.
LEMMA RegisterPlainStep ==
  ASSUME IInv, RegisterPlain
  PROVE  IInv'
<1>1. /\ field.photo = Absent /\ field' = [field EXCEPT !.photo = Elsewhere]
      /\ UNCHANGED <<received, disk, asset, live, raw, call, history>>
  BY DEF RegisterPlain
<1>2. TypeOK'
  BY <1>1, UploadAssumption DEF IInv, TypeOK, Call, Op, Slot, SlotOf, history
<1>3. StageInv'
  BY <1>1, <1>2, UploadAssumption DEF IInv, TypeOK, StageInv, Call, Idle, Creates
<1>4. OwnerInv'
  BY <1>1, <1>2, UploadAssumption DEF IInv, TypeOK, OwnerInv, Active, Call, Idle
<1>5. FreshInv'
  BY <1>1, <1>2, UploadAssumption DEF IInv, history, TypeOK, FreshInv, Active, Unstored, At, Stored,
     Olds, SlotOf, Slot, Call, Op, Idle
<1>6. SlotInv'
  BY <1>1, <1>2, UploadAssumption
     DEF IInv, history, TypeOK, SlotInv, Active, SlotOf, Slot, Call, Op, Idle
<1>7. DoomedInv'
  BY <1>1, <1>2, UploadAssumption DEF IInv, history, TypeOK, DoomedInv, At, Call, Op, Idle
<1>8. CarryingInv'
  BY <1>1, <1>2, UploadAssumption
     DEF IInv, TypeOK, CarryingInv, Carrying, At, Call, Op, Idle
<1>9. ContentInv'
  BY <1>1, <1>2, UploadAssumption
     DEF IInv, TypeOK, ContentInv, Sending, Carrying, At, Call, Op, Idle, history
<1>10. DroppedInv'
  BY <1>1, <1>2, UploadAssumption DEF IInv, TypeOK, DroppedInv, At, Call, Op, Idle, history
<1>11. PhotoAvailable'
  BY <1>1, <1>2, UploadAssumption DEF IInv, history, TypeOK, PhotoAvailable, Slot
<1>12. LogoMissingExplained'
  BY <1>1, <1>2, UploadAssumption
     DEF IInv, TypeOK, LogoMissingExplained, Olds, At, Call, Op, Idle, history
<1>13. OwnContent'
  BY <1>1, <1>2, UploadAssumption DEF IInv, TypeOK, OwnContent, Stored, history
<1>14. LeaksExplained'
  BY <1>1, <1>2, UploadAssumption DEF IInv, TypeOK, LeaksExplained, Stored, Held, Carrying,
     Olds, At, Call, Op, Idle, history
<1>15. RawInv'
  BY <1>1, <1>2, UploadAssumption
     DEF IInv, TypeOK, RawInv, SlotOf, Slot, Call, Op, Idle, history
<1> QED BY <1>2, <1>3, <1>4, <1>5, <1>6, <1>7, <1>8, <1>9, <1>10, <1>11, <1>12, <1>13,
           <1>14, <1>15 DEF IInv

\* A company is given a URL as text.
LEMMA TypeLogoStep ==
  ASSUME IInv, NEW url \in shown \cup {Elsewhere}, TypeLogo(url),
         field.logo \in Upload => field.logo \in overtaken', overtaken \subseteq overtaken',
         overtaken' \subseteq Upload
  PROVE  IInv'
<1>1. /\ field' = [field EXCEPT !.logo = url]
      /\ typed' = typed \cup ({url} \cap Upload)
      /\ UNCHANGED <<received, disk, asset, live, raw, call, shown, replaced, lost, undropped,
                     forsaken, abandoned>>
      /\ shown \subseteq Upload
      /\ field.logo \in Upload => field.logo \in overtaken'
      /\ overtaken \subseteq overtaken' /\ overtaken' \subseteq Upload
  BY DEF TypeLogo, IInv, TypeOK
<1>2. TypeOK'
  BY <1>1, UploadAssumption DEF IInv, TypeOK, Call, Op, Slot, SlotOf, history
<1>3. StageInv'
  BY <1>1, <1>2, UploadAssumption DEF IInv, TypeOK, StageInv, Call, Idle, Creates
<1>4. OwnerInv'
  BY <1>1, <1>2, UploadAssumption DEF IInv, TypeOK, OwnerInv, Active, Call, Idle
<1>5. FreshInv'
  BY <1>1, <1>2, UploadAssumption DEF IInv, history, TypeOK, FreshInv, Active, Unstored, At, Stored,
     Olds, SlotOf, Slot, Call, Op, Idle
<1>6. SlotInv'
  BY <1>1, <1>2, UploadAssumption
     DEF IInv, history, TypeOK, SlotInv, Active, SlotOf, Slot, Call, Op, Idle
<1>7. DoomedInv'
  BY <1>1, <1>2, UploadAssumption DEF IInv, history, TypeOK, DoomedInv, At, Call, Op, Idle
<1>8. CarryingInv'
  BY <1>1, <1>2, UploadAssumption
     DEF IInv, TypeOK, CarryingInv, Carrying, At, Call, Op, Idle
<1>9. ContentInv'
  BY <1>1, <1>2, UploadAssumption
     DEF IInv, TypeOK, ContentInv, Sending, Carrying, At, Call, Op, Idle, history
<1>10. DroppedInv'
  BY <1>1, <1>2, UploadAssumption DEF IInv, TypeOK, DroppedInv, At, Call, Op, Idle, history
<1>11. PhotoAvailable'
  BY <1>1, <1>2, UploadAssumption DEF IInv, history, TypeOK, PhotoAvailable, Slot
<1>12. LogoMissingExplained'
  BY <1>1, <1>2, UploadAssumption
     DEF IInv, TypeOK, LogoMissingExplained, Olds, At, Call, Op, Idle, history
<1>13. OwnContent'
  <2>1. Stored' \subseteq Stored \cup shown
    BY <1>1, UploadAssumption DEF IInv, TypeOK, Stored, Slot
  <2> QED BY <1>1, <2>1 DEF IInv, OwnContent, ContentInv
<1>14. LeaksExplained'
  BY <1>1, <1>2, UploadAssumption DEF IInv, TypeOK, LeaksExplained, Stored, Held, Carrying,
     Olds, At, Call, Op, Idle, history
<1>15. RawInv'
  BY <1>1, <1>2, UploadAssumption
     DEF IInv, TypeOK, RawInv, SlotOf, Slot, Call, Op, Idle, history
<1> QED BY <1>2, <1>3, <1>4, <1>5, <1>6, <1>7, <1>8, <1>9, <1>10, <1>11, <1>12, <1>13,
           <1>14, <1>15 DEF IInv

\* A company is registered or updated without a file.
LEMMA LogoUrlStep ==
  ASSUME IInv, NEW url \in shown \cup {Elsewhere}, CreateCompany(url) \/ SetLogoUrl(url)
  PROVE  IInv'
<1>1. CASE CreateCompany(url)
  BY <1>1, TypeLogoStep, UploadAssumption DEF CreateCompany, IInv, TypeOK
<1>2. CASE SetLogoUrl(url)
  BY <1>2, TypeLogoStep DEF SetLogoUrl, IInv, TypeOK
<1> QED BY <1>1, <1>2

\* A company is deleted.
LEMMA DeleteCompanyStep ==
  ASSUME IInv, DeleteCompany
  PROVE  IInv'
<1>1. /\ field' = [field EXCEPT !.logo = Absent]
      /\ abandoned' = abandoned \cup ({field.logo} \cap Upload)
      /\ call' = [r \in Req |-> IF call[r].op = "changeLogo" THEN [call[r] EXCEPT !.gone = TRUE]
                            ELSE call[r]]
      /\ UNCHANGED <<received, disk, asset, live, raw, shown, typed, replaced, lost, overtaken,
                     undropped, forsaken>>
  BY DEF DeleteCompany
<1>2. TypeOK'
  <2>1. \A q \in Req : call'[q] \in Call \cup {Idle}
    <3> SUFFICES ASSUME NEW q \in Req PROVE call'[q] \in Call \cup {Idle}
      OBVIOUS
    <3>1. CASE call[q] = Idle
      BY <1>1, <3>1 DEF Idle
    <3>2. CASE call[q] \in Call
      BY <1>1, <3>2 DEF Call
    <3> QED BY <3>1, <3>2 DEF IInv, TypeOK
  <2>2. field' \in [Slot -> Upload \cup {Absent, Elsewhere}]
    BY <1>1 DEF IInv, TypeOK
  <2>3. {field.logo} \cap Upload \subseteq Upload
    OBVIOUS
  <2> QED BY <1>1, <2>1, <2>2, <2>3 DEF IInv, TypeOK
<1>3. StageInv'
  BY <1>1, <1>2, UploadAssumption DEF IInv, TypeOK, StageInv, Call, Idle, Creates
<1>4. OwnerInv'
  BY <1>1, <1>2, UploadAssumption DEF IInv, TypeOK, OwnerInv, Active, Call, Idle
<1>5. FreshInv'
  BY <1>1, <1>2, UploadAssumption DEF IInv, history, TypeOK, FreshInv, Active, Unstored, At, Stored,
     Olds, SlotOf, Slot, Call, Op, Idle
<1>6. SlotInv'
  BY <1>1, <1>2, UploadAssumption
     DEF IInv, history, TypeOK, SlotInv, Active, SlotOf, Slot, Call, Op, Idle
<1>7. DoomedInv'
  BY <1>1, <1>2, UploadAssumption DEF IInv, history, TypeOK, DoomedInv, At, Call, Op, Idle
<1>8. CarryingInv'
  BY <1>1, <1>2, UploadAssumption
     DEF IInv, TypeOK, CarryingInv, Carrying, At, Call, Op, Idle
<1>9. ContentInv'
  BY <1>1, <1>2, UploadAssumption
     DEF IInv, TypeOK, ContentInv, Sending, Carrying, At, Call, Op, Idle, history
<1>10. DroppedInv'
  BY <1>1, <1>2, UploadAssumption DEF IInv, TypeOK, DroppedInv, At, Call, Op, Idle, history
<1>11. PhotoAvailable'
  BY <1>1, <1>2, UploadAssumption DEF IInv, history, TypeOK, PhotoAvailable, Slot
<1>12. LogoMissingExplained'
  BY <1>1, <1>2, UploadAssumption
     DEF IInv, TypeOK, LogoMissingExplained, Olds, At, Call, Op, Idle, history
<1>13. OwnContent'
  BY <1>1, <1>2, UploadAssumption DEF IInv, TypeOK, OwnContent, Stored, history
<1>14. LeaksExplained'
  <2>1. Stored \subseteq Stored' \cup abandoned'
    BY <1>1 DEF IInv, TypeOK, Stored, Slot
  <2>2. \A q \in Req : /\ call'[q].at = call[q].at /\ call'[q].op = call[q].op
                        /\ call'[q].own = call[q].own /\ call'[q].old = call[q].old
    BY <1>1 DEF IInv, TypeOK, Call, Idle
  <2>3. Held' = Held
    BY <2>2 DEF Held, Carrying, Olds, At
  <2> QED BY <1>1, <2>1, <2>3 DEF IInv, LeaksExplained
<1>15. RawInv'
  BY <1>1, <1>2, UploadAssumption
     DEF IInv, TypeOK, RawInv, SlotOf, Slot, Call, Op, Idle, history
<1> QED BY <1>2, <1>3, <1>4, <1>5, <1>6, <1>7, <1>8, <1>9, <1>10, <1>11, <1>12, <1>13,
           <1>14, <1>15 DEF IInv

\* The process restarts.
LEMMA CrashStep ==
  ASSUME IInv, Crash
  PROVE  IInv'
<1>1. /\ call' = [r \in Req |-> Idle]
      /\ UNCHANGED <<received, disk, asset, live, raw, field, shown, typed, replaced, overtaken,
                     abandoned>>
  BY DEF Crash
<1>2. /\ lost' = lost \cup {call[q].own : q \in Req \cap Carrying}
      /\ undropped' = undropped \cup Olds(Req \cap At("changePhoto", "drop"))
      /\ forsaken' = forsaken \cup Olds(Req \cap At("changeLogo", "write"))
  BY DEF Crash, Leave
<1>3. TypeOK'
  <2>1. /\ {call[q].own : q \in Req \cap Carrying} \subseteq Upload
        /\ Olds(Req \cap At("changePhoto", "drop")) \subseteq Upload
        /\ Olds(Req \cap At("changeLogo", "write")) \subseteq Upload
    BY DEF IInv, TypeOK, Call, Idle, Carrying, At, Olds
  <2>2. /\ {live, raw, shown, typed, replaced, overtaken, abandoned}' \subseteq SUBSET Upload
        /\ {lost, undropped, forsaken}' \subseteq SUBSET Upload
    BY <1>1, <1>2, <2>1 DEF IInv, TypeOK
  <2> QED BY <1>1, <2>2 DEF IInv, TypeOK
<1>4. StageInv'
  BY <1>1, <1>2, <1>3 DEF IInv, TypeOK, StageInv, Call, Idle, Creates
<1>5. OwnerInv'
  BY <1>1, <1>2, <1>3 DEF IInv, TypeOK, OwnerInv, Active, Call, Idle
<1>6. FreshInv'
  BY <1>1, <1>2, <1>3, UploadAssumption DEF IInv, history, TypeOK, FreshInv, Active, Unstored, At,
     Stored, Olds, SlotOf, Slot, Call, Op, Idle
<1>7. SlotInv'
  BY <1>1, <1>2, <1>3, UploadAssumption
     DEF IInv, history, TypeOK, SlotInv, Active, SlotOf, Slot, Call, Op, Idle
<1>8. DoomedInv'
  BY <1>1, <1>2, <1>3 DEF IInv, history, TypeOK, DoomedInv, At, Call, Op, Idle
<1>9. CarryingInv'
  BY <1>1, <1>2, <1>3 DEF IInv, TypeOK, CarryingInv, Carrying, At, Call, Op, Idle
<1>10. ContentInv'
  BY <1>1, <1>2, <1>3
     DEF IInv, TypeOK, ContentInv, Sending, Carrying, At, Call, Op, Idle, history
<1>11. DroppedInv'
  BY <1>1, <1>2, <1>3 DEF IInv, TypeOK, DroppedInv, At, Call, Op, Idle, history
<1>12. PhotoAvailable'
  BY <1>1, <1>2, <1>3 DEF IInv, history, TypeOK, PhotoAvailable, Slot
<1>13. LogoMissingExplained'
  BY <1>1, <1>2, <1>3
     DEF IInv, TypeOK, LogoMissingExplained, Olds, At, Call, Op, Idle, history
<1>14. OwnContent'
  BY <1>1, <1>2, <1>3 DEF IInv, TypeOK, OwnContent, Stored, history
<1>15. LeaksExplained'
  BY <1>1, <1>2, <1>3 DEF IInv, TypeOK, LeaksExplained, Stored, Held, Carrying, Olds, At,
     Call, Op, Idle, history
<1>16. RawInv'
  BY <1>1, <1>2, <1>3, UploadAssumption
     DEF IInv, TypeOK, RawInv, SlotOf, Slot, Call, Op, Idle, history
<1> QED BY <1>3, <1>4, <1>5, <1>6, <1>7, <1>8, <1>9, <1>10, <1>11, <1>12, <1>13, <1>14,
           <1>15, <1>16 DEF IInv

\* A step that changes nothing.
LEMMA Stutter ==
  ASSUME IInv, UNCHANGED vars PROVE IInv'
  BY DEF vars, history, IInv, TypeOK, StageInv, OwnerInv, FreshInv, SlotInv, DoomedInv,
         RawInv, CarryingInv, ContentInv, DroppedInv, PhotoAvailable, LogoMissingExplained,
         OwnContent, LeaksExplained, Active, Unstored, Sending, Carrying, At, Olds,
         Stored, Held

-----------------------------------------------------------------------------
\* Every reachable state satisfies IInv.
THEOREM Inductive == Spec => []IInv
<1>1. IInv /\ [Next]_vars => IInv'
  <2> SUFFICES ASSUME IInv, [Next]_vars PROVE IInv'
    OBVIOUS
  <2>1. ASSUME NEW r \in Req, Handle(r) PROVE IInv'
    BY <2>1, ReceiveStep, LookStep, RefuseStep, SendStep, UploadedStep, UploadFailsStep,
       DropStep, WriteStep, WriteFailsStep DEF Handle
  <2> QED BY <2>1, RegisterPlainStep, LogoUrlStep, DeleteCompanyStep, CrashStep, Stutter DEF Next
<1> QED BY InitStep, <1>1, PTL DEF Spec

-----------------------------------------------------------------------------
\* The files, the assets, the records and the calls stay of their types.
THEOREM TypeCorrect == Spec => []TypeOK
<1>1. IInv => TypeOK
  BY DEF IInv
<1> QED BY <1>1, Inductive, PTL

\* No two replacements, creations or restarts make a user's photo or a
\* student's document a URL of nothing: unless its URL was typed as a logo, an
\* asset is only destroyed by the call that read it from the record before it
\* stored another there (SlotInv, DoomedInv), an asset is stored once
\* (FreshInv), and a document is never destroyed (RawInv).
THEOREM RecordsShowWhatExists == Spec => []PhotoAvailable
<1>1. IInv => PhotoAvailable
  BY DEF IInv
<1> QED BY <1>1, Inductive, PTL

\* An uploaded logo nobody typed the URL of is gone, in a company that shows
\* it, only through an update that destroyed it and has not written, or never
\* will.
THEOREM LogosGoneAreForsaken == Spec => []LogoMissingExplained
<1>1. IInv => LogoMissingExplained
  BY DEF IInv
<1> QED BY <1>1, Inductive, PTL

\* A record shows the file of the request that made its asset, unless a later
\* request overwrote that file before it was sent.
THEOREM RecordsShowTheirFile == Spec => []OwnContent
<1>1. IInv => OwnContent
  BY DEF IInv
<1> QED BY <1>1, Inductive, PTL

\* Every asset nothing refers to was lost by a call that ended early, replaced
\* by one that destroys another or none, kept by Cloudinary, or left by a
\* company that was deleted.
THEOREM NoUnexplainedLeak == Spec => []LeaksExplained
<1>1. IInv => LeaksExplained
  BY DEF IInv
<1> QED BY <1>1, Inductive, PTL

-----------------------------------------------------------------------------
(* When requests are handled one at a time                                 *)

\* A request that arrives alone finds no other that has yet to send its file,
\* and no other step replaces a file.
LEMMA NothingReplaced ==
  ASSUME IInv, Serial', replaced = {}, [Next]_vars
  PROVE  replaced' = {}
<1>1. ASSUME NEW r \in Req, NEW op \in Op, NEW name \in Name, NEW u \in Upload,
             Receive(r, op, name, u)
      PROVE  replaced' = {}
  <2>1. call[r] = Idle /\ call'[r].at # "idle"
    BY <1>1 DEF Receive, Goes, Begin, IInv, TypeOK
  <2>2. \A q \in Req \ {r} : call'[q] = call[q]
    BY <1>1 DEF Receive, Goes, IInv, TypeOK
  <2>3. Sending = {}
    <3>1. \A q \in Sending : q \in Req \ {r} /\ call[q].at # "idle"
      BY <2>1 DEF Sending, Idle
    <3>2. \A q \in Sending : call'[q].at # "idle" /\ q # r
      BY <2>2, <3>1
    <3> QED BY <2>1, <3>1, <3>2 DEF Serial, Active
  <2>4. {call[q].own : q \in {p \in Sending : call[p].name = name}} = {}
    BY <2>3
  <2> QED BY <1>1, <2>4 DEF Receive
<1>2. ASSUME NEW r \in Req, Handle(r) PROVE replaced' = {}
  BY <1>1, <1>2 DEF Handle, Look, Refuse, Send, Uploaded, UploadFails, Drop, Write,
     WriteFails, history
<1> QED BY <1>2 DEF Next, RegisterPlain, CreateCompany, SetLogoUrl, TypeLogo, DeleteCompany,
     Crash, vars, history

\* While requests are handled one at a time, every record shows the very file
\* of the request that made its asset.
THEOREM SerialOwnFile == Spec /\ []Serial => []OwnFile
<1> DEFINE Unreplaced == replaced = {}
<1>1. Init => Unreplaced
  BY DEF Init
<1>2. IInv /\ Serial' /\ Unreplaced /\ [Next]_vars => Unreplaced'
  BY NothingReplaced
<1>3. OwnContent /\ Unreplaced => OwnFile
  BY DEF OwnContent, OwnFile
<1> HIDE DEF Unreplaced
<1> QED BY <1>1, <1>2, <1>3, Inductive, RecordsShowTheirFile, PTL DEF Spec

=============================================================================
