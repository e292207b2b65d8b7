------------------------------- MODULE Uploads -------------------------------
(***************************************************************************)
(* Uploaded files: the multer middleware that saves them on local disk,    *)
(* utils/cloudinary.js that moves them to the cloud, and the handlers that *)
(* keep the URL of one: RegisterUser and UpdateProfilePhoto (a user's      *)
(* photo), CreateCompany, UpdateCompany and DeleteCompany (a company's     *)
(* logo), CreateStudentProfile and UpdateStudentDetails (a student's       *)
(* document).  One record of each kind at a time.                          *)
(*                                                                         *)
(* An upload is the file of one request.  The asset Cloudinary makes of it *)
(* goes by the same number, whatever file it was made of.                  *)
(***************************************************************************)
CONSTANTS
  Req,        \* concurrent calls
  Name,       \* names of files on the clients
  Upload,     \* the uploads of a run: bounds the model
  Absent,     \* there is no such record
  Elsewhere,  \* a URL elsewhere, the default avatar, or none
  None

ASSUME UploadAssumption ==
  /\ {Absent, Elsewhere, None} \cap Upload = {}
  /\ Absent # Elsewhere

Op     == {"register", "changePhoto", "createProfile", "changeDocument", "changeLogo"}
Slot   == {"photo", "document", "logo"}

VARIABLES
  received,   \* the files received so far
  disk,       \* ./public: the file saved under each name
  asset,      \* the file each asset was made of, once its upload began
  live,       \* assets Cloudinary has
  raw,        \* assets uploaded as raw
  field,      \* the asset of each record
  call,
  shown,      \* history: assets a record has named
  typed,      \* history: assets whose URL a company was given as text
  replaced,   \* history: uploads whose file was overwritten before it was sent
  lost,       \* history: assets whose call ended without storing them
  overtaken,  \* history: assets whose URL was replaced by a call that did not read it
  undropped,  \* history: assets Cloudinary did not destroy
  forsaken,   \* history: logos destroyed by a call that stored no other
  abandoned   \* history: logos of companies that were deleted

history == <<shown, typed, replaced, lost, overtaken, undropped, forsaken, abandoned>>

vars == <<received, disk, asset, live, raw, field, call, history>>

\* gone: the company the call is about was deleted.
Idle == [at |-> "idle", op |-> "none", name |-> None, own |-> None, old |-> Absent,
         gone |-> FALSE]

SlotOf(op) ==
  CASE op \in {"register", "changePhoto"} -> "photo"
    [] op \in {"createProfile", "changeDocument"} -> "document"
    [] op = "changeLogo" -> "logo"

Creates == {"register", "createProfile"}

(* The order of a handler's awaits: look (the record is read), send and    *)
(* wait (the upload), drop (the old asset is destroyed), write.            *)

Begin(op) == IF op = "changePhoto" THEN "send" ELSE "look"

AfterLook(op) == IF op = "changePhoto" THEN "write" ELSE "send"

AfterUpload(op) ==
  CASE op = "changePhoto" -> "look"
    [] op \in Creates -> "write"
    [] op \in {"changeDocument", "changeLogo"} -> "drop"

AfterDrop(op) == IF op = "changePhoto" THEN "idle" ELSE "write"

\* Mutant: a replaced photo is kept.
AfterWriteKeeps(op) == "idle"

AfterWrite(op) == IF op = "changePhoto" THEN "drop" ELSE "idle"

Goes(r, c) == call' = [call EXCEPT ![r] = c]

Ends(r) == Goes(r, Idle)

Proceeds(r, to) ==
  IF to = "idle" THEN Ends(r) ELSE Goes(r, [call[r] EXCEPT !.at = to])

At(op, at) == {r \in Req : call[r].op = op /\ call[r].at = at}

\* Calls that have yet to send the file they saved.
Sending ==
  {r \in Req : \/ call[r].at = "send"
               \/ call[r].at = "look" /\ call[r].op # "changePhoto"}

\* Calls that have made an asset and not stored it.
Carrying ==
  {r \in Req : \/ call[r].at = "write"
               \/ r \in At("changePhoto", "look")
               \/ r \in At("changeLogo", "drop") \cup At("changeDocument", "drop")}

-----------------------------------------------------------------------------
Init ==
  /\ received = {}
  /\ disk = [n \in Name |-> None]
  /\ asset = [u \in Upload |-> None]
  /\ live = {} /\ raw = {}
  /\ field = [s \in Slot |-> Absent]
  /\ call = [r \in Req |-> Idle]
  /\ shown = {} /\ typed = {} /\ replaced = {} /\ lost = {}
  /\ overtaken = {} /\ undropped = {} /\ forsaken = {} /\ abandoned = {}

\* Mutant: a file that is already there is kept.
SavedIfNew(name, u) == IF disk[name] = None THEN u ELSE disk[name]

\* What is on disk under a name once upload u was saved there.
Saved(name, u) == u

\* multer saves the file under the name it has on the client.  The photo of
\* a user who is signed in: there is a record.
Receive(r, op, name, u) ==
  /\ call[r] = Idle
  /\ u \notin received
  /\ op = "changePhoto" => field.photo # Absent
  /\ received' = received \cup {u}
  /\ disk' = [disk EXCEPT ![name] = Saved(name, u)]
  /\ Goes(r, [at |-> Begin(op), op |-> op, name |-> name, own |-> u, old |-> Absent,
              gone |-> FALSE])
  /\ replaced' = replaced \cup {call[q].own : q \in {p \in Sending : call[p].name = name}}
  /\ UNCHANGED <<asset, live, raw, field, shown, typed, lost, overtaken, undropped,
                 forsaken, abandoned>>

\* The record is read.
Look(r) ==
  LET f == field[SlotOf(call[r].op)] IN
  /\ call[r].at = "look" /\ ~call[r].gone
  /\ call[r].op \in Creates <=> f = Absent
  /\ Goes(r, [call[r] EXCEPT !.at = AfterLook(call[r].op), !.old = f])
  /\ UNCHANGED <<received, disk, asset, live, raw, field, history>>

\* A handler that looks first refuses: the record exists already, there is
\* none, a field is missing or the caller may not.  The file stays on disk.
Refuse(r) ==
  /\ call[r].at = "look"
  /\ call[r].op # "changePhoto"
  /\ Ends(r)
  /\ UNCHANGED <<received, disk, asset, live, raw, field, history>>

\* The upload reads whatever the disk has under the name.  Documents are raw.
Send(r) ==
  /\ call[r].at = "send"
  /\ asset' = [asset EXCEPT ![call[r].own] = disk[call[r].name]]
  /\ raw' = IF SlotOf(call[r].op) = "document" THEN raw \cup {call[r].own} ELSE raw
  /\ Proceeds(r, "wait")
  /\ UNCHANGED <<received, disk, live, field, history>>

\* Both ends of an upload remove the file of that name, whoever saved it.
Unlink(r) == disk' = [disk EXCEPT ![call[r].name] = None]

Uploaded(r) ==
  /\ call[r].at = "wait"
  /\ asset[call[r].own] # None
  /\ live' = live \cup {call[r].own}
  /\ Unlink(r)
  /\ Proceeds(r, AfterUpload(call[r].op))
  /\ UNCHANGED <<received, asset, raw, field, history>>

\* Mutant: an update of a company goes on as if the upload had not failed.
AfterFailureGoesOn(op) == IF op = "changeLogo" THEN "drop" ELSE "idle"

\* Handlers answer 500, except UpdateCompany, which leaves the logo as it is
\* or goes on as SetLogoUrl.
AfterFailure(op) == "idle"

\* There was no file, the upload failed, or Cloudinary made the asset and
\* its answer was lost.
UploadFails(r) ==
  /\ call[r].at = "wait"
  /\ \/ UNCHANGED <<live, lost>>
     \/ /\ asset[call[r].own] # None
        /\ live' = live \cup {call[r].own}
        /\ lost' = lost \cup {call[r].own}
  /\ Unlink(r)
  /\ Proceeds(r, AfterFailure(call[r].op))
  /\ UNCHANGED <<received, asset, raw, field, shown, typed, replaced, overtaken, undropped,
                 forsaken, abandoned>>

\* Mutant: the asset the record names by now.
DoomedLatest(r) == field[SlotOf(call[r].op)]

\* The asset the record named when it was read.
Doomed(r) == call[r].old

\* An asset that is destroyed or that Cloudinary keeps: always one that is
\* raw, since destroy is asked for an image of its name.
Drop(r) ==
  /\ call[r].at = "drop"
  /\ \/ /\ Doomed(r) \in Upload \ raw
        /\ live' = live \ {Doomed(r)}
        /\ UNCHANGED undropped
     \/ undropped' = undropped \cup ({Doomed(r)} \cap Upload) /\ UNCHANGED live
  /\ Proceeds(r, AfterDrop(call[r].op))
  /\ UNCHANGED <<received, disk, asset, raw, field, shown, typed, replaced, lost, overtaken,
                 forsaken, abandoned>>

\* The record is created, unless another call created it (unique indexes),
\* or the URL replaced, unless the company was deleted.
Write(r) ==
  LET s == SlotOf(call[r].op) IN
  /\ call[r].at = "write" /\ ~call[r].gone
  /\ call[r].op \in Creates => field[s] = Absent
  /\ field' = [field EXCEPT ![s] = call[r].own]
  /\ shown' = shown \cup {call[r].own}
  /\ overtaken' = IF field[s] \in Upload /\ field[s] # call[r].old
                  THEN overtaken \cup {field[s]} ELSE overtaken
  /\ Proceeds(r, AfterWrite(call[r].op))
  /\ UNCHANGED <<received, disk, asset, live, raw, typed, replaced, lost, undropped, forsaken,
                 abandoned>>

\* The assets the calls S name as the old one.
Olds(S) == {call[r].old : r \in S} \cap Upload

\* What is left behind when the calls S end here.
Leave(S) ==
  /\ lost' = lost \cup {call[r].own : r \in S \cap Carrying}
  /\ undropped' = undropped \cup Olds(S \cap At("changePhoto", "drop"))
  /\ forsaken' = forsaken \cup Olds(S \cap At("changeLogo", "write"))

\* The database refuses or fails, or (UpdateCompany) the company is gone or
\* its new e-mail address, which is only looked up here, is taken.
WriteFails(r) ==
  /\ call[r].at = "write"
  /\ Leave({r})
  /\ Ends(r)
  /\ UNCHANGED <<received, disk, asset, live, raw, field, shown, typed, replaced, overtaken,
                 abandoned>>

\* RegisterUser without a file: the default avatar.
RegisterPlain ==
  /\ field.photo = Absent
  /\ field' = [field EXCEPT !.photo = Elsewhere]
  /\ UNCHANGED <<received, disk, asset, live, raw, call, history>>

\* The URL a company can be given as text: one elsewhere, or one it read
\* somewhere here.
TypeLogo(url) ==
  /\ field' = [field EXCEPT !.logo = url]
  /\ typed' = typed \cup ({url} \cap Upload)
  /\ UNCHANGED <<received, disk, asset, live, raw, call, shown, replaced, lost, undropped,
                 forsaken, abandoned>>

CreateCompany(url) ==
  /\ field.logo = Absent
  /\ TypeLogo(url)
  /\ UNCHANGED overtaken

\* UpdateCompany without a file destroys nothing.
SetLogoUrl(url) ==
  /\ field.logo # Absent
  /\ TypeLogo(url)
  /\ overtaken' = overtaken \cup ({field.logo} \cap Upload)

\* The company goes, its logo stays.  Its updates under way find it no more.
DeleteCompany ==
  /\ field.logo # Absent
  /\ field' = [field EXCEPT !.logo = Absent]
  /\ abandoned' = abandoned \cup ({field.logo} \cap Upload)
  /\ call' = [r \in Req |-> IF call[r].op = "changeLogo" THEN [call[r] EXCEPT !.gone = TRUE]
                        ELSE call[r]]
  /\ UNCHANGED <<received, disk, asset, live, raw, shown, typed, replaced, lost, overtaken,
                 undropped, forsaken>>

\* The process restarts.  An upload in flight may have lost its answer first.
Crash ==
  /\ Leave(Req)
  /\ call' = [r \in Req |-> Idle]
  /\ UNCHANGED <<received, disk, asset, live, raw, field, shown, typed, replaced, overtaken,
                 abandoned>>

Handle(r) ==
  \/ \E op \in Op, name \in Name, u \in Upload : Receive(r, op, name, u)
  \/ Look(r) \/ Refuse(r) \/ Send(r) \/ Uploaded(r) \/ UploadFails(r)
  \/ Drop(r) \/ Write(r) \/ WriteFails(r)

Next ==
  \/ \E r \in Req : Handle(r)
  \/ \E url \in shown \cup {Elsewhere} : CreateCompany(url) \/ SetLogoUrl(url)
  \/ RegisterPlain \/ DeleteCompany \/ Crash

Spec == Init /\ [][Next]_vars

-----------------------------------------------------------------------------
Call ==
  [at : {"look", "send", "wait", "drop", "write"}, op : Op, name : Name, own : Upload,
   old : Upload \cup {Absent, Elsewhere}, gone : BOOLEAN]

TypeOK ==
  /\ received \subseteq Upload
  /\ disk \in [Name -> Upload \cup {None}]
  /\ asset \in [Upload -> Upload \cup {None}]
  /\ field \in [Slot -> Upload \cup {Absent, Elsewhere}]
  /\ call \in [Req -> Call \cup {Idle}]
  /\ {live, raw, shown, typed, replaced, lost, overtaken, undropped, forsaken, abandoned}
       \subseteq SUBSET Upload

Stored == {field[s] : s \in Slot} \cap Upload

\* A photo or a document a record names is there: however two replacements
\* interleave, neither destroys what the other has stored
\* (UpdateProfilePhotoUseCase.js reads the old URL after its own upload and
\* destroys it after its own write).  A photo may go otherwise only if its URL
\* was given to a company as its logo, which the company then replaces; a
\* document does not even then.
PhotoAvailable ==
  /\ field.document \in Upload => field.document \in live
  /\ field.photo \in Upload => field.photo \in live \cup typed

\* A logo that was uploaded, and whose URL nobody typed, is gone from a company
\* that shows it only while an update that destroyed it has yet to write, or
\* after one that destroyed it and then failed or was refused
\* (UpdateCompanyUseCase.js:31 destroys before :43 may throw).
LogoMissingExplained ==
  field.logo \in Upload \ (live \cup typed) =>
    \/ field.logo \in forsaken
    \/ \E r \in At("changeLogo", "write") : call[r].old = field.logo

\* What a record shows is the file of the request that made the asset: a file some
\* earlier request left on disk never takes its place, only one that a later
\* request saved under the same name before it was sent (multer keeps the
\* client's name, and all requests share ./public).
OwnContent == \A u \in Stored : asset[u] = u \/ u \in replaced

\* Assets a call has made and will store, or is about to destroy.
Held == {call[r].own : r \in Carrying} \cup Olds(At("changePhoto", "drop"))

\* An asset nothing refers to is one whose call ended first, that a call
\* replaced which destroys another or none, that Cloudinary kept, as it does
\* with every replaced document (student.contoller.js:121), or the logo of a
\* company that was deleted (DeleteCompanyUseCase.js:25).
LeaksExplained ==
  live \subseteq Stored \cup Held \cup lost \cup overtaken \cup undropped \cup abandoned

-----------------------------------------------------------------------------
(* The inductive invariant                                                 *)

Active == {r \in Req : call[r].at # "idle"}

Unstored == Active \ At("changePhoto", "drop")

StageInv == \A r \in Req : call[r].at = "drop" => call[r].op \notin Creates

\* Every file belongs to one call.
OwnerInv ==
  /\ \A r \in Active : call[r].own \in received
  /\ \A r, q \in Active : r # q => call[r].own # call[q].own

\* An asset that is not stored yet is nobody's old one, and nobody typed it.
FreshInv ==
  /\ Stored \cup Olds(Req) \cup typed \subseteq shown /\ shown \subseteq received
  /\ \A r \in Unstored : call[r].own \notin shown

\* Records share no asset whose URL was not typed, and such an old asset
\* belongs to the record it was read from.
SlotInv ==
  /\ \A s, t \in Slot : s # t /\ field[s] \in Upload \ typed => field[s] # field[t]
  /\ \A r \in Active, s \in Slot :
       call[r].old \in Upload \ typed /\ s # SlotOf(call[r].op) => field[s] # call[r].old

\* A photo about to be destroyed is no longer the photo.
DoomedInv ==
  \A r \in At("changePhoto", "drop") : call[r].old \in Upload => call[r].old # field.photo

\* A document is raw from its upload on.
RawInv ==
  /\ \A r \in Req :
       /\ call[r].at \in {"wait", "write", "drop"}
       /\ call[r].op \in {"createProfile", "changeDocument"}
       => call[r].own \in raw
  /\ field.document \in Upload => field.document \in raw

CarryingInv == \A r \in Carrying : call[r].own \in live

\* An asset was made of the right file unless that was overwritten.
ContentInv ==
  /\ \A r \in Sending : disk[call[r].name] \in {call[r].own, None} \/ call[r].own \in replaced
  /\ \A r \in Req : call[r].at = "wait" =>
       asset[call[r].own] \in {call[r].own, None} \/ call[r].own \in replaced
  /\ \A r \in Carrying : asset[call[r].own] = call[r].own \/ call[r].own \in replaced
  /\ \A u \in shown : asset[u] = u \/ u \in replaced

\* An update that is about to write has dealt with the asset it read.
DroppedInv ==
  \A r \in At("changeLogo", "write") \cup At("changeDocument", "write") :
    call[r].old \in live => call[r].old \in undropped

IInv ==
  /\ TypeOK /\ StageInv /\ OwnerInv /\ FreshInv /\ SlotInv /\ DoomedInv
  /\ RawInv /\ CarryingInv /\ ContentInv /\ DroppedInv
  /\ PhotoAvailable /\ LogoMissingExplained /\ OwnContent /\ LeaksExplained
-----------------------------------------------------------------------------
(* When requests are handled one at a time                                 *)

Serial == \A r, q \in Active : r = q

\* A record shows the file of the request that made its asset: a file that an earlier
\* request, or one a crash interrupted, left on disk under the same name never
\* takes its place (multer.middleware.js:3-12, cloudinary.js:41-54).
OwnFile == \A u \in Stored : asset[u] = u
=============================================================================
