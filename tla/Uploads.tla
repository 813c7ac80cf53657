------------------------------- MODULE Uploads -------------------------------
(***************************************************************************)
(* Files on their way to an item: object storage, the pending uploads of   *)
(* agents in Redis, and the attachment rows.                               *)
(*                                                                         *)
(* The bytes never pass through the API: an uploader gets a presigned URL, *)
(* sends the file to S3 and then names it in a call that attaches it.  A   *)
(* form uploads before its item exists; an item's page uploads to the      *)
(* item; an agent prepares uploads that a later call consumes.  Only the   *)
(* agents' calls look whether the file is there.  No transaction spans S3, *)
(* Redis and the database.                                                 *)
(*                                                                         *)
(* Names that AgentContent has too carry a prefix: ContentProofs is about  *)
(* both.                                                                   *)
(***************************************************************************)
EXTENDS FiniteSets

CONSTANTS
    Upload,      \* uploads, each with an S3 key of its own
    Large,       \* those above the large-file threshold: multipart
    Caller       \* requests and tool calls in flight

ASSUME LargeAssumption == Large \subseteq Upload

\* Who uploads.  Forms and agents have no item yet: their keys are flat, under
\* attachments/issues/.
Route == {"form", "item", "agent"}
NoRoute == "none"
Flat == {"form", "agent"}

VARIABLES
    route,       \* who asked for the URL of each upload
    file,        \* its object in S3
    tagged,      \* the objects tagged LargeFile
    pending,     \* the agents' uploads in Redis
    attached,    \* the committed issue_attachments rows
    calls,       \* the calls in flight
    job,         \* the validation jobs sent
    fate         \* history: how an upload left, other than by being attached

uploadVars == <<route, file, tagged, pending, attached, calls, job, fate>>

File == {"none", "parts", "stored", "gone"}
Fate == {"open", "timed out", "lost", "erased", "deleted", "swept"}
CallState == [at : {"idle", "checked", "written", "deleting"},
              uploads : SUBSET Upload, taken : SUBSET Upload]
NoCall == [at |-> "idle", uploads |-> {}, taken |-> {}]

UploadTypeOK ==
    /\ route \in [Upload -> Route \cup {NoRoute}]
    /\ file \in [Upload -> File]
    /\ tagged \subseteq Large
    /\ pending \subseteq {u \in Upload : route[u] = "agent"}
    /\ attached \subseteq Upload
    /\ job \subseteq Upload
    /\ fate \in [Upload -> Fate]
    /\ calls \in [Caller -> CallState]
    /\ \A c \in Caller :
          /\ calls[c].taken \subseteq calls[c].uploads
          /\ calls[c].at = "idle" => calls[c] = NoCall
          /\ calls[c].at = "written" => calls[c].taken = calls[c].uploads

(***************************************************************************)
(* Uploading                                                               *)
(***************************************************************************)

\* presign or multipart/start, for the form or for an item.
Presign(u, r) ==
    /\ route[u] = NoRoute
    /\ r \in {"form", "item"}
    /\ route' = [route EXCEPT ![u] = r]
    /\ UNCHANGED <<file, tagged, pending, attached, calls, job, fate>>

\* rw_upload_prepare: a URL and a pending upload.
Prepare(u) ==
    /\ route[u] = NoRoute
    /\ route' = [route EXCEPT ![u] = "agent"]
    /\ pending' = pending \cup {u}
    /\ UNCHANGED <<file, tagged, attached, calls, job, fate>>

\* The uploader sends the bytes; those of a large file are parts at first.
Put(u) ==
    /\ route[u] # NoRoute
    /\ file[u] = "none"
    /\ file' = [file EXCEPT ![u] = IF u \in Large THEN "parts" ELSE "stored"]
    /\ UNCHANGED <<route, tagged, pending, attached, calls, job, fate>>

\* complete_multipart_upload: assembles the parts and tags the object.
Completed(S) == [u \in Upload |-> IF u \in S /\ file[u] = "parts" THEN "stored" ELSE file[u]]

\* Mutation: a file sent in one piece is completed like the parts of one.
CompleteAnything(u) ==
    /\ route[u] = "form"
    /\ file[u] \in {"parts", "stored"}
    /\ file' = Completed({u})
    /\ tagged' = tagged \cup {u}
    /\ UNCHANGED <<route, pending, attached, calls, job, fate>>

CompleteForForm(u) ==
    /\ route[u] = "form"
    /\ file[u] = "parts"
    /\ file' = Completed({u})
    /\ tagged' = tagged \cup {u}
    /\ UNCHANGED <<route, pending, attached, calls, job, fate>>

\* UPLOAD_TTL_SECONDS: the hour is over.
Forget(u) ==
    /\ u \in pending
    /\ pending' = pending \ {u}
    /\ fate' = [fate EXCEPT ![u] = "timed out"]
    /\ UNCHANGED <<route, file, tagged, attached, calls, job>>

(***************************************************************************)
(* Attaching                                                               *)
(***************************************************************************)

\* Mutation: the file is not looked for.
CheckTrusting(c, S) ==
    /\ calls[c].at = "idle"
    /\ S # {} /\ S \subseteq pending
    /\ file' = Completed(S)
    /\ tagged' = tagged \cup {u \in S : file[u] = "parts"}
    /\ calls' = [calls EXCEPT ![c] = [at |-> "checked", uploads |-> S, taken |-> {}]]
    /\ UNCHANGED <<route, pending, attached, job, fate>>

\* _uploads_ready: every upload is known and its file is there.
Check(c, S) ==
    /\ calls[c].at = "idle"
    /\ S # {} /\ S \subseteq pending
    /\ \A u \in S : file[u] \in {"parts", "stored"}
    /\ file' = Completed(S)
    /\ tagged' = tagged \cup {u \in S : file[u] = "parts"}
    /\ calls' = [calls EXCEPT ![c] = [at |-> "checked", uploads |-> S, taken |-> {}]]
    /\ UNCHANGED <<route, pending, attached, job, fate>>

\* Mutation: what the check saw is taken as it is.
TakeBlind(c, u) ==
    /\ calls[c].at = "checked"
    /\ u \in calls[c].uploads \ calls[c].taken
    /\ pending' = pending \ {u}
    /\ calls' = [calls EXCEPT ![c].taken = @ \cup {u}]
    /\ UNCHANGED <<route, file, tagged, attached, job, fate>>

\* _attach_uploads consumes one: deleting the key answers whether it was there.
Take(c, u) ==
    /\ calls[c].at = "checked"
    /\ u \in calls[c].uploads \ calls[c].taken
    /\ u \in pending
    /\ pending' = pending \ {u}
    /\ calls' = [calls EXCEPT ![c].taken = @ \cup {u}]
    /\ UNCHANGED <<route, file, tagged, attached, job, fate>>

\* Mutation: those consumed before are not put back.
RefuseKeeping(c) ==
    /\ calls[c].at = "checked"
    /\ \E u \in calls[c].uploads \ calls[c].taken : u \notin pending
    /\ calls' = [calls EXCEPT ![c] = NoCall]
    /\ UNCHANGED <<route, file, tagged, pending, attached, job, fate>>

\* Another call consumed one meanwhile, or it timed out.
Refuse(c) ==
    /\ calls[c].at = "checked"
    /\ \E u \in calls[c].uploads \ calls[c].taken : u \notin pending
    /\ pending' = pending \cup calls[c].taken
    /\ calls' = [calls EXCEPT ![c] = NoCall]
    /\ UNCHANGED <<route, file, tagged, attached, job, fate>>

\* No row, committed or not, has one of these keys: an insert waits for the
\* insert or the deletion of its key that is in flight.
KeysFree(S) ==
    /\ S \cap attached = {}
    /\ \A c \in Caller :
          calls[c].at \in {"written", "deleting"} => S \cap calls[c].uploads = {}

\* Mutation: the validation job is sent with the flush.
WriteSending(c) ==
    /\ calls[c].at = "checked"
    /\ calls[c].taken = calls[c].uploads
    /\ KeysFree(calls[c].uploads)
    /\ calls' = [calls EXCEPT ![c].at = "written"]
    /\ job' = job \cup calls[c].uploads
    /\ UNCHANGED <<route, file, tagged, pending, attached, fate>>

\* AttachmentService.add for all of them, flushed.
Write(c) ==
    /\ calls[c].at = "checked"
    /\ calls[c].taken = calls[c].uploads
    /\ KeysFree(calls[c].uploads)
    /\ calls' = [calls EXCEPT ![c].at = "written"]
    /\ UNCHANGED <<route, file, tagged, pending, attached, job, fate>>

WriteAtOnce(c, S) ==
    calls' = [calls EXCEPT ![c] = [at |-> "written", uploads |-> S, taken |-> S]]

\* Filing with the keys the form has: whether their files have arrived, or
\* were swept while the form was open, nobody looks.  A filing that is sent
\* again meets the unique key.
FileForm(c, S) ==
    /\ calls[c].at = "idle"
    /\ S # {}
    /\ \A u \in S : route[u] = "form"
    /\ KeysFree(S)
    /\ WriteAtOnce(c, S)
    /\ UNCHANGED <<route, file, tagged, pending, attached, job, fate>>

\* confirm on an item's page: the client says that it has uploaded.
Confirm(c, u) ==
    /\ calls[c].at = "idle"
    /\ route[u] = "item"
    /\ KeysFree({u})
    /\ WriteAtOnce(c, {u})
    /\ UNCHANGED <<route, file, tagged, pending, attached, job, fate>>

\* multipart/complete on an item's page: S3 assembles the parts before the row
\* is added, and they stay assembled when the key has a row already.
CompleteForItem(c, u) ==
    /\ calls[c].at = "idle"
    /\ route[u] = "item" /\ file[u] = "parts"
    /\ file' = Completed({u})
    /\ tagged' = tagged \cup {u}
    /\ IF KeysFree({u}) THEN WriteAtOnce(c, {u}) ELSE calls' = calls
    /\ UNCHANGED <<route, pending, attached, job, fate>>

\* after_commit sends the validation jobs; the broker may refuse one, and
\* those after it are not sent.
Commit(c) ==
    /\ calls[c].at = "written"
    /\ attached' = attached \cup calls[c].uploads
    /\ \E sent \in SUBSET calls[c].uploads : job' = job \cup sent
    /\ calls' = [calls EXCEPT ![c] = NoCall]
    /\ UNCHANGED <<route, file, tagged, pending, fate>>

\* The call fails: its rows are rolled back, its uploads stay consumed.
Fail(c) ==
    /\ calls[c].at \in {"checked", "written"}
    /\ fate' = [u \in Upload |->
          IF u \in calls[c].taken /\ route[u] = "agent" THEN "lost" ELSE fate[u]]
    /\ calls' = [calls EXCEPT ![c] = NoCall]
    /\ UNCHANGED <<route, file, tagged, pending, attached, job>>

(***************************************************************************)
(* After that                                                              *)
(***************************************************************************)

\* validate_attachment: the size and type in the row, and a thumbnail.
Validate(u) ==
    /\ u \in job
    /\ job' = job \ {u}
    /\ UNCHANGED <<route, file, tagged, pending, attached, calls, fate>>

\* AttachmentService.delete: the object, if there is one, then the row.
Delete(c, u) ==
    /\ calls[c].at = "idle"
    /\ u \in attached
    /\ file' = [file EXCEPT ![u] = IF @ = "stored" THEN "gone" ELSE @]
    /\ fate' = [fate EXCEPT ![u] = "erased"]
    /\ calls' = [calls EXCEPT ![c] = [at |-> "deleting", uploads |-> {u}, taken |-> {}]]
    /\ UNCHANGED <<route, tagged, pending, attached, job>>

CommitDelete(c) ==
    /\ calls[c].at = "deleting"
    /\ attached' = attached \ calls[c].uploads
    /\ fate' = [u \in Upload |-> IF u \in calls[c].uploads THEN "deleted" ELSE fate[u]]
    /\ calls' = [calls EXCEPT ![c] = NoCall]
    /\ UNCHANGED <<route, file, tagged, pending, job>>

FailDelete(c) ==
    /\ calls[c].at = "deleting"
    /\ calls' = [calls EXCEPT ![c] = NoCall]
    /\ UNCHANGED <<route, file, tagged, pending, attached, job, fate>>

\* The bucket's rules: tagged objects after the retention, everything under
\* the flat prefix after two days.
Sweeps(u) == u \in tagged \/ route[u] \in Flat

\* A rule removes an object.  Days pass, which no call and no pending upload
\* lives to see.
Sweep(u) ==
    /\ file[u] = "stored"
    /\ Sweeps(u)
    /\ u \notin pending
    /\ \A c \in Caller : u \notin calls[c].uploads
    /\ file' = [file EXCEPT ![u] = "gone"]
    /\ fate' = [fate EXCEPT ![u] = IF @ = "deleted" THEN @ ELSE "swept"]
    /\ UNCHANGED <<route, tagged, pending, attached, calls, job>>

UploadInit ==
    /\ route = [u \in Upload |-> NoRoute]
    /\ file = [u \in Upload |-> "none"]
    /\ tagged = {}
    /\ pending = {}
    /\ attached = {}
    /\ calls = [c \in Caller |-> NoCall]
    /\ job = {}
    /\ fate = [u \in Upload |-> "open"]

UploadStep(u) ==
    \/ \E r \in Route : Presign(u, r)
    \/ Prepare(u)
    \/ Put(u)
    \/ CompleteForForm(u)
    \/ Forget(u)
    \/ Validate(u)
    \/ Sweep(u)

CallStep(c) ==
    \/ \E S \in SUBSET Upload : Check(c, S) \/ FileForm(c, S)
    \/ \E u \in Upload : Take(c, u) \/ Confirm(c, u) \/ CompleteForItem(c, u) \/ Delete(c, u)
    \/ Refuse(c)
    \/ Write(c)
    \/ Commit(c)
    \/ Fail(c)
    \/ CommitDelete(c)
    \/ FailDelete(c)

UploadNext ==
    \/ \E u \in Upload : UploadStep(u)
    \/ \E c \in Caller : CallStep(c)

UploadSpec == UploadInit /\ [][UploadNext]_uploadVars

(***************************************************************************)
(* Properties                                                              *)
(***************************************************************************)
Holds(c, u) == u \in calls[c].taken

\* FR-M10: an upload is consumed only once.  It is pending, in the hands of
\* one call, or attached, and never two of these, however calls that name the
\* same uploads interleave, refuse and put back.
UploadHeldOnce ==
    \A u \in Upload :
        /\ u \in pending => u \notin attached
        /\ \A c \in Caller : Holds(c, u) => u \notin pending /\ u \notin attached
        /\ \A c, d \in Caller : Holds(c, u) /\ Holds(d, u) => c = d

\* "The rest are put back": no upload of an agent disappears with a refusal.
\* It is pending, being attached or attached, unless its hour is over, a call
\* failed after consuming it, or it was deleted.
NoUploadForgotten ==
    \A u \in Upload : route[u] = "agent" /\ fate[u] = "open" =>
        u \in pending \cup attached \/ \E c \in Caller : Holds(c, u)

\* An attachment an agent made has its file, unless a bucket rule swept the
\* file or its deletion has begun: the file was looked for before the upload
\* was consumed, and nothing takes it in between.
FileBehindRow ==
    \A u \in attached : route[u] = "agent" =>
        file[u] = "stored" \/ fate[u] \in {"swept", "erased"}

\* "The validation job is sent only once the row exists": no job was sent for
\* a row that a rollback took back.
ValidatedRowExisted == \A u \in job : u \in attached \/ fate[u] = "deleted"

\* Of the files that are attached, only the large ones are subject to
\* automatic deletion.
SweepSparesAttached ==
    [][\A u \in attached : file[u] = "stored" /\ file'[u] = "gone" /\ fate'[u] = "swept"
          => u \in Large]_uploadVars
=============================================================================
