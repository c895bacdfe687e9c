---------------------------- MODULE Attachments ----------------------------
(***************************************************************************)
(* One attachment (src/modules/attachments): its row, the objects stored   *)
(* for it, and who works on them - requests of the API, the worker that    *)
(* strips images of their metadata, the sweep of abandoned uploads, and    *)
(* the client that posts the file to the upload key while its URL lives.   *)
(*                                                                         *)
(* Every await is a step: a statement on the row (which waits for the row  *)
(* lock a visibility change holds) or one S3 call.  A call may fail, and a *)
(* process may die between two.  "file" stands for the attachment's own    *)
(* key and "thumbnail" for its derivatives.  Categories that are always    *)
(* public, download counts and the responses are left out.  Elsewhere, the *)
(* main image of a story (src/modules/stories) is made public, too.        *)
(***************************************************************************)
EXTENDS FileValidation, FiniteSets

CONSTANTS Requests,     \* requests of the API
          Completing,   \* bound: those that complete an upload
          Changing,     \* bound: those that change or delete it
          Showing,      \* bound: those that make it the main image of a story
          Files,        \* files clients declare: [mimetype, flaws, size]
          Contents,     \* [detected, bytes, metadata]: what a client may post
          SniffBytes    \* CONTENT_SNIFF_BYTES

Worker == "worker"
Sweep == "sweep"
Actors == Requests \cup {Worker, Sweep}

VARIABLES row,      \* the attachments row, or None
          objects,  \* the bucket: for each key an object, or None
          lock,     \* who holds the row's lock (withLockedRow), or None
          job,      \* attempts left of the PROCESS_IMAGE job; 0 when there is none
          stale,    \* the upload is older than its URL and than ABANDONED_UPLOAD_MS
          late,     \* S3 calls of a request that gave up: they may still be served
          torn,     \* history: objects changed and the row did not follow
          shown,    \* history: a main image was made of an image that was not
                    \* processed ("raw"), or that another was changing ("crossed")
          at, my

vars == <<row, objects, lock, job, stale, late, torn, shown, at, my>>

Keys == {"incoming", "file", "thumbnail"}

Stored == Contents \cup {[content EXCEPT !.metadata = FALSE] : content \in Contents}

Statuses == {"pending_upload", "verifying", "processing", "completed", "failed", "rejected"}

Row == [declared : Files, securityStatus : Statuses, isPublic : BOOLEAN,
        deleted : BOOLEAN, derived : BOOLEAN]

Object == [content : Stored, public : BOOLEAN]

ASSUME AttachmentsAssumption ==
  /\ \A file \in Files : file.size \in Nat
  /\ SniffBytes \in Nat
  /\ Completing \cup Changing \cup Showing \subseteq Requests
  /\ Requests \cap {Worker, Sweep} = {}
  /\ \A content \in Contents :
       /\ content = [detected |-> content.detected, bytes |-> content.bytes,
                     metadata |-> content.metadata]
       /\ content.bytes \in Seq(0..Invalid)
       /\ content.metadata \in BOOLEAN
       /\ content.metadata => Alias(content.detected) \in Images
  /\ None \notin AllowedTypes \cup Actors
  /\ None \notin Stored /\ None \notin Row /\ None \notin Object

Places == {"idle", "claim", "head", "sniff", "copy", "dropUpload", "publish",
           "commit", "reopen", "unclaim", "reject", "rejectRow",
           "lock", "acl", "save", "purge", "purgeRow", "replace", "derive",
           "finish", "markFailed", "show", "flag"}

Operations == {"none", "public", "private", "delete", "restore", "apply"}

\* op: what it does under the lock; acl: the visibility it gives; keys: the objects it
\* has still to change; content: what it read (the ETag stands for it).
Locals == [op : Operations, acl : BOOLEAN, keys : SUBSET Keys,
           content : Stored \cup {None}]

Blank == [op |-> "none", acl |-> FALSE, keys |-> {}, content |-> None]

Go(a, place) == at' = [at EXCEPT ![a] = place]
Leave(a) == at' = [at EXCEPT ![a] = "idle"] /\ my' = [my EXCEPT ![a] = Blank]

Unlocked == lock = None

\* An image is being made the main image of a story.
Shows == \E q \in Requests : at[q] \in {"show", "flag"}

\* What shown becomes when that meets another change of the attachment, or does not.
Crossed(meets) == IF meets THEN shown \cup {"crossed"} ELSE shown

IsImage(r) == r.declared.mimetype \in Images

\* Mutant: a failed or rejected file counts as processed.
UNPROCESSEDAtWork == {"pending_upload", "verifying"}

UNPROCESSED == {"pending_upload", "verifying", "processing", "failed", "rejected"}

\* Every object stored for a row; an upload key is not among them.
StorageKeys(r) == {"file"} \cup (IF r.derived THEN {"thumbnail"} ELSE {})

Put(key, content, public) ==
  objects' = [objects EXCEPT ![key] = [content |-> content, public |-> public]]
Remove(key) == objects' = [objects EXCEPT ![key] = None]

\* What sharp cannot read it neither strips nor resizes.
Decodes(content) == Alias(content.detected) \in Images

\* sharp writes no metadata it is not told to keep.
StripSensitiveData(content) == [content EXCEPT !.metadata = FALSE]

\* Neither the resized image nor its placeholder and thumbnails bring any back.
OptimizeImage(content) == [content EXCEPT !.metadata = FALSE]
Thumbnail(content) == [content EXCEPT !.metadata = FALSE]

Prepare(content) == OptimizeImage(StripSensitiveData(content))

-----------------------------------------------------------------------------
(* Uploads. *)

\* A new attachment has keys of its own: nothing is left of the one before it.
Fresh == /\ row = None /\ job = 0 /\ late = {}
         /\ objects = [key \in Keys |-> None]
         /\ at = [a \in Actors |-> "idle"]

New(file, status, isPublic, derived) ==
  [declared |-> file, securityStatus |-> status, isPublic |-> isPublic,
   deleted |-> FALSE, derived |-> derived]

\* initiate: the row waits for the file, and the client gets a presigned POST.
Initiate ==
  /\ Fresh
  /\ \E file \in Files, isPublic \in BOOLEAN :
       /\ DeclaredValid(file)
       /\ row' = New(file, "pending_upload", isPublic, FALSE)
  /\ stale' = FALSE /\ torn' = FALSE /\ shown' = {}
  /\ UNCHANGED <<objects, lock, job, late, at, my>>

\* The client posts any bytes of the declared size and type, as often as it likes.
Post ==
  /\ row # None /\ ~stale
  /\ row.securityStatus \in {"pending_upload", "verifying"}
  /\ \E content \in Contents : Put("incoming", content, FALSE)
  /\ UNCHANGED <<row, lock, job, stale, late, torn, shown, at, my>>

\* uploadAttachment: an image is stored stripped, with its thumbnail; the row follows.
UploadAttachment ==
  /\ Fresh
  /\ \E file \in Files, content \in Contents, isPublic \in BOOLEAN :
       LET image == file.mimetype \in Images
           stored == IF image THEN Prepare(content) ELSE content
       IN  /\ ContentValid(file, content, FALSE)
           /\ objects' = [objects EXCEPT
                !["file"] = [content |-> stored, public |-> isPublic],
                !["thumbnail"] = IF image
                                 THEN [content |-> Thumbnail(stored), public |-> isPublic]
                                 ELSE None]
           /\ row' = New(file, "completed", isPublic, image)
  /\ torn' = FALSE /\ shown' = {}
  /\ UNCHANGED <<lock, job, stale, late, at, my>>

\* uploadAttachmentAsync: an image is stored as it is, private; row and job follow.
UploadAttachmentAsync ==
  /\ Fresh
  /\ \E file \in Files, content \in Contents, isPublic \in BOOLEAN :
       LET image == file.mimetype \in Images
       IN  /\ ContentValid(file, content, FALSE)
           /\ Put("file", content, isPublic /\ ~image)
           /\ row' = New(file, IF image THEN "processing" ELSE "completed", isPublic, FALSE)
           /\ job' = IF image THEN 2 ELSE 0
  /\ torn' = FALSE /\ shown' = {}
  /\ UNCHANGED <<lock, stale, late, at, my>>

-----------------------------------------------------------------------------
(* complete. *)

\* findFresh: what complete knows of the row from here on.
AskComplete(q) ==
  /\ at[q] = "idle" /\ row # None
  /\ my' = [my EXCEPT ![q].acl = row.isPublic]
  /\ Go(q, "claim")
  /\ UNCHANGED <<row, objects, lock, job, stale, late, torn, shown>>

\* transitionSecurityStatus: of two completions one goes on.
Claim(q) ==
  /\ at[q] = "claim" /\ Unlocked
  /\ IF row # None /\ row.securityStatus = "pending_upload"
     THEN /\ row' = [row EXCEPT !.securityStatus = "verifying"]
          /\ Go(q, "head") /\ UNCHANGED my
     ELSE Leave(q) /\ UNCHANGED row
  /\ UNCHANGED <<objects, lock, job, stale, late, torn, shown>>

\* getMetadata; nothing there, or no answer: the client may upload and try again.
HeadObject(q) ==
  /\ at[q] = "head"
  /\ \/ /\ objects["incoming"] # None
        /\ my' = [my EXCEPT ![q].content = objects["incoming"].content]
        /\ Go(q, "sniff")
     \/ Go(q, "unclaim") /\ UNCHANGED my
  /\ UNCHANGED <<row, objects, lock, job, stale, late, torn, shown>>

Unchanged(q) == objects["incoming"] # None /\ objects["incoming"].content = my[q].content

BeginsValid(file, content) ==
  ContentValid(file, Beginning(content, SniffBytes), Len(content.bytes) > SniffBytes)

\* readHead of the version it saw, and validateFile.
SniffContent(q) ==
  /\ at[q] = "sniff" /\ row # None
  /\ Unchanged(q)
  /\ Go(q, IF BeginsValid(row.declared, my[q].content) THEN "copy" ELSE "reject")
  /\ UNCHANGED <<row, objects, lock, job, stale, late, torn, shown, my>>

\* Mutant: whatever is under the upload key by now.
CopyAnything(q) ==
  /\ at[q] = "copy"
  /\ objects["incoming"] # None
  /\ Put("file", objects["incoming"].content, FALSE)
  /\ Go(q, "dropUpload")
  /\ UNCHANGED <<row, lock, job, stale, late, torn, shown, my>>

\* copyIfUnchanged, always private.
CopyIfUnchanged(q) ==
  /\ at[q] = "copy"
  /\ Unchanged(q)
  /\ Put("file", objects["incoming"].content, FALSE)
  /\ Go(q, "dropUpload")
  /\ UNCHANGED <<row, lock, job, stale, late, torn, shown, my>>

\* The copy at the upload key goes; a failure is logged.
DropUpload(q) ==
  /\ at[q] = "dropUpload"
  /\ \/ Remove("incoming")
     \/ UNCHANGED objects
  /\ Go(q, IF my[q].acl /\ my[q].content.detected \notin Images THEN "publish" ELSE "commit")
  /\ UNCHANGED <<row, lock, job, stale, late, torn, shown, my>>

Publish(q) ==
  /\ at[q] = "publish"
  /\ objects["file"] # None
  /\ objects' = [objects EXCEPT !["file"].public = TRUE]
  /\ Go(q, "commit")
  /\ UNCHANGED <<row, lock, job, stale, late, torn, shown, my>>

\* Status and job commit together, whatever became of the row meanwhile.
Commit(q) ==
  /\ at[q] = "commit" /\ Unlocked
  /\ LET image == my[q].content.detected \in Images
     IN  /\ row' = IF row = None THEN None
                   ELSE [row EXCEPT !.securityStatus = IF image THEN "processing"
                                                       ELSE "completed"]
         /\ job' = IF image THEN 2 ELSE job
  /\ Leave(q)
  /\ UNCHANGED <<objects, lock, stale, late, torn, shown>>

\* An unexpected failure reopens the upload, if it is still being verified.
Reopen(q) ==
  /\ at[q] = "reopen" /\ Unlocked
  /\ row' = IF row # None /\ row.securityStatus = "verifying"
            THEN [row EXCEPT !.securityStatus = "pending_upload"] ELSE row
  /\ Leave(q)
  /\ UNCHANGED <<objects, lock, job, stale, late, torn, shown>>

\* So does a file that is not there, without looking.
Unclaim(q) ==
  /\ at[q] = "unclaim" /\ Unlocked
  /\ row' = IF row = None THEN None ELSE [row EXCEPT !.securityStatus = "pending_upload"]
  /\ Leave(q)
  /\ UNCHANGED <<objects, lock, job, stale, late, torn, shown>>

\* reject: first the stored keys - a failure is logged - then the row.
RejectKeys(q) ==
  /\ at[q] = "reject"
  /\ \E kept \in SUBSET {"incoming", "file"} :
       objects' = [key \in Keys |-> IF key \in {"thumbnail"} \cup kept
                                    THEN objects[key] ELSE None]
  /\ Go(q, "rejectRow")
  /\ UNCHANGED <<row, lock, job, stale, late, torn, shown, my>>

RejectRow(q) ==
  /\ at[q] = "rejectRow" /\ Unlocked
  /\ row' = IF row = None THEN None ELSE [row EXCEPT !.securityStatus = "rejected"]
  /\ Leave(q)
  /\ UNCHANGED <<objects, lock, job, stale, late, torn, shown>>

-----------------------------------------------------------------------------
(* Visibility, deletion and restoring: setVisibility, softDelete, restore.  *)

\* findLive or findById; the flag that already has the value asked for ends it.
AskChange(q) ==
  /\ at[q] = "idle" /\ row # None
  /\ \E op \in {"public", "private", "delete", "restore"} :
       /\ op # "restore" => ~row.deleted
       /\ op = "public" => ~row.isPublic
       /\ op = "private" => row.isPublic
       /\ my' = [my EXCEPT ![q].op = op]
  /\ Go(q, "lock")
  /\ UNCHANGED <<row, objects, lock, job, stale, late, torn, shown>>

\* Mutant: a file deleted while it was processed is published.
AclForDeleted(op) ==
  CASE op = "public" -> ~row.deleted
    [] op = "restore" -> row.isPublic /\ row.securityStatus \notin UNPROCESSED
    [] op = "apply" -> row.isPublic
    [] OTHER -> FALSE

\* The visibility an operation gives the objects of the row as it is now.
AclFor(op) ==
  CASE op = "public" -> ~row.deleted
    [] op = "restore" -> row.isPublic /\ row.securityStatus \notin UNPROCESSED
    [] op = "apply" -> row.isPublic /\ ~row.deleted
    [] OTHER -> FALSE

\* withLockedRow: the row is read again under its lock.  Whoever gives every object its
\* visibility mends what broke off before, unless a late call comes after it.
LockRow(a) ==
  /\ at[a] = "lock" /\ Unlocked /\ row # None
  /\ LET op == my[a].op
     IN  IF op \in {"public", "private"} /\ row.isPublic = (op = "public")
         THEN Leave(a) /\ UNCHANGED <<lock, torn, shown>>
         ELSE /\ lock' = a
              /\ IF op = "public" /\ row.securityStatus \in UNPROCESSED
                 THEN /\ shown' = Crossed(Shows)
                      /\ Go(a, "save") /\ UNCHANGED <<my, torn>>
                 ELSE /\ shown' = IF Shows THEN Crossed(TRUE) ELSE shown \ {"crossed"}
                      /\ torn' = (torn /\ (late # {} \/ \E key \in StorageKeys(row) :
                                                            objects[key] = None))
                      /\ my' = [my EXCEPT ![a].keys = StorageKeys(row), ![a].acl = AclFor(op)]
                      /\ Go(a, "acl")
  /\ UNCHANGED <<row, objects, job, stale, late>>

\* The row is gone: a request is done, the worker removes what it stored.
LockNothing(a) ==
  /\ at[a] = "lock" /\ row = None
  /\ IF a = Worker
     THEN /\ my' = [my EXCEPT ![a].keys = {"file", "thumbnail"}]
          /\ Go(a, "purge") /\ UNCHANGED job
     ELSE Leave(a) /\ UNCHANGED job
  /\ UNCHANGED <<row, objects, lock, stale, late, torn, shown>>

\* applyAcl: all keys at once, so their calls end in any order.
SetAcl(a) ==
  /\ at[a] = "acl"
  /\ \E key \in my[a].keys :
       /\ objects[key] # None
       /\ objects' = [objects EXCEPT ![key].public = my[a].acl]
       /\ my' = [my EXCEPT ![a].keys = @ \ {key}]
       /\ Go(a, IF my[a].keys = {key} THEN "save" ELSE "acl")
  /\ UNCHANGED <<row, lock, job, stale, late, torn, shown>>

Saved(op) ==
  CASE op = "public" -> [row EXCEPT !.isPublic = TRUE]
    [] op = "private" -> [row EXCEPT !.isPublic = FALSE]
    [] op = "delete" -> [row EXCEPT !.deleted = TRUE]
    [] op = "restore" -> [row EXCEPT !.deleted = FALSE]
    [] OTHER -> row

\* The commit.
Save(a) ==
  /\ at[a] = "save"
  /\ row' = Saved(my[a].op)
  /\ lock' = None
  /\ job' = IF a = Worker THEN 0 ELSE job
  /\ Leave(a)
  /\ UNCHANGED <<objects, stale, late, torn, shown>>

\* A call fails, the commit fails, or the process dies: the row stays, and calls under
\* way may still be served.
GiveUpChange(q) ==
  /\ at[q] \in {"acl", "save"} /\ lock = q
  /\ lock' = None
  /\ late' = late \cup {<<key, my[q].acl>> : key \in my[q].keys}
  /\ torn' = TRUE
  /\ Leave(q)
  /\ UNCHANGED <<row, objects, job, stale, shown>>

ServeLate ==
  \E call \in late :
    /\ late' = late \ {call}
    /\ objects' = IF objects[call[1]] = None THEN objects
                  ELSE [objects EXCEPT ![call[1]].public = call[2]]
    /\ UNCHANGED <<row, lock, job, stale, torn, shown, at, my>>

-----------------------------------------------------------------------------
(* updateMainImage of stories: it does not take the lock.                     *)

\* findOne, perhaps from the cache (an older read), and assertAttachmentUsable: the image
\* may still be processing, or have failed.
AskMainImage(q) ==
  /\ at[q] = "idle" /\ row # None
  /\ ~row.deleted /\ ~row.isPublic /\ IsImage(row)
  /\ row.securityStatus \notin {"pending_upload", "verifying", "rejected"}
  /\ my' = [my EXCEPT ![q].keys = StorageKeys(row)]
  /\ Go(q, "show")
  /\ shown' = Crossed(~Unlocked \/ at[Worker] # "idle")
                \cup (IF row.securityStatus = "completed" THEN {} ELSE {"raw"})
  /\ UNCHANGED <<row, objects, lock, job, stale, late, torn>>

\* makePublic of the file, then of what was derived from it.
NextShown(q) == IF "file" \in my[q].keys THEN "file" ELSE "thumbnail"

ShowImage(q) ==
  /\ at[q] = "show" /\ objects[NextShown(q)] # None
  /\ objects' = [objects EXCEPT ![NextShown(q)].public = TRUE]
  /\ my' = [my EXCEPT ![q].keys = @ \ {NextShown(q)}]
  /\ Go(q, IF my[q].keys = {NextShown(q)} THEN "flag" ELSE "show")
  /\ UNCHANGED <<row, lock, job, stale, late, torn, shown>>

\* A plain update of the flag, whatever became of the row meanwhile.
FlagImage(q) ==
  /\ at[q] = "flag" /\ Unlocked
  /\ row' = IF row = None THEN None ELSE [row EXCEPT !.isPublic = TRUE]
  /\ Leave(q)
  /\ UNCHANGED <<objects, lock, job, stale, late, torn, shown>>

\* A call fails or the process dies: the call under way may still be served.
GiveUpImage(q) ==
  /\ at[q] \in {"show", "flag"}
  /\ late' = late \cup {<<key, TRUE>> : key \in my[q].keys \cap {NextShown(q)}}
  /\ torn' = TRUE
  /\ Leave(q)
  /\ UNCHANGED <<row, objects, lock, job, stale, shown>>

-----------------------------------------------------------------------------
(* hardDelete: the row as it was read, its objects, then the row.  The worker *)
(* removes what it stored for a row that is gone the same way.                *)

AskHardDelete(q) ==
  /\ at[q] = "idle" /\ row # None
  /\ my' = [my EXCEPT ![q].keys = StorageKeys(row)]
  /\ Go(q, "purge")
  /\ UNCHANGED <<row, objects, lock, job, stale, late, torn, shown>>

PurgeKey(a) ==
  /\ at[a] = "purge"
  /\ \E key \in my[a].keys :
       /\ Remove(key)
       /\ my' = [my EXCEPT ![a].keys = @ \ {key}]
       /\ Go(a, IF my[a].keys = {key} THEN "purgeRow" ELSE "purge")
  /\ torn' = TRUE
  /\ UNCHANGED <<row, lock, job, stale, late, shown>>

PurgeRow(a) ==
  /\ at[a] = "purgeRow" /\ Unlocked
  /\ row' = IF a = Worker THEN row ELSE None
  /\ job' = IF a = Worker THEN 0 ELSE job
  /\ Leave(a)
  /\ UNCHANGED <<objects, lock, stale, late, torn, shown>>

-----------------------------------------------------------------------------
(* The worker: handleProcessImage. *)

\* The fresh read, then the download; a file deleted meanwhile is left alone.
StartJob ==
  /\ at[Worker] = "idle" /\ job > 0
  /\ IF row = None \/ row.deleted
     THEN job' = 0 /\ UNCHANGED <<at, my>>
     ELSE /\ job' = job - 1
          /\ IF objects["file"] # None /\ Decodes(objects["file"].content)
             THEN /\ my' = [my EXCEPT ![Worker].content = Prepare(objects["file"].content)]
                  /\ Go(Worker, "replace")
             ELSE Go(Worker, "markFailed") /\ UNCHANGED my
  /\ shown' = Crossed(Shows)
  /\ UNCHANGED <<row, objects, lock, stale, late, torn>>

Replace ==
  /\ at[Worker] = "replace"
  /\ Put("file", my[Worker].content, FALSE)
  /\ Go(Worker, "derive")
  /\ UNCHANGED <<row, lock, job, stale, late, torn, shown, my>>

\* storeDerivatives, private.
Derive ==
  /\ at[Worker] = "derive"
  /\ Put("thumbnail", Thumbnail(my[Worker].content), FALSE)
  /\ Go(Worker, "finish")
  /\ UNCHANGED <<row, lock, job, stale, late, torn, shown, my>>

\* The row is completed; a row that is gone takes the objects with it.
Finish ==
  /\ at[Worker] = "finish" /\ Unlocked
  /\ IF row = None
     THEN /\ my' = [my EXCEPT ![Worker].keys = {"file", "thumbnail"}]
          /\ Go(Worker, "purge") /\ UNCHANGED row
     ELSE /\ row' = [row EXCEPT !.securityStatus = "completed", !.derived = TRUE]
          /\ my' = [my EXCEPT ![Worker].op = "apply"]
          /\ Go(Worker, "lock")
  /\ UNCHANGED <<objects, lock, job, stale, late, torn, shown>>

\* Any step throws, its budget of two minutes included.
JobFails ==
  /\ at[Worker] \in {"replace", "derive", "finish", "lock", "acl", "save", "purge"}
  /\ lock' = IF lock = Worker THEN None ELSE lock
  /\ late' = IF at[Worker] = "acl"
             THEN late \cup {<<key, my[Worker].acl>> : key \in my[Worker].keys} ELSE late
  /\ torn' = TRUE
  /\ Go(Worker, "markFailed")
  /\ my' = [my EXCEPT ![Worker] = Blank]
  /\ UNCHANGED <<row, objects, job, stale, shown>>

MarkFailed ==
  /\ at[Worker] = "markFailed" /\ Unlocked
  /\ row' = IF row = None THEN None ELSE [row EXCEPT !.securityStatus = "failed"]
  /\ Leave(Worker)
  /\ UNCHANGED <<objects, lock, job, stale, late, torn, shown>>

\* The worker dies; BullMQ gives the job to the next one while it has attempts.
WorkerDies ==
  /\ at[Worker] # "idle"
  /\ lock' = IF lock = Worker THEN None ELSE lock
  /\ torn' = TRUE
  /\ Leave(Worker)
  /\ UNCHANGED <<row, objects, job, stale, late, shown>>

-----------------------------------------------------------------------------
(* Abandoned uploads, failures and deaths of requests. *)

Age ==
  /\ ~stale /\ row # None /\ row.securityStatus \in {"pending_upload", "verifying"}
  /\ stale' = TRUE
  /\ UNCHANGED <<row, objects, lock, job, late, torn, shown, at, my>>

\* findStaleByStatus.
FindAbandoned ==
  /\ at[Sweep] = "idle"
  /\ row # None /\ row.securityStatus = "pending_upload" /\ stale
  /\ Go(Sweep, "claim")
  /\ UNCHANGED <<row, objects, lock, job, stale, late, torn, shown, my>>

\* deleteIfStatus, then the objects of the row it removed.
RemoveAbandoned ==
  /\ at[Sweep] = "claim" /\ Unlocked
  /\ IF row # None /\ row.securityStatus = "pending_upload"
     THEN row' = None /\ Go(Sweep, "purge")
     ELSE Go(Sweep, "idle") /\ UNCHANGED row
  /\ UNCHANGED <<objects, lock, job, stale, late, torn, shown, my>>

RemoveObjects ==
  /\ at[Sweep] = "purge"
  /\ objects' = [objects EXCEPT !["incoming"] = None, !["file"] = None]
  /\ Go(Sweep, "idle")
  /\ UNCHANGED <<row, lock, job, stale, late, torn, shown, my>>

\* The catch of complete: an S3 call or the commit failed, or the file was swapped.
CompleteFails(q) ==
  /\ at[q] \in {"sniff", "copy", "publish", "commit", "rejectRow"}
  /\ Go(q, "reopen")
  /\ UNCHANGED <<row, objects, lock, job, stale, late, torn, shown, my>>

\* Anything else that throws, or the process dies.
Die(a) ==
  /\ at[a] \notin {"idle", "show", "flag"} /\ lock # a
  /\ Leave(a)
  /\ UNCHANGED <<row, objects, lock, job, stale, late, torn, shown>>

-----------------------------------------------------------------------------
Init ==
  /\ row = None
  /\ objects = [key \in Keys |-> None]
  /\ lock = None
  /\ job = 0
  /\ stale = FALSE
  /\ late = {}
  /\ torn = FALSE
  /\ shown = {}
  /\ at = [a \in Actors |-> "idle"]
  /\ my = [a \in Actors |-> Blank]

CompleteStep(q) ==
  \/ AskComplete(q) \/ Claim(q) \/ HeadObject(q) \/ SniffContent(q)
  \/ CopyIfUnchanged(q) \/ DropUpload(q) \/ Publish(q) \/ Commit(q)
  \/ Reopen(q) \/ Unclaim(q) \/ RejectKeys(q) \/ RejectRow(q)
  \/ CompleteFails(q)

OwnerStep(q) ==
  \/ AskChange(q) \/ GiveUpChange(q) \/ AskHardDelete(q)

ImageStep(q) == AskMainImage(q) \/ ShowImage(q) \/ FlagImage(q) \/ GiveUpImage(q)

LockedStep(a) == LockRow(a) \/ LockNothing(a) \/ SetAcl(a) \/ Save(a)

PurgeStep(a) == PurgeKey(a) \/ PurgeRow(a)

WorkerStep == StartJob \/ Replace \/ Derive \/ Finish \/ JobFails
              \/ MarkFailed \/ WorkerDies

SweepStep == FindAbandoned \/ RemoveAbandoned \/ RemoveObjects

Next ==
  \/ \E q \in Completing : CompleteStep(q)
  \/ \E q \in Changing : OwnerStep(q)
  \/ \E q \in Showing : ImageStep(q)
  \/ \E a \in Requests \cup {Worker} : LockedStep(a) \/ PurgeStep(a)
  \/ \E a \in Requests \cup {Sweep} : Die(a)
  \/ WorkerStep \/ SweepStep
  \/ Initiate \/ UploadAttachment \/ UploadAttachmentAsync
  \/ Post \/ Age \/ ServeLate

Spec == Init /\ [][Next]_vars

-----------------------------------------------------------------------------
TypeOK ==
  /\ row \in Row \cup {None}
  /\ objects \in [Keys -> Object \cup {None}]
  /\ lock \in Actors \cup {None}
  /\ job \in 0..2
  /\ stale \in BOOLEAN
  /\ late \subseteq (Keys \X BOOLEAN)
  /\ torn \in BOOLEAN
  /\ shown \subseteq {"raw", "crossed"}
  /\ at \in [Actors -> Places]
  /\ my \in [Actors -> Locals]

\* An image that still carries its metadata (location, camera) is never public,
\* whatever visibility its owner asks for while it is uploaded, checked, processed,
\* deleted and restored, and whichever of these steps fail or die - unless it was made
\* the main image of a story before it was processed.
RawStaysPrivate ==
  \A key \in Keys :
    objects[key] # None /\ objects[key].content.metadata =>
      \/ ~objects[key].public
      \/ key = "file" /\ "raw" \in shown

\* Nobody is changing a processed image, and no change broke off half way.
Quiet == /\ row # None /\ IsImage(row) /\ row.securityStatus = "completed"
         /\ Unlocked /\ ~Shows /\ at[Worker] = "idle" /\ job = 0 /\ ~torn

ServedAsFlagged ==
  \A key \in StorageKeys(row) :
    /\ objects[key] # None
    /\ objects[key].public = (row.isPublic /\ ~row.deleted)

\* Between changes the objects of a processed image are public exactly when its row says
\* so and is not deleted - unless, since the last change under the lock, it was made a
\* main image while somebody else was changing it.
AclFollowsRow == Quiet /\ "crossed" \notin shown => ServedAsFlagged

\* What a completed row serves begins like a file of the declared type, and an image
\* has lost its metadata: the file is never bytes the client swapped in after the check.
CompletedIsVerified ==
  row # None /\ row.securityStatus = "completed" =>
    \/ objects["file"] = None /\ torn
    \/ /\ objects["file"] # None
       /\ BeginsValid(row.declared, objects["file"].content)
       /\ ~objects["file"].content.metadata

\* No upload is rejected for the place where its beginning was cut: a file that is valid
\* as a whole passes.
OnlyInvalidRejected ==
  [][\A q \in Requests : at[q] = "sniff" /\ at'[q] = "reject" =>
       ~ContentValid(row.declared, my[q].content, FALSE)]_vars

\* Claimed (attachment-visibility.service.ts:9-13): a file that is not processed is not
\* made public, since that "would publish its GPS location and camera data".  The code
\* breaks it: updateMainImage of stories publishes an image that is still processing.
RawIsNeverPublic ==
  \A key \in Keys :
    objects[key] # None /\ objects[key].content.metadata => ~objects[key].public

\* Claimed (attachment-visibility.service.ts:16-19) for images: flag and access lists
\* change together.  The code breaks it: updateMainImage changes both without the lock,
\* and a deletion or a change to private meets it half way.
MainImageFollowsRow == Quiet => ServedAsFlagged

\* Claimed (attachment-visibility.service.ts:16-19): flag and access list of every file
\* change together, so that no private file stays publicly downloadable.
FlagAndAclTogether ==
  row # None /\ row.securityStatus = "completed" /\ ~row.isPublic /\ ~torn
    /\ job = 0 /\ (\A a \in Actors : at[a] = "idle") =>
    \/ objects["file"] = None
    \/ ~objects["file"].public
=============================================================================
