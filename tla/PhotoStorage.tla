---------------------------- MODULE PhotoStorage ----------------------------
(***************************************************************************)
(* The photos of a professional's portfolio items in PostgreSQL and their   *)
(* files in the R2 bucket: presigned uploads, registration, the check that  *)
(* precedes publication with its cache in Redis, and the cleanup of a       *)
(* deleted item.                                                            *)
(*                                                                         *)
(* Only the cleanup deletes files; deleting a photo deletes its row alone,  *)
(* and deleting an item keeps its rows.  What keeps the cleanup of one item *)
(* off the files of another is that no key is ever in two rows.             *)
(*                                                                         *)
(* Status: PUBLISHED stands for every state an item reaches after the       *)
(* check, moderated or not (see Portfolio).  A URL that expires unused is   *)
(* one never used.                                                          *)
(***************************************************************************)
EXTENDS Naturals, FiniteSets

CONSTANTS
    Slots,          \* requests in progress at once
    Items,
    Files,          \* file keys
    Limit           \* min(maxPhotosPerItem, photosPerItemMax of the plan)

VARIABLES
    status,         \* PortfolioItem.status: DRAFT or PUBLISHED
    deleted,        \* the items with deletedAt
    photos,         \* PortfolioPhoto: item -> file keys
    signed,         \* the keys with an upload URL
    bucket,         \* the files in R2
    known,          \* storage:exists:<key> in Redis
    calls,          \* the requests in progress
    cleanup,        \* portfolio-cleanup: per item, the files left
    found,          \* history: the photos found when the item was published
    orderly         \* history: no item was deleted while one of its photos was

vars == <<status, deleted, photos, signed, bucket, known, calls, cleanup, found, orderly>>

Idle == [pc |-> "idle"]
Job(pc, left) == [pc |-> pc, left |-> left]
NoJob == Job("none", {})
Queued == Job("queued", {})
Live == Items \ deleted
Taken == UNION {photos[i] : i \in Items}        \* keys with a row

Init ==
    /\ status = [i \in Items |-> "DRAFT"] /\ deleted = {}
    /\ photos = [i \in Items |-> {}]
    /\ signed = {} /\ bucket = {} /\ known = {}
    /\ calls = [s \in Slots |-> Idle]
    /\ cleanup = [i \in Items |-> NoJob]
    /\ found = [i \in Items |-> {}] /\ orderly = TRUE

Goto(s, call) == calls' = [calls EXCEPT ![s] = call]
Begin(s, call) == calls[s] = Idle /\ Goto(s, call)

-----------------------------------------------------------------------------
(* Uploads                                                                 *)

\* assertPhotoBatchFits
BatchFits(i, n) == Cardinality(photos[i]) + n <= Limit

\* buildPortfolioPhotoKey: each key has a random UUID of its own.
FreshKeys(keys) == keys \cap signed = {}

\* presignPhoto, presignPhotosBatch: only a batch is held to the limit.
Presign(i, keys) ==
    /\ i \in Live /\ keys # {}
    /\ Cardinality(keys) > 1 => BatchFits(i, Cardinality(keys))
    /\ FreshKeys(keys) /\ signed' = signed \cup keys
    /\ UNCHANGED <<status, deleted, photos, bucket, known, calls, cleanup, found, orderly>>

\* PUT to the URL of generatePresignedPutUrl
Upload(f) ==
    /\ f \in signed /\ bucket' = bucket \cup {f}
    /\ UNCHANGED <<status, deleted, photos, signed, known, calls, cleanup, found, orderly>>

\* Mutant: a key is looked for among the photos of live items.
TakenByLive(f) == \E i \in Live : f \in photos[i]

\* findPhotoByFileKey, and the unique index on fileKey: the rows of deleted
\* items count.
Registered(f) == f \in Taken

\* assertKeyBelongsToUser: the prefix of the professional, whichever the item.
BelongsToProfessional(f) == f \in signed

\* addPhoto: the status of the item is not looked at.
BeginAdd(s, i, f) ==
    /\ i \in Live /\ BelongsToProfessional(f)
    /\ ~Registered(f) /\ Cardinality(photos[i]) < Limit
    /\ Begin(s, [pc |-> "insert", item |-> i, file |-> f])
    /\ UNCHANGED <<status, deleted, photos, signed, bucket, known, cleanup, found, orderly>>

\* addPhotoWithReorder: the insert fails on a key that has a row by now.
Insert(s) ==
    /\ calls[s].pc = "insert" /\ Goto(s, Idle)
    /\ photos' = IF Registered(calls[s].file) THEN photos
                 ELSE [photos EXCEPT ![calls[s].item] = @ \cup {calls[s].file}]
    /\ UNCHANGED <<status, deleted, signed, bucket, known, cleanup, found, orderly>>

-----------------------------------------------------------------------------
(* Publication                                                             *)

\* publishItem
BeginPublish(s, i) ==
    /\ i \in Live /\ status[i] = "DRAFT" /\ Cardinality(photos[i]) >= 2
    /\ Begin(s, [pc |-> "head", item |-> i, read |-> photos[i], left |-> photos[i], ready |-> TRUE])
    /\ UNCHANGED <<status, deleted, photos, signed, bucket, known, cleanup, found, orderly>>

\* verifyPhotosAvailable: isExistsCached
Cached(s, f) ==
    /\ calls[s].pc = "head" /\ f \in calls[s].left \cap known
    /\ Goto(s, [calls[s] EXCEPT !.left = @ \ {f}])
    /\ UNCHANGED <<status, deleted, photos, signed, bucket, known, cleanup, found, orderly>>

\* verifyPhotosAvailable: HEAD; what is found is remembered unless Redis fails.
Head(s, f) ==
    /\ calls[s].pc = "head" /\ f \in calls[s].left
    /\ Goto(s, [calls[s] EXCEPT !.left = @ \ {f}, !.ready = @ /\ f \in bucket])
    /\ known' \in {known, known \cup ({f} \cap bucket)}
    /\ UNCHANGED <<status, deleted, photos, signed, bucket, cleanup, found, orderly>>

\* assertObjectExistsWithRetry: R2 fails twice; or a photo is not ready.
PublishFails(s) ==
    /\ calls[s].pc = "head" /\ Goto(s, Idle)
    /\ UNCHANGED <<status, deleted, photos, signed, bucket, known, cleanup, found, orderly>>

\* transitionToPublished
Publish(s) ==
    /\ calls[s].pc = "head" /\ calls[s].left = {} /\ calls[s].ready
    /\ Goto(s, Idle)
    /\ status' = [status EXCEPT ![calls[s].item] = "PUBLISHED"]
    /\ found' = [found EXCEPT ![calls[s].item] = calls[s].read]
    /\ UNCHANGED <<deleted, photos, signed, bucket, known, cleanup, orderly>>

\* unpublishItem
Unpublish(i) ==
    /\ i \in Live /\ status[i] = "PUBLISHED"
    /\ status' = [status EXCEPT ![i] = "DRAFT"]
    /\ found' = [found EXCEPT ![i] = {}]
    /\ UNCHANGED <<deleted, photos, signed, bucket, known, calls, cleanup, orderly>>

-----------------------------------------------------------------------------
(* Deletion                                                                *)

\* deletePhoto
BeginDeletePhoto(s, i, f) ==
    /\ i \in Live /\ status[i] # "PUBLISHED" /\ f \in photos[i]
    /\ Begin(s, [pc |-> "delete", item |-> i, file |-> f])
    /\ UNCHANGED <<status, deleted, photos, signed, bucket, known, cleanup, found, orderly>>

\* deletePhotoWithReorder
DeletePhoto(s) ==
    /\ calls[s].pc = "delete" /\ Goto(s, Idle)
    /\ photos' = [photos EXCEPT ![calls[s].item] = @ \ {calls[s].file}]
    /\ UNCHANGED <<status, deleted, signed, bucket, known, cleanup, found, orderly>>

\* softDeleteItem
SoftDelete(s, i) ==
    /\ i \in Live /\ Begin(s, [pc |-> "enqueue", item |-> i])
    /\ deleted' = deleted \cup {i}
    /\ orderly' = (orderly /\ \A r \in Slots : calls[r].pc = "delete" => calls[r].item # i)
    /\ UNCHANGED <<status, photos, signed, bucket, known, cleanup, found>>

\* PortfolioCleanupQueue.enqueue; the process may die before it.
Enqueue(s) ==
    /\ calls[s].pc = "enqueue" /\ Goto(s, Idle)
    /\ cleanup' \in {cleanup, [cleanup EXCEPT ![calls[s].item] = Queued]}
    /\ UNCHANGED <<status, deleted, photos, signed, bucket, known, found, orderly>>

\* PortfolioCleanupProcessor.process
Clean(i) ==
    /\ cleanup[i] = Queued /\ cleanup' = [cleanup EXCEPT ![i] = Job("delete", photos[i])]
    /\ UNCHANGED <<status, deleted, photos, signed, bucket, known, calls, found, orderly>>

Cleaning(i) == cleanup[i].pc = "delete"

\* One file; an error is logged and the file left.
DeleteFile(i, f) ==
    /\ Cleaning(i) /\ f \in cleanup[i].left
    /\ cleanup' = [cleanup EXCEPT ![i].left = @ \ {f}]
    /\ bucket' \in {bucket, bucket \ {f}}
    /\ UNCHANGED <<status, deleted, photos, signed, known, calls, found, orderly>>

\* The worker dies and the job is handed out again.
WorkerDies(i) ==
    /\ Cleaning(i) /\ cleanup[i].left # {} /\ cleanup' = [cleanup EXCEPT ![i] = Queued]
    /\ UNCHANGED <<status, deleted, photos, signed, bucket, known, calls, found, orderly>>

\* The TTL of the cache.
Forget(f) ==
    /\ f \in known /\ known' = known \ {f}
    /\ UNCHANGED <<status, deleted, photos, signed, bucket, calls, cleanup, found, orderly>>

Next ==
    \/ \E s \in Slots :
          \/ \E i \in Items :
                \/ BeginPublish(s, i) \/ SoftDelete(s, i)
                \/ \E f \in Files : BeginAdd(s, i, f) \/ BeginDeletePhoto(s, i, f)
          \/ \E f \in Files : Cached(s, f) \/ Head(s, f)
          \/ Insert(s) \/ PublishFails(s) \/ Publish(s) \/ DeletePhoto(s) \/ Enqueue(s)
    \/ \E i \in Items :
          \/ \E keys \in SUBSET Files : Presign(i, keys)
          \/ Unpublish(i) \/ Clean(i) \/ WorkerDies(i)
          \/ \E f \in Files : DeleteFile(i, f)
    \/ \E f \in Files : Upload(f) \/ Forget(f)

Spec == Init /\ [][Next]_vars

-----------------------------------------------------------------------------
Calls ==
    {Idle}
    \cup [pc : {"insert", "delete"}, item : Items, file : Files]
    \cup [pc : {"enqueue"}, item : Items]
    \cup [pc : {"head"}, item : Items, read : SUBSET Files, left : SUBSET Files, ready : BOOLEAN]

TypeOK ==
    /\ status \in [Items -> {"DRAFT", "PUBLISHED"}]
    /\ deleted \subseteq Items
    /\ photos \in [Items -> SUBSET Files]
    /\ bucket \subseteq signed /\ signed \subseteq Files /\ known \subseteq signed
    /\ \A s \in Slots : calls[s] \in Calls
    /\ cleanup \in [Items -> [pc : {"none", "queued", "delete"}, left : SUBSET Files]]
    /\ found \in [Items -> SUBSET Files] /\ orderly \in BOOLEAN

\* What was found when an item was published is in the bucket for as long as
\* the item shows it, however many items the same key has been in, unless an
\* item was deleted while one of its photos was being deleted.
ShownPhotosExist ==
    orderly => \A i \in Live : status[i] = "PUBLISHED" => found[i] \cap photos[i] \subseteq bucket
=============================================================================
