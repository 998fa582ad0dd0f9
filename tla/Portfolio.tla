----------------------------- MODULE Portfolio -----------------------------
(***************************************************************************)
(* One item of a professional's portfolio: PortfolioService,               *)
(* PortfolioRepository, the moderation worker, the cleanup worker and the   *)
(* administrator's review queue.                                           *)
(*                                                                         *)
(* An owner's request is a slot that keeps what it has read; each step is  *)
(* one transaction, one call to a queue or the reads that follow one       *)
(* another.  Title and description are a version number, a photo is its    *)
(* file key.  The worker takes jobs in any order (retries are delayed, and *)
(* several processes consume the queue); it reads nothing of the item, so  *)
(* its step is the write of the verdict.  The order of the photos and the  *)
(* limit on their number are the subject of PhotoOrder, the client's       *)
(* consent that of PortfolioConsent.                                       *)
(***************************************************************************)
EXTENDS Naturals, FiniteSets

CONSTANTS
    Slots,       \* requests of the owner and of reporters in progress at once
    Photos,      \* file keys
    MaxEdits,    \* bound: changes of title or description
    MaxJobs,     \* bound: moderation jobs
    MaxFaults    \* bound: dead processes and failed calls

ASSUME ConstantsAssumption ==
    IsFiniteSet(Slots) /\ {MaxEdits, MaxJobs, MaxFaults} \subseteq Nat

VARIABLES
    aiEnabled,   \* PORTFOLIO_AI_ENABLED, read when the process starts
    item,        \* the PortfolioItem row
    photos,      \* the PortfolioPhoto rows of the item
    stored,      \* photos whose object is in the public bucket
    jobs,        \* moderation jobs not yet acknowledged
    issued,      \* moderation jobs ever queued
    cleanup,     \* the cleanup job
    asked,       \* the client has been asked to confirm the job and may answer
    req,         \* the requests in progress
    orderly,     \* history: nothing has overlapped or failed so far
    reviewed,    \* history: what a verdict or an administrator has passed while orderly
    ban,         \* history: an administrator hid the item with nothing under way, and no
                 \* administrator has given it back ("undone": a client's complaint has)
    faults

config == <<aiEnabled>>
queues == <<jobs, issued, cleanup>>
history == <<reviewed, orderly, ban, faults>>
vars == <<aiEnabled, item, photos, stored, queues, asked, req, history>>

Status == {"DRAFT", "PUBLISHED", "HIDDEN_PENDING_REVIEW", "HIDDEN_BY_ADMIN"}
AiStatus == {"PENDING", "OK", "FLAGGED"}
Texts == 0..MaxEdits
Attempts == 3
Bans == {"none", "in force", "undone"}

\* moderate: what the request does is to be moderated, by the item it has read.
Idle == [pc |-> "idle", moderate |-> FALSE, text |-> 0, keys |-> {}]
At(r, step) == req[r].pc = step
Reply(r) == req' = [req EXCEPT ![r] = Idle]
Goto(r, step) == req' = [req EXCEPT ![r].pc = step]
Nothing == [keys |-> {}, texts |-> {}]
Quiet == \A r \in Slots : req[r] = Idle
Visible == item.status = "PUBLISHED" /\ ~item.deleted

Init ==
    /\ aiEnabled \in BOOLEAN
    /\ item = [status |-> "DRAFT", ai |-> "PENDING", deleted |-> FALSE, text |-> 0]
    /\ photos = {} /\ stored = Photos
    /\ jobs = {} /\ issued = 0 /\ cleanup = "none"
    /\ asked = FALSE
    /\ req = [r \in Slots |-> Idle]
    /\ reviewed = Nothing
    /\ orderly = TRUE /\ ban = "none" /\ faults = 0

\* What has been passed is kept for as long as the history is orderly.
Keep(still) == orderly' = (orderly /\ still) /\ reviewed' = IF orderly' THEN reviewed ELSE Nothing
Fault == faults < MaxFaults /\ faults' = faults + 1 /\ Keep(FALSE)

\* Mutant: whatever is not a draft is moderated again.
RevalidateAnyHidden == aiEnabled /\ item.status # "DRAFT"

\* shouldRevalidateAfterEdit
ShouldRevalidate ==
    /\ aiEnabled
    /\ \/ item.status = "PUBLISHED"
       \/ item.status = "HIDDEN_PENDING_REVIEW" /\ item.ai = "FLAGGED"

-----------------------------------------------------------------------------
(* The owner's requests.  Each begins with assertItemOwnedAndReturn.       *)

\* Bound: a job is left for every request that will queue one.
JobLeft == issued + Cardinality({s \in Slots : req[s].moderate}) < MaxJobs

Begin(r, step, keys, moderate) ==
    /\ req[r] = Idle
    /\ ~item.deleted
    /\ moderate => JobLeft
    /\ req' = [req EXCEPT ![r] = [pc |-> step, moderate |-> moderate,
                                  text |-> IF moderate THEN item.text ELSE 0, keys |-> keys]]
    /\ Keep(Quiet /\ jobs = {})
    /\ UNCHANGED <<config, item, photos, stored, queues, asked, ban, faults>>

\* An edit is over unless the item is to be moderated again.
Edited(r, text) ==
    req' = [req EXCEPT ![r] = IF @.moderate THEN [@ EXCEPT !.pc = "pend", !.text = text] ELSE Idle]

\* addPhoto: the key must not be registered yet.
BeginAddPhoto(r, p) == p \notin photos /\ Begin(r, "insert", {p}, ShouldRevalidate)

\* addPhotoWithReorder; a key registered meanwhile meets the unique index.
InsertPhoto(r) ==
    /\ At(r, "insert")
    /\ photos' = photos \cup req[r].keys
    /\ IF req[r].keys \subseteq photos THEN Reply(r) ELSE Edited(r, req[r].text)
    /\ UNCHANGED <<config, item, stored, queues, asked, history>>

\* deletePhoto
BeginDeletePhoto(r, p) ==
    /\ item.status # "PUBLISHED" /\ p \in photos
    /\ Begin(r, "delete", {p}, ShouldRevalidate)

\* deletePhotoWithReorder; the object stays in the bucket.
DeletePhoto(r) ==
    /\ At(r, "delete")
    /\ photos' = photos \ req[r].keys
    /\ IF req[r].keys \subseteq photos THEN Edited(r, req[r].text) ELSE Reply(r)
    /\ UNCHANGED <<config, item, stored, queues, asked, history>>

\* Bound: a version is left for every update in progress.
BeginUpdate(r) ==
    /\ item.text + Cardinality({s \in Slots : At(s, "update")}) < MaxEdits
    /\ Begin(r, "update", {}, ShouldRevalidate)

\* Mutant: the text to moderate is that of the row read at the start.
UpdateItemOldText(r) ==
    /\ At(r, "update")
    /\ item' = [item EXCEPT !.text = @ + 1]
    /\ Edited(r, req[r].text)
    /\ UNCHANGED <<config, photos, stored, queues, asked, history>>

\* updateItem: the text to moderate is that of the row just written.
UpdateItem(r) ==
    /\ At(r, "update")
    /\ item' = [item EXCEPT !.text = @ + 1]
    /\ Edited(r, item.text + 1)
    /\ UNCHANGED <<config, photos, stored, queues, asked, history>>

AiPending == [item EXCEPT !.status = "HIDDEN_PENDING_REVIEW", !.ai = "PENDING"]

\* enqueueRemoderationIfNeeded: findPhotosByItemId and transitionToAiPending
Pend(r) ==
    /\ At(r, "pend")
    /\ item' = AiPending
    /\ req' = [req EXCEPT ![r].pc = "enqueue", ![r].keys = photos]
    /\ UNCHANGED <<config, photos, stored, queues, asked, history>>

\* moderateQueue.add
Queued(r, attempts) ==
    /\ At(r, "enqueue")
    /\ issued' = issued + 1
    /\ jobs' = jobs \cup {[id |-> issued', keys |-> req[r].keys, text |-> req[r].text,
                           left |-> attempts]}
    /\ Reply(r)
    /\ UNCHANGED <<config, item, photos, stored, cleanup, asked, history>>

\* Mutants: a job is tried once; the attempts are counted as retries.
EnqueueOnce(r) == Queued(r, 1)
EnqueueRetries(r) == Queued(r, Attempts + 1)

Enqueue(r) == Queued(r, Attempts)

\* The process dies or a call fails between two steps of a request.
RequestFails(r) ==
    /\ req[r] # Idle /\ Fault
    /\ Reply(r)
    /\ UNCHANGED <<config, item, photos, stored, queues, asked, ban>>

\* publishItem: verifyPhotosAvailable found every object.
BeginPublish(r) ==
    /\ item.status = "DRAFT" /\ Cardinality(photos) >= 2
    /\ photos \subseteq stored
    /\ Begin(r, "publish", photos, aiEnabled)

Publish(r) ==
    /\ At(r, "publish")
    /\ IF req[r].moderate
       THEN item' = AiPending /\ Goto(r, "enqueue")
       ELSE item' = [item EXCEPT !.status = "PUBLISHED", !.ai = "OK"] /\ Reply(r)
    /\ UNCHANGED <<config, photos, stored, queues, asked, history>>

\* unpublishItem, transitionToDraft
BeginUnpublish(r) == item.status = "PUBLISHED" /\ Begin(r, "unpublish", {}, FALSE)

Unpublish(r) ==
    /\ At(r, "unpublish")
    /\ item' = [item EXCEPT !.status = "DRAFT"]
    /\ Reply(r)
    /\ UNCHANGED <<config, photos, stored, queues, asked, history>>

\* softDeleteItem: only the request that marks the row queues the cleanup.
BeginDelete(r) == Begin(r, "softDelete", {}, FALSE)

\* Mutant: the cleanup is queued for a published item only.
SoftDeletePublished(r) ==
    /\ At(r, "softDelete")
    /\ item' = [item EXCEPT !.deleted = TRUE]
    /\ IF item.deleted \/ item.status # "PUBLISHED" THEN Reply(r) ELSE Goto(r, "enqueueCleanup")
    /\ UNCHANGED <<config, photos, stored, queues, asked, history>>

SoftDelete(r) ==
    /\ At(r, "softDelete")
    /\ item' = [item EXCEPT !.deleted = TRUE]
    /\ IF item.deleted THEN Reply(r) ELSE Goto(r, "enqueueCleanup")
    /\ UNCHANGED <<config, photos, stored, queues, asked, history>>

EnqueueCleanup(r) ==
    /\ At(r, "enqueueCleanup")
    /\ cleanup' = "queued"
    /\ Reply(r)
    /\ UNCHANGED <<config, item, photos, stored, jobs, issued, asked, history>>

\* requestVerification, as far as the item is concerned.
RequestVerification ==
    /\ Visible /\ ~asked
    /\ asked' = TRUE
    /\ UNCHANGED <<config, item, photos, stored, queues, req, history>>

-----------------------------------------------------------------------------
(* Other users                                                             *)

\* reportPublishedPortfolioItem reads the row and then updates it by id.
BeginReport(r) == item.status = "PUBLISHED" /\ Begin(r, "report", {}, FALSE)

Report(r) ==
    /\ At(r, "report")
    /\ item' = [item EXCEPT !.status = "HIDDEN_PENDING_REVIEW"]
    /\ Reply(r)
    /\ UNCHANGED <<config, photos, stored, queues, asked, history>>

\* declinePortfolioConsent for an INAPPROPRIATE item: whatever its status is,
\* and no administrator has a part in it.
\* (Left pending, the consent can be answered once.)
DeclineInappropriate ==
    /\ asked /\ asked' = FALSE
    /\ item' = [item EXCEPT !.status = "HIDDEN_PENDING_REVIEW"]
    /\ Keep(Quiet)
    /\ ban' = IF ban = "in force" THEN "undone" ELSE ban
    /\ UNCHANGED <<config, photos, stored, queues, req, faults>>

\* applyAdminPortfolioModeration: one guarded update.
AdminMoves(from, to) ==
    /\ ~item.deleted /\ item.status = from
    /\ item' = [item EXCEPT !.status = to]
    /\ orderly' = (orderly /\ Quiet)
    /\ UNCHANGED <<config, photos, stored, queues, asked, req, faults>>

Passed(keys, text) ==
    reviewed' = IF orderly'
                THEN [keys |-> reviewed.keys \cup keys, texts |-> reviewed.texts \cup {text}]
                ELSE Nothing

AdminApprove ==
    /\ AdminMoves("HIDDEN_PENDING_REVIEW", "PUBLISHED")
    /\ Passed(photos, item.text)
    /\ ban' = "none"

AdminHide ==
    /\ AdminMoves("HIDDEN_PENDING_REVIEW", "HIDDEN_BY_ADMIN")
    /\ Keep(Quiet)
    /\ ban' = IF jobs = {} /\ Quiet THEN "in force" ELSE "none"

AdminRestore ==
    /\ AdminMoves("HIDDEN_BY_ADMIN", "DRAFT")
    /\ Keep(Quiet)
    /\ ban' = "none"

-----------------------------------------------------------------------------
(* The workers                                                             *)

\* PortfolioModerateProcessor: photos that cannot be downloaded are skipped,
\* the verdict is written whatever has become of the item.
Verdict(ok) ==
    /\ item' = [item EXCEPT !.status = IF ok THEN "PUBLISHED" ELSE "HIDDEN_PENDING_REVIEW",
                            !.ai = IF ok THEN "OK" ELSE "FLAGGED"]
    /\ UNCHANGED <<config, photos, stored, issued, cleanup, asked, req, ban>>

Moderate(j, ok) ==
    /\ Verdict(ok)
    /\ jobs' = jobs \ {j}
    /\ UNCHANGED <<orderly, faults>>
    /\ IF ok THEN Passed(j.keys \cap stored, j.text) ELSE UNCHANGED reviewed

\* A download fails: the photo is skipped and a verdict is given without it.
ModerateUnseen(j) ==
    /\ Verdict(TRUE)
    /\ jobs' = jobs \ {j}
    /\ Fault

\* The worker dies after the write: the job is stalled and runs again.
ModerateTwice(j, ok) ==
    /\ Verdict(ok)
    /\ jobs' = jobs
    /\ Fault

\* An attempt fails before the verdict is written; the last one is not repeated.
AttemptFails(j) ==
    /\ Fault
    /\ jobs' = (jobs \ {j}) \cup (IF j.left > 1 THEN {[j EXCEPT !.left = @ - 1]} ELSE {})
    /\ UNCHANGED <<config, item, photos, stored, issued, cleanup, asked, req, ban>>

\* PortfolioCleanupProcessor deletes the objects of the rows it finds.
CleanUp ==
    /\ cleanup = "queued" /\ cleanup' = "done"
    /\ stored' = stored \ photos
    /\ UNCHANGED <<config, item, photos, jobs, issued, asked, req, history>>

\* An object cannot be deleted: the failure is logged and the job is done.
CleanUpPartly(p) ==
    /\ cleanup = "queued" /\ cleanup' = "done" /\ Fault
    /\ stored' = stored \ (photos \ {p})
    /\ UNCHANGED <<config, item, photos, jobs, issued, asked, req, ban>>

-----------------------------------------------------------------------------
RequestStep(r) ==
    \/ InsertPhoto(r) \/ DeletePhoto(r) \/ UpdateItem(r) \/ Pend(r) \/ Enqueue(r)
    \/ Publish(r) \/ Unpublish(r) \/ SoftDelete(r) \/ EnqueueCleanup(r) \/ Report(r)

Next ==
    \/ \E r \in Slots :
          \/ \E p \in Photos : BeginAddPhoto(r, p) \/ BeginDeletePhoto(r, p)
          \/ BeginUpdate(r) \/ BeginPublish(r) \/ BeginUnpublish(r) \/ BeginDelete(r)
          \/ BeginReport(r) \/ RequestStep(r) \/ RequestFails(r)
    \/ RequestVerification \/ DeclineInappropriate
    \/ AdminApprove \/ AdminHide \/ AdminRestore
    \/ \E j \in jobs :
          \/ \E ok \in BOOLEAN : Moderate(j, ok) \/ ModerateTwice(j, ok)
          \/ ModerateUnseen(j) \/ AttemptFails(j)
    \/ CleanUp \/ \E p \in photos : CleanUpPartly(p)

Spec == Init /\ [][Next]_vars

\* A request goes on, a worker takes what is queued; nobody has to ask for
\* anything, and the administrator has to decide nothing.
Fairness ==
    /\ \A r \in Slots : WF_vars(RequestStep(r))
    /\ WF_vars(\E j \in jobs, ok \in BOOLEAN : Moderate(j, ok))
    /\ WF_vars(CleanUp)

LiveSpec == Spec /\ Fairness

-----------------------------------------------------------------------------
Jobs == [id : 1..MaxJobs, keys : SUBSET Photos, text : Texts, left : 1..Attempts]
Steps == {"idle", "insert", "delete", "update", "pend", "enqueue", "publish", "unpublish",
          "softDelete", "enqueueCleanup", "report"}

\* Every variable has its type; a job keeps an attempt as long as it is queued.
TypeOK ==
    /\ aiEnabled \in BOOLEAN
    /\ item \in [status : Status, ai : AiStatus, deleted : BOOLEAN, text : Texts]
    /\ photos \subseteq Photos /\ stored \subseteq Photos
    /\ jobs \subseteq Jobs /\ issued \in 0..MaxJobs
    /\ cleanup \in {"none", "queued", "done"}
    /\ asked \in BOOLEAN
    /\ req \in [Slots -> [pc : Steps, moderate : BOOLEAN, text : Texts, keys : SUBSET Photos]]
    /\ reviewed \in [keys : SUBSET Photos, texts : SUBSET Texts]
    /\ orderly \in BOOLEAN /\ ban \in Bans /\ faults \in 0..MaxFaults

\* With moderation on, and as long as no request has met another or a job in
\* the queue and nothing has failed, what the public sees is what a verdict or
\* an administrator has passed, except between the two writes of an edit: the
\* row or the photo is written first and the item hidden by a second update.
PublishedIsReviewed ==
    aiEnabled /\ orderly /\ Visible /\ (\A r \in Slots : ~At(r, "pend")) =>
        photos \subseteq reviewed.keys /\ item.text \in reviewed.texts

\* An item an administrator hides with nothing under way stays hidden, whatever
\* its owner does to it, until an administrator gives it back or a client
\* complains of it: no edit of a hidden item queues a verdict that would
\* publish it.
BanHolds == ban = "in force" => item.status = "HIDDEN_BY_ADMIN"

\* An item that waits for its verdict gets one, or an administrator or its
\* owner takes it out of the queue, although an attempt of the worker may
\* fail; a request that breaks off before it has queued the job is the
\* exception.
Waiting == item.status = "HIDDEN_PENDING_REVIEW" /\ item.ai = "PENDING" /\ jobs # {}
WaitingIsDecided ==
    Waiting ~> ~(item.status = "HIDDEN_PENDING_REVIEW" /\ item.ai = "PENDING")

\* The objects of an item that was deleted with nothing else under way are
\* removed.
DeletedIsCleaned == item.deleted /\ orderly ~> ~orderly \/ photos \cap stored = {}

-----------------------------------------------------------------------------
(* What the repository says and the code does not do.                      *)

\* What an administrator has hidden is not published before it is restored.
\* The statement of src/src/modules/portfolio/portfolio.service.ts:728.
HiddenUntilRestored ==
    [][item.status = "HIDDEN_BY_ADMIN" => item'.status # "PUBLISHED"]_vars

\* The same statement of an item nothing was under way for: the complaint of
\* the client who is asked about the job lifts the ban, and the owner's next
\* edit of the flagged item lets a verdict publish it.
BannedStaysBlocked == ban # "none" => item.status # "PUBLISHED"

\* portfolio.service.ts:429: a change of a published item has it moderated
\* again.  The process may die between the change and the update that hides
\* the item, which is then public as it was never moderated.
ChangedIsModerated ==
    \A r \in Slots : (Visible /\ At(r, "pend")) ~> ~Visible
=============================================================================
