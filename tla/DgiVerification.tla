--------------------------- MODULE DgiVerification ---------------------------
(***************************************************************************)
(* The DGI verification of one subject (a professional or a company): its   *)
(* submissions, the verification worker, the stale watchdog, the            *)
(* administrator's review and the clean-up of orphaned documents.           *)
(*                                                                         *)
(* The RUT_PROOF row and the method follow the status in the same           *)
(* transaction and are left out.  What the worker reads in a document is a  *)
(* free choice.  Every job of the subject has one id, so the queue holds at *)
(* most one and ignores an addition while it does.                          *)
(***************************************************************************)
EXTENDS Naturals

CONSTANTS
    Slots,          \* submissions in progress at once
    Docs,           \* document keys
    NoDoc,
    MaxFaults       \* bound: dead processes and failed calls

VARIABLES
    queueEnabled,   \* dgiConfig.queueEnabled
    row,            \* the subject's status, document and trust profile
    bucket,         \* documents in the bucket
    stale,          \* the row is PROCESSING for longer than processingTimeoutMinutes
    submits,        \* the submissions in progress
    job,            \* the verification job
    worker,         \* the step of its worker
    onFailed,       \* the step of the handler of a failed attempt
    admin,          \* the review in progress
    watchdog,       \* the step of the watchdog
    cleanup,        \* the orphan clean-up
    checked,        \* history: the document the last approval was about
    orderly,        \* history: nothing has overlapped or failed so far
    faults

subject == <<row, bucket, stale>>
actors == <<submits, job, worker, onFailed, admin, watchdog, cleanup>>
vars == <<queueEnabled, subject, actors, checked, orderly, faults>>

DgiStatus == {"UNVERIFIED", "PROCESSING", "VERIFIED_AUTO", "PENDING_MANUAL_REVIEW", "REJECTED"}
Attempts == 3
NoSubmit == [pc |-> "idle", doc |-> NoDoc, old |-> NoDoc]
NoReview == [pc |-> "idle", doc |-> NoDoc]
NoCleanup == [pc |-> "idle", old |-> {}]
NoJob == [state |-> "none", doc |-> NoDoc, left |-> 0]

Init ==
    /\ queueEnabled \in BOOLEAN
    /\ row = [status |-> "UNVERIFIED", doc |-> NoDoc, trusted |-> FALSE]
    /\ bucket = {} /\ stale = FALSE
    /\ submits = [s \in Slots |-> NoSubmit]
    /\ job = NoJob /\ worker = "idle" /\ onFailed = "idle"
    /\ admin = NoReview /\ watchdog = "idle" /\ cleanup = NoCleanup
    /\ checked = NoDoc /\ orderly = TRUE /\ faults = 0

JobLive == job.state \in {"waiting", "active"}
Submitting == \E s \in Slots : submits[s] # NoSubmit
Reviewing == admin # NoReview \/ watchdog # "idle" \/ onFailed # "idle"
Busy(a) == IF a THEN 1 ELSE 0
Others == Busy(Submitting) + Busy(JobLive) + Busy(Reviewing) + Busy(cleanup # NoCleanup)
Begins == orderly' = (orderly /\ Others = 0)

\* Bound: submissions, reviews and clean-ups begin while at most one kind of
\* actor is under way.
Room == Others < 2
Goes == UNCHANGED <<orderly, faults>>
Fault == faults < MaxFaults /\ faults' = faults + 1 /\ orderly' = FALSE

\* applyDgiVerificationResult: by id, whatever the row has become; the trust
\* profile is only ever raised.
Apply(status, doc) ==
    /\ row' = [row EXCEPT !.status = status, !.trusted = @ \/ status = "VERIFIED_AUTO"]
    /\ checked' = IF status = "VERIFIED_AUTO" THEN doc ELSE checked
    /\ UNCHANGED <<bucket, stale>>

-----------------------------------------------------------------------------
(* The user                                                                *)

\* presignVerificationDocument and the upload to the address it returns
Upload(d) ==
    /\ d \notin bucket /\ bucket' = bucket \cup {d}
    /\ UNCHANGED <<queueEnabled, row, stale, actors, checked, orderly, faults>>

\* Mutant: a verified subject may submit again.
CanSubmitAgain == row.status # "PROCESSING"

\* assertCanSubmit
CanSubmit == row.status \notin {"VERIFIED_AUTO", "PROCESSING"}

\* submitVerification: the checks; another document is deleted first.
BeginSubmit(s, d) ==
    /\ Room /\ submits[s] = NoSubmit /\ CanSubmit /\ d \in bucket
    /\ submits' = [submits EXCEPT ![s] =
                      [pc |-> IF row.doc \in {NoDoc, d} THEN "mark" ELSE "deleteOld",
                       doc |-> d, old |-> row.doc]]
    /\ Begins
    /\ UNCHANGED <<queueEnabled, subject, job, worker, onFailed, admin, watchdog, cleanup,
                   checked, faults>>

Step(s, from, to) ==
    /\ submits[s].pc = from
    /\ submits' = [submits EXCEPT ![s] = IF to = "idle" THEN NoSubmit ELSE [@ EXCEPT !.pc = to]]
    /\ UNCHANGED <<queueEnabled, worker, onFailed, admin, watchdog, cleanup>>

DeleteOld(s) ==
    /\ Step(s, "deleteOld", "mark") /\ Goes
    /\ bucket' = bucket \ {submits[s].old}
    /\ UNCHANGED <<row, stale, job, checked>>

\* markDgiVerificationProcessing
Mark(s) ==
    /\ Step(s, "mark", IF queueEnabled THEN "clear" ELSE "idle") /\ Goes
    /\ row' = [row EXCEPT !.status = "PROCESSING", !.doc = submits[s].doc]
    /\ stale' = FALSE
    /\ UNCHANGED <<bucket, job, checked>>

\* clearFinishedVerifyJob
Clear(s) ==
    /\ Step(s, "clear", "add") /\ Goes
    /\ job' = IF job.state = "finished" THEN NoJob ELSE job
    /\ UNCHANGED <<subject, checked>>

\* verifyQueue.add with the subject's job id
Add(s) ==
    /\ Step(s, "add", "idle") /\ Goes
    /\ job' = IF job = NoJob
              THEN [state |-> "waiting", doc |-> submits[s].doc, left |-> Attempts] ELSE job
    /\ UNCHANGED <<subject, checked>>

SubmitFails(s) ==
    /\ submits[s] # NoSubmit /\ Fault
    /\ submits' = [submits EXCEPT ![s] = NoSubmit]
    /\ UNCHANGED <<queueEnabled, subject, job, worker, onFailed, admin, watchdog, cleanup, checked>>

-----------------------------------------------------------------------------
(* DgiVerifyProcessor                                                      *)

Work(from, to) ==
    /\ worker = from /\ worker' = to
    /\ UNCHANGED <<queueEnabled, submits, onFailed, admin, watchdog, cleanup>>

Take ==
    /\ job.state = "waiting" /\ job' = [job EXCEPT !.state = "active"]
    /\ Work("idle", "download") /\ Goes
    /\ UNCHANGED <<subject, checked>>

\* downloadObject, then what the QR code and the text say
Judge ==
    /\ \/ job.doc \in bucket /\ \E to \in {"verify", "review", "reject"} : Work("download", to)
       \/ job.doc \notin bucket /\ Work("download", "reject")
    /\ Goes /\ UNCHANGED <<subject, job, checked>>

\* tryQrStrategy: the DGI answers for an active subject with this RUT.
Verify ==
    /\ Work("verify", "notify") /\ Goes
    /\ Apply("VERIFIED_AUTO", job.doc)
    /\ UNCHANGED job

Notify ==
    /\ Work("notify", "done") /\ Goes
    /\ UNCHANGED <<subject, job, checked>>

\* The user of a verified subject is not found or not notified: tryQrStrategy
\* answers false and the text decides.
NotifyFails ==
    /\ \E to \in {"review", "reject"} : Work("notify", to)
    /\ Fault /\ UNCHANGED <<subject, job, checked>>

\* tryTextStrategy: the text names this RUT.
Review ==
    /\ Work("review", "done") /\ Goes
    /\ Apply("PENDING_MANUAL_REVIEW", NoDoc)
    /\ UNCHANGED job

\* reject: read, then write
RejectRead ==
    /\ Work("reject", IF row.status = "PROCESSING" THEN "rejected" ELSE "done") /\ Goes
    /\ UNCHANGED <<subject, job, checked>>

RejectWrite ==
    /\ Work("rejected", "done") /\ Goes
    /\ Apply("REJECTED", NoDoc)
    /\ UNCHANGED job

Finish ==
    /\ Work("done", "idle") /\ Goes
    /\ job' = [job EXCEPT !.state = "finished"]
    /\ UNCHANGED <<subject, checked>>

\* The attempt throws (the download's or the verdict's failure is rejected,
\* and that write fails too); the handler of the event runs on its own.
AttemptFails ==
    /\ worker # "idle" /\ worker' = "idle" /\ Fault
    /\ job' = [job EXCEPT !.state = IF @ = "active" /\ job.left > 1 THEN "waiting" ELSE "finished",
                          !.left = @ - 1]
    /\ onFailed = "idle" /\ onFailed' = "read"
    /\ UNCHANGED <<queueEnabled, subject, submits, admin, watchdog, cleanup, checked>>

\* The worker dies: the job is stalled and runs again.
WorkerDies ==
    /\ worker # "idle" /\ worker' = "idle" /\ Fault
    /\ job' = [job EXCEPT !.state = "waiting"]
    /\ UNCHANGED <<queueEnabled, subject, submits, onFailed, admin, watchdog, cleanup, checked>>

OnFailedRead ==
    /\ onFailed = "read"
    /\ onFailed' = IF row.status = "PROCESSING" THEN "write" ELSE "idle"
    /\ Goes /\ UNCHANGED <<queueEnabled, subject, submits, job, worker, admin, watchdog, cleanup, checked>>

OnFailedWrite ==
    /\ onFailed = "write" /\ onFailed' = "idle"
    /\ Apply("REJECTED", NoDoc)
    /\ Goes /\ UNCHANGED <<queueEnabled, submits, job, worker, admin, watchdog, cleanup>>

-----------------------------------------------------------------------------
(* DgiMaintenanceProcessor                                                 *)

RowAges ==
    /\ row.status = "PROCESSING" /\ ~stale /\ stale' = TRUE
    /\ UNCHANGED <<queueEnabled, row, bucket, actors, checked, orderly, faults>>

WatchIf(lists) ==
    /\ watchdog = "idle" /\ lists /\ watchdog' = "write"
    /\ Begins
    /\ UNCHANGED <<queueEnabled, subject, submits, job, worker, onFailed, admin, cleanup, checked, faults>>

\* Mutant: only subjects the queue knows are listed.
WatchQueued == WatchIf(row.status = "PROCESSING" /\ stale /\ job # NoJob)

\* runStaleWatchdog: findStaleDgiProcessingSubjects
Watch == WatchIf(row.status = "PROCESSING" /\ stale)

WatchWrite ==
    /\ watchdog = "write" /\ watchdog' = "idle"
    /\ Apply("REJECTED", NoDoc)
    /\ Goes /\ UNCHANGED <<queueEnabled, submits, job, worker, onFailed, admin, cleanup>>

\* The keys to keep, and some documents older than orphanMinAgeHours.
CleanUpBut(kept) ==
    /\ Room /\ cleanup = NoCleanup /\ bucket \ kept # {}
    /\ \E old \in SUBSET (bucket \ kept) \ {{}} : cleanup' = [pc |-> "delete", old |-> old]
    /\ Begins
    /\ UNCHANGED <<queueEnabled, subject, submits, job, worker, onFailed, admin, watchdog, checked, faults>>

\* Mutant: only what is being verified counts as referenced.
KeepInProgress == CleanUpBut(IF row.status = "PROCESSING" THEN {row.doc} ELSE {})

\* runOrphanCleanup: listReferencedVerificationDocKeys
KeepReferenced == CleanUpBut({row.doc})

\* listObjectsByPrefix and the deletions, some of which may fail
DeleteOrphans ==
    /\ cleanup.pc = "delete" /\ cleanup' = NoCleanup
    /\ \E lost \in SUBSET cleanup.old : bucket' = bucket \ lost
    /\ Goes
    /\ UNCHANGED <<queueEnabled, row, stale, submits, job, worker, onFailed, admin, watchdog, checked>>

-----------------------------------------------------------------------------
(* The administrator                                                       *)

\* listPendingManual hands out the address of the document.
Look ==
    /\ Room /\ admin = NoReview /\ row.status = "PENDING_MANUAL_REVIEW"
    /\ admin' = [pc |-> "looks", doc |-> row.doc]
    /\ Begins
    /\ UNCHANGED <<queueEnabled, subject, submits, job, worker, onFailed, watchdog, cleanup, checked, faults>>

\* adminReview: the check; a subject no longer pending is a conflict.
Decide ==
    /\ admin.pc = "looks"
    /\ IF row.status = "PENDING_MANUAL_REVIEW"
       THEN \E pc \in {"approve", "rejects"} : admin' = [admin EXCEPT !.pc = pc]
       ELSE admin' = NoReview
    /\ Goes
    /\ UNCHANGED <<queueEnabled, subject, submits, job, worker, onFailed, watchdog, cleanup, checked>>

DecisionWritten ==
    /\ admin.pc \in {"approve", "rejects"} /\ admin' = NoReview
    /\ Apply(IF admin.pc = "approve" THEN "VERIFIED_AUTO" ELSE "REJECTED", admin.doc)
    /\ Goes
    /\ UNCHANGED <<queueEnabled, submits, job, worker, onFailed, watchdog, cleanup>>

-----------------------------------------------------------------------------
SubmitStep(s) == DeleteOld(s) \/ Mark(s) \/ Clear(s) \/ Add(s)
WorkerStep ==
    Take \/ Judge \/ Verify \/ Notify \/ Review \/ RejectRead \/ RejectWrite \/ Finish

Next ==
    \/ \E d \in Docs : Upload(d) \/ \E s \in Slots : BeginSubmit(s, d)
    \/ \E s \in Slots : SubmitStep(s) \/ SubmitFails(s)
    \/ WorkerStep \/ NotifyFails \/ AttemptFails \/ WorkerDies
    \/ OnFailedRead \/ OnFailedWrite
    \/ RowAges \/ Watch \/ WatchWrite \/ KeepReferenced \/ DeleteOrphans
    \/ Look \/ Decide \/ DecisionWritten

Spec == Init /\ [][Next]_vars

\* Time passes (no other edit of the row renews updatedAt) and the watchdog's
\* cron runs.
Fairness == WF_vars(RowAges) /\ WF_vars(Watch) /\ WF_vars(WatchWrite)

LiveSpec == Spec /\ Fairness

-----------------------------------------------------------------------------
Keys == Docs \cup {NoDoc}

TypeOK ==
    /\ row \in [status : DgiStatus, doc : Keys, trusted : BOOLEAN]
    /\ bucket \subseteq Docs
    /\ \A s \in Slots :
          submits[s] \in [pc : {"idle", "deleteOld", "mark", "clear", "add"}, doc : Keys, old : Keys]
    /\ job \in [state : {"none", "waiting", "active", "finished"}, doc : Keys, left : 0..Attempts]
    /\ worker \in {"idle", "download", "verify", "notify", "review", "reject", "rejected", "done"}
    /\ onFailed \in {"idle", "read", "write"} /\ watchdog \in {"idle", "write"}
    /\ admin \in [pc : {"idle", "looks", "approve", "rejects"}, doc : Keys]
    /\ cleanup \in [pc : {"idle", "delete"}, old : SUBSET Docs]
    /\ {queueEnabled, stale, orderly} \subseteq BOOLEAN
    /\ checked \in Keys /\ faults \in 0..MaxFaults

\* As long as submissions, verdicts, reviews and the watchdog do not overlap,
\* a verified subject was verified for the document its row names, and its
\* trust profile says VERIFIED exactly when the row does.
VerificationIsBacked ==
    orderly =>
        /\ row.status = "VERIFIED_AUTO" => checked = row.doc
        /\ row.trusted <=> row.status = "VERIFIED_AUTO"

\* The document a row names is in the bucket: neither a resubmission nor the
\* clean-up removes it, as long as they do not overlap.  (A resubmission
\* deletes the old document before its row names the new one.)
DocumentIsKept ==
    orderly /\ ~Submitting /\ row.doc # NoDoc => row.doc \in bucket

\* No verification stays in progress for ever, whatever the queue and its
\* worker do: the watchdog rejects it.
ProcessingEnds == row.status = "PROCESSING" ~> row.status # "PROCESSING"
=============================================================================
