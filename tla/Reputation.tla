------------------------------ MODULE Reputation ------------------------------
(***************************************************************************)
(* What a client sees of a professional next to the moderated text: the     *)
(* order of an item's photos and their files, the consent of the client the *)
(* item shows, the tax certificate and what it decides.                     *)
(* One run checks them all: a behaviour chooses a part at the start and is a behaviour of that part    *)
(* alone, since interleaving them would only multiply their states.         *)
(***************************************************************************)
EXTENDS Naturals

CONSTANTS
    Slots, OneSlot,             \* requests in progress at once
    OneFault, MaxFaults,        \* failures of a part
    Files, Limit, MaxOrder, MaxLast,
    TwoFiles, Items,
    Docs, NoDoc,
    None, Digits

\* The limit of a plan is a number.
ASSUME LimitAssumption == Limit \in Nat

\* The bounds are numbers.
ASSUME FaultAssumption == OneFault \in Nat /\ MaxFaults \in Nat

\* What is tried in the middle of a number are digits.
ASSUME DigitAssumption == Digits \subseteq 0..9

\* The absence of a value is none of the values.
ASSUME NoneAssumption ==
    /\ None \notin {"own", "other", "VERIFIED_AUTO", "PENDING_MANUAL_REVIEW", "REJECTED"}
    /\ None \notin [rut : {"own", "other"}, activo : BOOLEAN]

VARIABLES
    focus,      \* the part that moves
    photoOrder, photoEdits, photoOrderly, photoGap,
    fileStatus, fileDeleted, filePhotos, fileSigned, fileBucket, fileKnown,
    fileCalls, fileCleanup, fileFound, fileOrderly,
    consentConsent, consentFirst, consentVerified, consentAsks,
    consentRefusals, consentTimer, consentOrderly, consentFaults,
    dgiQueueEnabled, dgiRow, dgiBucket, dgiStale, dgiSubmits, dgiJob,
    dgiWorker, dgiOnFailed, dgiAdmin, dgiWatchdog, dgiCleanup, dgiChecked,
    dgiOrderly, dgiFaults,
    rutRegistered, rutCertificate, rutOutcome

photoVars ==
    <<photoOrder, photoEdits, photoOrderly, photoGap>>
fileVars ==
    <<fileStatus, fileDeleted, filePhotos, fileSigned, fileBucket, fileKnown,
      fileCalls, fileCleanup, fileFound, fileOrderly>>
consentVars ==
    <<consentConsent, consentFirst, consentVerified, consentAsks,
      consentRefusals, consentTimer, consentOrderly, consentFaults>>
dgiVars ==
    <<dgiQueueEnabled, dgiRow, dgiBucket, dgiStale, dgiSubmits, dgiJob,
      dgiWorker, dgiOnFailed, dgiAdmin, dgiWatchdog, dgiCleanup, dgiChecked,
      dgiOrderly, dgiFaults>>
rutVars ==
    <<rutRegistered, rutCertificate, rutOutcome>>

Photos == INSTANCE PhotoOrder WITH
    Photos <- Files, order <- photoOrder, edits <- photoEdits,
    orderly <- photoOrderly, gap <- photoGap

Storage == INSTANCE PhotoStorage WITH
    Files <- TwoFiles, status <- fileStatus, deleted <- fileDeleted,
    photos <- filePhotos, signed <- fileSigned, bucket <- fileBucket,
    known <- fileKnown, calls <- fileCalls, cleanup <- fileCleanup,
    found <- fileFound, orderly <- fileOrderly

Consent == INSTANCE PortfolioConsent WITH
    Asks <- Slots, Refusals <- Slots, consent <- consentConsent,
    first <- consentFirst, verified <- consentVerified, asks <- consentAsks,
    refusals <- consentRefusals, timer <- consentTimer,
    orderly <- consentOrderly, faults <- consentFaults

Dgi == INSTANCE DgiVerification WITH
    Slots <- OneSlot, MaxFaults <- OneFault,
    queueEnabled <- dgiQueueEnabled, row <- dgiRow, bucket <- dgiBucket,
    stale <- dgiStale, submits <- dgiSubmits, job <- dgiJob,
    worker <- dgiWorker, onFailed <- dgiOnFailed, admin <- dgiAdmin,
    watchdog <- dgiWatchdog, cleanup <- dgiCleanup, checked <- dgiChecked,
    orderly <- dgiOrderly, faults <- dgiFaults

Document == INSTANCE DgiDocument WITH
    registered <- rutRegistered, certificate <- rutCertificate,
    outcome <- rutOutcome

Parts == {"photos", "files", "consent", "dgi", "document"}

\* A part that does not move has one initial state.
Resting == focus # "dgi" => dgiQueueEnabled

Init ==
    /\ focus \in Parts
    /\ Photos!Init
    /\ Storage!Init
    /\ Consent!Init
    /\ Dgi!Init
    /\ Document!Init
    /\ Resting

Still ==
    /\ UNCHANGED focus
    /\ IF focus = "photos" THEN TRUE ELSE UNCHANGED photoVars
    /\ IF focus = "files" THEN TRUE ELSE UNCHANGED fileVars
    /\ IF focus = "consent" THEN TRUE ELSE UNCHANGED consentVars
    /\ IF focus = "dgi" THEN TRUE ELSE UNCHANGED dgiVars
    /\ IF focus = "document" THEN TRUE ELSE UNCHANGED rutVars

Next ==
    \/ focus = "photos" /\ Photos!Next /\ Still
    \/ focus = "files" /\ Storage!Next /\ Still
    \/ focus = "consent" /\ Consent!Next /\ Still
    \/ focus = "dgi" /\ Dgi!Next /\ Still
    \/ focus = "document" /\ Document!Next /\ Still

vars == <<focus, photoVars, fileVars, consentVars, dgiVars, rutVars>>

\* Each part's own fairness, asked of the part that moves.
Fairness ==
    /\ \A r \in Slots :
          WF_consentVars(focus = "consent" /\ (Consent!Create(r) \/ Consent!Schedule(r)))
    /\ WF_consentVars(focus = "consent" /\ Consent!Reminder)
    /\ WF_dgiVars(focus = "dgi" /\ Dgi!RowAges)
    /\ WF_dgiVars(focus = "dgi" /\ Dgi!Watch)
    /\ WF_dgiVars(focus = "dgi" /\ Dgi!WatchWrite)

LiveSpec == Init /\ [][Next]_vars /\ Fairness

-----------------------------------------------------------------------------
\* The parts at rest are in an initial state.
TypeOK ==
    /\ focus \in Parts
    /\ focus = "photos" => Photos!TypeOK
    /\ focus = "files" => Storage!TypeOK
    /\ focus = "consent" => Consent!TypeOK
    /\ focus = "dgi" => Dgi!TypeOK
    /\ focus = "document" => Document!TypeOK

\* Each property is stated with its part, and asked of the part that moves.
PhotosAreShown ==
    /\ focus = "photos" => Photos!PhotosInOrder
    /\ focus = "files" => Storage!ShownPhotosExist
VerifiedIsAccepted == focus = "consent" => Consent!VerifiedIsAccepted
CertificateIsBacked ==
    /\ focus = "dgi" => Dgi!VerificationIsBacked /\ Dgi!DocumentIsKept
    /\ focus = "document" => Document!DocumentDecides

\* What waits for a worker gets to its end: a client who can answer is reminded,
\* and a certificate does not stay in progress.
WorkersFinish == Consent!ClientIsReminded /\ Dgi!ProcessingEnds
=============================================================================
