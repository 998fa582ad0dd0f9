-------------------------- MODULE PortfolioConsent --------------------------
(***************************************************************************)
(* The client's consent to the badge of one portfolio item: the             *)
(* professional's request, the client's answer by token, the reminder and   *)
(* the hourly expiry.                                                       *)
(*                                                                         *)
(* The item is published and its job CLOSED throughout.  Acceptance is one  *)
(* serializable transaction; a refusal reads the row and later updates it   *)
(* by id, so it takes two steps.  Expiry by the clock is a step of its own. *)
(***************************************************************************)
EXTENDS Naturals, FiniteSets

CONSTANTS
    Asks,        \* requests of the professional in progress at once
    Refusals,    \* refusals in progress at once
    MaxFaults    \* bound: dead processes and failed calls

VARIABLES
    consent,     \* the PortfolioConsent row
    first,       \* history: the status it first left PENDING for
    verified,    \* PortfolioItem.verifiedFromJob
    asks,        \* step of each request of the professional
    refusals,    \* step of each refusal
    timer,       \* the reminder job and the step of its worker
    orderly,     \* history: no refusal has overlapped another answer or the expiry
    faults

vars == <<consent, first, verified, asks, refusals, timer, orderly, faults>>

ConsentStatus == {"PENDING", "ACCEPTED", "DECLINED", "EXPIRED"}

\* tried: the age of reminderAttemptedAt, "stale" once past reminderZombieReclaimMs.
Init ==
    /\ consent = [status |-> "none", due |-> FALSE, tried |-> "never", sent |-> FALSE]
    /\ first = "none" /\ verified = FALSE
    /\ asks = [a \in Asks |-> "idle"]
    /\ refusals = [c \in Refusals |-> "idle"]
    /\ timer = "none"
    /\ orderly = TRUE /\ faults = 0

Pending == consent.status = "PENDING"
Answerable == Pending /\ ~consent.due
Refusing == \E c \in Refusals : refusals[c] # "idle"
Fault == faults < MaxFaults /\ faults' = faults + 1

-----------------------------------------------------------------------------
\* requestVerification: the checks
BeginAsk(a) ==
    /\ asks[a] = "idle"
    /\ ~verified /\ consent.status = "none"
    /\ asks' = [asks EXCEPT ![a] = "create"]
    /\ UNCHANGED <<first, consent, verified, refusals, timer, orderly, faults>>

\* createPortfolioConsent; portfolioItemId is unique.
Create(a) ==
    /\ asks[a] = "create"
    /\ IF consent.status = "none"
       THEN consent' = [consent EXCEPT !.status = "PENDING"] /\ asks' = [asks EXCEPT ![a] = "add"]
       ELSE asks' = [asks EXCEPT ![a] = "idle"] /\ UNCHANGED consent
    /\ UNCHANGED <<first, verified, refusals, timer, orderly, faults>>

\* consentReminderQueue.add; the notification that follows cannot fail the request.
Schedule(a) ==
    /\ asks[a] = "add" /\ asks' = [asks EXCEPT ![a] = "idle"]
    /\ timer' = "queued"
    /\ UNCHANGED <<first, consent, verified, refusals, orderly, faults>>

\* The queue refuses the job, or the process dies: no reminder, and the token
\* is not returned.
AskFails(a) ==
    /\ asks[a] # "idle" /\ Fault
    /\ asks' = [asks EXCEPT ![a] = "idle"]
    /\ UNCHANGED <<first, consent, verified, refusals, timer, orderly>>

-----------------------------------------------------------------------------
Answer(status) ==
    /\ consent' = [consent EXCEPT !.status = status]
    /\ first' = IF first = "none" THEN status ELSE first

\* Mutant: a row that has been answered can be accepted.
AcceptAnswered ==
    /\ consent.status # "none" /\ ~consent.due /\ ~verified
    /\ Answer("ACCEPTED") /\ verified' = TRUE
    /\ orderly' = (orderly /\ ~Refusing)
    /\ UNCHANGED <<asks, refusals, timer, faults>>

\* acceptPortfolioConsent
Accept ==
    /\ Answerable /\ ~verified
    /\ Answer("ACCEPTED") /\ verified' = TRUE
    /\ orderly' = (orderly /\ ~Refusing)
    /\ UNCHANGED <<asks, refusals, timer, faults>>

\* declinePortfolioConsent: findUnique and the checks
BeginDecline(c) ==
    /\ refusals[c] = "idle" /\ Answerable
    /\ refusals' = [refusals EXCEPT ![c] = "write"]
    /\ orderly' = (orderly /\ ~Refusing)
    /\ UNCHANGED <<first, consent, verified, asks, timer, faults>>

\* declinePortfolioConsent: update by id
Decline(c) ==
    /\ refusals[c] = "write" /\ refusals' = [refusals EXCEPT ![c] = "idle"]
    /\ Answer("DECLINED")
    /\ UNCHANGED <<verified, asks, timer, orderly, faults>>

TimePasses ==
    /\ Pending /\ ~consent.due
    /\ consent' = [consent EXCEPT !.due = TRUE]
    /\ UNCHANGED <<first, verified, asks, refusals, timer, orderly, faults>>

\* Mutant: every row whose time is up expires.
ExpireAll ==
    /\ consent.due \/ verified
    /\ Answer("EXPIRED")
    /\ orderly' = (orderly /\ ~Refusing)
    /\ UNCHANGED <<verified, asks, refusals, timer, faults>>

\* expirePendingPortfolioConsents
Expire ==
    /\ Pending /\ consent.due
    /\ Answer("EXPIRED")
    /\ orderly' = (orderly /\ ~Refusing)
    /\ UNCHANGED <<verified, asks, refusals, timer, faults>>

-----------------------------------------------------------------------------
(* The reminder job, three attempts of which can fail before the claim.     *)

\* Mutant: a row never tried is not older than the cutoff (NULL < cutoff).
ClaimOlder ==
    /\ timer = "queued"
    /\ IF Pending /\ ~consent.sent /\ consent.tried = "stale"
       THEN consent' = [consent EXCEPT !.tried = "fresh"] /\ timer' = "payload"
       ELSE timer' = "done" /\ UNCHANGED consent
    /\ UNCHANGED <<first, verified, asks, refusals, orderly, faults>>

\* claimConsentReminderAttempt
Claim ==
    /\ timer = "queued"
    /\ IF Pending /\ ~consent.sent /\ consent.tried # "fresh"
       THEN consent' = [consent EXCEPT !.tried = "fresh"] /\ timer' = "payload"
       ELSE timer' = "done" /\ UNCHANGED consent
    /\ UNCHANGED <<first, verified, asks, refusals, orderly, faults>>

\* findConsentReminderPayload and notifyPortfolioConsentReminder
Notify ==
    /\ timer = "payload" /\ timer' = IF Answerable THEN "mark" ELSE "done"
    /\ UNCHANGED <<first, consent, verified, asks, refusals, orderly, faults>>

\* markConsentReminderSent
MarkSent ==
    /\ timer = "mark" /\ timer' = "done"
    /\ consent' = IF Pending THEN [consent EXCEPT !.sent = TRUE] ELSE consent
    /\ UNCHANGED <<first, verified, asks, refusals, orderly, faults>>

\* The notification fails: the error is logged and the job is done.
NotifyFails ==
    /\ timer \in {"payload", "mark"} /\ Fault /\ timer' = "done"
    /\ UNCHANGED <<first, consent, verified, asks, refusals, orderly>>

\* The worker dies or its claim throws: the job runs again.
WorkerFails ==
    /\ timer \in {"queued", "payload", "mark"} /\ Fault /\ timer' = "queued"
    /\ UNCHANGED <<first, consent, verified, asks, refusals, orderly>>

AttemptAges ==
    /\ consent.tried = "fresh"
    /\ consent' = [consent EXCEPT !.tried = "stale"]
    /\ UNCHANGED <<first, verified, asks, refusals, timer, orderly, faults>>

-----------------------------------------------------------------------------
Reminder == Claim \/ Notify \/ MarkSent

Next ==
    \/ \E a \in Asks : BeginAsk(a) \/ Create(a) \/ Schedule(a) \/ AskFails(a)
    \/ Accept \/ \E c \in Refusals : BeginDecline(c) \/ Decline(c)
    \/ TimePasses \/ Expire \/ AttemptAges
    \/ Reminder \/ NotifyFails \/ WorkerFails

Spec == Init /\ [][Next]_vars

\* A request that has begun goes on and the worker takes the job; nobody has
\* to answer.
Fairness ==
    /\ \A a \in Asks : WF_vars(Create(a) \/ Schedule(a))
    /\ WF_vars(Reminder)

LiveSpec == Spec /\ Fairness

-----------------------------------------------------------------------------
TypeOK ==
    /\ consent \in [status : ConsentStatus \cup {"none"}, due : BOOLEAN,
                    tried : {"never", "fresh", "stale"}, sent : BOOLEAN]
    /\ first \in ConsentStatus \cup {"none"}
    /\ verified \in BOOLEAN /\ orderly \in BOOLEAN
    /\ asks \in [Asks -> {"idle", "create", "add"}]
    /\ refusals \in [Refusals -> {"idle", "write"}]
    /\ timer \in {"none", "queued", "payload", "mark", "done"}
    /\ faults \in 0..MaxFaults

\* The badge follows the first answer: unless a refusal has overlapped another
\* answer or the expiry, the status the consent first got stands and the item
\* is verified exactly when that was ACCEPTED.  An overlap leaves a verified
\* item with a DECLINED consent and never anything else.
VerifiedIsAccepted ==
    /\ orderly => /\ first # "none" => consent.status = first
                  /\ verified <=> consent.status = "ACCEPTED"
    /\ verified => consent.status \in {"ACCEPTED", "DECLINED"}

\* A client who does not answer in time is reminded, unless something fails:
\* a failed notification is not repeated.
Unanswered == Pending /\ ~consent.due /\ faults = 0
ClientIsReminded == Unanswered ~> consent.sent \/ ~Unanswered
=============================================================================
