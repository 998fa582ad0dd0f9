---------------------------- MODULE EscrowPayout ----------------------------
(***************************************************************************)
(* Paying the professional once the escrow is RELEASED: EscrowPayoutService,*)
(* the payout half of EscrowRepository and the recovery worker.            *)
(*                                                                         *)
(* A call is one execution of executePayoutForJob, confirmManualPayout or  *)
(* one iteration of recoverStuckPayoutAttempts; it keeps what it has read, *)
(* and every step is one query, one transaction or one call to the         *)
(* provider.  The escrow of JobEscrow is RELEASED from the first state on. *)
(***************************************************************************)
EXTENDS Naturals, FiniteSets

CONSTANTS
    Requests,     \* calls of HTTP requests and of the silent-acceptance worker
    Workers,      \* calls of the recovery worker
    MaxAttempts,  \* PAYOUT_MAX_ATTEMPTS
    GatewayMode,  \* PAYOUT_MODE = gateway
    Confirms,     \* bound: manual confirmations an administrator sends
    MaxReleases,  \* bound: RELEASE_FLOW executions
    MaxCrashes,   \* bound: calls that die
    MaxLost,      \* bound: provider calls that end in an exception
    Overruns      \* a call may outlive PAYOUT_STUCK_ATTEMPT_MS

ASSUME ConstantsAssumption ==
    /\ MaxAttempts \in Nat \ {0}
    /\ {Confirms, MaxReleases, MaxCrashes, MaxLost} \subseteq Nat
    /\ GatewayMode \in BOOLEAN /\ Overruns \in BOOLEAN
    /\ Requests \cap Workers = {}

VARIABLES
    payout,    \* EscrowTransaction.payoutStatus
    attempts,  \* status of the PayoutAttempt row of each attempt number
    stuck,     \* attempts created longer than stuckAttemptMs ago
    ledger,    \* what the provider did under each attempt's idempotency key
    manual,    \* attempts that record a transfer made by hand
    call,      \* the calls in progress
    orderly,   \* history: no overlapping calls, lost answers or broken confirmations
    left       \* what the bounds still allow

vars == <<payout, attempts, stuck, ledger, manual, call, orderly, left>>

Calls == Requests \cup Workers
Numbers == 1..MaxAttempts
AttemptStatus == {"none", "PENDING", "SUCCEEDED", "FAILED"}
PayoutStatus == {"NOT_APPLICABLE", "PENDING", "SUCCEEDED", "FAILED"}

Idle == [pc |-> "idle", kind |-> "gateway", n |-> 0, out |-> "FAILED"]
At(c, step) == call[c].pc = step
Goto(c, step) == call' = [call EXCEPT ![c].pc = step]
Return(c) == call' = [call EXCEPT ![c] = Idle]

\* Calls follow one another while each begins after the others have ended and,
\* after a call that left its attempt PENDING, the recovery worker's comes first.
Start(c, step, kind, n) ==
    /\ call[c] = Idle
    /\ call' = [call EXCEPT ![c] = [Idle EXCEPT !.pc = step, !.kind = kind, !.n = n]]
    /\ orderly' = (/\ orderly
                   /\ \A d \in Calls : call[d] = Idle
                   /\ c \in Workers \/ \A m \in Numbers : attempts[m] # "PENDING")
Spend(bound) == left[bound] > 0 /\ left' = [left EXCEPT ![bound] = @ - 1]

\* A call that goes on working on attempt n.
Busy(n) == \E c \in Calls : call[c].n = n

\* In gateway mode the release has just been committed and its caller goes on
\* to executePayoutForJob, or the escrow was released while the mode was
\* manual; release leaves PENDING only in manual mode.
Init ==
    /\ \/ /\ GatewayMode /\ payout = "NOT_APPLICABLE"
          /\ \E r \in Requests :
                call = [c \in Calls |-> IF c = r THEN [Idle EXCEPT !.pc = "read"] ELSE Idle]
       \/ /\ payout = "PENDING"
          /\ call = [c \in Calls |-> Idle]
    /\ attempts = [n \in Numbers |-> "none"]
    /\ stuck = {}
    /\ ledger = [n \in Numbers |-> "none"]
    /\ manual = {}
    /\ orderly = TRUE
    /\ left = [confirms |-> Confirms, releases |-> MaxReleases,
               crashes |-> MaxCrashes, lost |-> MaxLost]

-----------------------------------------------------------------------------
(* The ways into a payout.                                                 *)

\* The silent-acceptance worker runs (again) and finds the job CLOSED.
BeginRelease(c) ==
    /\ GatewayMode
    /\ Spend("releases")
    /\ Start(c, "read", "gateway", 0)
    /\ UNCHANGED <<payout, attempts, stuck, ledger, manual>>

\* retryPayout: an administrator retries a FAILED payout.
BeginRetry(c) ==
    /\ GatewayMode /\ payout = "FAILED"
    /\ Start(c, "read", "gateway", 0)
    /\ UNCHANGED <<payout, attempts, stuck, ledger, manual, left>>

\* confirmManualPayout, in either mode.
BeginConfirm(c) ==
    /\ payout = "PENDING"
    /\ Spend("confirms")
    /\ Start(c, "count", "manual", 0)
    /\ UNCHANGED <<payout, attempts, stuck, ledger, manual>>

\* recoverPendingGatewayPayouts
RecoverPending(c) ==
    /\ GatewayMode /\ payout = "PENDING" /\ \A n \in Numbers : attempts[n] = "none"
    /\ Start(c, "read", "gateway", 0)
    /\ UNCHANGED <<payout, attempts, stuck, ledger, manual, left>>

\* Mutant: only attempts of escrows still PENDING are listed.
RecoverPendingEscrow(c, n) ==
    /\ GatewayMode /\ payout = "PENDING" /\ attempts[n] = "PENDING" /\ n \in stuck
    /\ Start(c, "reconcile", "recovery", n)
    /\ UNCHANGED <<payout, attempts, stuck, ledger, manual, left>>

\* Mutant: a stuck payout is executed afresh.
RecoverAfresh(c, n) ==
    /\ GatewayMode /\ attempts[n] = "PENDING" /\ n \in stuck
    /\ Start(c, "read", "gateway", 0)
    /\ UNCHANGED <<payout, attempts, stuck, ledger, manual, left>>

\* recoverStuckPayoutAttempts lists attempts, whatever the escrow's status.
RecoverStuck(c, n) ==
    /\ GatewayMode /\ attempts[n] = "PENDING" /\ n \in stuck
    /\ Start(c, "reconcile", "recovery", n)
    /\ UNCHANGED <<payout, attempts, stuck, ledger, manual, left>>

-----------------------------------------------------------------------------
(* The steps of a call.                                                    *)

Read(c) ==
    /\ At(c, "read")
    /\ IF payout = "SUCCEEDED" THEN Return(c) ELSE Goto(c, "count")
    /\ UNCHANGED <<payout, attempts, stuck, ledger, manual, orderly, left>>

Recorded == {n \in Numbers : attempts[n] # "none"}

\* Mutant: the provider is called before the attempt is recorded.
CountAndIssue(c) ==
    /\ At(c, "count")
    /\ LET n == Cardinality(Recorded) + 1
       IN  IF n \in Numbers
           THEN call' = [call EXCEPT ![c].pc = "issue", ![c].n = n]
           ELSE Return(c)
    /\ UNCHANGED <<payout, attempts, stuck, ledger, manual, orderly, left>>

\* countPayoutAttempts + 1, or PAYOUT_MAX_ATTEMPTS.
Count(c) ==
    /\ At(c, "count")
    /\ LET n == Cardinality(Recorded) + 1
       IN  IF n \in Numbers
           THEN call' = [call EXCEPT ![c].pc = "create", ![c].n = n]
           ELSE Return(c)
    /\ UNCHANGED <<payout, attempts, stuck, ledger, manual, orderly, left>>

\* What a call does with the attempt it has recorded.
Proceed(c) ==
    IF call[c].kind = "manual"
    THEN /\ call' = [call EXCEPT ![c].pc = "complete", ![c].out = "SUCCEEDED"]
         /\ manual' = manual \cup {call[c].n}
    ELSE Goto(c, "issue") /\ UNCHANGED manual

\* Mutant: the attempt row is upserted.
CreateOrReuse(c) ==
    /\ At(c, "create")
    /\ attempts' = [attempts EXCEPT ![call[c].n] = "PENDING"]
    /\ payout' = "PENDING"
    /\ Proceed(c)
    /\ UNCHANGED <<stuck, ledger, orderly, left>>

\* createPayoutAttempt: the loser of a race for the number violates the unique
\* key and its call ends.
Create(c) ==
    /\ At(c, "create")
    /\ IF attempts[call[c].n] = "none"
       THEN /\ attempts' = [attempts EXCEPT ![call[c].n] = "PENDING"]
            /\ payout' = "PENDING"
            /\ Proceed(c)
       ELSE Return(c) /\ UNCHANGED <<attempts, payout, manual>>
    /\ UNCHANGED <<stuck, ledger, orderly, left>>

\* The attempt's status for what the provider did under its key.
Outcome(done) == IF done = "paid" THEN "SUCCEEDED" ELSE "FAILED"

\* Mutant: an unsettled payment is taken for a payout made.
ReconcileUnsettled(c) ==
    /\ At(c, "reconcile")
    /\ call' = [call EXCEPT ![c].pc = "complete", ![c].out = "SUCCEEDED"]
    /\ UNCHANGED <<payout, attempts, stuck, ledger, manual, orderly, left>>

\* reconcilePayoutByIdempotencyKey: a settled payment is found or overlooked
\* (a failed search is null); null leads to issuePayout.
Reconcile(c) ==
    /\ At(c, "reconcile")
    /\ \/ /\ ledger[call[c].n] # "none"
          /\ call' = [call EXCEPT ![c].pc = "complete",
                                  ![c].out = Outcome(ledger[call[c].n])]
       \/ Goto(c, "issue")
    /\ UNCHANGED <<payout, attempts, stuck, ledger, manual, orderly, left>>

\* issuePayout under the attempt's key, which the provider honours once.
Issue(c) ==
    /\ At(c, "issue")
    /\ LET n == call[c].n
       IN  \E done \in IF ledger[n] = "none" THEN {"paid", "refused"} ELSE {ledger[n]} :
              /\ ledger' = [ledger EXCEPT ![n] = done]
              /\ call' = [call EXCEPT ![c].pc = "complete", ![c].out = Outcome(done)]
    /\ UNCHANGED <<payout, attempts, stuck, manual, orderly, left>>

\* issuePayout throws: the provider has paid, or was never reached.
LoseReply(c) ==
    /\ At(c, "issue")
    /\ Spend("lost")
    /\ LET n == call[c].n
       IN  \/ ledger[n] = "none" /\ ledger' = [ledger EXCEPT ![n] = "paid"]
           \/ UNCHANGED ledger
    /\ call' = [call EXCEPT ![c].pc = "complete", ![c].out = "FAILED"]
    /\ orderly' = FALSE
    /\ UNCHANGED <<payout, attempts, stuck, manual>>

\* completePayoutAttempt writes attempt and escrow by id.
Complete(c) ==
    /\ At(c, "complete")
    /\ attempts' = [attempts EXCEPT ![call[c].n] = call[c].out]
    /\ payout' = call[c].out
    /\ Return(c)
    /\ UNCHANGED <<stuck, ledger, manual, orderly, left>>

\* The process dies, or the database fails the call; the account the payout
\* should go to may also be missing.
Crash(c) ==
    /\ Spend("crashes")
    /\ call[c] # Idle
    /\ Return(c)
    /\ orderly' = (orderly /\ call[c].kind # "manual")
    /\ UNCHANGED <<payout, attempts, stuck, ledger, manual>>

Age(n) ==
    /\ attempts[n] = "PENDING" /\ n \notin stuck
    /\ Overruns \/ ~Busy(n)
    /\ stuck' = stuck \cup {n}
    /\ UNCHANGED <<payout, attempts, ledger, manual, call, orderly, left>>

-----------------------------------------------------------------------------

Continue(c) == Read(c) \/ Count(c) \/ Create(c) \/ Reconcile(c) \/ Issue(c) \/ Complete(c)

Recover(c) == RecoverPending(c) \/ \E n \in Numbers : RecoverStuck(c, n)

Next ==
    \/ \E r \in Requests : BeginRelease(r) \/ BeginRetry(r) \/ BeginConfirm(r)
    \/ \E w \in Workers : Recover(w)
    \/ \E c \in Calls : Continue(c) \/ LoseReply(c) \/ Crash(c)
    \/ \E n \in Numbers : Age(n)

Spec == Init /\ [][Next]_vars

\* A call runs to its end, attempts get old and the recovery cron runs;
\* administrators owe nothing.
FairSpec ==
    /\ Spec
    /\ \A c \in Calls : WF_vars(Continue(c))
    /\ \A n \in Numbers : WF_vars(Age(n))
    /\ WF_vars(\E w \in Workers : Recover(w))

-----------------------------------------------------------------------------
(* Properties.                                                             *)

Call == [pc : {"idle", "read", "count", "create", "reconcile", "issue", "complete"},
         kind : {"gateway", "manual", "recovery"}, n : 0..MaxAttempts,
         out : {"SUCCEEDED", "FAILED"}]

TypeOK ==
    /\ payout \in PayoutStatus
    /\ attempts \in [Numbers -> AttemptStatus]
    /\ stuck \subseteq Numbers
    /\ ledger \in [Numbers -> {"none", "paid", "refused"}]
    /\ manual \subseteq Numbers
    /\ call \in [Calls -> Call]
    /\ orderly \in BOOLEAN
    /\ left \in [{"confirms", "releases", "crashes", "lost"} -> Nat]

\* The provider moves money only under the key of an attempt that is on record,
\* so that a crash right after issuePayout leaves something to recover from.
PaymentIsRecorded == \A n \in Numbers : ledger[n] # "none" => attempts[n] # "none"

\* However retries, late answers and recovery interleave, nothing is reported
\* SUCCEEDED, neither the escrow nor an attempt, without money having moved.
SucceededWasPaid ==
    /\ \A n \in Numbers : attempts[n] = "SUCCEEDED" => ledger[n] = "paid" \/ n \in manual
    /\ payout = "SUCCEEDED" => \E n \in Numbers : attempts[n] = "SUCCEEDED"

\* The attempts are a true account of what the provider paid, in both directions.
LedgerIsBacked == PaymentIsRecorded /\ SucceededWasPaid

\* An attempt has one call behind it, next to the recovery worker: of calls that
\* count the same number, one goes on.
OneOwner ==
    \A c, d \in Calls :
        (/\ call[c].pc \in {"issue", "complete"} /\ call[c].kind # "recovery"
         /\ call[d].pc \in {"issue", "complete"} /\ call[d].kind # "recovery"
         /\ call[c].n = call[d].n) => c = d

Paid == Cardinality({n \in Numbers : ledger[n] = "paid"}) + Cardinality(manual)

\* The professional is paid once, by the provider or by hand, through any
\* sequence of refusals, retries, confirmations, crashes and recoveries in which
\* calls follow one another, no answer of the provider is lost and no manual
\* confirmation is cut short between its two transactions.
PaidOnceInOrder == orderly => Paid <= 1

\* A recorded attempt does not stay PENDING: the recovery worker settles what a
\* dead call left behind.
AttemptIsSettled == \A n \in Numbers : attempts[n] = "PENDING" ~> attempts[n] # "PENDING"

-----------------------------------------------------------------------------
(* The inductive invariant behind these properties.                        *)

\* What a call in progress may rely on.
InProgress(c) ==
    /\ At(c, "create") => call[c].n \in Numbers
    /\ At(c, "reconcile") => call[c].kind = "recovery"
    /\ call[c].pc \in {"reconcile", "issue", "complete"} =>
          call[c].n \in Numbers /\ attempts[call[c].n] # "none"
    /\ At(c, "complete") /\ call[c].out = "SUCCEEDED" =>
          ledger[call[c].n] = "paid" \/ call[c].n \in manual

Inv ==
    /\ TypeOK
    /\ PaymentIsRecorded /\ SucceededWasPaid /\ OneOwner
    /\ \A c \in Calls : InProgress(c)

-----------------------------------------------------------------------------
(* What the repository's documents say and the code does not do.           *)

\* SESSION_STATE.md: reconciliation keeps retries from paying twice.
PaidAtMostOnce == Paid <= 1

\* schema.prisma: the attempts are an immutable ledger.
CompletedAttemptIsFinal ==
    [][\A n \in Numbers : attempts[n] \in {"SUCCEEDED", "FAILED"} => attempts'[n] = attempts[n]]_vars

\* admin-escrow-payout.controller.ts: a payout already confirmed answers 409.
ConfirmedOnce == Cardinality(manual) <= 1

\* payout-accounts-module.md: releasing the escrow executes the payout.
ReleasedIsPaidOut == payout = "NOT_APPLICABLE" ~> payout # "NOT_APPLICABLE"
=============================================================================
