----------------------------- MODULE JobEscrow -----------------------------
(***************************************************************************)
(* One job of the marketplace and its escrow row, from publication to      *)
(* release: JobsService, the job half of PaymentsService, EscrowService    *)
(* and the silent-acceptance worker.                                       *)
(*                                                                         *)
(* Every handler of the code reads and writes rows by jobId only, so one   *)
(* job is the whole state.  An HTTP request is a slot of Requests: it      *)
(* reads in one step, keeps what it read in its record, and writes in      *)
(* later steps, one per database transaction, queue call or gateway call,  *)
(* so that other requests, the worker and a crash fall in between.         *)
(* Consecutive reads of a handler with no write between them are one step. *)
(***************************************************************************)
EXTENDS Money, Functions

CONSTANTS
    Pros,         \* professionals that may accept the job
    Payments,     \* payments the client may make at the provider
    ChangeOrders, \* change orders the professional may propose
    Requests,     \* HTTP requests in flight at the same time
    Totals,       \* totals a job is published with (sum of its price lines)
    Deltas,       \* totals of a change order's lines
    Rates,        \* sell rates (micros) the exchange-rate sync may store
    ManualMode,   \* PAYOUT_MODE = manual
    Nobody        \* professionalId null, providerReference null

ASSUME ConstantsAssumption ==
    /\ Totals \subseteq Nat \ {0}
    /\ Deltas \subseteq Nat \ {0}
    /\ Rates \subseteq Nat \ {0} /\ Rates # {}
    /\ ManualMode \in BOOLEAN
    /\ Nobody \notin Pros \cup Payments \cup {"preference"}
    /\ "preference" \notin Payments

VARIABLES
    job,      \* the Job row
    escrow,   \* the EscrowTransaction row
    orders,   \* the JobChangeOrder rows
    rate,     \* latest USD sell rate
    timer,    \* the BullMQ job silent-<jobId>
    worker,   \* the silent-acceptance processor
    links,    \* amounts of the payment links the client has been given
    charged,  \* what each payment charged the client, 0 while not approved
    req       \* the requests in flight

rows == <<job, escrow, orders>>
provider == <<links, charged>>
background == <<timer, worker>>
vars == <<job, escrow, orders, rate, timer, worker, links, charged, req>>

JobStatus == {"PENDING", "ACCEPTED", "IN_PROGRESS", "COMPLETED", "CLOSED", "CANCELLED"}
\* The members of EscrowStatus that the code writes.
EscrowStatus == {"PENDING", "HELD", "RELEASED"}
Funded == escrow.status \in {"HELD", "RELEASED"}

Pc == {"idle", "accept", "start", "cancel", "complete", "schedule", "setBullJob",
       "approve", "approveRemove", "approveClear", "approveTx",
       "checkout", "fund", "fundTx",
       "createOrder", "approveOrder", "rejectOrder"}

\* A slot with no request in it.
Idle == [pc |-> "idle", pro |-> Nobody, pay |-> Nobody, co |-> Nobody, amt |-> 0, tot |-> 0]

Begin(r, request) == req[r] = Idle /\ req' = [req EXCEPT ![r] = request]
At(r, step) == req[r].pc = step
Goto(r, step) == req' = [req EXCEPT ![r].pc = step]
Reply(r) == req' = [req EXCEPT ![r] = Idle]

\* An escrow row nothing has been paid into; NONE stands for no row.
EmptyEscrow(status) ==
    [status |-> status, amount |-> 0, commission |-> 0, net |-> 0, jobAmount |-> 0,
     ref |-> Nobody, bullJob |-> FALSE, payout |-> "NOT_APPLICABLE"]

Init ==
    /\ \E total \in Totals :
          job = [status |-> "PENDING", pro |-> Nobody, total |-> total,
                 quoted |-> total, completed |-> FALSE]
    /\ escrow = EmptyEscrow("NONE")
    /\ orders = [c \in ChangeOrders |-> [status |-> "ABSENT", delta |-> 0]]
    /\ rate \in Rates
    /\ timer = "none"
    /\ worker = "idle"
    /\ links = {}
    /\ charged = [p \in Payments |-> 0]
    /\ req = [r \in Requests |-> Idle]

-----------------------------------------------------------------------------
(* Acceptance.                                                             *)

\* JobsService.accept up to the transaction: the job is PENDING and the
\* payout-account check has passed for this professional.
BeginAccept(r, p) ==
    /\ job.status = "PENDING"
    /\ Begin(r, [Idle EXCEPT !.pc = "accept", !.pro = p])
    /\ UNCHANGED <<rows, rate, background, provider>>

\* Mutant: the job is updated by id, without "status: PENDING" in the where.
AcceptById(r) ==
    /\ At(r, "accept")
    /\ job' = [job EXCEPT !.status = "ACCEPTED", !.pro = req[r].pro]
    /\ escrow' = IF escrow.status = "NONE" THEN EmptyEscrow("PENDING") ELSE escrow
    /\ Reply(r)
    /\ UNCHANGED <<orders, rate, background, provider>>

\* Mutant: the escrow row is left for the checkout to create.
AcceptWithoutEscrow(r) ==
    /\ At(r, "accept")
    /\ IF job.status = "PENDING"
       THEN job' = [job EXCEPT !.status = "ACCEPTED", !.pro = req[r].pro]
       ELSE UNCHANGED job
    /\ Reply(r)
    /\ UNCHANGED <<escrow, orders, rate, background, provider>>

\* acceptJobAtomically: the where clause decides which professional wins, and
\* the same transaction creates the escrow row.
AcceptTx(r) ==
    /\ At(r, "accept")
    /\ IF job.status = "PENDING"
       THEN /\ job' = [job EXCEPT !.status = "ACCEPTED", !.pro = req[r].pro]
            /\ escrow' = IF escrow.status = "NONE" THEN EmptyEscrow("PENDING") ELSE escrow
       ELSE UNCHANGED <<job, escrow>>
    /\ Reply(r)
    /\ UNCHANGED <<orders, rate, background, provider>>

-----------------------------------------------------------------------------
(* PATCH status and completion: read and check, then write by id.          *)

\* assertTransition for the assigned professional.
BeginStart(r) ==
    /\ job.status = "ACCEPTED"
    /\ Begin(r, [Idle EXCEPT !.pc = "start"])
    /\ UNCHANGED <<rows, rate, background, provider>>

\* assertTransition for the client.
BeginCancel(r) ==
    /\ job.status \in {"PENDING", "ACCEPTED"}
    /\ Begin(r, [Idle EXCEPT !.pc = "cancel"])
    /\ UNCHANGED <<rows, rate, background, provider>>

\* updateStatus: the row is written by id, whatever its status is by now.
WriteStatus(r) ==
    /\ \/ At(r, "start") /\ job' = [job EXCEPT !.status = "IN_PROGRESS"]
       \/ At(r, "cancel") /\ job' = [job EXCEPT !.status = "CANCELLED"]
    /\ Reply(r)
    /\ UNCHANGED <<escrow, orders, rate, background, provider>>

BeginComplete(r) ==
    /\ job.status = "IN_PROGRESS"
    /\ Begin(r, [Idle EXCEPT !.pc = "complete"])
    /\ UNCHANGED <<rows, rate, background, provider>>

WriteCompleted(r) ==
    /\ At(r, "complete")
    /\ job' = [job EXCEPT !.status = "COMPLETED", !.completed = TRUE]
    /\ Goto(r, "schedule")
    /\ UNCHANGED <<escrow, orders, rate, background, provider>>

\* silentQueue.add: BullMQ ignores an id it still holds in any state.
Schedule(r) ==
    /\ At(r, "schedule")
    /\ timer' = IF timer = "none" THEN "delayed" ELSE timer
    /\ Goto(r, "setBullJob")
    /\ UNCHANGED <<rows, rate, worker, provider>>

SetBullJob(r) ==
    /\ At(r, "setBullJob")
    /\ escrow' = [escrow EXCEPT !.bullJob = TRUE]
    /\ Reply(r)
    /\ UNCHANGED <<job, orders, rate, background, provider>>

-----------------------------------------------------------------------------
(* The client's approval: cancel the timer, then close and release.        *)

BeginApprove(r) ==
    /\ job.status = "COMPLETED"
    /\ Begin(r, [Idle EXCEPT !.pc = "approve"])
    /\ UNCHANGED <<rows, rate, background, provider>>

\* cancelSilentAcceptance reads the timer's id from the escrow row.
FindTimer(r) ==
    /\ At(r, "approve")
    /\ Goto(r, IF escrow.bullJob THEN "approveRemove" ELSE "approveClear")
    /\ UNCHANGED <<rows, rate, background, provider>>

\* Job.remove() throws on a job a worker has locked, and the request ends.
RemoveTimer(r) ==
    /\ At(r, "approveRemove")
    /\ \/ /\ timer = "active"
          /\ Reply(r)
          /\ UNCHANGED timer
       \/ /\ timer # "active"
          /\ timer' = "none"
          /\ Goto(r, "approveClear")
    /\ UNCHANGED <<rows, rate, worker, provider>>

ClearBullJob(r) ==
    /\ At(r, "approveClear")
    /\ escrow' = [escrow EXCEPT !.bullJob = FALSE]
    /\ Goto(r, "approveTx")
    /\ UNCHANGED <<job, orders, rate, background, provider>>

\* EscrowRepository.release inside the caller's transaction: HELD becomes
\* RELEASED, RELEASED is left alone, any other status aborts the transaction.
Released == IF escrow.status = "HELD"
            THEN [escrow EXCEPT !.status = "RELEASED", !.bullJob = FALSE,
                                !.payout = IF ManualMode THEN "PENDING" ELSE @]
            ELSE [escrow EXCEPT !.bullJob = FALSE]

\* Mutant: an escrow that is not HELD does not abort the transaction.
CloseWithoutRollback ==
    /\ job' = [job EXCEPT !.status = "CLOSED"]
    /\ escrow' = Released

\* Mutant: the escrow is released by id, without "status: HELD" in the where.
CloseAndReleaseById ==
    /\ job' = [job EXCEPT !.status = "CLOSED"]
    /\ escrow' = [escrow EXCEPT !.status = "RELEASED", !.bullJob = FALSE]

CloseAndRelease ==
    /\ Funded
    /\ job' = [job EXCEPT !.status = "CLOSED"]
    /\ escrow' = Released

\* Mutant: a timer no longer registered is taken for an approval already made.
ApproveIfTimerKnown(r) ==
    /\ At(r, "approveTx")
    /\ \/ job.status = "COMPLETED" /\ escrow.bullJob /\ CloseAndRelease
       \/ ~(job.status = "COMPLETED" /\ escrow.bullJob /\ Funded) /\ UNCHANGED <<job, escrow>>
    /\ Reply(r)
    /\ UNCHANGED <<orders, rate, background, provider>>

\* approveCompletionAtomically.  In gateway mode the payout that follows is
\* the subject of EscrowPayout.
ApproveTx(r) ==
    /\ At(r, "approveTx")
    /\ \/ job.status = "COMPLETED" /\ CloseAndRelease
       \/ ~(job.status = "COMPLETED" /\ Funded) /\ UNCHANGED <<job, escrow>>
    /\ Reply(r)
    /\ UNCHANGED <<orders, rate, background, provider>>

-----------------------------------------------------------------------------
(* Silent acceptance.                                                      *)

\* The delay is over and the worker locks the BullMQ job.
TimerFires ==
    /\ timer = "delayed" /\ worker = "idle"
    /\ timer' = "active" /\ worker' = "read"
    /\ UNCHANGED <<rows, rate, provider, req>>

\* processSilentAcceptance reads job and escrow inside its transaction; a job
\* that cannot be released is given up for good (removeOnComplete).
SilentRead ==
    /\ worker = "read"
    /\ \/ /\ job.status = "COMPLETED" /\ escrow.status = "HELD"
          /\ worker' = "commit"
          /\ UNCHANGED timer
       \/ /\ ~(job.status = "COMPLETED" /\ escrow.status = "HELD")
          /\ worker' = "idle" /\ timer' = "none"
    /\ UNCHANGED <<rows, rate, provider, req>>

\* The writes of the same transaction (read committed): the job is closed by
\* id without looking at its status again.
SilentCommit ==
    /\ worker = "commit"
    /\ CloseAndRelease
    /\ worker' = "done"
    /\ UNCHANGED <<orders, rate, timer, provider, req>>

\* The processor returns and BullMQ forgets the job and its id.
SilentDone ==
    /\ worker = "done"
    /\ worker' = "idle" /\ timer' = "none"
    /\ UNCHANGED <<rows, rate, provider, req>>

\* The transaction fails: one attempt, and the failed BullMQ job keeps its id.
SilentFails ==
    /\ worker # "idle"
    /\ worker' = "idle" /\ timer' = "failed"
    /\ UNCHANGED <<rows, rate, provider, req>>

\* The worker's process dies: BullMQ hands the stalled job out again.
WorkerCrash ==
    /\ worker # "idle"
    /\ worker' = "idle" /\ timer' = "delayed"
    /\ UNCHANGED <<rows, rate, provider, req>>

-----------------------------------------------------------------------------
(* Checkout and funding.                                                   *)

\* createJobCheckout up to the gateway call.
BeginCheckout(r) ==
    /\ job.status = "ACCEPTED" /\ escrow.status = "PENDING"
    /\ Begin(r, [Idle EXCEPT !.pc = "checkout", !.amt = HeldAmount(job.total, rate)])
    /\ UNCHANGED <<rows, rate, background, provider>>

\* The provider has answered createPaymentLink; setCheckoutSession stores the
\* preference id, whatever the escrow's status, and the client gets the link.
SetSession(r) ==
    /\ At(r, "checkout")
    /\ escrow' = [escrow EXCEPT !.ref = "preference"]
    /\ links' = links \cup {req[r].amt}
    /\ Reply(r)
    /\ UNCHANGED <<job, orders, rate, background, charged>>

\* The provider approves a payment made through one of the links.
ClientPays(p) ==
    /\ charged[p] = 0
    /\ \E a \in links : charged' = [charged EXCEPT ![p] = a]
    /\ UNCHANGED <<rows, rate, background, links, req>>

\* The provider notifies an approved payment, any number of times; the check of
\* fundEscrowFromReference has passed.
BeginFund(r, p) ==
    /\ charged[p] # 0
    /\ escrow.status = "PENDING"
    /\ charged[p] = HeldAmount(job.total, rate)
    /\ Begin(r, [Idle EXCEPT !.pc = "fund", !.pay = p])
    /\ UNCHANGED <<rows, rate, background, provider>>

\* EscrowService.fundEscrow reads job, escrow and rate again.
FundRead(r) ==
    /\ At(r, "fund")
    /\ \/ /\ escrow.status = "PENDING"
          /\ req' = [req EXCEPT ![r].pc = "fundTx", ![r].tot = job.total,
                                ![r].amt = HeldAmount(job.total, rate)]
       \/ escrow.status # "PENDING" /\ Reply(r)
    /\ UNCHANGED <<rows, rate, background, provider>>

\* Mutant: the escrow is funded by id, without "status: PENDING" in the where.
FundById(r) ==
    /\ At(r, "fundTx")
    /\ escrow' = [escrow EXCEPT !.status = "HELD", !.ref = req[r].pay,
                                !.amount = req[r].amt,
                                !.commission = CommissionOf(req[r].amt),
                                !.net = NetOf(req[r].amt),
                                !.jobAmount = req[r].tot]
    /\ Reply(r)
    /\ UNCHANGED <<job, orders, rate, background, provider>>

\* EscrowRepository.fundEscrow: only a PENDING escrow is written.
FundTx(r) ==
    /\ At(r, "fundTx")
    /\ escrow' = IF escrow.status = "PENDING"
                 THEN [escrow EXCEPT !.status = "HELD", !.ref = req[r].pay,
                                     !.amount = req[r].amt,
                                     !.commission = CommissionOf(req[r].amt),
                                     !.net = NetOf(req[r].amt),
                                     !.jobAmount = req[r].tot]
                 ELSE escrow
    /\ Reply(r)
    /\ UNCHANGED <<job, orders, rate, background, provider>>

\* syncFromBcu: the upsert replaces the rate that conversions read.
SyncRate ==
    /\ rate' \in Rates \ {rate}
    /\ UNCHANGED <<rows, background, provider, req>>

-----------------------------------------------------------------------------
(* Change orders.                                                          *)

BeginPropose(r, c, d) ==
    /\ job.status \in {"IN_PROGRESS", "ACCEPTED"}
    /\ orders[c].status = "ABSENT"
    /\ \A s \in Requests : ~(At(s, "createOrder") /\ req[s].co = c)
    /\ Begin(r, [Idle EXCEPT !.pc = "createOrder", !.co = c, !.tot = d])
    /\ UNCHANGED <<rows, rate, background, provider>>

CreateOrder(r) ==
    /\ At(r, "createOrder")
    /\ orders' = [orders EXCEPT ![req[r].co] = [status |-> "PENDING", delta |-> req[r].tot]]
    /\ Reply(r)
    /\ UNCHANGED <<job, escrow, rate, background, provider>>

\* patchChangeOrder: the new total is computed from what was read here.
BeginResolve(r, c, step) ==
    /\ orders[c].status = "PENDING"
    /\ Begin(r, [Idle EXCEPT !.pc = step, !.co = c, !.tot = job.total + orders[c].delta])
    /\ UNCHANGED <<rows, rate, background, provider>>

\* resolveChangeOrder writes order and total by id.
ResolveOrder(r) ==
    /\ \/ /\ At(r, "approveOrder")
          /\ orders' = [orders EXCEPT ![req[r].co].status = "APPROVED"]
          /\ job' = [job EXCEPT !.total = req[r].tot]
       \/ /\ At(r, "rejectOrder")
          /\ orders' = [orders EXCEPT ![req[r].co].status = "REJECTED"]
          /\ UNCHANGED job
    /\ Reply(r)
    /\ UNCHANGED <<escrow, rate, background, provider>>

-----------------------------------------------------------------------------

\* The process dies, or a database, Redis or gateway call of the request
\* fails: what it has written stays, the rest never happens.
Crash(r) ==
    /\ req[r] # Idle
    /\ Reply(r)
    /\ UNCHANGED <<rows, rate, background, provider>>

\* The steps of the request in slot r after its first.
Continue(r) ==
    \/ AcceptTx(r) \/ WriteStatus(r)
    \/ WriteCompleted(r) \/ Schedule(r) \/ SetBullJob(r)
    \/ FindTimer(r) \/ RemoveTimer(r) \/ ClearBullJob(r) \/ ApproveTx(r)
    \/ SetSession(r) \/ FundRead(r) \/ FundTx(r)
    \/ CreateOrder(r) \/ ResolveOrder(r)

Arrive(r) ==
    \/ \E p \in Pros : BeginAccept(r, p)
    \/ BeginStart(r) \/ BeginCancel(r) \/ BeginComplete(r) \/ BeginApprove(r)
    \/ BeginCheckout(r)
    \/ \E p \in Payments : BeginFund(r, p)
    \/ \E c \in ChangeOrders :
          \/ \E d \in Deltas : BeginPropose(r, c, d)
          \/ \E step \in {"approveOrder", "rejectOrder"} : BeginResolve(r, c, step)

Silent == TimerFires \/ SilentRead \/ SilentCommit \/ SilentDone

Healthy ==
    \/ \E r \in Requests : Arrive(r) \/ Continue(r)
    \/ \E p \in Payments : ClientPays(p)
    \/ SyncRate
    \/ Silent

Next ==
    \/ Healthy
    \/ \E r \in Requests : Crash(r)
    \/ SilentFails
    \/ WorkerCrash

Spec == Init /\ [][Next]_vars

\* Without failures: a handler that has begun runs to its end, and BullMQ runs
\* a job whose delay is over.  Clients, professionals and the provider owe
\* nothing.
Fairness == (\A r \in Requests : WF_vars(Continue(r))) /\ WF_vars(Silent)

HealthySpec == Init /\ [][Healthy]_vars /\ Fairness

-----------------------------------------------------------------------------
(* Properties.                                                             *)

Request == [pc : Pc, pro : Pros \cup {Nobody}, pay : Payments \cup {Nobody},
            co : ChangeOrders \cup {Nobody}, amt : Nat, tot : Nat]
JobRow == [status : JobStatus, pro : Pros \cup {Nobody}, total : Nat, quoted : Nat,
           completed : BOOLEAN]
EscrowRow == [status : EscrowStatus \cup {"NONE"}, amount : Nat, commission : Nat,
              net : Nat, jobAmount : Nat, ref : Payments \cup {Nobody, "preference"},
              bullJob : BOOLEAN, payout : {"NOT_APPLICABLE", "PENDING"}]
OrderRow == [status : {"ABSENT", "PENDING", "APPROVED", "REJECTED"}, delta : Nat]

\* Every row, queue entry and request keeps its shape.
TypeOK ==
    /\ job \in JobRow
    /\ escrow \in EscrowRow
    /\ orders \in [ChangeOrders -> OrderRow]
    /\ rate \in Rates
    /\ timer \in {"none", "delayed", "active", "failed"}
    /\ worker \in {"idle", "read", "commit", "done"}
    /\ links \subseteq Nat
    /\ charged \in [Payments -> Nat]
    /\ req \in [Requests -> Request]

\* A job is CLOSED only together with the release of its money, even though
\* stale handlers overwrite the job's status by id (updateStatus).
ClosedIsReleased == job.status = "CLOSED" => escrow.status = "RELEASED"

\* Money is released only for work that an assigned professional once marked
\* complete and that a payment once funded, whichever of the client's approval
\* and the silent-acceptance worker got there first.
ReleasedWasFinished ==
    escrow.status = "RELEASED" =>
        job.completed /\ job.pro \in Pros /\ escrow.jobAmount > 0

\* Closing and releasing go together, and only for finished, funded work.
ReleaseIsBacked == ClosedIsReleased /\ ReleasedWasFinished

\* A job has a professional exactly when it has an escrow row (one transaction
\* creates both), and every status but PENDING and CANCELLED has one.
AssignedJobHasEscrow ==
    /\ job.pro = Nobody <=> escrow.status = "NONE"
    /\ job.status = "PENDING" => job.pro = Nobody
    /\ job.status \notin {"PENDING", "CANCELLED"} => job.pro # Nobody

\* Of professionals racing to accept, the first keeps the job for good.
ProfessionalIsFinal == [][job.pro # Nobody => job'.pro = job.pro]_vars

\* What was snapshotted when the escrow was funded is what is released: no rate
\* sync, change order, second payment or late checkout moves it.
SettlementFrozen ==
    [][Funded => /\ escrow'.amount = escrow.amount
                 /\ escrow'.commission = escrow.commission
                 /\ escrow'.net = escrow.net
                 /\ escrow'.jobAmount = escrow.jobAmount]_vars

\* The held amount is the contract amount of one instant at a rate that was
\* in force, and commission and net split it to the cent.
SplitIsExact ==
    Funded => /\ escrow.commission + escrow.net = escrow.amount
              /\ \E q \in Rates : escrow.amount = HeldAmount(escrow.jobAmount, q)

-----------------------------------------------------------------------------
(* The inductive invariant behind these properties.                        *)

\* What a request in flight may rely on: none of it can be undone by others.
InFlight(r) ==
    /\ At(r, "accept") => req[r].pro \in Pros
    /\ req[r].pc \in {"start", "complete", "fund", "fundTx"} => job.pro # Nobody
    /\ At(r, "fund") => req[r].pay \in Payments
    /\ At(r, "fundTx") => /\ req[r].pay \in Payments
                          /\ req[r].tot > 0
                          /\ \E q \in Rates : req[r].amt = HeldAmount(req[r].tot, q)
    /\ req[r].pc \in {"createOrder", "approveOrder", "rejectOrder"} => req[r].co \in ChangeOrders
    /\ req[r].pc = "approveOrder" => req[r].tot > 0

\* What the two rows satisfy between any two steps.
RowsInv ==
    /\ ClosedIsReleased /\ ReleasedWasFinished /\ AssignedJobHasEscrow /\ SplitIsExact
    /\ job.total > 0
    /\ job.status \in {"COMPLETED", "CLOSED"} => job.completed
    /\ Funded => escrow.jobAmount > 0
    /\ escrow.status = "NONE" => escrow.amount = 0 /\ escrow.net = 0

Inv ==
    /\ TypeOK
    /\ RowsInv
    /\ worker = "commit" => job.completed /\ Funded
    /\ \A r \in Requests : InFlight(r)

-----------------------------------------------------------------------------
Ledger == INSTANCE EscrowLedger WITH
    status <- escrow.status, payee <- job.pro, amount <- escrow.amount, net <- escrow.net

\* Job handlers, webhooks and worker together implement the abstract escrow:
\* opened once for one payee, held once, released once, never back.
ImplementsLedger == Ledger!Spec

\* While nothing fails, completed work with held money and an armed timer does
\* not stay that way: the client approves or the worker closes it.
HeldWorkIsSettled ==
    (job.status = "COMPLETED" /\ escrow.status = "HELD" /\ timer \in {"delayed", "active"})
        ~> ~(job.status = "COMPLETED" /\ escrow.status = "HELD")

-----------------------------------------------------------------------------
(* What the repository's documents say and the code does not do.           *)

\* jobs-module.md: a job is cancelled under "reglas pre-HELD".
CancelledHoldsNoMoney == job.status = "CANCELLED" => escrow.status # "HELD"

\* jobs-module.md: a COMPLETED job's escrow is HELD.
CompletedIsFunded == job.status = "COMPLETED" => Funded

\* money-rules.md: amountCents is what was charged.
HeldIsCharged == escrow.status = "HELD" /\ escrow.ref \in Payments => escrow.amount = charged[escrow.ref]

\* escrow-logic.md: a refund goes against providerReference, the charge.
FundedReferenceIsPayment == Funded => escrow.ref \in Payments

\* schema.prisma: totalAmountCents is the price lines plus the approved orders.
TotalIsSumOfApproved ==
    job.total = job.quoted +
        SumFunction([c \in ChangeOrders |->
            IF orders[c].status = "APPROVED" THEN orders[c].delta ELSE 0])

\* jobs-module.md: the transitions of the job's state diagram.
DrawnTransitions ==
    [][job'.status # job.status =>
        <<job.status, job'.status>> \in
            {<<"PENDING", "CANCELLED">>, <<"PENDING", "ACCEPTED">>,
             <<"ACCEPTED", "IN_PROGRESS">>, <<"ACCEPTED", "CANCELLED">>,
             <<"IN_PROGRESS", "COMPLETED">>, <<"COMPLETED", "CLOSED">>}]_vars

\* jobs-module.md: a change order that raises the total of a funded job
\* requires more funding before the money goes out.
ReleasedCoversTotal == escrow.status = "RELEASED" => escrow.jobAmount >= job.total

\* escrow-logic.md: if the client does not act in time, the worker releases.
SilentAcceptanceSettles ==
    (job.status = "COMPLETED" /\ escrow.status = "HELD")
        ~> ~(job.status = "COMPLETED" /\ escrow.status = "HELD")
=============================================================================
