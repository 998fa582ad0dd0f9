------------------------- MODULE WebhookIdempotency -------------------------
(***************************************************************************)
(* Notifications of one Mercado Pago payment and the row of                *)
(* PaymentWebhookIdempotency that keeps two of them from being worked on   *)
(* at once: PaymentWebhookIdempotencyRepository and the webhook handler of *)
(* PaymentsService around it.                                              *)
(*                                                                         *)
(* The row's key is topic and resource id, so every notification of the    *)
(* payment meets the same row.  A delivery is one HTTP request; each of    *)
(* its steps is one database statement or one call to the provider.        *)
(***************************************************************************)
EXTENDS Naturals, FiniteSets

CONSTANTS
    Deliveries,    \* webhook requests being handled at the same time
    MaxFaults,     \* bound: crashes and transient failures
    Overruns       \* a handler may run for longer than the threshold

ASSUME ConstantsAssumption ==
    MaxFaults \in Nat /\ Overruns \in BOOLEAN

VARIABLES
    payment,  \* status of the payment at the provider
    due,      \* statuses whose notification has not been answered with 200
    entry,    \* the idempotency row
    stale,    \* the row is PROCESSING and older than staleProcessingMs
    escrow,   \* status of the job's escrow
    fits,     \* the job's total, converted now, is what the payment paid
    del,      \* step of each delivery
    about,    \* the status each delivery notifies
    first,    \* the payment's status when the provider first notified it
    aged,     \* history: the row has once outlived the threshold
    faults

aside == <<first, aged, faults>>
vars == <<payment, due, entry, stale, escrow, fits, del, about, first, aged, faults>>

Entry == {"absent", "PROCESSING", "COMPLETED"}
Funded == escrow \in {"HELD", "RELEASED"}

\* The deliveries that begin() has answered with 'new'.
Working == {"execute", "check", "fundRead", "fundTx", "complete", "abandon"}
Executing == {d \in Deliveries : del[d] \in Working}
Steps == {"idle", "begin", "delete", "create"} \cup Working

Init ==
    /\ first \in {"pending", "approved"}
    /\ payment = first /\ due = {first}
    /\ entry = "absent" /\ stale = FALSE
    /\ escrow = "PENDING" /\ fits \in BOOLEAN
    /\ del = [d \in Deliveries |-> "idle"]
    /\ about = [d \in Deliveries |-> first]
    /\ aged = FALSE /\ faults = 0

At(d, step) == del[d] = step
Goto(d, step) == del' = [del EXCEPT ![d] = step] /\ UNCHANGED about

-----------------------------------------------------------------------------
(* The provider, as the code under src/ relies on it.                      *)

Approve ==
    /\ payment = "pending" /\ payment' = "approved"
    /\ due' = due \cup {"approved"}
    /\ UNCHANGED <<entry, stale, escrow, fits, del, about, aside>>

\* A notification is sent until it is answered with 200, and possibly again.
Deliver(d, status) ==
    /\ At(d, "idle")
    /\ status \in due \cup {payment}
    /\ del' = [del EXCEPT ![d] = "begin"]
    /\ about' = [about EXCEPT ![d] = status]
    /\ UNCHANGED <<payment, due, entry, stale, escrow, fits, aside>>

\* 200 { ok: true }
Ack(d) == due' = due \ {about[d]} /\ Goto(d, "idle")

\* 503, or the error the handler threw.
Refuse(d) == UNCHANGED due /\ Goto(d, "idle")

-----------------------------------------------------------------------------
(* begin()                                                                 *)

\* Mutant: a PROCESSING row is respected at any age.
BeginWithoutTakeover(d) ==
    /\ At(d, "begin")
    /\ \/ entry = "COMPLETED" /\ Ack(d)
       \/ entry = "PROCESSING" /\ Refuse(d)
       \/ entry = "absent" /\ Goto(d, "create") /\ UNCHANGED due
    /\ UNCHANGED <<payment, entry, stale, escrow, fits, aside>>

\* findUnique
Begin(d) ==
    /\ At(d, "begin")
    /\ \/ entry = "COMPLETED" /\ Ack(d)
       \/ entry = "PROCESSING" /\ ~stale /\ Refuse(d)
       \/ entry = "PROCESSING" /\ stale /\ Goto(d, "delete") /\ UNCHANGED due
       \/ entry = "absent" /\ Goto(d, "create") /\ UNCHANGED due
    /\ UNCHANGED <<payment, entry, stale, escrow, fits, aside>>

\* delete by key, whatever the row is by now; a missing row throws.
DeleteStale(d) ==
    /\ At(d, "delete")
    /\ IF entry = "absent" THEN Refuse(d) ELSE Goto(d, "create") /\ UNCHANGED due
    /\ entry' = "absent" /\ stale' = FALSE
    /\ UNCHANGED <<payment, escrow, fits, aside>>

\* Mutant: an upsert instead of a create under the unique key.
CreateOrTake(d) ==
    /\ At(d, "create")
    /\ entry' = "PROCESSING" /\ stale' = FALSE /\ Goto(d, "execute")
    /\ UNCHANGED <<payment, due, escrow, fits, aside>>

\* create; the unique key sends the loser of a race back to the start.
Create(d) ==
    /\ At(d, "create")
    /\ IF entry = "absent"
       THEN entry' = "PROCESSING" /\ stale' = FALSE /\ Goto(d, "execute")
       ELSE UNCHANGED <<entry, stale>> /\ Goto(d, "begin")
    /\ UNCHANGED <<payment, due, escrow, fits, aside>>

-----------------------------------------------------------------------------
(* executeMercadoPagoWebhook and fundEscrowFromReference                   *)

\* Mutant: the handler goes by the notification, not by the payment's status.
ExecuteUnchecked(d) ==
    /\ At(d, "execute")
    /\ Goto(d, "check")
    /\ UNCHANGED <<payment, due, entry, stale, escrow, fits, aside>>

\* getPaymentStatus: a payment that is not approved is skipped, and the row
\* will be completed.
Execute(d) ==
    /\ At(d, "execute")
    /\ Goto(d, IF payment = "approved" THEN "check" ELSE "complete")
    /\ UNCHANGED <<payment, due, entry, stale, escrow, fits, aside>>

\* fundEscrowFromReference: HELD is done; PENDING is to be funded if the total
\* converts to what was paid and is PAYMENT_AMOUNT_MISMATCH otherwise; any
\* other status is PAYMENT_NOT_ALLOWED.
CheckEscrow(d) ==
    /\ At(d, "check")
    /\ Goto(d, CASE escrow = "HELD" -> "complete"
                 [] escrow = "PENDING" /\ fits -> "fundRead"
                 [] OTHER -> "abandon")
    /\ UNCHANGED <<payment, due, entry, stale, escrow, fits, aside>>

\* EscrowService.fundEscrow reads the status once more.
FundRead(d) ==
    /\ At(d, "fundRead")
    /\ Goto(d, IF escrow = "PENDING" THEN "fundTx" ELSE "complete")
    /\ UNCHANGED <<payment, due, entry, stale, escrow, fits, aside>>

\* EscrowRepository.fundEscrow: PENDING becomes HELD, HELD is left alone, any
\* other status throws.
FundTx(d) ==
    /\ At(d, "fundTx")
    /\ escrow' = IF escrow = "PENDING" THEN "HELD" ELSE escrow
    /\ Goto(d, IF escrow = "RELEASED" THEN "abandon" ELSE "complete")
    /\ UNCHANGED <<payment, due, entry, stale, fits, aside>>

\* complete(): update by key, whoever created the row; a missing row throws
\* into the handler's catch.
Complete(d) ==
    /\ At(d, "complete")
    /\ \/ /\ entry # "absent"
          /\ entry' = "COMPLETED" /\ stale' = FALSE
          /\ Ack(d)
       \/ /\ entry = "absent"
          /\ Goto(d, "abandon")
          /\ UNCHANGED <<entry, stale, due>>
    /\ UNCHANGED <<payment, escrow, fits, aside>>

\* Mutant: the row is kept when the handler fails, as if it had succeeded.
AbandonKeepsRow(d) ==
    /\ At(d, "abandon")
    /\ entry' = IF entry = "PROCESSING" THEN "COMPLETED" ELSE entry
    /\ stale' = FALSE
    /\ Refuse(d)
    /\ UNCHANGED <<payment, escrow, fits, aside>>

\* abandon(): deletes a PROCESSING row, whoever created it.
Abandon(d) ==
    /\ At(d, "abandon")
    /\ entry' = IF entry = "PROCESSING" THEN "absent" ELSE entry
    /\ stale' = FALSE
    /\ Refuse(d)
    /\ UNCHANGED <<payment, escrow, fits, aside>>

-----------------------------------------------------------------------------

Handle(d) ==
    \/ Begin(d) \/ DeleteStale(d) \/ Create(d)
    \/ Execute(d) \/ CheckEscrow(d) \/ FundRead(d) \/ FundTx(d)
    \/ Complete(d) \/ Abandon(d)

\* The provider or the database fails under a working delivery, whose catch
\* abandons the row.
Fail(d) ==
    /\ faults < MaxFaults /\ faults' = faults + 1
    /\ del[d] \in Working \ {"abandon"}
    /\ Goto(d, "abandon")
    /\ UNCHANGED <<payment, due, entry, stale, escrow, fits, first, aged>>

\* The process dies, and the provider gets no answer.
Crash(d) ==
    /\ faults < MaxFaults /\ faults' = faults + 1
    /\ ~At(d, "idle")
    /\ Goto(d, "idle")
    /\ UNCHANGED <<payment, due, entry, stale, escrow, fits, first, aged>>

\* The row gets older than PAYMENTS_WEBHOOK_IDEMPOTENCY_STALE_MS.
Age ==
    /\ entry = "PROCESSING" /\ ~stale
    /\ Overruns \/ Executing = {}
    /\ stale' = TRUE /\ aged' = TRUE
    /\ UNCHANGED <<payment, due, entry, escrow, fits, del, about, first, faults>>

\* The job is approved and its escrow released (JobEscrow).
Release ==
    /\ escrow = "HELD" /\ escrow' = "RELEASED"
    /\ UNCHANGED <<payment, due, entry, stale, fits, del, about, aside>>

\* A sync of the rate or a change order moves what the job's total converts to
\* away from what was paid, or back to it.
Reprice ==
    /\ fits' = ~fits
    /\ UNCHANGED <<payment, due, entry, stale, escrow, del, about, aside>>

Next ==
    \/ Approve \/ Age \/ Release \/ Reprice
    \/ \E d \in Deliveries :
          \/ \E status \in {"pending", "approved"} : Deliver(d, status)
          \/ Handle(d) \/ Fail(d) \/ Crash(d)

Spec == Init /\ [][Next]_vars

\* A delivery that has begun runs to its end, the row of a dead one gets old,
\* and the provider sends again what has not been answered with 200.
FairSpec ==
    /\ Spec
    /\ \A d \in Deliveries : WF_vars(Handle(d))
    /\ WF_vars(Age)
    /\ \A status \in {"pending", "approved"} :
          WF_vars(status \in due /\ \E d \in Deliveries : Deliver(d, status))

-----------------------------------------------------------------------------
(* Properties.                                                             *)

TypeOK ==
    /\ {payment, first} \subseteq {"pending", "approved"}
    /\ due \subseteq {"pending", "approved"}
    /\ entry \in Entry /\ stale \in BOOLEAN
    /\ escrow \in {"PENDING", "HELD", "RELEASED"} /\ fits \in BOOLEAN
    /\ del \in [Deliveries -> Steps]
    /\ about \in [Deliveries -> {"pending", "approved"}]
    /\ aged \in BOOLEAN /\ faults \in 0..MaxFaults

\* A payment that was approved when it was first notified is never answered
\* with 200 before the escrow holds the money: not through a row another
\* delivery completed, took over, abandoned or left behind in a crash.
AckedApprovalIsFunded ==
    first = "approved" /\ "approved" \notin due => Funded

\* Money enters the escrow only for a payment the provider reports approved,
\* although the handler is triggered by notifications of every status.
FundedWasApproved == Funded => payment = "approved"

\* Until a row outlives the threshold, at most one delivery works on the
\* payment, and the row says so.
OneWorkerBeforeStale ==
    ~aged => \A d, e \in Executing : d = e

\* While crashes and failures are few, an approved payment is funded in the
\* end, once the job's total stays what was paid: the provider's next
\* notification takes over the row of a dead delivery, and a refusal of the
\* amount has left no row that would answer it.
ApprovedIsFunded ==
    <>[]fits => ((payment = "approved" /\ first = "approved") ~> Funded)

-----------------------------------------------------------------------------
(* The inductive invariant behind AckedApprovalIsFunded.                   *)

\* Every delivery that may complete the row has seen the escrow funded.
Inv ==
    /\ TypeOK
    /\ first = "approved" =>
          /\ payment = "approved" /\ due \subseteq {"approved"}
          /\ \A d \in Deliveries : about[d] = "approved"
          /\ "approved" \notin due \/ entry = "COMPLETED" => Funded
          /\ \A d \in Deliveries : At(d, "complete") => Funded
    /\ \A d \in Deliveries :
          del[d] \in {"check", "fundRead", "fundTx"} => payment = "approved"
    /\ FundedWasApproved

-----------------------------------------------------------------------------
(* What the repository's documents say and the code does not do.           *)

\* payments-module.md: payment, then webhook, then fundEscrow.  Once the
\* approval has been answered with 200 the escrow is funded.
ApprovalAnsweredIsFunded == payment = "approved" /\ due = {} => Funded

\* escrow-logic.md: when the webhook fails the provider repeats it, and the
\* escrow is funded.  Not if the total never again converts to what was paid.
ApprovalIsFundedAnyway == (payment = "approved" /\ first = "approved") ~> Funded

\* payments-module.md: while another worker's row is PROCESSING and has not
\* expired, a delivery is turned away.
FreshRowExcludes == entry = "PROCESSING" /\ ~stale => \A d, e \in Executing : d = e

\* payments-module.md: success or skip completes the row.
FundedIsAnswered ==
    <>[]fits => ((payment = "approved" /\ first = "approved") ~> ("approved" \notin due))
=============================================================================
