---------------------------- MODULE PaymentIntake ----------------------------
(***************************************************************************)
(* Which payment funds which job: the payment links of several jobs, the    *)
(* payments clients make through them, and the two kinds of notification    *)
(* that lead PaymentsService from a payment or from the order it belongs to *)
(* to an escrow.                                                            *)
(*                                                                         *)
(* A link is a preference of Mercado Pago, and its order has the same name; *)
(* a client may pay it more than once.  Subscriptions and payments made by  *)
(* hand go through links of their own.  The rows that keep two deliveries   *)
(* of one key apart are a set here, a handler goes by the key it works on,  *)
(* and a link is made in one step: WebhookIdempotency models the row with   *)
(* its ageing and crashes, and JobEscrow the steps of a checkout.           *)
(***************************************************************************)
EXTENDS Naturals, Sequences, FiniteSets

CONSTANTS
    Jobs,
    Movable,        \* jobs whose amount moves: in dollars, or with change orders
    Prices,         \* amounts of a job in pesos; bound: an amount only rises
    MaxPayments,    \* bound: payments, numbered as they are made
    MaxLinks,       \* bound: links
    MaxLoad,        \* bound: links, and notifications being handled, together
    Subscription,   \* the external reference of a subscription
    None

VARIABLES
    price,          \* what the total of each job converts to now
    links,          \* preferences: reference and amount
    payments,       \* payments at the provider
    completed,      \* keys of PaymentWebhookIdempotency that are COMPLETED
    escrows,        \* the EscrowTransaction row of each job
    call,           \* by key, the notification being handled
    skipped         \* history: keys completed by a delivery that came too early

vars == <<price, links, payments, completed, escrows, call, skipped>>

Payments == 1..MaxPayments
Keys == ({"payment"} \X Payments) \cup ({"merchant_order"} \X (1..MaxLinks))
Idle == [pc |-> "idle"]
NoPayment == [status |-> "none", link |-> 0]

\* A link that no checkout of a job has made may be there from the start.
Init ==
    /\ price \in [Jobs -> Prices] /\ \A j \in Jobs, n \in Prices : price[j] <= n
    /\ links \in {<<>>} \cup {<<[ref |-> ref, amount |-> 1]>> : ref \in {Subscription, None}}
    /\ payments = [p \in Payments |-> NoPayment]
    /\ completed = {} /\ skipped = {}
    /\ escrows = [j \in Jobs |-> [status |-> "PENDING", amount |-> 0, ref |-> None,
                                 moved |-> FALSE]]
    /\ call = [k \in Keys |-> Idle]

At(k, pc) == call[k].pc = pc
Becomes(k, c) == call' = [call EXCEPT ![k] = c]
Goto(k, pc) == call' = [call EXCEPT ![k].pc = pc]
Reply(k) == Becomes(k, Idle)

Load == Len(links) + Cardinality({k \in Keys : call[k] # Idle})

-----------------------------------------------------------------------------
(* The provider, as the code under src/ relies on it                       *)

Pay(p, l) ==
    /\ payments[p].status = "none" /\ \A q \in 1..(p - 1) : payments[q].status # "none"
    /\ payments' = [payments EXCEPT ![p] = [status |-> "pending", link |-> l]]
    /\ UNCHANGED <<price, links, completed, escrows, call, skipped>>

\* A payment that is pending, rejected or cancelled is none of the approved.
Approve(p) ==
    /\ payments[p].status = "pending"
    /\ payments' = [payments EXCEPT ![p].status = "approved"]
    /\ UNCHANGED <<price, links, completed, escrows, call, skipped>>

Made(l) == {p \in Payments : payments[p].link = l}
ApprovedOf(l) == {p \in Made(l) : payments[p].status = "approved"}

\* A call that has checked the amount of j will convert it to another one.
Unsteady(c, j) == IF c.pc = "convert" /\ c.job = j THEN [c EXCEPT !.moved = TRUE] ELSE c

\* A rate is stored by another process, or a change order of the job approved.
Reprice(j, to) ==
    /\ j \in Movable /\ to > price[j] /\ price' = [price EXCEPT ![j] = to]
    /\ call' = [k \in Keys |-> Unsteady(call[k], j)]
    /\ UNCHANGED <<links, payments, completed, escrows, skipped>>

-----------------------------------------------------------------------------
(* createJobCheckout                                                       *)

\* createPaymentLink of MercadoPagoPaymentGatewayService
PaymentLink(jobId, amount) == [ref |-> jobId, amount |-> amount]

\* The session's reference is overwritten when the job is funded.
CreateJobCheckout(j) ==
    /\ escrows[j].status = "PENDING" /\ Len(links) < MaxLinks /\ Load < MaxLoad
    /\ links' = Append(links, PaymentLink(j, price[j]))
    /\ UNCHANGED <<price, payments, completed, escrows, call, skipped>>

-----------------------------------------------------------------------------
(* processMercadoPagoWebhook                                               *)

\* buildMercadoPagoWebhookIdempotencyKey
Key(topic, id) == <<topic, id>>

Notified(k) == IF k[1] = "payment" THEN {k[2]} ELSE Made(k[2])

\* The topic and the resource, whichever of the query and the body name them,
\* under a valid signature; begin() answers a key that is completed and turns
\* away one that another handler works on.
Receive(k) ==
    /\ Notified(k) # {} /\ \A p \in Notified(k) : payments[p].status # "none"
    /\ k \notin completed /\ At(k, "idle") /\ Load < MaxLoad
    /\ Becomes(k, [pc |-> "resolve",
                   early |-> \A p \in Notified(k) : payments[p].status # "approved"])
    /\ UNCHANGED <<price, links, payments, completed, escrows, skipped>>

\* getPaymentStatus
PaymentStatus(id) == {id} \cap {p \in Payments : payments[p].status = "approved"}

\* Mutant: the order's first payment, approved or not.
AnyPaymentOfOrder(id) == Made(id)

\* resolveApprovedPaymentFromMerchantOrder: an approved payment of the order
ApprovedPayment(id) == ApprovedOf(id)

\* executeMercadoPagoWebhook: without an approved payment the notification is
\* skipped, as is one of a subscription; one without a reference is refused.
Resolve(k) ==
    LET c == call[k]
        found == IF k[1] = "payment" THEN PaymentStatus(k[2]) ELSE ApprovedPayment(k[2]) IN
    /\ At(k, "resolve")
    /\ IF found = {} THEN Goto(k, "complete")
       ELSE \E p \in found :
               LET link == links[payments[p].link] IN
               CASE link.ref = None -> Reply(k)
                 [] link.ref = Subscription -> Goto(k, "complete")
                 [] OTHER -> Becomes(k, [pc |-> "check", early |-> c.early, job |-> link.ref,
                                         by |-> p, paid |-> link.amount])
    /\ UNCHANGED <<price, links, payments, completed, escrows, skipped>>

-----------------------------------------------------------------------------
(* fundEscrowFromReference, EscrowService.fundEscrow and the row            *)

AmountFits(c) == c.paid = price[c.job]

\* fundEscrowFromReference: a job that is funded already is done, one that is
\* PENDING is to be funded if its amount is today what was paid, and anything
\* else is refused.
Check(k) ==
    LET c == call[k] IN
    /\ At(k, "check")
    /\ CASE escrows[c.job].status = "HELD" -> Goto(k, "complete")
         [] escrows[c.job].status = "PENDING" /\ AmountFits(c) ->
               Becomes(k, [pc |-> "convert", early |-> c.early, job |-> c.job, by |-> c.by,
                           paid |-> c.paid, moved |-> FALSE])
         [] OTHER -> Reply(k)
    /\ UNCHANGED <<price, links, payments, completed, escrows, skipped>>

\* EscrowService.fundEscrow reads the escrow again, and converts the total
\* again, at what the job and the rate are now.
Convert(k) ==
    LET c == call[k] IN
    /\ At(k, "convert")
    /\ IF escrows[c.job].status # "PENDING" THEN Goto(k, "complete")
       ELSE Becomes(k, [pc |-> "fund", early |-> c.early, job |-> c.job, by |-> c.by,
                        paid |-> c.paid, moved |-> c.moved, amount |-> price[c.job]])
    /\ UNCHANGED <<price, links, payments, completed, escrows, skipped>>

\* EscrowRepository.fundEscrow: PENDING becomes HELD, HELD is left alone, any
\* other status throws.
FundEscrow(k) ==
    LET c == call[k] IN
    /\ At(k, "fund")
    /\ IF escrows[c.job].status = "PENDING"
       THEN escrows' = [escrows EXCEPT ![c.job] =
                [status |-> "HELD", amount |-> c.amount, ref |-> c.by, moved |-> c.moved]]
       ELSE UNCHANGED escrows
    /\ IF escrows'[c.job].status = "HELD" THEN Goto(k, "complete") ELSE Reply(k)
    /\ UNCHANGED <<price, links, payments, completed, skipped>>

Complete(k) ==
    /\ At(k, "complete")
    /\ completed' = completed \cup {k}
    /\ skipped' = IF call[k].early THEN skipped \cup {k} ELSE skipped
    /\ Reply(k)
    /\ UNCHANGED <<price, links, payments, escrows>>

\* The provider or the database fails, and the handler with it.
Fails(k) ==
    /\ ~At(k, "idle") /\ Reply(k)
    /\ UNCHANGED <<price, links, payments, completed, escrows, skipped>>

\* The job is approved and its escrow released.
Release(j) ==
    /\ escrows[j].status = "HELD"
    /\ escrows' = [escrows EXCEPT ![j].status = "RELEASED"]
    /\ UNCHANGED <<price, links, payments, completed, call, skipped>>

Next ==
    \/ \E p \in Payments :
          \/ \E l \in DOMAIN links : Pay(p, l)
          \/ Approve(p)
    \/ \E j \in Jobs : CreateJobCheckout(j) \/ Release(j) \/ \E to \in Prices : Reprice(j, to)
    \/ \E k \in Keys :
          \/ Receive(k) \/ Resolve(k) \/ Check(k) \/ Convert(k)
          \/ FundEscrow(k) \/ Complete(k) \/ Fails(k)

Spec == Init /\ [][Next]_vars

-----------------------------------------------------------------------------
Funded(j) == escrows[j].status # "PENDING"

TypeOK ==
    /\ price \in [Jobs -> Prices]
    /\ \A l \in DOMAIN links : links[l].ref \in Jobs \cup {Subscription, None}
    /\ \A p \in Payments : /\ payments[p].status \in {"none", "pending", "approved"}
                           /\ payments[p].link \in 0..Len(links)
    /\ \A j \in Jobs : escrows[j].status \in {"PENDING", "HELD", "RELEASED"}
    /\ \A k \in Keys :
          call[k].pc \in {"idle", "resolve", "check", "convert", "fund", "complete"}
    /\ skipped \subseteq completed /\ completed \subseteq Keys

\* Whichever way the notifications of several payments, orders and jobs cross,
\* and whatever the rate and the job's total do after the link was made, a funded
\* escrow names an approved payment of its own job, and holds what that payment
\* paid; it may hold another amount if the job's amount moved between the check
\* of what was paid and the second conversion, and only then.
FundedByItsPayment ==
    \A j \in Jobs : Funded(j) =>
        /\ escrows[j].ref \in Payments
        /\ payments[escrows[j].ref].status = "approved"
        /\ LET link == links[payments[escrows[j].ref].link] IN
           /\ link.ref = j
           /\ link.amount = escrows[j].amount \/ escrows[j].moved

\* A notification that is never to be handled again has funded the job of its
\* payment, if there was an approved one when it came.
CompletedIsFunded ==
    \A p \in Payments :
        payments[p].status = "approved" =>
            LET ref == links[payments[p].link].ref IN
            /\ Key("payment", p) \in completed \ skipped /\ ref \in Jobs => Funded(ref)
            /\ Key("merchant_order", payments[p].link) \in completed \ skipped /\ ref \in Jobs =>
                  Funded(ref)

MoneyMatches == FundedByItsPayment /\ CompletedIsFunded

-----------------------------------------------------------------------------
(* What a document of the repository says and the code does not do.        *)

\* money-rules.md: what is held is the amount that was charged.
HeldIsPaid ==
    \A j \in Jobs : Funded(j) => links[payments[escrows[j].ref].link].amount = escrows[j].amount
=============================================================================
