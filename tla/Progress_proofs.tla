--------------------------- MODULE Progress_proofs ---------------------------
(***************************************************************************)
(* Which payment held money comes from (PaymentIntake, in the suite that    *)
(* checks it), for any jobs, links, payments, keys and prices: the          *)
(* references of subscriptions and of payments made by hand are only asked  *)
(* to be no job's.  The liveness of the suite's other parts is beyond the   *)
(* prover.                                                                  *)
(***************************************************************************)
EXTENDS Progress, Sequences, TLAPS

Sums == Amounts \cup {0, 1}
Link == [ref : TwoJobs \cup {SubscriptionRef, Nobody}, amount : Sums]
PaymentRow == [status : {"none", "pending", "approved"}, link : Nat]
EscrowRow == [status : {"PENDING", "HELD", "RELEASED"}, amount : Sums,
              ref : Intake!Payments \cup {Nobody}, moved : BOOLEAN]
Resolving == [pc : {"resolve"}, early : BOOLEAN]
Checking == [pc : {"check"}, early : BOOLEAN, job : TwoJobs, by : Intake!Payments, paid : Sums]
Converting == [pc : {"convert"}, early : BOOLEAN, job : TwoJobs, by : Intake!Payments,
               paid : Sums, moved : BOOLEAN]
Funding == [pc : {"fund"}, early : BOOLEAN, job : TwoJobs, by : Intake!Payments,
            paid : Sums, moved : BOOLEAN, amount : Sums]

Shape ==
    /\ payPrice \in [TwoJobs -> Amounts]
    /\ payLinks \in Seq(Link)
    /\ payPayments \in [Intake!Payments -> PaymentRow]
    /\ payEscrows \in [TwoJobs -> EscrowRow]
    /\ payCall = [h \in Intake!Keys |-> payCall[h]]

\* A payment that was made goes through a link.
PaymentsAreLinked ==
    \A p \in Intake!Payments : payPayments[p].status # "none" =>
           payPayments[p].link \in 1..Len(payLinks)

Approved(p) == p \in Intake!Payments /\ payPayments[p].status = "approved"

\* What a key is about: one approved payment, or an order with one.
KeyIsKnown(k) ==
    \/ k[1] = "payment" /\ Approved(k[2])
    \/ /\ k[1] = "merchant_order"
       /\ \E p \in Intake!Payments : Approved(p) /\ payPayments[p].link = k[2]

KeyRef(k) ==
    IF k[1] = "payment" THEN payLinks[payPayments[k[2]].link].ref ELSE payLinks[k[2]].ref

KeyIsDone(k) == KeyIsKnown(k) /\ (KeyRef(k) \in TwoJobs => Intake!Funded(KeyRef(k)))

\* An approved payment of the call's job, behind the call's key.
Traced(h, c) ==
    /\ Approved(c.by) /\ KeyIsKnown(h)
    /\ KeyRef(h) = c.job
    /\ payLinks[payPayments[c.by].link] = [ref |-> c.job, amount |-> c.paid]

\* What the handler of a key has found out by now: the amount it checked is
\* still the job's, and the amount it will write is what was paid, unless that
\* amount moved in between.
CallIsSound(h, c) ==
    /\ c.pc \in {"idle", "resolve", "check", "convert", "fund", "complete"}
    /\ c.pc # "idle" /\ ~c.early => KeyIsKnown(h)
    /\ c.pc = "resolve" => c \in Resolving
    /\ c.pc = "check" => c \in Checking /\ Traced(h, c)
    /\ c.pc = "convert" =>
           /\ c \in Converting /\ Traced(h, c)
           /\ c.paid = payPrice[c.job] \/ c.moved = TRUE
    /\ c.pc = "fund" =>
           /\ c \in Funding /\ Traced(h, c)
           /\ c.paid = c.amount \/ c.moved = TRUE
    /\ c.pc = "complete" /\ ~c.early => KeyIsDone(h)

CallsAreSound == \A h \in Intake!Keys : CallIsSound(h, payCall[h])

CompletedIsDone == \A k \in payCompleted \ paySkipped : KeyIsDone(k)

IInv ==
    Shape /\ PaymentsAreLinked /\ CallsAreSound /\ Intake!FundedByItsPayment /\ CompletedIsDone

LEMMA InitInv == Intake!Init => IInv
<1> SUFFICES ASSUME Intake!Init PROVE IInv
    OBVIOUS
<1>1. payLinks \in Seq(Link)
  <2>1. CASE payLinks = <<>>
    BY <2>1
  <2>2. ASSUME NEW ref \in {SubscriptionRef, Nobody},
               payLinks = <<[ref |-> ref, amount |-> 1]>>
        PROVE  payLinks \in Seq(Link)
    <3>1. [ref |-> ref, amount |-> 1] \in Link
      BY DEF Link, Sums
    <3> QED
      BY <2>2, <3>1
  <2> QED
    BY <2>1, <2>2 DEF Intake!Init
<1>2. Shape
  BY <1>1 DEF Intake!Init, Shape, PaymentRow, EscrowRow, Intake!NoPayment, Sums
<1>3. PaymentsAreLinked /\ Intake!FundedByItsPayment /\ CompletedIsDone
  BY DEF Intake!Init, PaymentsAreLinked, Intake!FundedByItsPayment, CompletedIsDone,
         Intake!Funded, Intake!NoPayment
<1>4. CallsAreSound
  BY DEF Intake!Init, CallsAreSound, CallIsSound, Intake!Idle
<1> QED
  BY <1>2, <1>3, <1>4 DEF IInv

-----------------------------------------------------------------------------
(* Links, payments and escrows only grow: what is known stays so.          *)

Grows ==
    /\ Len(payLinks) \in Nat /\ Len(payLinks') \in Nat /\ Len(payLinks) <= Len(payLinks')
    /\ \A l \in 1..Len(payLinks) : payLinks'[l] = payLinks[l]
    /\ \A p \in Intake!Payments : payPayments[p].status # "none" =>
           payPayments'[p].status # "none" /\ payPayments'[p].link = payPayments[p].link
    /\ \A p \in Intake!Payments : Approved(p) => Approved(p)'
    /\ \A j \in TwoJobs : Intake!Funded(j) =>
           /\ Intake!Funded(j)' /\ payEscrows'[j].ref = payEscrows[j].ref
           /\ payEscrows'[j].amount = payEscrows[j].amount
           /\ payEscrows'[j].moved = payEscrows[j].moved

LEMMA ApprovedStays ==
    ASSUME PaymentsAreLinked, Grows, NEW p, Approved(p)
    PROVE  /\ p \in Intake!Payments /\ Approved(p)'
           /\ payPayments'[p].link = payPayments[p].link
           /\ payPayments[p].link \in 1..Len(payLinks)
           /\ payLinks'[payPayments'[p].link] = payLinks[payPayments[p].link]
BY DEF Grows, Approved, PaymentsAreLinked

LEMMA KnownStays ==
    ASSUME PaymentsAreLinked, Grows, NEW k, KeyIsKnown(k)
    PROVE  KeyIsKnown(k)' /\ KeyRef(k)' = KeyRef(k)
<1>1. CASE k[1] = "payment" /\ Approved(k[2])
  BY <1>1, ApprovedStays DEF KeyIsKnown, KeyRef
<1>2. ASSUME k[1] = "merchant_order", NEW p \in Intake!Payments, Approved(p),
             payPayments[p].link = k[2]
      PROVE  KeyIsKnown(k)' /\ KeyRef(k)' = KeyRef(k)
  BY <1>2, ApprovedStays DEF KeyIsKnown, KeyRef
<1> QED
  BY <1>1, <1>2 DEF KeyIsKnown

LEMMA DoneStays ==
    ASSUME PaymentsAreLinked, Grows, NEW k, KeyIsDone(k)
    PROVE  KeyIsDone(k)'
<1>1. KeyIsKnown(k)' /\ KeyRef(k)' = KeyRef(k)
  BY KnownStays DEF KeyIsDone
<1> QED
  BY <1>1 DEF KeyIsDone, Grows

LEMMA MoneyStays ==
    ASSUME PaymentsAreLinked, Grows, Intake!FundedByItsPayment, NEW j \in TwoJobs,
           Intake!Funded(j)
    PROVE  /\ payEscrows'[j].ref \in Intake!Payments
           /\ payPayments'[payEscrows'[j].ref].status = "approved"
           /\ LET link == payLinks'[payPayments'[payEscrows'[j].ref].link] IN
              /\ link.ref = j
              /\ link.amount = payEscrows'[j].amount \/ payEscrows'[j].moved
<1> DEFINE p == payEscrows[j].ref
<1>1. Approved(p) /\ payLinks[payPayments[p].link].ref = j
      /\ \/ payLinks[payPayments[p].link].amount = payEscrows[j].amount
         \/ payEscrows[j].moved
  BY DEF Intake!FundedByItsPayment, Approved
<1>2. payEscrows'[j].ref = p /\ payEscrows'[j].amount = payEscrows[j].amount
      /\ payEscrows'[j].moved = payEscrows[j].moved
  BY DEF Grows
<1> HIDE DEF p
<1> QED
  BY <1>1, <1>2, ApprovedStays DEF Approved

LEMMA TracedStays ==
    ASSUME PaymentsAreLinked, Grows, NEW h, NEW c, Traced(h, c)
    PROVE  Traced(h, c)'
<1>1. Approved(c.by)' /\ payLinks'[payPayments'[c.by].link] = payLinks[payPayments[c.by].link]
  BY ApprovedStays DEF Traced
<1>2. KeyIsKnown(h)' /\ KeyRef(h)' = KeyRef(h)
  BY KnownStays DEF Traced
<1> QED
  BY <1>1, <1>2 DEF Traced

LEMMA SoundStays ==
    ASSUME PaymentsAreLinked, Grows, payPrice' = payPrice, NEW h, NEW c, CallIsSound(h, c)
    PROVE  CallIsSound(h, c)'
<1>1. c.pc # "idle" /\ ~c.early => KeyIsKnown(h)'
  BY KnownStays DEF CallIsSound
<1>2. c.pc \in {"check", "convert", "fund"} => Traced(h, c)'
  BY TracedStays DEF CallIsSound
<1>3. c.pc = "complete" /\ ~c.early => KeyIsDone(h)'
  BY DoneStays DEF CallIsSound
<1> QED
  BY <1>1, <1>2, <1>3 DEF CallIsSound

\* A step of the provider, of a checkout or of the job that leaves the handlers
\* alone.
LEMMA GrowsInv ==
    ASSUME IInv, Grows, Shape', PaymentsAreLinked', payPrice' = payPrice,
           UNCHANGED <<payCall, payCompleted, paySkipped>>,
           \A j \in TwoJobs : Intake!Funded(j)' => Intake!Funded(j)
    PROVE  IInv'
<1>1. CallsAreSound'
  BY SoundStays DEF IInv, CallsAreSound
<1>2. Intake!FundedByItsPayment'
  BY MoneyStays DEF IInv, Intake!FundedByItsPayment
<1>3. CompletedIsDone'
  BY DoneStays DEF IInv, CompletedIsDone
<1> QED
  BY <1>1, <1>2, <1>3 DEF IInv

LEMMA PayInv == ASSUME IInv, NEW p \in Intake!Payments, NEW l \in DOMAIN payLinks,
                       Intake!Pay(p, l)
                PROVE  IInv'
<1>1. Len(payLinks) \in Nat /\ l \in 1..Len(payLinks)
  BY DEF IInv, Shape
<1>2. [status |-> "pending", link |-> l] \in PaymentRow
  BY <1>1 DEF PaymentRow
<1>3. Shape'
  BY <1>2 DEF IInv, Shape, Intake!Pay
<1>4. PaymentsAreLinked'
  BY <1>1 DEF IInv, Shape, PaymentsAreLinked, Intake!Pay
<1>5. Grows
  BY <1>1 DEF IInv, Shape, Intake!Pay, Grows, Approved, Intake!Funded
<1> QED
  BY <1>3, <1>4, <1>5, GrowsInv DEF Intake!Pay, Intake!Funded

LEMMA ApproveInv == ASSUME IInv, NEW p \in Intake!Payments, Intake!Approve(p) PROVE IInv'
<1>1. payPayments[p] \in PaymentRow /\ Len(payLinks) \in Nat
  BY DEF IInv, Shape
<1>2. Shape'
  BY <1>1 DEF IInv, Shape, Intake!Approve, PaymentRow
<1>3. PaymentsAreLinked'
  BY DEF IInv, Shape, PaymentsAreLinked, Intake!Approve, PaymentRow
<1>4. Grows
  BY <1>1 DEF IInv, Shape, Intake!Approve, Grows, Approved, Intake!Funded, PaymentRow
<1> QED
  BY <1>2, <1>3, <1>4, GrowsInv DEF Intake!Approve, Intake!Funded

\* The amount that a call has checked moves, and the call is marked.
LEMMA PriceInv == ASSUME IInv, NEW j \in TwoJobs, NEW to \in Amounts, Intake!Reprice(j, to)
                  PROVE  IInv'
<1>1. Shape' /\ PaymentsAreLinked'
  BY DEF IInv, Shape, PaymentsAreLinked, Intake!Reprice
<1>2. Grows
  BY DEF IInv, Shape, Intake!Reprice, Grows, Approved, Intake!Funded
<1>3. ASSUME NEW h \in Intake!Keys PROVE CallIsSound(h, payCall[h])'
  <2> PICK c : c = payCall[h]
    OBVIOUS
  <2>1. CallIsSound(h, c) /\ payCall'[h] = Intake!Unsteady(c, j)
    BY <1>3 DEF IInv, CallsAreSound, Intake!Reprice
  <2>2. /\ c.pc # "idle" /\ ~c.early => KeyIsKnown(h)'
        /\ c.pc \in {"check", "convert", "fund"} => Traced(h, c)'
        /\ c.pc = "complete" /\ ~c.early => KeyIsDone(h)'
    BY <1>2, <2>1, KnownStays, TracedStays, DoneStays DEF IInv, CallIsSound
  <2>3. CASE c.pc = "convert" /\ c.job = j
    <3> PICK d : d = [c EXCEPT !.moved = TRUE]
      OBVIOUS
    <3>1. /\ d \in Converting /\ d.pc = "convert" /\ d.moved = TRUE
          /\ d.early = c.early /\ d.job = c.job /\ d.paid = c.paid
      BY <2>1, <2>3 DEF CallIsSound, Converting
    <3>2. payCall'[h] = d
      BY <2>1, <2>3 DEF Intake!Unsteady
    <3>3. Traced(h, d)' /\ (~d.early => KeyIsKnown(h)')
      BY <3>1, <2>2, <2>3 DEF Traced
    <3>4. CallIsSound(h, d)'
      BY <3>1, <3>3, <2>3 DEF CallIsSound
    <3> QED
      BY <3>2, <3>4
  <2>4. CASE ~(c.pc = "convert" /\ c.job = j)
    <3>1. payCall'[h] = c
      BY <2>1, <2>4 DEF Intake!Unsteady
    <3>2. CallIsSound(h, c)'
      BY <2>1, <2>2, <2>4 DEF IInv, Shape, CallIsSound, Converting, Intake!Reprice
    <3> QED
      BY <3>1, <3>2
  <2> QED
    BY <2>3, <2>4
<1>4. Intake!FundedByItsPayment'
  BY DEF IInv, Intake!Reprice, Intake!FundedByItsPayment, Intake!Funded
<1>5. CompletedIsDone'
  BY <1>2, DoneStays DEF IInv, CompletedIsDone, Intake!Reprice
<1> QED
  BY <1>1, <1>3, <1>4, <1>5 DEF IInv, CallsAreSound

LEMMA CheckoutInv == ASSUME IInv, NEW j \in TwoJobs, Intake!CreateJobCheckout(j) PROVE IInv'
<1> DEFINE link == Intake!PaymentLink(j, payPrice[j])
<1>1. link \in Link
  BY DEF IInv, Shape, Intake!PaymentLink, Link, Sums
<1>2. payLinks \in Seq(Link) /\ payLinks' = Append(payLinks, link)
  BY DEF IInv, Shape, Intake!CreateJobCheckout
<1> HIDE DEF link
<1>3. /\ payLinks' \in Seq(Link) /\ Len(payLinks) \in Nat
      /\ Len(payLinks') = Len(payLinks) + 1
      /\ \A l \in 1..Len(payLinks) : payLinks'[l] = payLinks[l]
  BY <1>1, <1>2
<1>4. Shape' /\ PaymentsAreLinked'
  BY <1>3 DEF IInv, Shape, PaymentsAreLinked, Intake!CreateJobCheckout
<1>5. Grows
  BY <1>3 DEF IInv, Shape, Intake!CreateJobCheckout, Grows, Approved, Intake!Funded
<1> QED
  BY <1>4, <1>5, GrowsInv DEF Intake!CreateJobCheckout, Intake!Funded

LEMMA ReleaseInv == ASSUME IInv, NEW j \in TwoJobs, Intake!Release(j) PROVE IInv'
<1>1. payEscrows[j] \in EscrowRow /\ Len(payLinks) \in Nat
  BY DEF IInv, Shape
<1>2. payEscrows' \in [TwoJobs -> EscrowRow]
  BY <1>1 DEF IInv, Shape, Intake!Release, EscrowRow
<1>3. Shape' /\ PaymentsAreLinked'
  BY <1>2 DEF IInv, Shape, PaymentsAreLinked, Intake!Release
<1>4. Grows
  BY <1>1 DEF IInv, Shape, Intake!Release, Grows, Approved, Intake!Funded, EscrowRow
<1>5. \A k \in TwoJobs : Intake!Funded(k)' => Intake!Funded(k)
  BY <1>1 DEF IInv, Shape, Intake!Release, Intake!Funded
<1> QED
  BY <1>3, <1>4, <1>5, GrowsInv DEF Intake!Release

-----------------------------------------------------------------------------
(* The handlers                                                            *)

\* A handler's step leaves the other calls sound if what is known only grows.
LEMMA OthersStaySound ==
    ASSUME IInv, Grows, payPrice' = payPrice, NEW h \in Intake!Keys, NEW c,
           payCall' = [payCall EXCEPT ![h] = c], CallIsSound(h, c)'
    PROVE  CallsAreSound' /\ payCall' = [k \in Intake!Keys |-> payCall'[k]]
<1>1. payCall = [k \in Intake!Keys |-> payCall[k]]
  BY DEF IInv, Shape
<1>2. payCall'[h] = c /\ \A k \in Intake!Keys \ {h} : payCall'[k] = payCall[k]
  BY <1>1
<1>3. \A k \in Intake!Keys : CallIsSound(k, payCall[k])'
  <2> SUFFICES ASSUME NEW k \in Intake!Keys PROVE CallIsSound(k, payCall[k])'
    OBVIOUS
  <2>1. CASE k = h
    BY <2>1, <1>2
  <2>2. CASE k # h
    BY <2>2, <1>2, SoundStays DEF IInv, CallsAreSound
  <2> QED
    BY <2>1, <2>2
<1> QED
  BY <1>1, <1>3 DEF CallsAreSound

\* A step that changes one call alone needs only that this call is sound.
LEMMA CallInv ==
    ASSUME IInv, NEW h \in Intake!Keys, NEW c, payCall' = [payCall EXCEPT ![h] = c],
           UNCHANGED <<payPrice, payLinks, payPayments, payEscrows, payCompleted, paySkipped>>,
           CallIsSound(h, c)'
    PROVE  IInv'
<1>1. Grows
  BY DEF IInv, Shape, Grows, Approved, Intake!Funded
<1>2. CallsAreSound' /\ payCall' = [k \in Intake!Keys |-> payCall'[k]]
  BY <1>1, OthersStaySound
<1>3. Shape' /\ PaymentsAreLinked' /\ Intake!FundedByItsPayment'
  BY <1>2 DEF IInv, Shape, PaymentsAreLinked, Intake!FundedByItsPayment, Intake!Funded
<1>4. CompletedIsDone'
  BY <1>1, DoneStays DEF IInv, CompletedIsDone
<1> QED
  BY <1>2, <1>3, <1>4 DEF IInv

LEMMA ReplyInv ==
    ASSUME IInv, NEW h \in Intake!Keys, Intake!Reply(h),
           UNCHANGED <<payPrice, payLinks, payPayments, payEscrows, payCompleted, paySkipped>>
    PROVE  IInv'
<1>1. CallIsSound(h, Intake!Idle)'
  BY DEF Intake!Idle, CallIsSound
<1> QED
  BY <1>1, CallInv DEF Intake!Reply, Intake!Becomes

\* A handler goes on to the row when its key is done, or was early.
LEMMA GotoCompleteInv ==
    ASSUME IInv, NEW h \in Intake!Keys, Intake!Goto(h, "complete"),
           UNCHANGED <<payPrice, payLinks, payPayments, payEscrows, payCompleted, paySkipped>>,
           payCall[h].pc \in {"resolve", "check", "convert"},
           payCall[h].early \/ KeyIsDone(h)
    PROVE  IInv'
<1> PICK c : c = payCall[h]
  OBVIOUS
<1> PICK d : d = [c EXCEPT !.pc = "complete"]
  OBVIOUS
<1>1. c \in Resolving \cup Checking \cup Converting
  BY DEF IInv, CallsAreSound, CallIsSound
<1>2. d.pc = "complete" /\ d.early = c.early
  BY <1>1 DEF Resolving, Checking, Converting
<1>3. payCall' = [payCall EXCEPT ![h] = d]
  BY DEF Intake!Goto
<1>4. c.early \/ KeyIsDone(h)'
  BY DEF KeyIsDone, KeyIsKnown, KeyRef, Approved, Intake!Funded
<1>5. CallIsSound(h, d)'
  BY <1>2, <1>4 DEF CallIsSound, KeyIsDone
<1> QED
  BY <1>3, <1>5, CallInv

LEMMA ReceiveInv == ASSUME IInv, NEW h \in Intake!Keys, Intake!Receive(h) PROVE IInv'
<1> DEFINE early == \A p \in Intake!Notified(h) : payPayments[p].status # "approved"
<1>1. ~early => KeyIsKnown(h)
  BY DEF KeyIsKnown, Intake!Notified, Intake!Made, Approved, Intake!Keys
<1> PICK c : c = [pc |-> "resolve", early |-> early]
  OBVIOUS
<1>2. payCall' = [payCall EXCEPT ![h] = c]
  BY DEF Intake!Receive, Intake!Becomes
<1>3. ~c.early => KeyIsKnown(h)
  BY <1>1
<1>4. early \in BOOLEAN
  OBVIOUS
<1>5. c \in Resolving /\ c.pc = "resolve"
  BY <1>4 DEF Resolving
<1> HIDE DEF early
<1>6. KeyIsKnown(h) => KeyIsKnown(h)'
  BY DEF Intake!Receive, KeyIsKnown, Approved
<1>7. CallIsSound(h, c)'
  BY <1>3, <1>5, <1>6 DEF CallIsSound
<1> QED
  BY <1>2, <1>7, CallInv DEF Intake!Receive

LEMMA ResolveInv == ASSUME IInv, NEW h \in Intake!Keys, Intake!Resolve(h) PROVE IInv'
<1> PICK c : c = payCall[h]
  OBVIOUS
<1> DEFINE found == IF h[1] = "payment" THEN Intake!PaymentStatus(h[2])
                    ELSE Intake!ApprovedPayment(h[2])
           next(p) == [pc |-> "check", early |-> c.early,
                       job |-> payLinks[payPayments[p].link].ref,
                       by |-> p, paid |-> payLinks[payPayments[p].link].amount]
<1>1. /\ c \in Resolving /\ c.pc = "resolve"
      /\ ~c.early => KeyIsKnown(h)
  BY DEF IInv, CallsAreSound, CallIsSound, Intake!Resolve, Intake!At
<1>2. UNCHANGED <<payPrice, payLinks, payPayments, payEscrows, payCompleted, paySkipped>>
  BY DEF Intake!Resolve
<1>3. \A p \in found : /\ Approved(p) /\ KeyIsKnown(h)
                       /\ KeyRef(h) = payLinks[payPayments[p].link].ref
  BY DEF Intake!Keys, Intake!PaymentStatus, Intake!ApprovedPayment, Intake!ApprovedOf,
         Intake!Made, Approved, KeyIsKnown, KeyRef
<1>4. found = {} => ~KeyIsKnown(h)
  BY DEF Intake!Keys, Intake!PaymentStatus, Intake!ApprovedPayment, Intake!ApprovedOf,
         Intake!Made, Approved, KeyIsKnown
<1>5. \/ found = {} /\ Intake!Goto(h, "complete")
      \/ \E p \in found :
             LET link == payLinks[payPayments[p].link] IN
             CASE link.ref = Nobody -> Intake!Reply(h)
               [] link.ref = SubscriptionRef -> Intake!Goto(h, "complete")
               [] OTHER -> Intake!Becomes(h, next(p))
  BY DEF Intake!Resolve
<1> HIDE DEF found
<1>6. CASE found = {} /\ Intake!Goto(h, "complete")
  BY <1>1, <1>2, <1>4, <1>6, GotoCompleteInv DEF Resolving
<1>7. ASSUME NEW p \in found,
             LET link == payLinks[payPayments[p].link] IN
             CASE link.ref = Nobody -> Intake!Reply(h)
               [] link.ref = SubscriptionRef -> Intake!Goto(h, "complete")
               [] OTHER -> Intake!Becomes(h, next(p))
      PROVE  IInv'
  <2> DEFINE link == payLinks[payPayments[p].link]
  <2>1. Approved(p) /\ KeyIsKnown(h) /\ KeyRef(h) = link.ref
    BY <1>3, <1>7
  <2>2. link \in Link /\ payPayments[p].link \in 1..Len(payLinks)
    <3>1. payLinks \in Seq(Link) /\ Len(payLinks) \in Nat
      BY DEF IInv, Shape
    <3>2. payPayments[p].link \in 1..Len(payLinks)
      BY <2>1 DEF IInv, PaymentsAreLinked, Approved
    <3> QED
      BY <3>1, <3>2
  <2>3. \/ Intake!Reply(h)
        \/ link.ref = SubscriptionRef /\ Intake!Goto(h, "complete")
        \/ link.ref \in TwoJobs /\ Intake!Becomes(h, next(p))
    BY <1>7, <2>2 DEF Link
  <2>4. CASE Intake!Reply(h)
    BY <2>4, <1>2, ReplyInv
  <2>5. CASE link.ref = SubscriptionRef /\ Intake!Goto(h, "complete")
    <3>1. KeyIsDone(h)
      BY <2>1, <2>5, ApartAssumption DEF KeyIsDone
    <3> QED
      BY <3>1, <2>5, <1>1, <1>2, GotoCompleteInv
  <2>6. CASE link.ref \in TwoJobs /\ Intake!Becomes(h, next(p))
    <3> PICK d : d = next(p)
      OBVIOUS
    <3> PICK l : l = link
      OBVIOUS
    <3>1. /\ d.pc = "check" /\ d.by = p /\ d.job = l.ref /\ d.paid = l.amount
          /\ d.early = c.early
      OBVIOUS
    <3>2. payCall' = [payCall EXCEPT ![h] = d]
      BY <2>6 DEF Intake!Becomes
    <3>3. d \in Checking
      <4>1. c.early \in BOOLEAN /\ p \in Intake!Payments
            /\ l.amount \in Sums /\ l.ref \in TwoJobs
        BY <1>1, <2>1, <2>2, <2>6 DEF Resolving, Approved, Link
      <4>2. d = [pc |-> "check", early |-> c.early, job |-> l.ref,
                 by |-> p, paid |-> l.amount]
        OBVIOUS
      <4> HIDE DEF next, link
      <4> QED
        BY <4>1, <4>2 DEF Checking
    <3>4. l = [ref |-> d.job, amount |-> d.paid]
      BY <3>1, <2>2 DEF Link
    <3>5. KeyIsKnown(h) /\ KeyRef(h) = l.ref /\ Approved(p)
          /\ payLinks[payPayments[p].link] = l
      BY <2>1
    <3> HIDE DEF next, link
    <3>6. Traced(h, d)'
      BY <3>1, <3>4, <3>5, <1>2 DEF Traced, KeyIsKnown, KeyRef, Approved
    <3>7. CallIsSound(h, d)'
      BY <3>1, <3>3, <3>6 DEF CallIsSound, Traced
    <3> QED
      BY <3>2, <3>7, <1>2, CallInv
  <2> QED
    BY <2>3, <2>4, <2>5, <2>6
<1> QED
  BY <1>5, <1>6, <1>7

\* A call whose job is funded has its key done.
LEMMA TracedIsDone ==
    ASSUME NEW h, NEW c, Traced(h, c), Intake!Funded(c.job)
    PROVE  KeyIsDone(h)
BY DEF Traced, KeyIsDone

LEMMA CheckInv == ASSUME IInv, NEW h \in Intake!Keys, Intake!Check(h) PROVE IInv'
<1> PICK c : c = payCall[h]
  OBVIOUS
<1>1. c \in Checking /\ c.pc = "check" /\ Traced(h, c) /\ (~c.early => KeyIsKnown(h))
  BY DEF IInv, CallsAreSound, CallIsSound, Intake!Check, Intake!At
<1>2. UNCHANGED <<payPrice, payLinks, payPayments, payEscrows, payCompleted, paySkipped>>
  BY DEF Intake!Check
<1> PICK d : d = [pc |-> "convert", early |-> c.early, job |-> c.job,
                  by |-> c.by, paid |-> c.paid, moved |-> FALSE]
  OBVIOUS
<1>3. \/ payEscrows[c.job].status = "HELD" /\ Intake!Goto(h, "complete")
      \/ c.paid = payPrice[c.job] /\ Intake!Becomes(h, d)
      \/ Intake!Reply(h)
  BY DEF Intake!Check, Intake!AmountFits
<1>4. CASE payEscrows[c.job].status = "HELD" /\ Intake!Goto(h, "complete")
  <2>1. KeyIsDone(h)
    BY <1>1, <1>4, TracedIsDone DEF Intake!Funded
  <2> QED
    BY <2>1, <1>1, <1>2, <1>4, GotoCompleteInv
<1>5. CASE c.paid = payPrice[c.job] /\ Intake!Becomes(h, d)
  <2>1. d \in Converting
    BY <1>1 DEF Checking, Converting
  <2>2. /\ d.pc = "convert" /\ d.early = c.early /\ d.job = c.job
        /\ d.by = c.by /\ d.paid = c.paid
    OBVIOUS
  <2>3. Traced(h, d)' /\ d.paid = payPrice'[d.job]
    BY <1>1, <1>2, <1>5, <2>2 DEF Traced, KeyIsKnown, KeyRef, Approved
  <2>4. CallIsSound(h, d)'
    BY <2>1, <2>2, <2>3 DEF CallIsSound, Traced
  <2> QED
    BY <2>4, <1>2, <1>5, CallInv DEF Intake!Becomes
<1>6. CASE Intake!Reply(h)
  BY <1>2, <1>6, ReplyInv
<1> QED
  BY <1>3, <1>4, <1>5, <1>6

LEMMA ConvertInv == ASSUME IInv, NEW h \in Intake!Keys, Intake!Convert(h) PROVE IInv'
<1> PICK c : c = payCall[h]
  OBVIOUS
<1>1. /\ c \in Converting /\ c.pc = "convert" /\ Traced(h, c) /\ (~c.early => KeyIsKnown(h))
      /\ c.paid = payPrice[c.job] \/ c.moved = TRUE
  BY DEF IInv, CallsAreSound, CallIsSound, Intake!Convert, Intake!At
<1>2. UNCHANGED <<payPrice, payLinks, payPayments, payEscrows, payCompleted, paySkipped>>
  BY DEF Intake!Convert
<1> PICK d : d = [pc |-> "fund", early |-> c.early, job |-> c.job,
                  by |-> c.by, paid |-> c.paid, moved |-> c.moved,
                  amount |-> payPrice[c.job]]
  OBVIOUS
<1>3. \/ payEscrows[c.job].status # "PENDING" /\ Intake!Goto(h, "complete")
      \/ Intake!Becomes(h, d)
  BY DEF Intake!Convert
<1>4. CASE payEscrows[c.job].status # "PENDING" /\ Intake!Goto(h, "complete")
  <2>1. KeyIsDone(h)
    BY <1>1, <1>4, TracedIsDone DEF Intake!Funded
  <2> QED
    BY <2>1, <1>1, <1>2, <1>4, GotoCompleteInv
<1>5. CASE Intake!Becomes(h, d)
  <2>1. d \in Funding
    BY <1>1 DEF IInv, Shape, Converting, Funding, Sums
  <2>2. /\ d.pc = "fund" /\ d.early = c.early /\ d.job = c.job
        /\ d.by = c.by /\ d.paid = c.paid /\ d.moved = c.moved
        /\ d.amount = payPrice[c.job]
    OBVIOUS
  <2>3. Traced(h, d)'
    BY <1>1, <1>2, <2>2 DEF Traced, KeyIsKnown, KeyRef, Approved
  <2>4. CallIsSound(h, d)'
    BY <1>1, <2>1, <2>2, <2>3 DEF CallIsSound, Traced
  <2> QED
    BY <2>4, <1>2, <1>5, CallInv DEF Intake!Becomes
<1> QED
  BY <1>3, <1>4, <1>5

LEMMA FundInv == ASSUME IInv, NEW h \in Intake!Keys, Intake!FundEscrow(h) PROVE IInv'
<1> PICK c : c = payCall[h]
  OBVIOUS
<1> PICK j : j = c.job
  OBVIOUS
<1> PICK row : row = [status |-> "HELD", amount |-> c.amount, ref |-> c.by, moved |-> c.moved]
  OBVIOUS
<1> PICK d : d = [c EXCEPT !.pc = "complete"]
  OBVIOUS
<1>1. /\ c \in Funding /\ c.pc = "fund" /\ Traced(h, c) /\ (~c.early => KeyIsKnown(h))
      /\ c.paid = c.amount \/ c.moved = TRUE
      /\ j \in TwoJobs
  BY DEF IInv, CallsAreSound, CallIsSound, Intake!FundEscrow, Intake!At, Funding
<1>2. UNCHANGED <<payPrice, payLinks, payPayments, payCompleted, paySkipped>>
  BY DEF Intake!FundEscrow
<1>3. payEscrows \in [TwoJobs -> EscrowRow]
  BY DEF IInv, Shape
<1>4. d.pc = "complete" /\ d.early = c.early
  BY <1>1 DEF Funding
<1>5. /\ row \in EscrowRow /\ row.status = "HELD" /\ row.amount = c.amount
      /\ row.ref = c.by /\ row.moved = c.moved
  BY <1>1 DEF Funding, EscrowRow
<1>6. \/ UNCHANGED payEscrows
      \/ /\ payEscrows[j].status = "PENDING"
         /\ payEscrows' = [payEscrows EXCEPT ![j] = row]
  BY DEF Intake!FundEscrow
<1>7. \/ Intake!Reply(h) /\ payEscrows'[j].status # "HELD"
      \/ payEscrows'[j].status = "HELD" /\ payCall' = [payCall EXCEPT ![h] = d]
  BY DEF Intake!FundEscrow, Intake!Goto
<1>8. CASE UNCHANGED payEscrows
  <2>1. CASE payEscrows'[j].status = "HELD" /\ payCall' = [payCall EXCEPT ![h] = d]
    <3>1. KeyIsDone(h)
      BY <1>1, <1>8, <2>1, TracedIsDone DEF Intake!Funded
    <3>2. KeyIsDone(h)'
      BY <3>1, <1>2, <1>8 DEF KeyIsDone, KeyIsKnown, KeyRef, Approved, Intake!Funded
    <3>3. CallIsSound(h, d)'
      BY <1>4, <3>2 DEF CallIsSound, KeyIsDone
    <3> QED
      BY <3>3, <1>2, <1>8, <2>1, CallInv
  <2> QED
    BY <1>2, <1>7, <1>8, <2>1, ReplyInv
<1>9. ASSUME payEscrows[j].status = "PENDING", payEscrows' = [payEscrows EXCEPT ![j] = row]
      PROVE  IInv'
  <2>1. /\ payEscrows' \in [TwoJobs -> EscrowRow] /\ payEscrows'[j] = row
        /\ \A i \in TwoJobs \ {j} : payEscrows'[i] = payEscrows[i]
    BY <1>1, <1>3, <1>5, <1>9
  <2>2. payCall' = [payCall EXCEPT ![h] = d]
    BY <1>5, <1>7, <2>1
  <2>3. Grows
    <3>1. \A i \in TwoJobs : payEscrows[i].status # "PENDING" => payEscrows'[i] = payEscrows[i]
      BY <2>1, <1>9
    <3> QED
      BY <1>2, <3>1 DEF IInv, Shape, Grows, Approved, Intake!Funded
  <2>4. KeyIsDone(h)'
    BY <1>1, <1>2, <1>5, <2>1 DEF Traced, KeyIsDone, KeyIsKnown, KeyRef, Approved, Intake!Funded
  <2>5. CallIsSound(h, d)'
    BY <1>4, <2>4 DEF CallIsSound, KeyIsDone
  <2>6. CallsAreSound' /\ payCall' = [k \in Intake!Keys |-> payCall'[k]]
    BY <1>2, <2>2, <2>3, <2>5, OthersStaySound
  <2>7. Shape' /\ PaymentsAreLinked'
    BY <1>2, <2>1, <2>6 DEF IInv, Shape, PaymentsAreLinked
  <2>8. Intake!FundedByItsPayment'
    <3> SUFFICES ASSUME NEW i \in TwoJobs, Intake!Funded(i)'
                 PROVE  /\ payEscrows'[i].ref \in Intake!Payments
                        /\ payPayments'[payEscrows'[i].ref].status = "approved"
                        /\ LET link == payLinks'[payPayments'[payEscrows'[i].ref].link] IN
                           /\ link.ref = i
                           /\ \/ link.amount = payEscrows'[i].amount
                              \/ payEscrows'[i].moved
      BY DEF Intake!FundedByItsPayment
    <3>1. CASE i = j
      <4>1. /\ Approved(c.by) /\ payLinks[payPayments[c.by].link].ref = j
            /\ payLinks[payPayments[c.by].link].amount = c.paid
        BY <1>1 DEF Traced
      <4> QED
        BY <3>1, <4>1, <1>1, <1>2, <1>5, <2>1 DEF Approved
    <3>2. CASE i # j
      <4>1. payEscrows'[i] = payEscrows[i] /\ Intake!Funded(i)
        BY <3>2, <2>1 DEF Intake!Funded
      <4> QED
        BY <4>1, <1>2 DEF IInv, Intake!FundedByItsPayment
    <3> QED
      BY <3>1, <3>2
  <2>9. CompletedIsDone'
    BY <1>2, <2>3, DoneStays DEF IInv, CompletedIsDone
  <2> QED
    BY <2>6, <2>7, <2>8, <2>9 DEF IInv
<1> QED
  BY <1>6, <1>8, <1>9

LEMMA CompleteInv == ASSUME IInv, NEW h \in Intake!Keys, Intake!Complete(h) PROVE IInv'
<1> PICK c : c = payCall[h]
  OBVIOUS
<1>1. CallIsSound(h, c) /\ c.pc = "complete"
  BY DEF IInv, CallsAreSound, Intake!Complete, Intake!At
<1>2. Grows
  BY DEF IInv, Shape, Grows, Approved, Intake!Funded, Intake!Complete
<1>3. CallIsSound(h, Intake!Idle)'
  BY DEF Intake!Idle, CallIsSound
<1>4. CallsAreSound' /\ payCall' = [k \in Intake!Keys |-> payCall'[k]]
  BY <1>2, <1>3, OthersStaySound DEF Intake!Complete, Intake!Reply, Intake!Becomes
<1>5. Shape' /\ PaymentsAreLinked' /\ Intake!FundedByItsPayment'
  BY <1>4 DEF IInv, Intake!Complete, Shape, PaymentsAreLinked, Intake!FundedByItsPayment,
         Intake!Funded
<1>6. \A k \in payCompleted' \ paySkipped' : KeyIsDone(k)
  BY <1>1 DEF IInv, CallIsSound, CompletedIsDone, Intake!Complete
<1>7. CompletedIsDone'
  BY <1>2, <1>6, DoneStays DEF IInv, CompletedIsDone
<1> QED
  BY <1>4, <1>5, <1>7 DEF IInv

LEMMA NextInv == ASSUME IInv, [Intake!Next]_payVars PROVE IInv'
<1>1. ASSUME NEW p \in Intake!Payments, NEW l \in DOMAIN payLinks, Intake!Pay(p, l)
      PROVE  IInv'
  BY <1>1, PayInv
<1>2. ASSUME NEW p \in Intake!Payments, Intake!Approve(p) PROVE IInv'
  BY <1>2, ApproveInv
<1>3. ASSUME NEW j \in TwoJobs, NEW to \in Amounts, Intake!Reprice(j, to)
      PROVE  IInv'
  BY <1>3, PriceInv
<1>4. ASSUME NEW j \in TwoJobs, Intake!Release(j) PROVE IInv'
  BY <1>4, ReleaseInv
<1>5. ASSUME NEW j \in TwoJobs, Intake!CreateJobCheckout(j) PROVE IInv'
  BY <1>5, CheckoutInv
<1>6. ASSUME NEW h \in Intake!Keys, Intake!Receive(h) PROVE IInv'
  BY <1>6, ReceiveInv
<1>7. ASSUME NEW h \in Intake!Keys, Intake!Resolve(h) PROVE IInv'
  BY <1>7, ResolveInv
<1>8. ASSUME NEW h \in Intake!Keys, Intake!Check(h) PROVE IInv'
  BY <1>8, CheckInv
<1>9. ASSUME NEW h \in Intake!Keys, Intake!Convert(h) PROVE IInv'
  BY <1>9, ConvertInv
<1>10. ASSUME NEW h \in Intake!Keys, Intake!FundEscrow(h) PROVE IInv'
  BY <1>10, FundInv
<1>11. ASSUME NEW h \in Intake!Keys, Intake!Complete(h) PROVE IInv'
  BY <1>11, CompleteInv
<1>12. ASSUME NEW h \in Intake!Keys, Intake!Fails(h) PROVE IInv'
  BY <1>12, ReplyInv DEF Intake!Fails
<1>13. CASE UNCHANGED payVars
  <2>1. Grows /\ Shape' /\ PaymentsAreLinked'
    BY <1>13 DEF payVars, IInv, Shape, Grows, PaymentsAreLinked, Approved, Intake!Funded
  <2> QED
    BY <2>1, <1>13, GrowsInv DEF payVars, Intake!Funded
<1> QED
  BY <1>1, <1>2, <1>3, <1>4, <1>5, <1>6, <1>7, <1>8, <1>9, <1>10,
     <1>11, <1>12, <1>13 DEF Intake!Next

\* In every reachable state of any number of links, payments, jobs and handlers
\* what the handlers have found agrees with the provider, what is completed is
\* done, and an amount a handler has checked is the job's until that amount
\* moves.
THEOREM Invariant == LiveSpec => []IInv
<1>1. Init => IInv
  BY InitInv DEF Init
<1>2. ASSUME IInv, [Next]_vars PROVE IInv'
  BY <1>2, NextInv DEF Next, vars
<1> QED
  BY <1>1, <1>2, PTL DEF LiveSpec

\* A funded escrow names an approved payment of its own job and holds what that
\* payment paid, or what the job converted to after its amount moved between the
\* check and the second conversion; and a notification that is never handled
\* again has funded the job of its payment unless it came before the approval:
\* for any crossing of any number of notifications, of the links of a job and
\* of the moves of its amount.
THEOREM MoneyIsTraced == LiveSpec => []MoneyMatches
<1>1. ASSUME IInv PROVE MoneyMatches
  <2>1. Intake!FundedByItsPayment
    BY <1>1 DEF IInv
  <2>2. Intake!CompletedIsFunded
    <3> SUFFICES ASSUME NEW p \in Intake!Payments, payPayments[p].status = "approved"
                 PROVE  LET ref == payLinks[payPayments[p].link].ref IN
                        /\ Intake!Key("payment", p) \in payCompleted \ paySkipped
                           /\ ref \in TwoJobs => Intake!Funded(ref)
                        /\ Intake!Key("merchant_order", payPayments[p].link)
                              \in payCompleted \ paySkipped
                           /\ ref \in TwoJobs => Intake!Funded(ref)
      BY DEF Intake!CompletedIsFunded
    <3> QED
      BY <1>1 DEF IInv, CompletedIsDone, KeyIsDone, KeyRef, Intake!Key
  <2> QED
    BY <2>1, <2>2 DEF MoneyMatches, Intake!MoneyMatches
<1> QED
  BY <1>1, Invariant, PTL
=============================================================================
