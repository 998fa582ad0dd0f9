------------------------------- MODULE Progress -------------------------------
(***************************************************************************)
(* What must not be left waiting where money is involved, held money, a     *)
(* recurring charge, an unpaid plan; and which payment held money comes     *)
(* from.  The three parts are side by side so that one run checks them: a   *)
(* behaviour chooses a part at the start and is a behaviour of that part    *)
(* alone, under that part's fairness.                                       *)
(***************************************************************************)
EXTENDS Naturals

CONSTANTS
    CommissionBps, ManualMode, Nobody, Pros, Totals, PayIds,
    Plans, MaxPreapprovals, MaxPayments, MaxFaults,
    Slots,                          \* requests in progress at once
    TwoJobs, Movable, Amounts, TwoPayments, MaxLinks, MaxLoad, SubscriptionRef

\* The reference of a subscription, and none, are no job's.
ASSUME ApartAssumption == SubscriptionRef \notin TwoJobs /\ Nobody \notin TwoJobs

VARIABLES
    focus,      \* the part that moves
    jobJob, jobEscrow, jobOrders, jobRate, jobTimer, jobWorker, jobLinks,
    jobCharged, jobReq,
    billSub, billProfile, billMp, billLinks, billPay, billClosed, billReq,
    billCron, billRecorded, billOrderly, billFaults,
    payPrice, payLinks, payPayments, payCompleted, payEscrows, payCall, paySkipped

jobVars ==
    <<jobJob, jobEscrow, jobOrders, jobRate, jobTimer, jobWorker, jobLinks,
      jobCharged, jobReq>>
billVars ==
    <<billSub, billProfile, billMp, billLinks, billPay, billClosed, billReq,
      billCron, billRecorded, billOrderly, billFaults>>
payVars ==
    <<payPrice, payLinks, payPayments, payCompleted, payEscrows, payCall, paySkipped>>
vars == <<focus, jobVars, billVars, payVars>>

\* One job in UYU without change orders.
Work == INSTANCE JobEscrow WITH
    ChangeOrders <- {}, Payments <- PayIds, Requests <- Slots, Deltas <- {},
    Rates <- {1000000}, job <- jobJob, escrow <- jobEscrow,
    orders <- jobOrders, rate <- jobRate, timer <- jobTimer,
    worker <- jobWorker, links <- jobLinks, charged <- jobCharged,
    req <- jobReq

Charges == INSTANCE Billing WITH
    sub <- billSub, profile <- billProfile, mp <- billMp,
    links <- billLinks, pay <- billPay, closed <- billClosed,
    req <- billReq, cron <- billCron, recorded <- billRecorded,
    orderly <- billOrderly, faults <- billFaults

Intake == INSTANCE PaymentIntake WITH
    Jobs <- TwoJobs, Prices <- Amounts, MaxPayments <- TwoPayments,
    Subscription <- SubscriptionRef, None <- Nobody, price <- payPrice,
    links <- payLinks, payments <- payPayments, completed <- payCompleted,
    escrows <- payEscrows, call <- payCall, skipped <- paySkipped

Parts == {"job", "billing", "payments"}

\* A part that does not move has one initial state.
Init ==
    /\ focus \in Parts
    /\ Work!Init /\ Charges!Init /\ Intake!Init
    /\ focus # "payments" => payLinks = <<>>

\* A dead handler can end a job's release for good: see HealthySpec there.
Next ==
    \/ focus = "job" /\ Work!Healthy /\ UNCHANGED <<focus, billVars, payVars>>
    \/ focus = "billing" /\ Charges!Next /\ UNCHANGED <<focus, jobVars, payVars>>
    \/ focus = "payments" /\ Intake!Next /\ UNCHANGED <<focus, jobVars, billVars>>

\* Each part's own fairness, asked of the part that moves.
Fairness ==
    /\ \A r \in Slots :
          /\ WF_jobVars(focus = "job" /\ Work!Continue(r))
          /\ WF_billVars(focus = "billing" /\ Charges!Advance(r))
    /\ WF_jobVars(focus = "job" /\ Work!Silent)
    /\ WF_billVars(focus = "billing" /\ Charges!Dunning)
    /\ WF_billVars(focus = "billing" /\ Charges!PeriodEnds)
    /\ WF_billVars(focus = "billing" /\ Charges!GracePasses)
    /\ \A m \in 1..MaxPayments :
          SF_billVars(focus = "billing" /\ \E r \in Slots : Charges!BeginPayment(r, m))

LiveSpec == Init /\ [][Next]_vars /\ Fairness

-----------------------------------------------------------------------------
\* Each property is stated with its part.
HeldWorkIsSettled == Work!HeldWorkIsSettled
ChargeIsHonoured == Charges!ChargeIsHonoured
UnpaidPlanRunsOut == Charges!UnpaidPlanRunsOut
MoneyMatches == Intake!MoneyMatches
=============================================================================
