------------------------------ MODULE Billing ------------------------------
(***************************************************************************)
(* The subscription of one professional or company: BillingService,        *)
(* BillingRepository and the dunning cron.                                 *)
(*                                                                         *)
(* A subject has one BillingSubscription row and one external reference,   *)
(* which every preapproval it creates at Mercado Pago carries; webhooks    *)
(* find the row by that reference.  A handler is a slot that keeps what it *)
(* has read; each step is one transaction, one call to the provider or the *)
(* reads that follow one another.  The webhook's idempotency row is the    *)
(* subject of WebhookIdempotency: here it lets one handler at a time work  *)
(* on a resource and never again once completed.  Of time the model keeps   *)
(* whether the paid period is over and what is left of the grace.          *)
(***************************************************************************)
EXTENDS Naturals, FiniteSets

CONSTANTS
    Slots,           \* requests and webhooks being handled at the same time
    Plans,           \* paid plans
    MaxPreapprovals, \* bound: preapprovals created at the provider
    MaxPayments,     \* bound: recurring charges the provider makes
    MaxFaults        \* bound: dead processes and failed calls

ASSUME ConstantsAssumption ==
    /\ "FREE" \notin Plans
    /\ {MaxPreapprovals, MaxPayments, MaxFaults} \subseteq Nat

VARIABLES
    sub,        \* the BillingSubscription row
    profile,    \* the plan of the subject's profile
    mp,         \* status of each preapproval at the provider
    links,      \* preapprovals whose init point the subject has been given
    pay,        \* the recurring charges
    closed,     \* resources whose idempotency row is COMPLETED
    req,        \* the handlers in progress
    cron,       \* the dunning worker
    recorded,   \* history: preapprovals the row has ever named
    orderly,    \* history: no handler has met another or broken off so far
    faults

row == <<sub, profile>>
provider == <<mp, links, pay>>
history == <<recorded, faults>>
vars == <<row, provider, closed, req, cron, orderly, history>>

Preapprovals == 1..MaxPreapprovals
Payments == 1..MaxPayments
Status == {"NONE", "TRIALING", "ACTIVE", "PAST_DUE", "CANCELED", "EXPIRED"}

\* What is left of graceEndsAt: more than five days, more than one, some, none.
Grace == {"none", "early", "late", "last", "over"}

\* What a notification is about; its idempotency key names no status.
Resources == {"preapproval"} \X Preapprovals \cup {"payment"} \X Payments
NoResource == <<"none", 0>>

Idle == [pc |-> "idle", plan |-> "FREE", pre |-> 0, about |-> NoResource]
CronIdle == [pc |-> "idle", reminder |-> 0]
Quiet == cron = CronIdle /\ \A r \in Slots : req[r] = Idle
At(r, step) == req[r].pc = step
Goto(r, step) == req' = [req EXCEPT ![r].pc = step]
Reply(r) == req' = [req EXCEPT ![r] = Idle]

\* A handler starts; the history notes whether it is alone.
Begin(r, handler) ==
    /\ req[r] = Idle
    /\ req' = [req EXCEPT ![r] = handler]
    /\ orderly' = (orderly /\ Quiet)

Init ==
    /\ sub = [status |-> "NONE", plan |-> "FREE", pre |-> 0, over |-> FALSE,
              grace |-> "none", sent |-> 0]
    /\ profile = "FREE"
    /\ mp = [p \in Preapprovals |-> "absent"]
    /\ links = {}
    /\ pay = [m \in Payments |-> "absent"]
    /\ closed = {}
    /\ req = [r \in Slots |-> Idle]
    /\ cron = CronIdle
    /\ recorded = {} /\ orderly = TRUE /\ faults = 0

\* BillingRepository.hasAccess
HasAccess ==
    \/ sub.status \in {"TRIALING", "ACTIVE"}
    \/ sub.status = "PAST_DUE" /\ sub.grace \in {"early", "late", "last"}
    \/ sub.status = "CANCELED" /\ ~sub.over

-----------------------------------------------------------------------------
(* MercadoPagoSubscriptionClient: what a call does at the provider.  One    *)
(* that throws, or an answer without id or init_point, fails its handler.   *)

CreatePreapproval(p) == mp[p] = "absent" /\ mp' = [mp EXCEPT ![p] = "pending"]
GetPreapproval(p) == mp[p]
CancelPreapproval(p) == mp' = [mp EXCEPT ![p] = "cancelled"]

-----------------------------------------------------------------------------
(* subscribe                                                               *)

\* Bound: a preapproval is left for every request that has yet to create one.
PreapprovalLeft ==
    Cardinality({s \in Slots : req[s].pc \in {"preapproveNew", "preapprove"}})
        < Cardinality({p \in Preapprovals : mp[p] = "absent"})

BeginSubscribe(r, plan) ==
    /\ PreapprovalLeft
    /\ ~HasAccess
    /\ Begin(r, [Idle EXCEPT !.pc = IF sub.status = "NONE" THEN "preapproveNew" ELSE "preapprove",
                             !.plan = plan])
    /\ UNCHANGED <<row, provider, closed, cron, history>>

\* createPreapproval
Preapprove(r) ==
    /\ req[r].pc \in {"preapproveNew", "preapprove"}
    /\ \E p \in Preapprovals :
          /\ CreatePreapproval(p) /\ \A q \in 1..(p - 1) : mp[q] # "absent"
          /\ req' = [req EXCEPT ![r].pc = IF At(r, "preapprove") THEN "update" ELSE "create",
                                ![r].pre = p]
    /\ UNCHANGED <<row, links, pay, closed, cron, orderly, history>>

\* The row and the profile of a new subscription, in one transaction.
Subscribed(plan, p) ==
    /\ sub' = [status |-> "TRIALING", plan |-> plan, pre |-> p, over |-> FALSE,
               grace |-> "none", sent |-> 0]
    /\ profile' = plan
    /\ recorded' = recorded \cup {p}

\* Mutant: the init point is handed out although the transaction failed.
SaveOrNot(r) ==
    /\ req[r].pc \in {"create", "update"}
    /\ IF At(r, "update") \/ sub.status = "NONE"
       THEN Subscribed(req[r].plan, req[r].pre)
       ELSE UNCHANGED <<row, recorded>>
    /\ links' = links \cup {req[r].pre}
    /\ Reply(r)
    /\ UNCHANGED <<mp, pay, closed, cron, orderly, faults>>

\* A create meets the unique subject of a row created meanwhile; an update is
\* by id.  Only then does the subject get the init point.
Save(r) ==
    /\ req[r].pc \in {"create", "update"}
    /\ IF At(r, "update") \/ sub.status = "NONE"
       THEN /\ Subscribed(req[r].plan, req[r].pre)
            /\ links' = links \cup {req[r].pre}
            /\ Reply(r)
       ELSE /\ Goto(r, "compensate")
            /\ UNCHANGED <<row, links, recorded>>
    /\ UNCHANGED <<mp, pay, closed, cron, orderly, faults>>

\* The transaction fails for another reason.
SaveFails(r) ==
    /\ req[r].pc \in {"create", "update"}
    /\ faults < MaxFaults /\ faults' = faults + 1
    /\ Goto(r, "compensate")
    /\ UNCHANGED <<row, provider, closed, cron, orderly, recorded>>

\* compensateSubscribeMpPreapproval
Compensate(r) ==
    /\ At(r, "compensate")
    /\ CancelPreapproval(req[r].pre)
    /\ Reply(r)
    /\ UNCHANGED <<row, links, pay, closed, cron, orderly, history>>

-----------------------------------------------------------------------------
(* cancelSubscription                                                      *)

BeginCancel(r) ==
    /\ sub.status \notin {"NONE", "CANCELED"}
    /\ Begin(r, [Idle EXCEPT !.pc = "cancelAtProvider", !.pre = sub.pre])
    /\ UNCHANGED <<row, provider, closed, cron, history>>

\* cancelPreapproval; an answer that it is cancelled already is accepted.
CancelAtProvider(r) ==
    /\ At(r, "cancelAtProvider")
    /\ CancelPreapproval(req[r].pre)
    /\ Goto(r, "markCanceled")
    /\ UNCHANGED <<row, links, pay, closed, cron, orderly, history>>

\* By id, for a request and for a notification.  cancelAtPeriodEnd is set with
\* the status and read in no other.
MarkCanceled(r) ==
    /\ At(r, "markCanceled")
    /\ sub' = [sub EXCEPT !.status = "CANCELED"]
    /\ IF req[r].about = NoResource THEN Reply(r) ELSE Goto(r, "complete")
    /\ UNCHANGED <<profile, provider, closed, cron, orderly, history>>

-----------------------------------------------------------------------------
(* The subscription webhook                                                *)

\* The idempotency row is taken, then the resource is read at the provider.
Notified(r, resource, found) ==
    /\ resource \notin closed
    /\ \A q \in Slots : req[q].about # resource
    /\ Begin(r, [Idle EXCEPT !.pc = found, !.about = resource])
    /\ UNCHANGED <<row, provider, closed, cron, history>>

\* What syncFromMpPreapproval goes on with; a read that fails is swallowed.
AfterRead(p) ==
    CASE GetPreapproval(p) = "authorized" -> {"findToActivate", "complete"}
      [] GetPreapproval(p) = "cancelled"  -> {"findToCancel", "complete"}
      [] OTHER -> {"complete"}

BeginSync(r, p) ==
    /\ mp[p] # "absent"
    /\ \E found \in AfterRead(p) : Notified(r, <<"preapproval", p>>, found)

\* handleSubscriptionPaymentWebhook
BeginPayment(r, m) ==
    /\ pay[m] # "absent"
    /\ Notified(r, <<"payment", m>>,
                IF pay[m] = "approved" THEN "findToActivate" ELSE "findToReject")

\* findByExternalReference, and what its caller does with the row.
Find(r) ==
    /\ \/ /\ At(r, "findToActivate") /\ sub.status # "NONE"
          /\ req' = [req EXCEPT ![r].pc = "activate", ![r].plan = sub.plan]
       \/ /\ At(r, "findToActivate") /\ sub.status = "NONE"
          /\ Goto(r, "complete")
       \/ /\ At(r, "findToCancel")
          /\ Goto(r, IF sub.status \in {"NONE", "CANCELED"} THEN "complete" ELSE "markCanceled")
       \/ /\ At(r, "findToReject")
          /\ Goto(r, IF sub.status \in {"NONE", "PAST_DUE"} THEN "complete" ELSE "enterPastDue")
    /\ UNCHANGED <<row, provider, closed, cron, orderly, history>>

Activated == [sub EXCEPT !.status = "ACTIVE", !.over = FALSE, !.grace = "none", !.sent = 0]

\* Mutant: the profile is left as it is.
ActivateRowOnly(r) ==
    /\ At(r, "activate")
    /\ sub' = Activated
    /\ Goto(r, "complete")
    /\ UNCHANGED <<profile, provider, closed, cron, orderly, history>>

\* activateFromPayment: the row first, then the profile.
Activate(r) ==
    /\ At(r, "activate")
    /\ sub' = Activated
    /\ Goto(r, "syncProfile")
    /\ UNCHANGED <<profile, provider, closed, cron, orderly, history>>

SyncProfile(r) ==
    /\ At(r, "syncProfile")
    /\ profile' = req[r].plan
    /\ Goto(r, "complete")
    /\ UNCHANGED <<sub, provider, closed, cron, orderly, history>>

EnterPastDue(r) ==
    /\ At(r, "enterPastDue")
    /\ sub' = [sub EXCEPT !.status = "PAST_DUE", !.grace = "early", !.sent = 1]
    /\ Goto(r, "complete")
    /\ UNCHANGED <<profile, provider, closed, cron, orderly, history>>

CompleteRow(r) ==
    /\ At(r, "complete")
    /\ closed' = closed \cup {req[r].about}
    /\ Reply(r)
    /\ UNCHANGED <<row, provider, cron, orderly, history>>

-----------------------------------------------------------------------------
(* processDunningJob: one worker, each row as its list has read it         *)

\* Mutant: every reminder is the one after the last.
ReminderUnchecked == IF sub.grace \in {"late", "last"} THEN sub.sent + 1 ELSE 0

\* maybeSendGraceReminder: the number of the reminder that is due, or 0.
ReminderDue ==
    CASE sub.sent = 1 /\ sub.grace \in {"late", "last"} -> 2
      [] sub.sent = 2 /\ sub.grace = "last"             -> 3
      [] OTHER                                          -> 0

CronAt(step) == cron.pc = step
CronGoto(step) == cron' = [pc |-> step, reminder |-> 0]

\* One of the three lists finds the row.  A list that does not changes nothing
\* and leaves nothing behind, so a run is a sequence of these.
Lists(found) ==
    /\ cron = CronIdle
    /\ cron' = found
    /\ orderly' = (orderly /\ Quiet)
    /\ UNCHANGED <<row, provider, closed, req, history>>

\* listPastDueForDunning
ListPastDue ==
    /\ sub.status = "PAST_DUE" /\ sub.grace # "over"
    /\ ReminderDue # 0
    /\ Lists([pc |-> "remind", reminder |-> ReminderDue])

Remind ==
    /\ CronAt("remind")
    /\ sub' = [sub EXCEPT !.sent = cron.reminder]
    /\ cron' = CronIdle
    /\ UNCHANGED <<profile, provider, closed, req, orderly, history>>

\* Mutant: the grace only ends for a row that has had its three reminders.
GraceExpiredAfterReminders ==
    sub.status = "PAST_DUE" /\ sub.grace = "over" /\ sub.sent = 3

GraceExpired == sub.status = "PAST_DUE" /\ sub.grace = "over"
CanceledPastPeriodEnd == sub.status = "CANCELED" /\ sub.over

\* listGraceExpired and listCanceledPastPeriodEnd
ListToDowngrade ==
    /\ GraceExpired \/ CanceledPastPeriodEnd
    /\ Lists([pc |-> "downgrade", reminder |-> 0])

\* downgradeToFree: the row by id, then the profile.
Downgrade ==
    /\ CronAt("downgrade")
    /\ sub' = [sub EXCEPT !.status = "EXPIRED"]
    /\ CronGoto("freeProfile")
    /\ UNCHANGED <<profile, provider, closed, req, orderly, history>>

FreeProfile ==
    /\ CronAt("freeProfile")
    /\ profile' = "FREE"
    /\ cron' = CronIdle
    /\ UNCHANGED <<sub, provider, closed, req, orderly, history>>

-----------------------------------------------------------------------------
(* Mercado Pago, the payer, time and failures                              *)

\* The payer accepts at an init point the subject has been given.
Authorize(p) ==
    /\ p \in links /\ mp[p] = "pending"
    /\ mp' = [mp EXCEPT ![p] = "authorized"]
    /\ UNCHANGED <<row, links, pay, closed, req, cron, orderly, history>>

PayerCancels(p) ==
    /\ mp[p] = "authorized"
    /\ mp' = [mp EXCEPT ![p] = "cancelled"]
    /\ UNCHANGED <<row, links, pay, closed, req, cron, orderly, history>>

\* Charges carry the external reference, not the preapproval.
Charge(m, outcome) ==
    /\ \E p \in Preapprovals : mp[p] = "authorized"
    /\ pay[m] = "absent" /\ \A n \in 1..(m - 1) : pay[n] # "absent"
    /\ pay' = [pay EXCEPT ![m] = outcome]
    /\ UNCHANGED <<row, mp, links, closed, req, cron, orderly, history>>

\* currentPeriodEnd and graceEndsAt are read in one status each: there they pass.
PeriodEnds ==
    /\ sub.status = "CANCELED" /\ ~sub.over
    /\ sub' = [sub EXCEPT !.over = TRUE]
    /\ UNCHANGED <<profile, provider, closed, req, cron, orderly, history>>

GracePasses ==
    /\ sub.status = "PAST_DUE" /\ sub.grace # "over"
    /\ sub' = [sub EXCEPT !.grace = CASE sub.grace = "early" -> "late"
                                      [] sub.grace = "late"  -> "last"
                                      [] OTHER               -> "over"]
    /\ UNCHANGED <<profile, provider, closed, req, cron, orderly, history>>

\* A handler dies or a call it makes throws; its resource stays open.
HandlerFails(r) ==
    /\ req[r] # Idle
    /\ faults < MaxFaults /\ faults' = faults + 1
    /\ Reply(r)
    /\ orderly' = FALSE
    /\ UNCHANGED <<row, provider, closed, cron, recorded>>

CronFails ==
    /\ cron # CronIdle
    /\ faults < MaxFaults /\ faults' = faults + 1
    /\ cron' = CronIdle
    /\ orderly' = FALSE
    /\ UNCHANGED <<row, provider, closed, req, recorded>>

-----------------------------------------------------------------------------
Advance(r) ==
    \/ Preapprove(r) \/ Save(r) \/ Compensate(r)
    \/ CancelAtProvider(r) \/ MarkCanceled(r)
    \/ Find(r) \/ Activate(r) \/ SyncProfile(r) \/ EnterPastDue(r) \/ CompleteRow(r)

Dunning ==
    ListPastDue \/ Remind \/ ListToDowngrade \/ Downgrade \/ FreeProfile

Next ==
    \/ \E r \in Slots :
          \/ \E plan \in Plans : BeginSubscribe(r, plan)
          \/ BeginCancel(r)
          \/ \E p \in Preapprovals : BeginSync(r, p)
          \/ \E m \in Payments : BeginPayment(r, m)
          \/ Advance(r)
          \/ SaveFails(r)
          \/ HandlerFails(r)
    \/ Dunning
    \/ \E p \in Preapprovals : Authorize(p) \/ PayerCancels(p)
    \/ \E m \in Payments, outcome \in {"approved", "rejected"} : Charge(m, outcome)
    \/ PeriodEnds \/ GracePasses
    \/ CronFails

Spec == Init /\ [][Next]_vars

\* Handlers and the cron go on, time passes, and a notification is repeated
\* until it is answered 200.  The last is strong: that there are only so many
\* Slots is a bound of the model, and a delivery does not wait for them.
Fairness ==
    /\ \A r \in Slots : WF_vars(Advance(r))
    /\ WF_vars(Dunning)
    /\ WF_vars(PeriodEnds) /\ WF_vars(GracePasses)
    /\ \A m \in Payments : SF_vars(\E r \in Slots : BeginPayment(r, m))

FairSpec == Spec /\ Fairness

-----------------------------------------------------------------------------
CronSteps == {"idle", "remind", "downgrade", "freeProfile"}
SubRow ==
    [status : Status, plan : Plans \cup {"FREE"}, pre : 0..MaxPreapprovals,
     over : BOOLEAN, grace : Grace, sent : 0..3]
\* Steps of a subscribe that holds a preapproval, and of a notification.
Creating == {"create", "update", "compensate"}
Notifying ==
    {"findToActivate", "findToCancel", "findToReject", "activate", "syncProfile",
     "enterPastDue", "complete"}

HandlerSteps ==
    {"idle", "preapproveNew", "preapprove", "cancelAtProvider", "markCanceled"}
        \cup Creating \cup Notifying

Handler ==
    {h \in [pc : HandlerSteps, plan : Plans \cup {"FREE"}, pre : 0..MaxPreapprovals,
            about : Resources \cup {NoResource}] :
        /\ h.pc \in Creating => h.pre \in Preapprovals
        /\ h.pc \in Notifying => h.about \in Resources}

\* Every variable has its type: no more than three reminders are counted.
TypeOK ==
    /\ sub \in SubRow
    /\ profile \in Plans \cup {"FREE"}
    /\ mp \in [Preapprovals -> {"absent", "pending", "authorized", "cancelled"}]
    /\ links \subseteq Preapprovals
    /\ pay \in [Payments -> {"absent", "approved", "rejected"}]
    /\ closed \subseteq Resources
    /\ req \in [Slots -> Handler]
    /\ cron \in [pc : CronSteps, reminder : {0, 2, 3}]
    /\ recorded \subseteq Preapprovals
    /\ orderly \in BOOLEAN
    /\ faults \in 0..MaxFaults

\* A preapproval the payer can be charged for was recorded in the subject's
\* row, and while nothing fails so was every open one no request is busy with:
\* subscribe cancels what it created when it cannot save it.
StrayPreapprovalsAreCancelled ==
    \A p \in Preapprovals :
        /\ mp[p] = "authorized" => p \in recorded
        /\ mp[p] = "pending" /\ faults = 0 /\ (\A r \in Slots : req[r].pre # p) => p \in recorded

\* After any sequence of operations that do not overlap or break off, the plan
\* of the profile is that of the row while it is TRIALING or ACTIVE, and a
\* profile with a paid plan has a row that is not EXPIRED.
SequentialPlan ==
    orderly /\ Quiet =>
        /\ sub.status \in {"TRIALING", "ACTIVE"} => profile = sub.plan
        /\ profile # "FREE" => sub.status \notin {"NONE", "EXPIRED"}

AwaitsHandling(m) ==
    /\ pay[m] = "approved"
    /\ <<"payment", m>> \notin closed
    /\ \A r \in Slots : req[r].about # <<"payment", m>>

\* An approved charge nobody has handled yet will put the paid plan into the
\* profile, whatever the row has become and however often its handling fails.
ChargeIsHonoured ==
    \A m \in Payments : AwaitsHandling(m) ~> profile # "FREE"

\* Unless a process fails, a subscription that is unpaid or cancelled returns
\* to FREE, unless it is paid or taken out again first.
UnpaidPlanRunsOut ==
    sub.status \in {"PAST_DUE", "CANCELED"}
        ~> profile = "FREE" \/ sub.status \in {"TRIALING", "ACTIVE"} \/ faults > 0

\* What the API says of the cancel endpoint, that it cuts recurring charges:
\* when it has marked the row CANCELED no preapproval can be charged.  Requests
\* that do not overlap suffice: a row taken out again after its grace names the
\* new preapproval, and nobody has cancelled the old one.
CancelStopsCharging ==
    [][\A r \in Slots :
          orderly /\ MarkCanceled(r) /\ req[r].about = NoResource
              => \A p \in Preapprovals : mp[p] # "authorized"]_vars

\* What the specification says of EXPIRED: the profile is FREE.  A cron that
\* dies inside downgradeToFree leaves it paid, and no list finds the row again.
ExpiredIsFree ==
    sub.status = "EXPIRED" /\ Quiet => profile = "FREE"

\* What the specification says of EXPIRED: it follows a grace without payment.
\* A payment handled between the list and the write is overwritten.
OnlyUnpaidExpires ==
    [][Downgrade => sub.status \in {"PAST_DUE", "CANCELED", "EXPIRED"}]_vars

\* What the specification says of PAST_DUE: the profile keeps the plan.  A
\* charge rejected by the preapproval of an EXPIRED row finds it FREE.
PastDueKeepsPlan ==
    orderly /\ Quiet /\ sub.status = "PAST_DUE" => profile = sub.plan

\* What the specification says of CANCELED: the preapproval is.  A notification
\* that the old one is cancelled, handled after the row was taken out again,
\* finds the row by the reference both carry.
CanceledAtProvider ==
    orderly /\ Quiet /\ sub.status = "CANCELED" => mp[sub.pre] = "cancelled"
=============================================================================
