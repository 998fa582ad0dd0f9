--------------------------- MODULE Billing_proofs ---------------------------
(***************************************************************************)
(* Proofs about Billing, for any handlers, plans and bounds.               *)
(***************************************************************************)
EXTENDS Billing, TLAPS

\* The calls of the client say at once what happens at the provider.
USE DEF CreatePreapproval, GetPreapproval, CancelPreapproval

LEMMA IdleIsHandler ==
    /\ Idle \in Handler
    /\ NoResource \notin Resources
    /\ CronIdle \in [pc : CronSteps, reminder : {0, 2, 3}]
BY ConstantsAssumption
   DEF Idle, Handler, HandlerSteps, Creating, Notifying, NoResource, Resources, CronIdle, CronSteps

LEMMA InitType == Init => TypeOK
<1> SUFFICES ASSUME Init PROVE TypeOK
    OBVIOUS
<1>1. sub \in SubRow
  BY ConstantsAssumption DEF Init, SubRow, Status, Grace
<1> QED
  BY <1>1, IdleIsHandler, ConstantsAssumption DEF Init, TypeOK

-----------------------------------------------------------------------------
(* What a step does to the handler of one slot.                            *)

\* The handlers of all slots but r stay as they are, and that of r has its type.
LEMMA SlotType ==
    ASSUME TypeOK, NEW r \in Slots, NEW next \in Handler,
           req' = [req EXCEPT ![r] = next]
    PROVE  req' \in [Slots -> Handler]
BY DEF TypeOK

LEMMA GotoType ==
    ASSUME TypeOK, NEW r \in Slots, NEW step \in HandlerSteps, Goto(r, step),
           step \in Creating => req[r].pc \in Creating,
           step \in Notifying => req[r].about \in Resources
    PROVE  req' \in [Slots -> Handler]
<1>1. req \in [Slots -> Handler]
  BY DEF TypeOK
<1>2. [req[r] EXCEPT !.pc = step] \in Handler
  BY <1>1 DEF Handler
<1> QED
  BY <1>1, <1>2 DEF Goto

LEMMA ReplyType ==
    ASSUME TypeOK, NEW r \in Slots, Reply(r)
    PROVE  req' \in [Slots -> Handler]
BY SlotType, IdleIsHandler DEF Reply

LEMMA BeginType ==
    ASSUME TypeOK, NEW r \in Slots, NEW next \in Handler, Begin(r, next)
    PROVE  req' \in [Slots -> Handler] /\ orderly' \in BOOLEAN
<1>1. req' \in [Slots -> Handler]
  BY SlotType DEF Begin
<1>2. (orderly /\ Quiet) \in BOOLEAN
  OBVIOUS
<1> QED
  BY <1>1, <1>2 DEF Begin

\* subscribe keeps the types.
LEMMA SubscribeType ==
    ASSUME TypeOK, NEW r \in Slots,
           \/ \E plan \in Plans : BeginSubscribe(r, plan)
           \/ Preapprove(r) \/ Save(r) \/ SaveFails(r) \/ Compensate(r)
    PROVE  TypeOK'
<1> USE ConstantsAssumption
<1>1. req \in [Slots -> Handler] /\ req[r] \in Handler
  BY DEF TypeOK
<1>2. ASSUME NEW plan \in Plans, BeginSubscribe(r, plan) PROVE TypeOK'
  <2>1. \A step \in {"preapproveNew", "preapprove"} :
            [Idle EXCEPT !.pc = step, !.plan = plan] \in Handler
    BY IdleIsHandler DEF Handler, HandlerSteps, Creating, Notifying
  <2>2. req' \in [Slots -> Handler] /\ orderly' \in BOOLEAN
    BY <1>2, <2>1, BeginType DEF BeginSubscribe
  <2> QED
    BY <1>2, <2>2 DEF BeginSubscribe, TypeOK, row, provider, history
<1>3. CASE Preapprove(r)
  <2>1. PICK p \in Preapprovals :
            /\ mp' = [mp EXCEPT ![p] = "pending"]
            /\ req' = [req EXCEPT ![r].pc = IF At(r, "preapprove") THEN "update" ELSE "create",
                                  ![r].pre = p]
    BY <1>3 DEF Preapprove
  <2>2. ASSUME NEW step \in Creating PROVE [req[r] EXCEPT !.pc = step, !.pre = p] \in Handler
    <3> DEFINE h == [req[r] EXCEPT !.pc = step, !.pre = p]
    <3>1. p \in 0..MaxPreapprovals /\ step \in HandlerSteps /\ step \notin Notifying
      BY DEF Preapprovals, HandlerSteps, Creating, Notifying
    <3>2. h \in [pc : HandlerSteps, plan : Plans \cup {"FREE"}, pre : 0..MaxPreapprovals,
                 about : Resources \cup {NoResource}]
      BY <1>1, <3>1 DEF Handler
    <3>3. h.pc = step /\ h.pre = p
      BY <1>1 DEF Handler
    <3> QED
      BY <3>1, <3>2, <3>3 DEF Handler
  <2>3. req' \in [Slots -> Handler]
    BY <1>1, <2>1, <2>2 DEF Creating
  <2> QED
    BY <1>3, <2>1, <2>3 DEF Preapprove, TypeOK, row, history
<1>4. CASE Save(r)
  <2>1. /\ req[r].plan \in Plans \cup {"FREE"}
        /\ req[r].pre \in Preapprovals /\ req[r].pre \in 0..MaxPreapprovals
    BY <1>1, <1>4 DEF Handler, Save, Creating
  <2>2. CASE At(r, "update") \/ sub.status = "NONE"
    <3>1. req' \in [Slots -> Handler]
      BY <1>4, <2>2, ReplyType DEF Save
    <3>2. Subscribed(req[r].plan, req[r].pre)
      BY <1>4, <2>2 DEF Save
    <3>3. sub' \in SubRow /\ profile' \in Plans \cup {"FREE"}
      BY <2>1, <3>2 DEF Subscribed, SubRow, Status, Grace
    <3> QED
      BY <1>4, <2>1, <2>2, <3>1, <3>3 DEF Save, Subscribed, TypeOK
  <2>3. CASE ~(At(r, "update") \/ sub.status = "NONE")
    <3>1. req' \in [Slots -> Handler]
      BY <1>4, <2>3, GotoType DEF Save, HandlerSteps, Creating, Notifying
    <3> QED
      BY <1>4, <2>3, <3>1 DEF Save, TypeOK, row
  <2> QED
    BY <2>2, <2>3
<1>5. CASE SaveFails(r)
  <2>1. req' \in [Slots -> Handler]
    BY <1>5, GotoType DEF SaveFails, HandlerSteps, Creating, Notifying
  <2> QED
    BY <1>5, <2>1 DEF SaveFails, TypeOK, row, provider
<1>6. CASE Compensate(r)
  <2>1. req' \in [Slots -> Handler]
    BY <1>6, ReplyType DEF Compensate
  <2> QED
    BY <1>6, <2>1 DEF Compensate, TypeOK, row, history
<1> QED
  BY <1>2, <1>3, <1>4, <1>5, <1>6

\* cancelSubscription keeps the types.
LEMMA CancelType ==
    ASSUME TypeOK, NEW r \in Slots,
           BeginCancel(r) \/ CancelAtProvider(r) \/ MarkCanceled(r)
    PROVE  TypeOK'
<1> USE ConstantsAssumption
<1>1. req \in [Slots -> Handler] /\ req[r] \in Handler /\ sub \in SubRow
  BY DEF TypeOK
<1>2. CASE BeginCancel(r)
  <2>1. [Idle EXCEPT !.pc = "cancelAtProvider", !.pre = sub.pre] \in Handler
    BY <1>1, IdleIsHandler DEF Handler, HandlerSteps, Creating, Notifying, SubRow
  <2>2. req' \in [Slots -> Handler] /\ orderly' \in BOOLEAN
    BY <1>2, <2>1, BeginType DEF BeginCancel
  <2> QED
    BY <1>2, <2>2 DEF BeginCancel, TypeOK, row, provider, history
<1>3. CASE CancelAtProvider(r)
  <2>1. req' \in [Slots -> Handler]
    BY <1>3, GotoType DEF CancelAtProvider, HandlerSteps, Creating, Notifying
  <2> QED
    BY <1>3, <2>1 DEF CancelAtProvider, TypeOK, row, history
<1>4. CASE MarkCanceled(r)
  <2>1. req' \in [Slots -> Handler]
    <3>1. CASE req[r].about = NoResource
      BY <1>4, <3>1, ReplyType DEF MarkCanceled
    <3>2. CASE req[r].about # NoResource
      <4>1. req[r].about \in Resources
        BY <1>1, <3>2 DEF Handler
      <4> QED
        BY <1>4, <3>2, <4>1, GotoType DEF MarkCanceled, HandlerSteps, Creating, Notifying
    <3> QED
      BY <3>1, <3>2
  <2>2. sub' \in SubRow
    BY <1>1, <1>4 DEF MarkCanceled, SubRow, Status
  <2> QED
    BY <1>4, <2>1, <2>2 DEF MarkCanceled, TypeOK, provider, history
<1> QED
  BY <1>2, <1>3, <1>4

LEMMA NotifiedType ==
    ASSUME TypeOK, NEW r \in Slots, NEW resource \in Resources, NEW step \in Notifying,
           Notified(r, resource, step)
    PROVE  TypeOK'
<1> DEFINE h == [Idle EXCEPT !.pc = step, !.about = resource]
<1>1. h \in Handler
  <2>1. step \in HandlerSteps /\ step \notin Creating
    BY DEF HandlerSteps, Creating, Notifying
  <2>2. h \in [pc : HandlerSteps, plan : Plans \cup {"FREE"}, pre : 0..MaxPreapprovals,
               about : Resources \cup {NoResource}]
    BY <2>1, IdleIsHandler DEF Handler
  <2>3. h.pc = step /\ h.about = resource
    BY IdleIsHandler DEF Handler
  <2> QED
    BY <2>1, <2>2, <2>3 DEF Handler
<1>2. req' \in [Slots -> Handler] /\ orderly' \in BOOLEAN
  BY <1>1, BeginType DEF Notified
<1> QED
  BY <1>2 DEF Notified, TypeOK, row, provider, history

\* The webhook's first step, for a preapproval and for a payment.
LEMMA NotificationType ==
    ASSUME TypeOK, NEW r \in Slots,
           \/ \E p \in Preapprovals : BeginSync(r, p)
           \/ \E m \in Payments : BeginPayment(r, m)
    PROVE  TypeOK'
<1>1. ASSUME NEW p \in Preapprovals, BeginSync(r, p) PROVE TypeOK'
  <2>1. PICK found \in AfterRead(p) : Notified(r, <<"preapproval", p>>, found)
    BY <1>1 DEF BeginSync
  <2>2. found \in Notifying
    BY DEF AfterRead, Notifying
  <2>3. <<"preapproval", p>> \in Resources
    BY DEF Resources
  <2> QED
    BY <2>1, <2>2, <2>3, NotifiedType
<1>2. ASSUME NEW m \in Payments, BeginPayment(r, m) PROVE TypeOK'
  <2>1. PICK step \in {"findToActivate", "findToReject"} : Notified(r, <<"payment", m>>, step)
    BY <1>2 DEF BeginPayment
  <2>2. step \in Notifying
    BY DEF Notifying
  <2>3. <<"payment", m>> \in Resources
    BY DEF Resources
  <2> QED
    BY <2>1, <2>2, <2>3, NotifiedType
<1> QED
  BY <1>1, <1>2

\* The webhook's other steps.
LEMMA WebhookType ==
    ASSUME TypeOK, NEW r \in Slots,
           Find(r) \/ Activate(r) \/ SyncProfile(r) \/ EnterPastDue(r) \/ CompleteRow(r)
    PROVE  TypeOK'
<1>1. req \in [Slots -> Handler] /\ req[r] \in Handler /\ sub \in SubRow
  BY DEF TypeOK
<1>2. req[r].pc \in Notifying => req[r].about \in Resources
  BY <1>1 DEF Handler
<1>3. CASE Find(r)
  <2>1. req' \in [Slots -> Handler]
    <3>1. CASE req' = [req EXCEPT ![r].pc = "activate", ![r].plan = sub.plan] /\ At(r, "findToActivate")
      <4> DEFINE h == [req[r] EXCEPT !.pc = "activate", !.plan = sub.plan]
      <4>1. h \in [pc : HandlerSteps, plan : Plans \cup {"FREE"}, pre : 0..MaxPreapprovals,
                   about : Resources \cup {NoResource}]
        BY <1>1 DEF Handler, HandlerSteps, Notifying, SubRow
      <4>2. h.pc = "activate" /\ h.about = req[r].about
        BY <1>1 DEF Handler
      <4>3. req[r].about \in Resources
        BY <1>2, <3>1 DEF At, Notifying
      <4>4. h \in Handler
        BY <4>1, <4>2, <4>3 DEF Handler, Creating
      <4> QED
        BY <1>1, <3>1, <4>4
    <3>2. CASE \E step \in {"complete", "markCanceled", "enterPastDue"} :
                   Goto(r, step) /\ req[r].pc \in Notifying
      BY <1>2, <3>2, GotoType DEF HandlerSteps, Creating, Notifying
    <3> QED
      BY <1>3, <3>1, <3>2 DEF Find, At, Notifying
  <2> QED
    BY <1>3, <2>1 DEF Find, TypeOK, row, provider, history
<1>4. CASE Activate(r)
  <2>1. req' \in [Slots -> Handler]
    BY <1>2, <1>4, GotoType DEF Activate, At, HandlerSteps, Creating, Notifying
  <2>2. "ACTIVE" \in Status /\ "none" \in Grace /\ 0 \in 0..3
    BY DEF Status, Grace
  <2>3. Activated \in SubRow
    BY <1>1, <2>2 DEF Activated, SubRow
  <2> QED
    BY <1>4, <2>1, <2>3 DEF Activate, TypeOK, provider, history
<1>5. CASE SyncProfile(r)
  <2>1. req' \in [Slots -> Handler]
    BY <1>2, <1>5, GotoType DEF SyncProfile, At, HandlerSteps, Creating, Notifying
  <2>2. profile' \in Plans \cup {"FREE"}
    BY <1>1, <1>5 DEF SyncProfile, Handler
  <2> QED
    BY <1>5, <2>1, <2>2 DEF SyncProfile, TypeOK, provider, history
<1>6. CASE EnterPastDue(r)
  <2>1. req' \in [Slots -> Handler]
    BY <1>2, <1>6, GotoType DEF EnterPastDue, At, HandlerSteps, Creating, Notifying
  <2>2. "PAST_DUE" \in Status /\ "early" \in Grace /\ 1 \in 0..3
    BY DEF Status, Grace
  <2>3. sub' \in SubRow
    BY <1>1, <1>6, <2>2 DEF EnterPastDue, SubRow
  <2> QED
    BY <1>6, <2>1, <2>3 DEF EnterPastDue, TypeOK, provider, history
<1>7. CASE CompleteRow(r)
  <2>1. req' \in [Slots -> Handler]
    BY <1>7, ReplyType DEF CompleteRow
  <2>2. closed' \subseteq Resources
    BY <1>2, <1>7 DEF CompleteRow, At, Notifying, TypeOK
  <2> QED
    BY <1>7, <2>1, <2>2 DEF CompleteRow, TypeOK, row, provider, history
<1> QED
  BY <1>3, <1>4, <1>5, <1>6, <1>7

\* The dunning worker keeps the types.
LEMMA DunningType ==
    ASSUME TypeOK, Dunning
    PROVE  TypeOK'
<1>1. sub \in SubRow /\ cron \in [pc : CronSteps, reminder : {0, 2, 3}]
  BY DEF TypeOK
<1>2. ASSUME NEW found \in [pc : CronSteps, reminder : {0, 2, 3}], Lists(found) PROVE TypeOK'
  <2>1. (orderly /\ Quiet) \in BOOLEAN
    OBVIOUS
  <2> QED
    BY <1>2, <2>1 DEF Lists, TypeOK, row, provider, history
<1>3. CASE ListPastDue
  <2>1. [pc |-> "remind", reminder |-> ReminderDue] \in [pc : CronSteps, reminder : {0, 2, 3}]
    BY DEF ReminderDue, CronSteps
  <2> QED
    BY <1>2, <1>3, <2>1 DEF ListPastDue
<1>4. CASE ListToDowngrade
  <2>1. [pc |-> "downgrade", reminder |-> 0] \in [pc : CronSteps, reminder : {0, 2, 3}]
    BY DEF CronSteps
  <2> QED
    BY <1>2, <1>4, <2>1 DEF ListToDowngrade
<1>5. CASE Remind
  <2>1. sub' \in SubRow
    BY <1>1, <1>5 DEF Remind, SubRow
  <2> QED
    BY <1>5, <2>1, IdleIsHandler DEF Remind, TypeOK, provider, history
<1>6. CASE Downgrade
  <2>1. sub' \in SubRow
    BY <1>1, <1>6 DEF Downgrade, SubRow, Status
  <2>2. cron' \in [pc : CronSteps, reminder : {0, 2, 3}]
    BY <1>6 DEF Downgrade, CronGoto, CronSteps
  <2> QED
    BY <1>6, <2>1, <2>2 DEF Downgrade, TypeOK, provider, history
<1>7. CASE FreeProfile
  BY <1>7, IdleIsHandler DEF FreeProfile, TypeOK, provider, history
<1> QED
  BY <1>3, <1>4, <1>5, <1>6, <1>7 DEF Dunning

\* The provider, time and failures keep the types.
LEMMA WorldType ==
    ASSUME TypeOK,
           \/ \E p \in Preapprovals : Authorize(p) \/ PayerCancels(p)
           \/ \E m \in Payments, outcome \in {"approved", "rejected"} : Charge(m, outcome)
           \/ PeriodEnds \/ GracePasses
           \/ \E r \in Slots : HandlerFails(r)
           \/ CronFails
    PROVE  TypeOK'
<1> USE ConstantsAssumption
<1>1. sub \in SubRow
  BY DEF TypeOK
<1>2. ASSUME NEW p \in Preapprovals, Authorize(p) \/ PayerCancels(p) PROVE TypeOK'
  BY <1>2 DEF Authorize, PayerCancels, TypeOK, row, history
<1>3. ASSUME NEW m \in Payments, NEW outcome \in {"approved", "rejected"}, Charge(m, outcome)
      PROVE TypeOK'
  BY <1>3 DEF Charge, TypeOK, row, history
<1>4. CASE PeriodEnds
  <2>1. sub' \in SubRow
    BY <1>1, <1>4 DEF PeriodEnds, SubRow
  <2> QED
    BY <1>4, <2>1 DEF PeriodEnds, TypeOK, provider, history
<1>5. CASE GracePasses
  <2>1. sub' \in SubRow
    BY <1>1, <1>5 DEF GracePasses, SubRow, Grace
  <2> QED
    BY <1>5, <2>1 DEF GracePasses, TypeOK, provider, history
<1>6. ASSUME NEW r \in Slots, HandlerFails(r) PROVE TypeOK'
  <2>1. req' \in [Slots -> Handler]
    BY <1>6, ReplyType DEF HandlerFails
  <2>2. faults' \in 0..MaxFaults
    BY <1>6 DEF HandlerFails, TypeOK
  <2>3. orderly' \in BOOLEAN
    BY <1>6 DEF HandlerFails
  <2> QED
    BY <1>6, <2>1, <2>2, <2>3 DEF HandlerFails, TypeOK, row, provider
<1>7. CASE CronFails
  <2>1. faults' \in 0..MaxFaults
    BY <1>7 DEF CronFails, TypeOK
  <2>2. cron' \in [pc : CronSteps, reminder : {0, 2, 3}] /\ orderly' \in BOOLEAN
    BY <1>7, IdleIsHandler DEF CronFails
  <2> QED
    BY <1>7, <2>1, <2>2 DEF CronFails, TypeOK, row, provider
<1> QED
  BY <1>2, <1>3, <1>4, <1>5, <1>6, <1>7

LEMMA NextType == TypeOK /\ [Next]_vars => TypeOK'
<1> SUFFICES ASSUME TypeOK, [Next]_vars PROVE TypeOK'
    OBVIOUS
<1>1. CASE UNCHANGED vars
  BY <1>1 DEF TypeOK, vars, row, provider, history
<1>2. CASE Next
  BY <1>2, SubscribeType, CancelType, NotificationType, WebhookType, DunningType, WorldType
     DEF Next, Advance
<1> QED
  BY <1>1, <1>2

\* Every variable keeps its type; no more than three reminders are counted.
THEOREM TypeCorrect == Spec => []TypeOK
BY InitType, NextType, PTL DEF Spec

-----------------------------------------------------------------------------
(* Preapprovals.  The invariant says who answers for each open one: the row *)
(* that has named it or, until something fails, the subscribe creating it.  *)

Holds(r, p) == req[r].pc \in Creating /\ req[r].pre = p

Answered(p) == p \in recorded \/ \E r \in Slots : Holds(r, p)

PreapprovalInv ==
    /\ TypeOK
    /\ links \subseteq recorded
    /\ \A p \in Preapprovals : mp[p] = "authorized" => p \in recorded
    /\ faults = 0 => \A p \in Preapprovals : mp[p] = "pending" => Answered(p)

LEMMA InitPreapproval == Init => PreapprovalInv
BY InitType DEF Init, PreapprovalInv

\* A step that names and accepts no preapproval, and after which every subscribe
\* still holds the one it held.
Keeps ==
    /\ UNCHANGED <<mp, links, recorded>>
    /\ \/ faults' # 0
       \/ /\ faults' = faults
          /\ \A r \in Slots : req[r].pc \in Creating =>
                 req'[r].pc \in Creating /\ req'[r].pre = req[r].pre

LEMMA KeepsInv ==
    ASSUME PreapprovalInv, TypeOK', Keeps
    PROVE  PreapprovalInv'
<1>1. ASSUME faults' = 0, NEW p \in Preapprovals, mp[p] = "pending" PROVE Answered(p)'
  <2>1. Answered(p)
    BY <1>1 DEF PreapprovalInv, Keeps
  <2>2. CASE p \in recorded
    BY <2>2 DEF Answered, Keeps
  <2>3. CASE \E r \in Slots : Holds(r, p)
    <3>1. PICK r \in Slots : Holds(r, p)
      BY <2>3
    <3>2. Holds(r, p)'
      BY <1>1, <3>1 DEF Holds, Keeps
    <3> QED
      BY <3>2 DEF Answered
  <2> QED
    BY <2>1, <2>2, <2>3 DEF Answered
<1> QED
  BY <1>1 DEF PreapprovalInv, Keeps

\* A slot that is not creating may do what it likes with its handler.
LEMMA OtherSlotKeeps ==
    ASSUME TypeOK, NEW r \in Slots, req[r].pc \notin Creating,
           \A s \in Slots : s # r => req'[s] = req[s],
           UNCHANGED <<mp, links, recorded, faults>>
    PROVE  Keeps
BY DEF Keeps

LEMMA SlotStepKeeps ==
    ASSUME TypeOK, NEW r \in Slots,
           \/ \E plan \in Plans : BeginSubscribe(r, plan)
           \/ BeginCancel(r) \/ MarkCanceled(r)
           \/ \E p \in Preapprovals : BeginSync(r, p)
           \/ \E m \in Payments : BeginPayment(r, m)
           \/ Find(r) \/ Activate(r) \/ SyncProfile(r) \/ EnterPastDue(r) \/ CompleteRow(r)
    PROVE  Keeps
<1>1. req[r].pc \notin Creating
  <2>1. CASE req[r] = Idle
    BY <2>1 DEF Idle, Creating
  <2>2. CASE MarkCanceled(r) \/ Find(r) \/ Activate(r) \/ SyncProfile(r) \/ EnterPastDue(r) \/ CompleteRow(r)
    BY <2>2 DEF MarkCanceled, Find, Activate, SyncProfile, EnterPastDue, CompleteRow, At, Creating
  <2> QED
    BY <2>1, <2>2 DEF BeginSubscribe, BeginCancel, BeginSync, BeginPayment, Notified, Begin
<1>2. \A s \in Slots : s # r => req'[s] = req[s]
  BY DEF TypeOK, BeginSubscribe, BeginCancel, MarkCanceled, BeginSync, BeginPayment, Notified,
     Begin, Find, Activate, SyncProfile, EnterPastDue, CompleteRow, Reply, Goto
<1>3. UNCHANGED <<mp, links, recorded, faults>>
  BY DEF BeginSubscribe, BeginCancel, MarkCanceled, BeginSync, BeginPayment, Notified,
     Find, Activate, SyncProfile, EnterPastDue, CompleteRow, provider, history
<1> QED
  BY <1>1, <1>2, <1>3, OtherSlotKeeps

\* The worker and the world, except for what the payer does to preapprovals.
LEMMA WorldKeeps ==
    ASSUME TypeOK,
           \/ Dunning \/ PeriodEnds \/ GracePasses \/ CronFails
           \/ \E m \in Payments, outcome \in {"approved", "rejected"} : Charge(m, outcome)
           \/ \E r \in Slots : HandlerFails(r) \/ SaveFails(r)
           \/ UNCHANGED vars
    PROVE  Keeps
<1>1. CASE Dunning
  BY <1>1 DEF Dunning, ListPastDue, ListToDowngrade, Lists, Remind, Downgrade, FreeProfile,
     provider, history, Keeps
<1>2. CASE PeriodEnds \/ GracePasses
  BY <1>2 DEF PeriodEnds, GracePasses, provider, history, Keeps
<1>3. ASSUME NEW m \in Payments, NEW outcome \in {"approved", "rejected"}, Charge(m, outcome)
      PROVE Keeps
  BY <1>3 DEF Charge, history, Keeps
<1>4. CASE CronFails \/ \E r \in Slots : HandlerFails(r) \/ SaveFails(r)
  <2>1. faults' = faults + 1 /\ UNCHANGED <<mp, links, recorded>>
    BY <1>4 DEF CronFails, HandlerFails, SaveFails, provider
  <2>2. faults \in 0..MaxFaults /\ MaxFaults \in Nat
    BY ConstantsAssumption DEF TypeOK
  <2>3. faults' # 0
    BY <2>1, <2>2
  <2>4. UNCHANGED <<mp, links, recorded>>
    BY <2>1
  <2> QED
    BY <2>3, <2>4 DEF Keeps
<1>5. CASE UNCHANGED vars
  BY <1>5 DEF vars, provider, history, Keeps
<1> QED
  BY <1>1, <1>2, <1>3, <1>4, <1>5

\* createPreapproval: the request holds what it has created.
LEMMA PreapproveInv ==
    ASSUME PreapprovalInv, TypeOK', NEW r \in Slots, Preapprove(r)
    PROVE  PreapprovalInv'
<1>1. PICK n \in Preapprovals :
          /\ mp' = [mp EXCEPT ![n] = "pending"]
          /\ req' = [req EXCEPT ![r].pc = IF At(r, "preapprove") THEN "update" ELSE "create",
                                ![r].pre = n]
  BY DEF Preapprove
<1>2. req \in [Slots -> Handler] /\ mp \in [Preapprovals -> {"absent", "pending", "authorized", "cancelled"}]
  BY DEF PreapprovalInv, TypeOK
<1>3. req'[r].pc \in Creating /\ req'[r].pre = n
  BY <1>1, <1>2 DEF Handler, Creating
<1>4. UNCHANGED <<links, recorded, faults>>
  BY DEF Preapprove, history
<1>5. ASSUME faults' = 0, NEW p \in Preapprovals, mp'[p] = "pending" PROVE Answered(p)'
  <2>1. CASE p = n
    BY <1>3, <2>1 DEF Answered, Holds
  <2>2. CASE p # n
    <3>1. Answered(p)
      BY <1>1, <1>2, <1>4, <1>5, <2>2 DEF PreapprovalInv
    <3>2. ASSUME NEW s \in Slots, Holds(s, p) PROVE Holds(s, p)'
      <4>1. s # r
        BY <3>2 DEF Holds, Creating, Preapprove
      <4> QED
        BY <1>1, <1>2, <3>2, <4>1 DEF Holds
    <3> QED
      BY <1>4, <3>1, <3>2 DEF Answered
  <2> QED
    BY <2>1, <2>2
<1>6. \A p \in Preapprovals : mp'[p] = "authorized" => p \in recorded'
  BY <1>1, <1>2, <1>4 DEF PreapprovalInv
<1> QED
  BY <1>4, <1>5, <1>6 DEF PreapprovalInv

\* The transaction records the preapproval, or the request goes on to cancel it.
LEMMA SaveInv ==
    ASSUME PreapprovalInv, TypeOK', NEW r \in Slots, Save(r)
    PROVE  PreapprovalInv'
<1>1. req \in [Slots -> Handler]
  BY DEF PreapprovalInv, TypeOK
<1>2. UNCHANGED <<mp, faults>>
  BY DEF Save
<1>3. CASE At(r, "update") \/ sub.status = "NONE"
  <2>1. /\ recorded' = recorded \cup {req[r].pre}
        /\ links' = links \cup {req[r].pre}
        /\ req' = [req EXCEPT ![r] = Idle]
    BY <1>3 DEF Save, Subscribed, Reply
  <2>2. ASSUME faults' = 0, NEW p \in Preapprovals, mp'[p] = "pending" PROVE Answered(p)'
    <3>1. Answered(p)
      BY <1>2, <2>2 DEF PreapprovalInv
    <3>2. ASSUME NEW s \in Slots, Holds(s, p), s # r PROVE Holds(s, p)'
      BY <1>1, <2>1, <3>2 DEF Holds
    <3>3. Holds(r, p) => p \in recorded'
      BY <2>1 DEF Holds
    <3> QED
      BY <2>1, <3>1, <3>2, <3>3 DEF Answered
  <2> QED
    BY <1>2, <2>1, <2>2 DEF PreapprovalInv
<1>4. CASE ~(At(r, "update") \/ sub.status = "NONE")
  <2>1. UNCHANGED <<mp, links, recorded, faults>> /\ req' = [req EXCEPT ![r].pc = "compensate"]
    BY <1>2, <1>4 DEF Save, Goto
  <2>2. \A s \in Slots : req[s].pc \in Creating =>
            req'[s].pc \in Creating /\ req'[s].pre = req[s].pre
    BY <1>1, <2>1 DEF Handler, Creating
  <2> QED
    BY <2>1, <2>2, KeepsInv DEF Keeps
<1> QED
  BY <1>3, <1>4

\* What is cancelled needs no answer: compensation and cancellation.
LEMMA CancelInv ==
    ASSUME PreapprovalInv, TypeOK', NEW r \in Slots, Compensate(r) \/ CancelAtProvider(r)
    PROVE  PreapprovalInv'
<1>1. /\ mp' = [mp EXCEPT ![req[r].pre] = "cancelled"]
      /\ UNCHANGED <<links, recorded, faults>>
  BY DEF Compensate, CancelAtProvider, history
<1>2. req \in [Slots -> Handler] /\ mp \in [Preapprovals -> {"absent", "pending", "authorized", "cancelled"}]
  BY DEF PreapprovalInv, TypeOK
<1>3. \A p \in Preapprovals : mp'[p] = IF p = req[r].pre THEN "cancelled" ELSE mp[p]
  BY <1>1, <1>2
<1>4. \A s \in Slots : s # r => req'[s] = req[s]
  BY <1>2 DEF Compensate, CancelAtProvider, Reply, Goto
<1>5. ASSUME faults' = 0, NEW p \in Preapprovals, mp'[p] = "pending" PROVE Answered(p)'
  <2>1. p # req[r].pre /\ Answered(p)
    BY <1>1, <1>3, <1>5 DEF PreapprovalInv
  <2>2. ASSUME NEW s \in Slots, Holds(s, p) PROVE Holds(s, p)'
    BY <1>4, <2>1, <2>2 DEF Holds
  <2> QED
    BY <1>1, <2>1, <2>2 DEF Answered
<1> QED
  BY <1>1, <1>3, <1>5 DEF PreapprovalInv

\* The payer accepts only what the row has named.
LEMMA PayerInv ==
    ASSUME PreapprovalInv, TypeOK', NEW p \in Preapprovals, Authorize(p) \/ PayerCancels(p)
    PROVE  PreapprovalInv'
<1>1. UNCHANGED <<links, recorded, faults, req>>
  BY DEF Authorize, PayerCancels, history
<1>2. mp \in [Preapprovals -> {"absent", "pending", "authorized", "cancelled"}]
  BY DEF PreapprovalInv, TypeOK
<1>3. \A q \in Preapprovals : mp'[q] = "authorized" => q \in recorded
  BY <1>2 DEF Authorize, PayerCancels, PreapprovalInv
<1>4. \A q \in Preapprovals : mp'[q] = "pending" => mp[q] = "pending"
  BY <1>2 DEF Authorize, PayerCancels
<1>5. \A q \in Preapprovals : Answered(q)' <=> Answered(q)
  BY <1>1 DEF Answered, Holds
<1> QED
  BY <1>1, <1>3, <1>4, <1>5 DEF PreapprovalInv

LEMMA NextPreapproval == PreapprovalInv /\ [Next]_vars => PreapprovalInv'
<1> SUFFICES ASSUME PreapprovalInv, [Next]_vars PROVE PreapprovalInv'
    OBVIOUS
<1>1. TypeOK /\ TypeOK'
  BY NextType DEF PreapprovalInv
<1>2. CASE Keeps
  BY <1>1, <1>2, KeepsInv
<1>3. ASSUME NEW r \in Slots, Preapprove(r) \/ Save(r) \/ Compensate(r) \/ CancelAtProvider(r)
      PROVE PreapprovalInv'
  BY <1>1, <1>3, PreapproveInv, SaveInv, CancelInv
<1>4. ASSUME NEW p \in Preapprovals, Authorize(p) \/ PayerCancels(p) PROVE PreapprovalInv'
  BY <1>1, <1>4, PayerInv
<1> QED
  BY <1>1, <1>2, <1>3, <1>4, SlotStepKeeps, WorldKeeps DEF Next, Advance

\* No preapproval is charged that the subject's row has not named, and unless
\* something fails none stays open that nobody answers for.
THEOREM StrayPreapprovals == Spec => []StrayPreapprovalsAreCancelled
<1>1. PreapprovalInv => StrayPreapprovalsAreCancelled
  BY DEF PreapprovalInv, StrayPreapprovalsAreCancelled, Answered, Holds
<1> QED
  BY <1>1, InitPreapproval, NextPreapproval, PTL DEF Spec

-----------------------------------------------------------------------------
(* The row and the profile, while operations do not overlap.               *)

\* One handler or the worker is under way, and no more.
OneAtWork ==
    /\ \A r, s \in Slots : req[r] # Idle /\ req[s] # Idle => r = s
    /\ cron # CronIdle => \A r \in Slots : req[r] = Idle

\* What is known between the write of the row and that of the profile.
Knows(r) ==
    /\ At(r, "activate") => req[r].plan = sub.plan
    /\ At(r, "syncProfile") => req[r].plan = sub.plan /\ sub.status = "ACTIVE"

PaidIsInProfile ==
    sub.status \in {"TRIALING", "ACTIVE"} =>
        profile = sub.plan \/ \E r \in Slots : At(r, "syncProfile")
PaidHasRow ==
    profile # "FREE" => sub.status \notin {"NONE", "EXPIRED"} \/ CronAt("freeProfile")

SequenceInv ==
    orderly =>
        /\ OneAtWork
        /\ \A r \in Slots : Knows(r)
        /\ CronAt("freeProfile") => sub.status = "EXPIRED"
        /\ PaidIsInProfile /\ PaidHasRow

LEMMA IdleSteps == Idle.pc = "idle" /\ CronIdle.pc = "idle"
BY DEF Idle, CronIdle

LEMMA InitSequence == Init => SequenceInv
<1> SUFFICES ASSUME Init PROVE SequenceInv
    OBVIOUS
<1>1. (\A r \in Slots : req[r] = Idle) /\ cron = CronIdle
  BY DEF Init
<1>2. sub.status = "NONE" /\ profile = "FREE"
  BY DEF Init
<1> QED
  BY <1>1, <1>2, IdleSteps
     DEF SequenceInv, OneAtWork, Knows, PaidIsInProfile, PaidHasRow, At, CronAt

\* A handler at work is alone, and moves on to "next".
LEMMA HandlerStep ==
    ASSUME TypeOK, SequenceInv, orderly, NEW r \in Slots, req[r] # Idle, NEW next,
           req' = [req EXCEPT ![r] = next], cron' = cron,
           next.pc \in {"activate", "syncProfile"} => next.plan = sub'.plan,
           next.pc = "syncProfile" => sub'.status = "ACTIVE",
           sub'.status \in {"TRIALING", "ACTIVE"} => profile' = sub'.plan \/ next.pc = "syncProfile",
           profile' # "FREE" => sub'.status \notin {"NONE", "EXPIRED"}
    PROVE  SequenceInv'
<1>1. cron = CronIdle /\ \A s \in Slots \ {r} : req[s] = Idle
  BY DEF SequenceInv, OneAtWork
<1>2. req'[r] = next /\ \A s \in Slots \ {r} : req'[s] = Idle
  BY <1>1 DEF TypeOK
<1>3. OneAtWork' /\ ~CronAt("freeProfile")'
  BY <1>1, <1>2, IdleSteps DEF OneAtWork, CronAt
<1>4. \A s \in Slots : Knows(s)'
  BY <1>2, IdleSteps DEF Knows, At
<1>5. PaidIsInProfile' /\ PaidHasRow'
  BY <1>2 DEF PaidIsInProfile, PaidHasRow, At
<1> QED
  BY <1>3, <1>4, <1>5 DEF SequenceInv

\* What a handler at work finds, unless it is about to write the profile.
LEMMA HandlerFinds ==
    ASSUME SequenceInv, orderly, NEW r \in Slots, req[r] # Idle, ~At(r, "syncProfile")
    PROVE  /\ sub.status \in {"TRIALING", "ACTIVE"} => profile = sub.plan
           /\ profile # "FREE" => sub.status \notin {"NONE", "EXPIRED"}
<1>1. cron = CronIdle /\ \A s \in Slots : ~At(s, "syncProfile")
  BY IdleSteps DEF SequenceInv, OneAtWork, At
<1> QED
  BY <1>1, IdleSteps DEF SequenceInv, PaidIsInProfile, PaidHasRow, CronAt

\* A handler that leaves row and profile alone and writes neither next.
LEMMA HandlerMoves ==
    ASSUME TypeOK, SequenceInv, orderly, NEW r \in Slots, req[r] # Idle,
           ~At(r, "syncProfile"), UNCHANGED <<sub, profile, cron>>, NEW next,
           req' = [req EXCEPT ![r] = next], next.pc \notin {"activate", "syncProfile"}
    PROVE  SequenceInv'
BY HandlerStep, HandlerFinds

LEMMA GotoMoves ==
    ASSUME TypeOK, NEW r \in Slots, NEW step, Goto(r, step)
    PROVE  \E next : /\ req' = [req EXCEPT ![r] = next]
                     /\ next.pc = step /\ next.plan = req[r].plan
<1> DEFINE next == [req[r] EXCEPT !.pc = step]
<1>1. req[r] \in Handler
  BY DEF TypeOK
<1>2. next.pc = step /\ next.plan = req[r].plan /\ req' = [req EXCEPT ![r] = next]
  BY <1>1 DEF Goto, Handler
<1> HIDE DEF next
<1> QED
  BY <1>2

\* A handler begins alone, or is out of order.
LEMMA SequenceBegins ==
    ASSUME TypeOK, SequenceInv, NEW r \in Slots,
           \/ \E plan \in Plans : BeginSubscribe(r, plan)
           \/ BeginCancel(r)
           \/ \E p \in Preapprovals : BeginSync(r, p)
           \/ \E m \in Payments : BeginPayment(r, m)
    PROVE  SequenceInv'
<1> SUFFICES ASSUME orderly' PROVE SequenceInv'
    BY DEF SequenceInv
<1>1. PICK handler : Begin(r, handler) /\ handler.pc \notin {"activate", "syncProfile"}
  <2>1. ASSUME NEW plan \in Plans, BeginSubscribe(r, plan)
        PROVE  \E handler : Begin(r, handler) /\ handler.pc \notin {"activate", "syncProfile"}
    <3>1. PICK step \in {"preapproveNew", "preapprove"} :
              Begin(r, [Idle EXCEPT !.pc = step, !.plan = plan])
      BY <2>1 DEF BeginSubscribe
    <3>2. [Idle EXCEPT !.pc = step, !.plan = plan].pc = step
      BY DEF Idle
    <3> QED
      BY <3>1, <3>2
  <2>2. ASSUME BeginCancel(r)
        PROVE  \E handler : Begin(r, handler) /\ handler.pc \notin {"activate", "syncProfile"}
    <3>1. [Idle EXCEPT !.pc = "cancelAtProvider", !.pre = sub.pre].pc = "cancelAtProvider"
      BY DEF Idle
    <3> QED
      BY <2>2, <3>1 DEF BeginCancel
  <2>3. ASSUME NEW resource, NEW step \in {"findToActivate", "findToCancel", "findToReject", "complete"},
               Notified(r, resource, step)
        PROVE  \E handler : Begin(r, handler) /\ handler.pc \notin {"activate", "syncProfile"}
    <3>1. [Idle EXCEPT !.pc = step, !.about = resource].pc = step
      BY DEF Idle
    <3> QED
      BY <2>3, <3>1 DEF Notified
  <2>4. ASSUME NEW p \in Preapprovals, BeginSync(r, p)
        PROVE  \E step \in {"findToActivate", "findToCancel", "findToReject", "complete"} :
                   Notified(r, <<"preapproval", p>>, step)
    BY <2>4 DEF BeginSync, AfterRead
  <2>5. ASSUME NEW m \in Payments, BeginPayment(r, m)
        PROVE  \E step \in {"findToActivate", "findToCancel", "findToReject", "complete"} :
                   Notified(r, <<"payment", m>>, step)
    BY <2>5 DEF BeginPayment
  <2> QED
    BY <2>1, <2>2, <2>3, <2>4, <2>5
<1>2. UNCHANGED <<sub, profile, cron>>
  BY DEF BeginSubscribe, BeginCancel, BeginSync, BeginPayment, Notified, row
<1>3. orderly /\ cron = CronIdle /\ \A s \in Slots : req[s] = Idle
  BY <1>1 DEF Begin, Quiet
<1>4. req'[r] = handler /\ \A s \in Slots \ {r} : req'[s] = Idle
  BY <1>1, <1>3 DEF Begin, TypeOK
<1>5. ~CronAt("freeProfile") /\ ~CronAt("freeProfile")' /\ \A s \in Slots : ~At(s, "syncProfile")
  BY <1>2, <1>3, IdleSteps DEF CronAt, At
<1>6. PaidIsInProfile' /\ PaidHasRow'
  BY <1>2, <1>3, <1>5 DEF SequenceInv, PaidIsInProfile, PaidHasRow
<1>7. OneAtWork' /\ \A s \in Slots : Knows(s)'
  BY <1>1, <1>2, <1>3, <1>4, IdleSteps DEF OneAtWork, Knows, At
<1> QED
  BY <1>5, <1>6, <1>7 DEF SequenceInv

\* A subscribe or a cancellation goes on.
LEMMA SequenceRequests ==
    ASSUME TypeOK, SequenceInv, orderly, NEW r \in Slots,
           \/ Preapprove(r) \/ Save(r) \/ SaveFails(r) \/ Compensate(r)
           \/ CancelAtProvider(r) \/ MarkCanceled(r)
    PROVE  SequenceInv'
<1>1. req[r] # Idle /\ ~At(r, "syncProfile") /\ cron' = cron
  BY IdleSteps DEF Preapprove, Save, SaveFails, Compensate, CancelAtProvider, MarkCanceled, At
<1>2. CASE Preapprove(r)
  <2>1. PICK p \in Preapprovals, step \in {"create", "update"} :
            req' = [req EXCEPT ![r].pc = step, ![r].pre = p]
    BY <1>2 DEF Preapprove
  <2> DEFINE next == [req[r] EXCEPT !.pc = step, !.pre = p]
  <2>2. req' = [req EXCEPT ![r] = next] /\ next.pc = step
    BY <2>1 DEF TypeOK, Handler
  <2>3. UNCHANGED <<sub, profile>>
    BY <1>2 DEF Preapprove, row
  <2> HIDE DEF next
  <2> QED
    BY <1>1, <2>2, <2>3, HandlerMoves
<1>3. CASE Save(r) /\ (At(r, "update") \/ sub.status = "NONE")
  <2>1. sub'.status = "TRIALING" /\ profile' = sub'.plan /\ req' = [req EXCEPT ![r] = Idle]
    BY <1>3 DEF Save, Subscribed, Reply
  <2> QED
    BY <1>1, <2>1, IdleSteps, HandlerStep
<1>4. CASE MarkCanceled(r)
  <2>1. sub'.status = "CANCELED" /\ profile' = profile
    BY <1>4 DEF MarkCanceled, TypeOK, SubRow
  <2>2. PICK next : req' = [req EXCEPT ![r] = next] /\ next.pc \in {"idle", "complete"}
    BY <1>4, GotoMoves, IdleSteps DEF MarkCanceled, Reply
  <2> QED
    BY <1>1, <2>1, <2>2, HandlerStep
<1>5. CASE (Save(r) /\ ~(At(r, "update") \/ sub.status = "NONE")) \/ SaveFails(r) \/ CancelAtProvider(r)
  <2>1. PICK step \in {"compensate", "markCanceled"} : Goto(r, step)
    BY <1>5 DEF Save, SaveFails, CancelAtProvider
  <2>2. UNCHANGED <<sub, profile>>
    BY <1>5 DEF Save, SaveFails, CancelAtProvider, row
  <2>3. PICK next : req' = [req EXCEPT ![r] = next] /\ next.pc = step
    BY <2>1, GotoMoves
  <2> QED
    BY <1>1, <2>2, <2>3, HandlerMoves
<1>6. CASE Compensate(r)
  <2>1. req' = [req EXCEPT ![r] = Idle] /\ UNCHANGED <<sub, profile>>
    BY <1>6 DEF Compensate, Reply, row
  <2> QED
    BY <1>1, <2>1, IdleSteps, HandlerMoves
<1> QED
  BY <1>2, <1>3, <1>4, <1>5, <1>6

\* A notification is worked on.
LEMMA SequenceWebhook ==
    ASSUME TypeOK, SequenceInv, orderly, NEW r \in Slots,
           Find(r) \/ Activate(r) \/ SyncProfile(r) \/ EnterPastDue(r) \/ CompleteRow(r)
    PROVE  SequenceInv'
<1>1. req[r] # Idle /\ cron' = cron /\ sub \in SubRow
  BY IdleSteps DEF Find, Activate, SyncProfile, EnterPastDue, CompleteRow, At, TypeOK
<1>2. CASE Find(r)
  <2>1. UNCHANGED <<sub, profile>> /\ ~At(r, "syncProfile")
    BY <1>2 DEF Find, row, At
  <2>2. CASE req' = [req EXCEPT ![r].pc = "activate", ![r].plan = sub.plan]
    <3> DEFINE next == [req[r] EXCEPT !.pc = "activate", !.plan = sub.plan]
    <3>1. req' = [req EXCEPT ![r] = next] /\ next.pc = "activate" /\ next.plan = sub.plan
      BY <2>2 DEF TypeOK, Handler
    <3> HIDE DEF next
    <3> QED
      BY <1>1, <2>1, <3>1, HandlerStep, HandlerFinds
  <2>3. ASSUME NEW step \in {"complete", "markCanceled", "enterPastDue"}, Goto(r, step)
        PROVE  SequenceInv'
    <3>1. PICK next : req' = [req EXCEPT ![r] = next] /\ next.pc = step
      BY <2>3, GotoMoves
    <3> QED
      BY <1>1, <2>1, <3>1, HandlerMoves
  <2> QED
    BY <1>2, <2>2, <2>3 DEF Find
<1>3. CASE Activate(r)
  <2>1. sub'.status = "ACTIVE" /\ sub'.plan = sub.plan /\ req[r].plan = sub.plan
    BY <1>1, <1>3 DEF Activate, Activated, SubRow, SequenceInv, Knows
  <2>2. PICK next : /\ req' = [req EXCEPT ![r] = next]
                    /\ next.pc = "syncProfile" /\ next.plan = req[r].plan
    BY <1>3, GotoMoves DEF Activate
  <2> QED
    BY <1>1, <2>1, <2>2, HandlerStep
<1>4. CASE SyncProfile(r)
  <2>1. profile' = sub.plan /\ sub' = sub /\ sub.status = "ACTIVE"
    BY <1>4 DEF SyncProfile, SequenceInv, Knows
  <2>2. PICK next : req' = [req EXCEPT ![r] = next] /\ next.pc = "complete"
    BY <1>4, GotoMoves DEF SyncProfile
  <2> QED
    BY <1>1, <2>1, <2>2, HandlerStep
<1>5. CASE EnterPastDue(r)
  <2>1. sub'.status = "PAST_DUE" /\ profile' = profile
    BY <1>1, <1>5 DEF EnterPastDue, SubRow
  <2>2. PICK next : req' = [req EXCEPT ![r] = next] /\ next.pc = "complete"
    BY <1>5, GotoMoves DEF EnterPastDue
  <2> QED
    BY <1>1, <2>1, <2>2, HandlerStep
<1>6. CASE CompleteRow(r)
  <2>1. req' = [req EXCEPT ![r] = Idle] /\ UNCHANGED <<sub, profile>> /\ ~At(r, "syncProfile")
    BY <1>6 DEF CompleteRow, Reply, row, At
  <2> QED
    BY <1>1, <2>1, IdleSteps, HandlerMoves
<1> QED
  BY <1>2, <1>3, <1>4, <1>5, <1>6

\* The worker is alone as well.
LEMMA SequenceDunning ==
    ASSUME TypeOK, SequenceInv, orderly', Dunning
    PROVE  SequenceInv'
<1>1. orderly /\ req' = req /\ \A r \in Slots : req[r] = Idle
  <2>1. CASE ListPastDue \/ ListToDowngrade
    BY <2>1 DEF ListPastDue, ListToDowngrade, Lists, Quiet
  <2>2. CASE Remind \/ Downgrade \/ FreeProfile
    <3>1. cron.pc # "idle" /\ orderly /\ req' = req
      BY <2>2 DEF Remind, Downgrade, FreeProfile, CronAt
    <3> QED
      BY <3>1, IdleSteps DEF SequenceInv, OneAtWork
  <2> QED
    BY <2>1, <2>2 DEF Dunning
<1>2. OneAtWork' /\ \A r \in Slots : Knows(r)' /\ ~At(r, "syncProfile") /\ ~At(r, "syncProfile")'
  BY <1>1, IdleSteps DEF OneAtWork, Knows, At
<1>3. sub \in SubRow /\ (sub.status \in {"TRIALING", "ACTIVE"} => profile = sub.plan)
  BY <1>1, <1>2 DEF TypeOK, SequenceInv, PaidIsInProfile
<1>4. CASE ListPastDue \/ ListToDowngrade
  <2>1. UNCHANGED <<sub, profile>> /\ cron = CronIdle /\ cron'.pc # "freeProfile"
    <3>1. PICK step \in {"remind", "downgrade"}, number \in {0, ReminderDue} :
              Lists([pc |-> step, reminder |-> number])
      BY <1>4 DEF ListPastDue, ListToDowngrade
    <3> QED
      BY <3>1 DEF Lists, row
  <2> QED
    BY <1>1, <1>2, <1>3, <2>1, IdleSteps DEF SequenceInv, PaidIsInProfile, PaidHasRow, CronAt
<1>5. CASE Remind
  <2>1. /\ sub'.status = sub.status /\ sub'.plan = sub.plan /\ profile' = profile
        /\ cron'.pc = "idle" /\ cron.pc = "remind"
    BY <1>3, <1>5, IdleSteps DEF Remind, SubRow, CronAt
  <2> QED
    BY <1>1, <1>2, <1>3, <2>1 DEF SequenceInv, PaidIsInProfile, PaidHasRow, CronAt
<1>6. CASE Downgrade
  <2>1. sub'.status = "EXPIRED" /\ cron'.pc = "freeProfile"
    BY <1>3, <1>6 DEF Downgrade, SubRow, CronGoto
  <2> QED
    BY <1>2, <2>1 DEF SequenceInv, PaidIsInProfile, PaidHasRow, CronAt
<1>7. CASE FreeProfile
  <2>1. sub' = sub /\ sub.status = "EXPIRED" /\ profile' = "FREE" /\ cron'.pc = "idle"
    BY <1>1, <1>7, IdleSteps DEF FreeProfile, SequenceInv, CronAt
  <2> QED
    BY <1>2, <2>1 DEF SequenceInv, PaidIsInProfile, PaidHasRow, CronAt
<1> QED
  BY <1>4, <1>5, <1>6, <1>7 DEF Dunning

\* The provider, the payer and time leave the handlers, the status and the plan.
LEMMA SequenceWorld ==
    ASSUME TypeOK, SequenceInv,
           \/ \E p \in Preapprovals : Authorize(p) \/ PayerCancels(p)
           \/ \E m \in Payments, outcome \in {"approved", "rejected"} : Charge(m, outcome)
           \/ PeriodEnds \/ GracePasses \/ UNCHANGED vars
    PROVE  SequenceInv'
<1>1. UNCHANGED <<req, cron, orderly, profile>>
  BY DEF Authorize, PayerCancels, Charge, PeriodEnds, GracePasses, row, vars
<1>2. sub'.status = sub.status /\ sub'.plan = sub.plan
  <2>1. sub \in SubRow
    BY DEF TypeOK
  <2>2. CASE PeriodEnds
    BY <2>1, <2>2 DEF PeriodEnds, SubRow
  <2>3. CASE GracePasses
    BY <2>1, <2>3 DEF GracePasses, SubRow
  <2>4. CASE sub' = sub
    BY <2>4
  <2>5. PeriodEnds \/ GracePasses \/ sub' = sub
    BY DEF Authorize, PayerCancels, Charge, row, vars
  <2> QED
    BY <2>2, <2>3, <2>4, <2>5
<1> QED
  BY <1>1, <1>2 DEF SequenceInv, OneAtWork, Knows, PaidIsInProfile, PaidHasRow, At, CronAt

LEMMA NextSequence == TypeOK /\ SequenceInv /\ [Next]_vars => SequenceInv'
<1> SUFFICES ASSUME TypeOK, SequenceInv, [Next]_vars, orderly' PROVE SequenceInv'
    BY DEF SequenceInv
<1>1. ASSUME NEW r \in Slots, Advance(r) \/ SaveFails(r) PROVE SequenceInv'
  <2>1. orderly
    BY <1>1 DEF Advance, SaveFails, Preapprove, Save, Compensate, CancelAtProvider, MarkCanceled,
       Find, Activate, SyncProfile, EnterPastDue, CompleteRow
  <2> QED
    BY <1>1, <2>1, SequenceRequests, SequenceWebhook DEF Advance
<1>2. ASSUME NEW r \in Slots PROVE ~HandlerFails(r) /\ ~CronFails
  BY DEF HandlerFails, CronFails
<1>3. ~CronFails
  BY DEF CronFails
<1> QED
  BY <1>1, <1>2, <1>3, SequenceBegins, SequenceDunning, SequenceWorld DEF Next

\* After operations that follow one another the profile has the plan of a row
\* that is paid for, and a paid plan has a row that has not run out.
THEOREM PlanFollowsRow == Spec => []SequentialPlan
<1>1. SequenceInv => SequentialPlan
  <2> SUFFICES ASSUME SequenceInv, orderly, Quiet PROVE SequentialPlan
      BY DEF SequentialPlan
  <2>1. ~CronAt("freeProfile") /\ \A r \in Slots : ~At(r, "syncProfile")
    BY IdleSteps DEF Quiet, CronAt, At
  <2> QED
    BY <2>1 DEF SequenceInv, PaidIsInProfile, PaidHasRow, SequentialPlan
<1> QED
  BY <1>1, InitSequence, NextSequence, TypeCorrect, PTL DEF Spec
=============================================================================
