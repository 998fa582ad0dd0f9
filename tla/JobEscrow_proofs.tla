-------------------------- MODULE JobEscrow_proofs --------------------------
(***************************************************************************)
(* Proofs about JobEscrow, for any number of requests, professionals,      *)
(* payments, change orders and rates.                                      *)
(***************************************************************************)
EXTENDS JobEscrow, TLAPS

\* Math.round(n / d) of a natural number by a positive one is natural.
LEMMA RoundNat ==
    ASSUME NEW n \in Nat, NEW d \in Nat \ {0}
    PROVE  RoundHalfUp(n, d) \in Nat
BY DEF RoundHalfUp

\* Converted amounts are natural numbers.
LEMMA HeldAmountNat ==
    ASSUME NEW total \in Nat, NEW q \in Nat
    PROVE  HeldAmount(total, q) \in Nat
<1>1. total * q \in Nat
    OBVIOUS
<1>2. MicrosPerUnit \in Nat \ {0}
    BY DEF MicrosPerUnit
<1> QED
    BY <1>1, <1>2, RoundNat DEF HeldAmount

\* The commission is never more than the held amount, so the professional's net
\* is never negative, at every commission rate the configuration admits.
THEOREM CommissionBounded ==
    ASSUME NEW a \in Nat
    PROVE  CommissionOf(a) \in 0..a /\ NetOf(a) \in 0..a /\ CommissionOf(a) + NetOf(a) = a
<1>1. CommissionBps \in Nat /\ CommissionBps <= 10000
    BY CommissionAssumption
<1> DEFINE x == a * CommissionBps
<1>2. x \in Nat /\ x <= a * 10000
    BY <1>1
<1>3. ASSUME NEW y \in Nat, y <= a * 10000
      PROVE  (2 * y + 10000) \div 20000 \in 0..a
    BY <1>3
<1>4. CommissionOf(a) \in 0..a
    BY <1>2, <1>3 DEF CommissionOf, RoundHalfUp, BpsPerUnit
<1> QED
    BY <1>4 DEF NetOf

-----------------------------------------------------------------------------
(* The inductive invariant holds initially.                                *)

LEMMA IdleType == Idle \in Request /\ Idle.pc = "idle"
BY DEF Idle, Request, Pc

LEMMA EmptyEscrowType ==
    ASSUME NEW s \in {"NONE", "PENDING"}
    PROVE  EmptyEscrow(s) \in EscrowRow
BY DEF EmptyEscrow, EscrowRow, EscrowStatus

LEMMA InitInv == Init => Inv
<1> SUFFICES ASSUME Init PROVE Inv
    OBVIOUS
<1> USE ConstantsAssumption
<1>1. job.status = "PENDING" /\ job.pro = Nobody /\ job.total > 0 /\ job \in JobRow
    BY DEF Init, JobStatus, JobRow
<1>2. escrow \in EscrowRow
    BY EmptyEscrowType DEF Init
<1>3. escrow.status = "NONE" /\ escrow.amount = 0 /\ escrow.net = 0
    BY DEF Init, EmptyEscrow
<1>4. req \in [Requests -> Request] /\ \A r \in Requests : req[r].pc = "idle"
    BY IdleType DEF Init
<1>5. orders \in [ChangeOrders -> OrderRow]
    BY DEF Init, OrderRow
<1>6. TypeOK
    BY <1>1, <1>2, <1>4, <1>5 DEF Init, TypeOK
<1>7. \A r \in Requests : InFlight(r)
    BY <1>4 DEF InFlight, At
<1> QED
    BY <1>1, <1>3, <1>6, <1>7 DEF Inv, RowsInv, Init, ClosedIsReleased, ReleasedWasFinished,
       AssignedJobHasEscrow, SplitIsExact, Funded

-----------------------------------------------------------------------------
(* Every step preserves the type invariant.                                *)

\* A new request in slot r keeps the type of req.
LEMMA BeginType ==
    ASSUME TypeOK, NEW r \in Requests, NEW request \in Request, Begin(r, request)
    PROVE  req' \in [Requests -> Request]
BY DEF TypeOK, Begin

LEMMA ReplyType ==
    ASSUME TypeOK, NEW r \in Requests, Reply(r)
    PROVE  req' \in [Requests -> Request]
BY IdleType DEF TypeOK, Reply

LEMMA GotoType ==
    ASSUME TypeOK, NEW r \in Requests, NEW step \in Pc, Goto(r, step)
    PROVE  req' \in [Requests -> Request]
BY DEF TypeOK, Goto, Request

\* Closing a job and releasing its escrow keeps both rows' types.
LEMMA CloseType ==
    ASSUME TypeOK, CloseAndRelease
    PROVE  job' \in JobRow /\ escrow' \in EscrowRow
<1>1. job' \in JobRow
    BY DEF TypeOK, CloseAndRelease, JobRow, JobStatus
<1>2. CASE escrow.status = "HELD"
  <2> DEFINE payout == IF ManualMode THEN "PENDING" ELSE escrow.payout
  <2>1. payout \in {"NOT_APPLICABLE", "PENDING"}
    BY DEF TypeOK, EscrowRow
  <2>2. escrow' = [escrow EXCEPT !.status = "RELEASED", !.bullJob = FALSE, !.payout = payout]
    BY <1>2 DEF CloseAndRelease, Released
  <2> QED
    BY <1>1, <2>1, <2>2 DEF TypeOK, EscrowRow, EscrowStatus
<1>3. CASE escrow.status # "HELD"
    BY <1>1, <1>3 DEF TypeOK, CloseAndRelease, Released, EscrowRow
<1> QED
    BY <1>2, <1>3

LEMMA ContinueType ==
    ASSUME TypeOK, NEW r \in Requests, InFlight(r), Continue(r)
    PROVE  TypeOK'
<1> USE ConstantsAssumption
<1>0. req[r] \in Request
    BY DEF TypeOK
<1>1. CASE AcceptTx(r)
  <2>1. req' \in [Requests -> Request]
    BY <1>1, ReplyType DEF AcceptTx
  <2>2. job' \in JobRow
    BY <1>1 DEF AcceptTx, TypeOK, JobRow, JobStatus, InFlight
  <2>3. escrow' \in EscrowRow
    BY <1>1, EmptyEscrowType DEF AcceptTx, TypeOK
  <2> QED
    BY <1>1, <2>1, <2>2, <2>3 DEF TypeOK, AcceptTx, rows, background, provider
<1>2. CASE WriteStatus(r)
  <2>1. req' \in [Requests -> Request]
    BY <1>2, ReplyType DEF WriteStatus
  <2>2. job' \in JobRow
    BY <1>2 DEF WriteStatus, TypeOK, JobRow, JobStatus
  <2> QED
    BY <1>2, <2>1, <2>2 DEF TypeOK, WriteStatus, rows, background, provider
<1>3. CASE WriteCompleted(r)
  <2>1. req' \in [Requests -> Request]
    BY <1>3, GotoType DEF WriteCompleted, Pc
  <2>2. job' \in JobRow
    BY <1>3 DEF WriteCompleted, TypeOK, JobRow, JobStatus
  <2> QED
    BY <1>3, <2>1, <2>2 DEF TypeOK, WriteCompleted, rows, background, provider
<1>4. CASE Schedule(r)
  <2>1. req' \in [Requests -> Request]
    BY <1>4, GotoType DEF Schedule, Pc
  <2> QED
    BY <1>4, <2>1 DEF TypeOK, Schedule, rows, background, provider
<1>5. CASE SetBullJob(r)
  <2>1. req' \in [Requests -> Request]
    BY <1>5, ReplyType DEF SetBullJob
  <2>2. escrow' \in EscrowRow
    BY <1>5 DEF SetBullJob, TypeOK, EscrowRow
  <2> QED
    BY <1>5, <2>1, <2>2 DEF TypeOK, SetBullJob, rows, background, provider
<1>6. CASE FindTimer(r)
  <2>1. req' \in [Requests -> Request]
    BY <1>6, GotoType DEF FindTimer, Pc
  <2> QED
    BY <1>6, <2>1 DEF TypeOK, FindTimer, rows, background, provider
<1>7. CASE RemoveTimer(r)
  <2>1. req' \in [Requests -> Request]
    BY <1>7, ReplyType, GotoType DEF RemoveTimer, Pc
  <2> QED
    BY <1>7, <2>1 DEF TypeOK, RemoveTimer, rows, background, provider
<1>8. CASE ClearBullJob(r)
  <2>1. req' \in [Requests -> Request]
    BY <1>8, GotoType DEF ClearBullJob, Pc
  <2>2. escrow' \in EscrowRow
    BY <1>8 DEF ClearBullJob, TypeOK, EscrowRow
  <2> QED
    BY <1>8, <2>1, <2>2 DEF TypeOK, ClearBullJob, rows, background, provider
<1>9. CASE ApproveTx(r)
  <2>1. req' \in [Requests -> Request]
    BY <1>9, ReplyType DEF ApproveTx
  <2>2. job' \in JobRow /\ escrow' \in EscrowRow
    BY <1>9, CloseType DEF ApproveTx, TypeOK
  <2> QED
    BY <1>9, <2>1, <2>2 DEF TypeOK, ApproveTx, rows, background, provider
<1>10. CASE SetSession(r)
  <2>1. req' \in [Requests -> Request]
    BY <1>10, ReplyType DEF SetSession
  <2>2. escrow' \in EscrowRow
    BY <1>10 DEF SetSession, TypeOK, EscrowRow
  <2>3. links' \subseteq Nat
    BY <1>10, <1>0 DEF SetSession, TypeOK, Request
  <2> QED
    BY <1>10, <2>1, <2>2, <2>3 DEF TypeOK, SetSession, rows, background, provider
<1>11. CASE FundRead(r)
  <2>1. req' \in [Requests -> Request]
    BY <1>11, ReplyType, <1>0, HeldAmountNat DEF FundRead, TypeOK, Request, JobRow, Pc
  <2> QED
    BY <1>11, <2>1 DEF TypeOK, FundRead, rows, background, provider
<1>12. CASE FundTx(r)
  <2>1. req' \in [Requests -> Request]
    BY <1>12, ReplyType DEF FundTx
  <2>2. /\ req[r].amt \in Nat /\ req[r].tot \in Nat /\ req[r].pay \in Payments
        /\ CommissionOf(req[r].amt) \in Nat /\ NetOf(req[r].amt) \in Nat
    BY <1>12, <1>0, CommissionBounded DEF FundTx, At, InFlight, Request
  <2>3. escrow' \in EscrowRow
    BY <1>12, <2>2 DEF FundTx, TypeOK, EscrowRow, EscrowStatus
  <2> QED
    BY <1>12, <2>1, <2>3 DEF TypeOK, FundTx, rows, background, provider
<1>13. CASE CreateOrder(r)
  <2>1. req' \in [Requests -> Request]
    BY <1>13, ReplyType DEF CreateOrder
  <2>2. orders' \in [ChangeOrders -> OrderRow]
    BY <1>13, <1>0 DEF CreateOrder, TypeOK, Request, OrderRow
  <2> QED
    BY <1>13, <2>1, <2>2 DEF TypeOK, CreateOrder, rows, background, provider
<1>14. CASE ResolveOrder(r)
  <2>1. req' \in [Requests -> Request]
    BY <1>14, ReplyType DEF ResolveOrder
  <2>2. orders' \in [ChangeOrders -> OrderRow]
    BY <1>14 DEF ResolveOrder, TypeOK, OrderRow
  <2>3. job' \in JobRow
    BY <1>14, <1>0 DEF ResolveOrder, TypeOK, Request, JobRow
  <2> QED
    BY <1>14, <2>1, <2>2, <2>3 DEF TypeOK, ResolveOrder, rows, background, provider
<1> QED
    BY <1>1, <1>2, <1>3, <1>4, <1>5, <1>6, <1>7, <1>8, <1>9, <1>10, <1>11, <1>12, <1>13, <1>14 DEF Continue

LEMMA ArriveType ==
    ASSUME TypeOK, NEW r \in Requests, Arrive(r)
    PROVE  TypeOK'
<1> USE ConstantsAssumption
<1> DEFINE Asked(step) == [Idle EXCEPT !.pc = step]
<1>1. \A step \in Pc : Asked(step) \in Request
    BY IdleType DEF Request
<1>2. \A step \in Pc, p \in Pros : [Idle EXCEPT !.pc = step, !.pro = p] \in Request
    BY IdleType DEF Request
<1>3. \A step \in Pc, p \in Payments : [Idle EXCEPT !.pc = step, !.pay = p] \in Request
    BY IdleType DEF Request
<1>4. \A step \in Pc, a \in Nat : [Idle EXCEPT !.pc = step, !.amt = a] \in Request
    BY IdleType DEF Request
<1>5. \A step \in Pc, c \in ChangeOrders, t \in Nat :
          [Idle EXCEPT !.pc = step, !.co = c, !.tot = t] \in Request
    BY IdleType DEF Request
<1>6. job.total \in Nat /\ rate \in Nat /\ \A c \in ChangeOrders : orders[c].delta \in Nat
    BY DEF TypeOK, JobRow, OrderRow
<1>7. req' \in [Requests -> Request]
  <2>1. CASE \E p \in Pros : BeginAccept(r, p)
    BY <2>1, <1>2, BeginType DEF BeginAccept, Pc
  <2>2. CASE BeginStart(r) \/ BeginCancel(r) \/ BeginComplete(r) \/ BeginApprove(r)
    BY <2>2, <1>1, BeginType DEF BeginStart, BeginCancel, BeginComplete, BeginApprove, Pc
  <2>3. CASE BeginCheckout(r)
    BY <2>3, <1>4, <1>6, HeldAmountNat, BeginType DEF BeginCheckout, Pc
  <2>4. CASE \E p \in Payments : BeginFund(r, p)
    BY <2>4, <1>3, BeginType DEF BeginFund, Pc
  <2>5. CASE \E c \in ChangeOrders : \E d \in Deltas : BeginPropose(r, c, d)
    BY <2>5, <1>5, BeginType DEF BeginPropose, Pc
  <2>6. CASE \E c \in ChangeOrders : \E step \in {"approveOrder", "rejectOrder"} :
                 BeginResolve(r, c, step)
    <3>1. PICK c \in ChangeOrders, step \in {"approveOrder", "rejectOrder"} :
              BeginResolve(r, c, step)
      BY <2>6
    <3>2. step \in Pc /\ job.total + orders[c].delta \in Nat
      BY <1>6 DEF Pc
    <3> QED
      BY <3>1, <3>2, <1>5, BeginType DEF BeginResolve
  <2> QED
    BY <2>1, <2>2, <2>3, <2>4, <2>5, <2>6 DEF Arrive
<1>8. UNCHANGED <<job, escrow, orders, rate, timer, worker, links, charged>>
    BY DEF Arrive, BeginAccept, BeginStart, BeginCancel, BeginComplete, BeginApprove,
       BeginCheckout, BeginFund, BeginPropose, BeginResolve, rows, background, provider
<1> QED
    BY <1>7, <1>8 DEF TypeOK

\* The steps that belong to no request.
Elsewhere ==
    \/ \E p \in Payments : ClientPays(p)
    \/ SyncRate \/ Silent \/ SilentFails \/ WorkerCrash

LEMMA ElsewhereType ==
    ASSUME TypeOK, Elsewhere
    PROVE  TypeOK'
<1>1. CASE \E p \in Payments : ClientPays(p)
    BY <1>1 DEF ClientPays, TypeOK, rows, background
<1>2. CASE SyncRate
    BY <1>2 DEF SyncRate, TypeOK, rows, background, provider
<1>3. CASE TimerFires \/ SilentRead \/ SilentDone \/ SilentFails \/ WorkerCrash
    BY <1>3 DEF TimerFires, SilentRead, SilentDone, SilentFails, WorkerCrash, TypeOK,
       rows, provider
<1>4. CASE SilentCommit
    BY <1>4, CloseType DEF SilentCommit, TypeOK, provider
<1> QED
    BY <1>1, <1>2, <1>3, <1>4 DEF Elsewhere, Silent

-----------------------------------------------------------------------------
(* What no step takes back, and the invariant of the two rows.             *)

\* The facts a request or the worker may have read and still rely on.
Stable ==
    /\ job.pro # Nobody => job'.pro = job.pro
    /\ job.completed => job'.completed
    /\ Funded => /\ Funded'
                 /\ escrow'.amount = escrow.amount /\ escrow'.net = escrow.net
                 /\ escrow'.commission = escrow.commission
                 /\ escrow'.jobAmount = escrow.jobAmount

LEMMA RowsUnchanged ==
    ASSUME RowsInv, UNCHANGED <<job, escrow>>
    PROVE  RowsInv' /\ Stable
BY DEF RowsInv, Stable, ClosedIsReleased, ReleasedWasFinished, AssignedJobHasEscrow,
       SplitIsExact, Funded

LEMMA AcceptRows ==
    ASSUME Inv, NEW r \in Requests, AcceptTx(r)
    PROVE  RowsInv' /\ Stable
<1> USE ConstantsAssumption
<1>1. CASE job.status = "PENDING"
  <2>1. job.pro = Nobody /\ escrow.status = "NONE" /\ req[r].pro \in Pros
    BY <1>1 DEF Inv, RowsInv, AssignedJobHasEscrow, InFlight, AcceptTx, At
  <2>2. escrow' = EmptyEscrow("PENDING")
    BY <1>1, <2>1 DEF AcceptTx
  <2>3. escrow'.status = "PENDING"
    BY <2>2 DEF EmptyEscrow
  <2>4. /\ job'.status = "ACCEPTED" /\ job'.pro = req[r].pro /\ job'.total = job.total
        /\ job'.completed = job.completed
    BY <1>1 DEF AcceptTx, Inv, TypeOK, JobRow
  <2> QED
    BY <2>1, <2>3, <2>4 DEF Inv, RowsInv, Stable, ClosedIsReleased, ReleasedWasFinished,
       AssignedJobHasEscrow, SplitIsExact, Funded
<1>2. CASE job.status # "PENDING"
    BY <1>2, RowsUnchanged DEF AcceptTx, Inv
<1> QED
    BY <1>1, <1>2

\* A write by id of a status other than CLOSED.
LEMMA StatusRows ==
    ASSUME Inv, NEW r \in Requests, WriteStatus(r) \/ WriteCompleted(r)
    PROVE  RowsInv' /\ Stable
<1>1. escrow' = escrow /\ job'.pro = job.pro /\ job'.total = job.total
      /\ (job.completed => job'.completed)
    BY DEF Inv, TypeOK, JobRow, WriteStatus, WriteCompleted
<1>2. \/ job'.status = "CANCELLED"
      \/ job'.status = "IN_PROGRESS" /\ job.pro # Nobody
      \/ job'.status = "COMPLETED" /\ job'.completed /\ job.pro # Nobody
    BY DEF Inv, TypeOK, JobRow, InFlight, At, WriteStatus, WriteCompleted
<1> QED
    BY <1>1, <1>2 DEF Inv, RowsInv, Stable, ClosedIsReleased, ReleasedWasFinished,
       AssignedJobHasEscrow, SplitIsExact, Funded

\* Writes of the timer's id and of the checkout session touch no money.
LEMMA ReferenceRows ==
    ASSUME Inv, NEW r \in Requests, SetBullJob(r) \/ ClearBullJob(r) \/ SetSession(r)
    PROVE  RowsInv' /\ Stable
<1>1. /\ job' = job /\ escrow'.status = escrow.status /\ escrow'.amount = escrow.amount
      /\ escrow'.commission = escrow.commission /\ escrow'.net = escrow.net
      /\ escrow'.jobAmount = escrow.jobAmount
    BY DEF Inv, TypeOK, EscrowRow, SetBullJob, ClearBullJob, SetSession
<1> QED
    BY <1>1 DEF Inv, RowsInv, Stable, ClosedIsReleased, ReleasedWasFinished,
       AssignedJobHasEscrow, SplitIsExact, Funded

LEMMA CloseRows ==
    ASSUME Inv, CloseAndRelease, job.completed
    PROVE  RowsInv' /\ Stable
<1>1. /\ escrow'.status = "RELEASED" /\ escrow'.amount = escrow.amount
      /\ escrow'.commission = escrow.commission /\ escrow'.net = escrow.net
      /\ escrow'.jobAmount = escrow.jobAmount
    BY DEF Inv, TypeOK, EscrowRow, CloseAndRelease, Released, Funded
<1>2. /\ job'.status = "CLOSED" /\ job'.pro = job.pro /\ job'.total = job.total
      /\ job'.completed
    BY DEF Inv, TypeOK, JobRow, CloseAndRelease
<1>3. Funded /\ job.pro # Nobody /\ job.pro \in Pros
    BY DEF Inv, TypeOK, JobRow, RowsInv, AssignedJobHasEscrow, Funded, CloseAndRelease
<1> QED
    BY <1>1, <1>2, <1>3 DEF Inv, RowsInv, Stable, ClosedIsReleased, ReleasedWasFinished,
       AssignedJobHasEscrow, SplitIsExact, Funded

LEMMA FundRows ==
    ASSUME Inv, NEW r \in Requests, FundTx(r)
    PROVE  RowsInv' /\ Stable
<1>1. CASE escrow.status = "PENDING"
  <2> DEFINE a == req[r].amt
  <2>1. a \in Nat
    BY DEF Inv, TypeOK, Request
  <2>2. /\ escrow'.status = "HELD" /\ escrow'.amount = a /\ escrow'.jobAmount = req[r].tot
        /\ escrow'.commission = CommissionOf(a) /\ escrow'.net = NetOf(a)
    BY <1>1 DEF FundTx, Inv, TypeOK, EscrowRow
  <2>3. req[r].tot > 0 /\ \E q \in Rates : a = HeldAmount(req[r].tot, q)
    BY DEF Inv, InFlight, FundTx, At
  <2>4. CommissionOf(a) + NetOf(a) = a
    BY <2>1, CommissionBounded
  <2>5. job' = job /\ job.pro # Nobody
    BY <1>1 DEF FundTx, Inv, RowsInv, AssignedJobHasEscrow
  <2> QED
    BY <1>1, <2>2, <2>3, <2>4, <2>5 DEF Inv, RowsInv, Stable, ClosedIsReleased,
       ReleasedWasFinished, AssignedJobHasEscrow, SplitIsExact, Funded
<1>2. CASE escrow.status # "PENDING"
    BY <1>2, RowsUnchanged DEF FundTx, Inv
<1> QED
    BY <1>1, <1>2

LEMMA ResolveRows ==
    ASSUME Inv, NEW r \in Requests, ResolveOrder(r)
    PROVE  RowsInv' /\ Stable
<1>1. /\ escrow' = escrow /\ job'.status = job.status /\ job'.pro = job.pro
      /\ job'.completed = job.completed /\ job'.total > 0
    BY DEF Inv, TypeOK, JobRow, RowsInv, InFlight, At, ResolveOrder
<1> QED
    BY <1>1 DEF Inv, RowsInv, Stable, ClosedIsReleased, ReleasedWasFinished,
       AssignedJobHasEscrow, SplitIsExact, Funded

-----------------------------------------------------------------------------
(* Requests in flight.                                                     *)

\* Only the slot that moves can lose its facts; the others hold stable ones.
LEMMA OthersInFlight ==
    ASSUME Inv, Stable, NEW r \in Requests, NEW request,
           req' = [req EXCEPT ![r] = request], InFlight(r)'
    PROVE  \A s \in Requests : InFlight(s)'
<1> SUFFICES ASSUME NEW s \in Requests, s # r PROVE InFlight(s)'
    OBVIOUS
<1>1. req'[s] = req[s] /\ InFlight(s)
    BY DEF Inv, TypeOK
<1> QED
    BY <1>1 DEF InFlight, At, Stable

LEMMA ReplyInFlight ==
    ASSUME Inv, Stable, NEW r \in Requests, Reply(r)
    PROVE  \A s \in Requests : InFlight(s)'
<1>1. req'[r] = Idle /\ req' = [req EXCEPT ![r] = Idle]
    BY DEF Inv, TypeOK, Reply
<1>2. InFlight(r)'
    BY <1>1, IdleType DEF InFlight, At
<1> QED
    BY <1>1, <1>2, OthersInFlight

LEMMA GotoInFlight ==
    ASSUME Inv, Stable, NEW r \in Requests,
           NEW step \in {"schedule", "setBullJob", "approveRemove", "approveClear", "approveTx"},
           Goto(r, step)
    PROVE  \A s \in Requests : InFlight(s)'
<1>1. /\ req' = [req EXCEPT ![r] = [req[r] EXCEPT !.pc = step]]
      /\ req'[r].pc = step
    BY DEF Inv, TypeOK, Request, Goto
<1>2. InFlight(r)'
    BY <1>1 DEF InFlight, At
<1> QED
    BY <1>1, <1>2, OthersInFlight

LEMMA ContinueInFlight ==
    ASSUME Inv, Stable, NEW r \in Requests, Continue(r)
    PROVE  \A s \in Requests : InFlight(s)'
<1>1. CASE Reply(r)
    BY <1>1, ReplyInFlight
<1>2. CASE \E step \in {"schedule", "setBullJob", "approveRemove", "approveClear",
                       "approveTx"} : Goto(r, step)
    BY <1>2, GotoInFlight
<1>3. CASE FundRead(r) /\ escrow.status = "PENDING"
  <2> DEFINE request == [req[r] EXCEPT !.pc = "fundTx", !.tot = job.total,
                                       !.amt = HeldAmount(job.total, rate)]
  <2>1. req[r] \in Request /\ rate \in Rates /\ job.total > 0
    BY DEF Inv, TypeOK, RowsInv
  <2>2. req' = [req EXCEPT ![r] = request] /\ req'[r] = request
    BY <1>3 DEF FundRead, Reply, Inv, TypeOK
  <2>3. /\ request.pc = "fundTx" /\ request.tot = job.total /\ request.pay = req[r].pay
        /\ request.amt = HeldAmount(job.total, rate)
    BY <2>1 DEF Request
  <2>4. req[r].pay \in Payments /\ job'.pro # Nobody
    BY <1>3 DEF FundRead, At, Inv, InFlight, Stable, rows
  <2>5. job' = job
    BY <1>3 DEF FundRead, rows
  <2>6. InFlight(r)'
    BY <2>1, <2>2, <2>3, <2>4, <2>5 DEF InFlight, At
  <2> QED
    BY <2>2, <2>6, OthersInFlight
<1>4. \/ Reply(r)
      \/ \E step \in {"schedule", "setBullJob", "approveRemove", "approveClear",
                     "approveTx"} : Goto(r, step)
      \/ FundRead(r) /\ escrow.status = "PENDING"
    BY DEF Continue, AcceptTx, WriteStatus, WriteCompleted, Schedule, SetBullJob, FindTimer,
       RemoveTimer, ClearBullJob, ApproveTx, SetSession, FundRead, FundTx, CreateOrder,
       ResolveOrder
<1> QED
    BY <1>1, <1>2, <1>3, <1>4

LEMMA ArriveInFlight ==
    ASSUME Inv, Stable, NEW r \in Requests, Arrive(r)
    PROVE  \A s \in Requests : InFlight(s)'
<1> USE ConstantsAssumption
<1>1. job' = job
    BY DEF Arrive, BeginAccept, BeginStart, BeginCancel, BeginComplete, BeginApprove,
       BeginCheckout, BeginFund, BeginPropose, BeginResolve, rows
<1>2. \A d \in Deltas : d \in Nat /\ d > 0
    OBVIOUS
<1>3. \A c \in ChangeOrders :
          job.total + orders[c].delta \in Nat /\ job.total + orders[c].delta > 0
  <2>1. job.total \in Nat /\ job.total > 0 /\ \A c \in ChangeOrders : orders[c].delta \in Nat
    BY DEF Inv, RowsInv, TypeOK, JobRow, OrderRow
  <2> QED
    BY <2>1
<1> SUFFICES ASSUME NEW request, Begin(r, request),
                    \/ \E p \in Pros : request = [Idle EXCEPT !.pc = "accept", !.pro = p]
                    \/ \E step \in {"start", "complete"} :
                          job.pro # Nobody /\ request = [Idle EXCEPT !.pc = step]
                    \/ \E step \in {"cancel", "approve"} : request = [Idle EXCEPT !.pc = step]
                    \/ \E a : request = [Idle EXCEPT !.pc = "checkout", !.amt = a]
                    \/ \E p \in Payments :
                          job.pro # Nobody /\ request = [Idle EXCEPT !.pc = "fund", !.pay = p]
                    \/ \E c \in ChangeOrders, t \in Nat,
                          step \in {"createOrder", "approveOrder", "rejectOrder"} :
                          t > 0 /\ request = [Idle EXCEPT !.pc = step, !.co = c, !.tot = t]
             PROVE  InFlight(r)'
  <2>1. job.status \notin {"PENDING", "CANCELLED"} => job.pro # Nobody
    BY DEF Inv, RowsInv, AssignedJobHasEscrow
  <2>2. escrow.status = "PENDING" => job.pro # Nobody
    BY DEF Inv, RowsInv, AssignedJobHasEscrow
  <2>4. \A request : Begin(r, request) => req' = [req EXCEPT ![r] = request]
    BY DEF Begin
  <2>5. CASE \E p \in Pros : BeginAccept(r, p)
    BY <2>5, <2>4, OthersInFlight DEF BeginAccept
  <2>6. CASE BeginStart(r) \/ BeginCancel(r) \/ BeginComplete(r) \/ BeginApprove(r)
    BY <2>6, <2>1, <2>4, OthersInFlight DEF BeginStart, BeginCancel, BeginComplete, BeginApprove
  <2>7. CASE BeginCheckout(r)
    BY <2>7, <2>4, OthersInFlight DEF BeginCheckout
  <2>8. CASE \E p \in Payments : BeginFund(r, p)
    BY <2>8, <2>2, <2>4, OthersInFlight DEF BeginFund
  <2>9. CASE \E c \in ChangeOrders : \E d \in Deltas : BeginPropose(r, c, d)
    <3>1. PICK c \in ChangeOrders, d \in Deltas : BeginPropose(r, c, d)
      BY <2>9
    <3> DEFINE request == [Idle EXCEPT !.pc = "createOrder", !.co = c, !.tot = d]
    <3>2. d \in Nat /\ d > 0
      BY <1>2
    <3>3. Begin(r, request)
      BY <3>1 DEF BeginPropose
    <3>4. InFlight(r)'
      BY <3>2, <3>3
    <3> HIDE DEF request
    <3> QED
      BY <3>3, <3>4, <2>4, OthersInFlight
  <2>10. CASE \E c \in ChangeOrders : \E step \in {"approveOrder", "rejectOrder"} :
                 BeginResolve(r, c, step)
    <3>1. PICK c \in ChangeOrders, step \in {"approveOrder", "rejectOrder"} :
              BeginResolve(r, c, step)
      BY <2>10
    <3> DEFINE total == job.total + orders[c].delta
               request == [Idle EXCEPT !.pc = step, !.co = c, !.tot = total]
    <3>2. total \in Nat /\ total > 0
      BY <1>3
    <3>3. Begin(r, request)
      BY <3>1 DEF BeginResolve
    <3> HIDE DEF total
    <3>4. InFlight(r)'
      BY <3>2, <3>3
    <3> HIDE DEF request
    <3> QED
      BY <3>3, <3>4, <2>4, OthersInFlight
  <2> QED
    BY <2>5, <2>6, <2>7, <2>8, <2>9, <2>10 DEF Arrive
<1>4. req'[r] = request
    BY DEF Begin, Inv, TypeOK
<1>5. Idle \in Request
    BY IdleType
<1> QED
    BY <1>1, <1>4, <1>5 DEF InFlight, At, Request

-----------------------------------------------------------------------------
(* The invariant is inductive.                                             *)

LEMMA NextRows ==
    ASSUME Inv, Next
    PROVE  RowsInv' /\ Stable
<1>1. ASSUME NEW r \in Requests, Continue(r) PROVE RowsInv' /\ Stable
  <2>1. CASE AcceptTx(r)
    BY <2>1, AcceptRows
  <2>2. CASE WriteStatus(r) \/ WriteCompleted(r)
    BY <2>2, StatusRows
  <2>3. CASE SetBullJob(r) \/ ClearBullJob(r) \/ SetSession(r)
    BY <2>3, ReferenceRows
  <2>4. CASE ApproveTx(r)
    <3>1. CASE job.status = "COMPLETED" /\ CloseAndRelease
      BY <3>1, CloseRows DEF Inv, RowsInv
    <3>2. CASE UNCHANGED <<job, escrow>>
      BY <3>2, RowsUnchanged DEF Inv
    <3> QED
      BY <2>4, <3>1, <3>2 DEF ApproveTx
  <2>5. CASE FundTx(r)
    BY <2>5, FundRows
  <2>6. CASE ResolveOrder(r)
    BY <2>6, ResolveRows
  <2>7. CASE Schedule(r) \/ FindTimer(r) \/ RemoveTimer(r) \/ FundRead(r) \/ CreateOrder(r)
    BY <2>7, RowsUnchanged DEF Inv, Schedule, FindTimer, RemoveTimer, FundRead, CreateOrder, rows
  <2> QED
    BY <1>1, <2>1, <2>2, <2>3, <2>4, <2>5, <2>6, <2>7 DEF Continue
<1>2. ASSUME NEW r \in Requests, Arrive(r) \/ Crash(r) PROVE RowsInv' /\ Stable
    BY <1>2, RowsUnchanged DEF Inv, Arrive, BeginAccept, BeginStart, BeginCancel,
       BeginComplete, BeginApprove, BeginCheckout, BeginFund, BeginPropose, BeginResolve,
       Crash, rows
<1>3. CASE SilentCommit
    BY <1>3, CloseRows DEF Inv, SilentCommit
<1>4. CASE Elsewhere /\ ~SilentCommit
    BY <1>4, RowsUnchanged DEF Inv, Elsewhere, Silent, ClientPays, SyncRate, TimerFires,
       SilentRead, SilentDone, SilentFails, WorkerCrash, rows
<1> QED
    BY <1>1, <1>2, <1>3, <1>4 DEF Next, Healthy, Elsewhere

LEMMA NextInv ==
    ASSUME Inv, [Next]_vars
    PROVE  Inv'
<1>1. CASE UNCHANGED vars
    BY <1>1 DEF vars, Inv, TypeOK, RowsInv, ClosedIsReleased, ReleasedWasFinished,
       AssignedJobHasEscrow, SplitIsExact, Funded, InFlight, At
<1>2. CASE Next
  <2>1. RowsInv' /\ Stable
    BY <1>2, NextRows
  <2>2. TypeOK' /\ \A s \in Requests : InFlight(s)'
    <3>1. CASE \E r \in Requests : Arrive(r)
      BY <3>1, <2>1, ArriveType, ArriveInFlight DEF Inv
    <3>2. CASE \E r \in Requests : Continue(r)
      BY <3>2, <2>1, ContinueType, ContinueInFlight DEF Inv
    <3>3. CASE \E r \in Requests : Crash(r)
      <4>1. PICK r \in Requests : Crash(r)
        BY <3>3
      <4>2. TypeOK'
        BY <4>1, ReplyType DEF Crash, Inv, TypeOK, rows, background, provider
      <4> QED
        BY <4>1, <4>2, <2>1, ReplyInFlight DEF Crash
    <3>4. CASE Elsewhere
      <4>1. TypeOK'
        BY <3>4, ElsewhereType DEF Inv
      <4>2. req' = req
        BY <3>4 DEF Elsewhere, Silent, ClientPays, SyncRate, TimerFires, SilentRead,
           SilentCommit, SilentDone, SilentFails, WorkerCrash
      <4> QED
        BY <4>1, <4>2, <2>1 DEF Inv, InFlight, At, Stable
    <3> QED
      BY <1>2, <3>1, <3>2, <3>3, <3>4 DEF Next, Healthy, Elsewhere
  <2>3. worker' = "commit" => job'.completed /\ Funded'
    <3>1. CASE worker' = worker
      BY <3>1, <2>1 DEF Inv, Stable
    <3>2. CASE SilentRead
      BY <3>2, <2>1 DEF SilentRead, Inv, RowsInv, Stable, Funded
    <3>3. CASE worker' # "commit"
      BY <3>3
    <3>4. worker' = worker \/ SilentRead \/ worker' # "commit"
      <4>1. ASSUME NEW r \in Requests, Arrive(r) \/ Continue(r) \/ Crash(r)
            PROVE  worker' = worker
        BY <4>1 DEF Arrive, BeginAccept, BeginStart, BeginCancel, BeginComplete,
           BeginApprove, BeginCheckout, BeginFund, BeginPropose, BeginResolve, Continue,
           AcceptTx, WriteStatus, WriteCompleted, Schedule, SetBullJob, FindTimer,
           RemoveTimer, ClearBullJob, ApproveTx, SetSession, FundRead, FundTx, CreateOrder,
           ResolveOrder, Crash, background
      <4>2. CASE Elsewhere
        BY <4>2 DEF Elsewhere, Silent, ClientPays, SyncRate, TimerFires, SilentRead,
           SilentCommit, SilentDone, SilentFails, WorkerCrash, background
      <4> QED
        BY <1>2, <4>1, <4>2 DEF Next, Healthy, Elsewhere
    <3> QED
      BY <3>1, <3>2, <3>3, <3>4
  <2> QED
    BY <2>1, <2>2, <2>3 DEF Inv
<1> QED
    BY <1>1, <1>2

\* The inductive invariant holds in every reachable state, whatever the number
\* of requests, payments and change orders racing on the job.
THEOREM Invariant == Spec => []Inv
<1> QED
    BY InitInv, NextInv, PTL DEF Spec

\* Every row, queue entry and request keeps its shape.
THEOREM TypeCorrect == Spec => []TypeOK
<1>1. Inv => TypeOK
    BY DEF Inv
<1> QED
    BY <1>1, Invariant, PTL

\* A CLOSED job's escrow is RELEASED, and RELEASED money was funded and worked for.
THEOREM ReleaseIsSafe == Spec => []ReleaseIsBacked
<1>1. Inv => ReleaseIsBacked
    BY DEF Inv, RowsInv, ReleaseIsBacked
<1> QED
    BY <1>1, Invariant, PTL

\* A job has a professional exactly when it has an escrow row.
THEOREM AssignmentIsAtomic == Spec => []AssignedJobHasEscrow
<1>1. Inv => AssignedJobHasEscrow
    BY DEF Inv, RowsInv
<1> QED
    BY <1>1, Invariant, PTL

\* The split of the held amount is exact at a rate that was in force.
THEOREM SplitCorrect == Spec => []SplitIsExact
<1>1. Inv => SplitIsExact
    BY DEF Inv, RowsInv
<1> QED
    BY <1>1, Invariant, PTL

-----------------------------------------------------------------------------
(* Action properties.                                                      *)

\* The professional who first accepted keeps the job, whoever raced with them.
THEOREM ProfessionalKept == Spec => ProfessionalIsFinal
<1>1. Inv /\ [Next]_vars => [job.pro # Nobody => job'.pro = job.pro]_vars
    BY NextRows DEF Stable
<1> QED
    BY <1>1, Invariant, PTL DEF Spec, ProfessionalIsFinal

\* Rate syncs, change orders, further payments and checkouts leave the snapshot
\* of a funded escrow alone.
THEOREM SettlementKept == Spec => SettlementFrozen
<1> DEFINE Kept == Funded => /\ escrow'.amount = escrow.amount
                             /\ escrow'.commission = escrow.commission
                             /\ escrow'.net = escrow.net
                             /\ escrow'.jobAmount = escrow.jobAmount
<1>1. Inv /\ [Next]_vars => [Kept]_vars
    BY NextRows DEF Stable
<1> QED
    BY <1>1, Invariant, PTL DEF Spec, SettlementFrozen

-----------------------------------------------------------------------------
(* JobEscrow implements EscrowLedger.                                      *)

\* A step of the abstract escrow, or one it does not see.
LedgerStep == [Ledger!Next]_(Ledger!ledger)

LEMMA LedgerStutters ==
    ASSUME escrow'.status = escrow.status, escrow'.amount = escrow.amount,
           escrow'.net = escrow.net, job'.pro = job.pro
    PROVE  LedgerStep
BY DEF LedgerStep, Ledger!ledger

LEMMA AcceptOpens ==
    ASSUME Inv, NEW r \in Requests, AcceptTx(r)
    PROVE  LedgerStep
<1>1. CASE job.status = "PENDING"
  <2>1. escrow.status = "NONE" /\ req[r].pro \in Pros
    BY <1>1 DEF Inv, RowsInv, AssignedJobHasEscrow, InFlight, AcceptTx, At
  <2>2. escrow' = EmptyEscrow("PENDING") /\ job'.pro = req[r].pro
    BY <1>1, <2>1 DEF AcceptTx, Inv, TypeOK, JobRow
  <2>3. escrow.amount = 0 /\ escrow.net = 0
    BY <2>1 DEF Inv, RowsInv
  <2>4. Ledger!Open(req[r].pro)
    BY <2>1, <2>2, <2>3 DEF Ledger!Open, EmptyEscrow
  <2> QED
    BY <2>1, <2>4 DEF LedgerStep, Ledger!Next
<1>2. CASE job.status # "PENDING"
    BY <1>2, LedgerStutters DEF AcceptTx
<1> QED
    BY <1>1, <1>2

LEMMA FundingHolds ==
    ASSUME Inv, NEW r \in Requests, FundTx(r)
    PROVE  LedgerStep
<1>1. CASE escrow.status = "PENDING"
  <2>1. req[r].amt \in Nat
    BY DEF Inv, TypeOK, Request
  <2>2. /\ escrow'.status = "HELD" /\ escrow'.amount = req[r].amt
        /\ escrow'.net = NetOf(req[r].amt) /\ job' = job
    BY <1>1 DEF FundTx, Inv, TypeOK, EscrowRow
  <2>3. NetOf(req[r].amt) \in 0..req[r].amt
    BY <2>1, CommissionBounded
  <2>4. Ledger!Hold
    BY <1>1, <2>1, <2>2, <2>3 DEF Ledger!Hold
  <2> QED
    BY <2>4 DEF LedgerStep, Ledger!Next
<1>2. CASE escrow.status # "PENDING"
    BY <1>2, LedgerStutters DEF FundTx
<1> QED
    BY <1>1, <1>2

LEMMA CloseReleases ==
    ASSUME Inv, CloseAndRelease
    PROVE  LedgerStep
<1>1. /\ escrow.status \in {"HELD", "RELEASED"} /\ escrow'.status = "RELEASED"
      /\ escrow'.amount = escrow.amount /\ escrow'.net = escrow.net
      /\ job'.pro = job.pro
    BY DEF Inv, TypeOK, JobRow, EscrowRow, CloseAndRelease, Released, Funded
<1>2. CASE escrow.status = "HELD"
    BY <1>1, <1>2 DEF LedgerStep, Ledger!Next, Ledger!Release
<1>3. CASE escrow.status = "RELEASED"
    BY <1>1, <1>3, LedgerStutters
<1> QED
    BY <1>1, <1>2, <1>3

LEMMA NextLedger ==
    ASSUME Inv, [Next]_vars
    PROVE  LedgerStep
<1>1. CASE UNCHANGED <<job, escrow>>
    BY <1>1, LedgerStutters
<1>2. CASE \E r \in Requests : WriteStatus(r) \/ WriteCompleted(r) \/ ResolveOrder(r)
    BY <1>2, LedgerStutters DEF WriteStatus, WriteCompleted, ResolveOrder, Inv, TypeOK, JobRow
<1>3. CASE \E r \in Requests : SetBullJob(r) \/ ClearBullJob(r) \/ SetSession(r)
    BY <1>3, LedgerStutters DEF SetBullJob, ClearBullJob, SetSession, Inv, TypeOK, EscrowRow
<1>4. CASE CloseAndRelease
    BY <1>4, CloseReleases
<1>5. CASE \E r \in Requests : AcceptTx(r) \/ FundTx(r)
    BY <1>5, AcceptOpens, FundingHolds
<1>6. \/ UNCHANGED <<job, escrow>>
      \/ \E r \in Requests : WriteStatus(r) \/ WriteCompleted(r) \/ ResolveOrder(r)
      \/ \E r \in Requests : SetBullJob(r) \/ ClearBullJob(r) \/ SetSession(r)
      \/ CloseAndRelease
      \/ \E r \in Requests : AcceptTx(r) \/ FundTx(r)
  <2>1. CASE \E r \in Requests : Continue(r)
    BY <2>1 DEF Continue, Schedule, FindTimer, RemoveTimer, ApproveTx, FundRead,
       CreateOrder, rows
  <2>2. CASE \E r \in Requests : Arrive(r) \/ Crash(r)
    BY <2>2 DEF Arrive, BeginAccept, BeginStart, BeginCancel, BeginComplete, BeginApprove,
       BeginCheckout, BeginFund, BeginPropose, BeginResolve, Crash, rows
  <2>3. CASE Elsewhere
    BY <2>3 DEF Elsewhere, Silent, ClientPays, SyncRate, TimerFires, SilentRead,
       SilentCommit, SilentDone, SilentFails, WorkerCrash, rows
  <2> QED
    BY <2>1, <2>2, <2>3 DEF Next, Healthy, Elsewhere, vars
<1> QED
    BY <1>1, <1>2, <1>3, <1>4, <1>5, <1>6

\* Handlers, webhooks and worker together implement the abstract escrow: money
\* is taken in once, for one payee, and released once, never back.
THEOREM Refinement == Spec => ImplementsLedger
<1>1. Init => Ledger!Init
    BY DEF Init, Ledger!Init, EmptyEscrow
<1>2. Inv /\ [Next]_vars => [Ledger!Next]_(Ledger!ledger)
    BY NextLedger DEF LedgerStep
<1> QED
    BY <1>1, <1>2, Invariant, PTL DEF Spec, ImplementsLedger, Ledger!Spec
=============================================================================
