---------------------- MODULE WebhookIdempotency_proofs ----------------------
(***************************************************************************)
(* Proofs about WebhookIdempotency, for any number of deliveries, faults   *)
(* and takeovers.                                                          *)
(***************************************************************************)
EXTENDS WebhookIdempotency, TLAPS

LEMMA InitInv == Init => Inv
<1> SUFFICES ASSUME Init PROVE Inv
    OBVIOUS
<1> USE ConstantsAssumption DEF Init
<1>1. TypeOK
  <2>1. faults \in 0..MaxFaults
    OBVIOUS
  <2>2. stale \in BOOLEAN /\ aged \in BOOLEAN /\ fits \in BOOLEAN
    OBVIOUS
  <2>3. del \in [Deliveries -> Steps]
    BY DEF Steps
  <2> QED
    BY <2>1, <2>2, <2>3 DEF TypeOK, Entry
<1>2. \A d \in Deliveries : del[d] = "idle" /\ about[d] = first
    OBVIOUS
<1>3. escrow = "PENDING" /\ ~Funded
    BY DEF Funded
<1> QED
    BY <1>1, <1>2, <1>3 DEF Inv, At, FundedWasApproved

-----------------------------------------------------------------------------
(* Every step preserves the type invariant.                                *)

LEMMA GotoType ==
    ASSUME TypeOK, NEW d \in Deliveries, NEW step \in Steps, Goto(d, step)
    PROVE  /\ del' \in [Deliveries -> Steps]
           /\ about' \in [Deliveries -> {"pending", "approved"}]
BY DEF TypeOK, Goto

LEMMA HandleType ==
    ASSUME TypeOK, NEW d \in Deliveries, Handle(d)
    PROVE  TypeOK'
<1>1. \A step : Goto(d, step) /\ step \in Steps =>
          /\ del' \in [Deliveries -> Steps]
          /\ about' \in [Deliveries -> {"pending", "approved"}]
    BY GotoType
<1>2. {"idle", "begin", "delete", "create", "execute", "check", "fundRead", "fundTx",
       "complete", "abandon"} \subseteq Steps
    BY DEF Steps, Working
<1>3. CASE Begin(d) \/ DeleteStale(d) \/ Create(d)
    BY <1>1, <1>2, <1>3 DEF Begin, DeleteStale, Create, Ack, Refuse, TypeOK, Entry, aside
<1>4. CASE Execute(d) \/ FundRead(d)
    BY <1>1, <1>2, <1>4 DEF Execute, FundRead, TypeOK, aside
<1>5. CASE CheckEscrow(d)
    BY <1>1, <1>2, <1>5 DEF CheckEscrow, TypeOK, aside
<1>6. CASE FundTx(d)
    BY <1>1, <1>2, <1>6 DEF FundTx, TypeOK, aside
<1>7. CASE Complete(d) \/ Abandon(d)
    BY <1>1, <1>2, <1>7 DEF Complete, Abandon, Ack, Refuse, TypeOK, Entry, aside
<1> QED
    BY <1>3, <1>4, <1>5, <1>6, <1>7 DEF Handle

LEMMA NextType ==
    ASSUME TypeOK, [Next]_vars
    PROVE  TypeOK'
<1> USE ConstantsAssumption
<1>1. CASE UNCHANGED vars
    BY <1>1 DEF vars, aside, TypeOK
<1>2. CASE Approve \/ Release \/ Reprice
    BY <1>2 DEF Approve, Release, Reprice, TypeOK, aside
<1>3. CASE Age
    BY <1>3 DEF Age, TypeOK
<1>4. ASSUME NEW d \in Deliveries, Handle(d) PROVE TypeOK'
    BY <1>4, HandleType
<1>5. ASSUME NEW d \in Deliveries, NEW status \in {"pending", "approved"}, Deliver(d, status)
      PROVE  TypeOK'
    BY <1>5 DEF Deliver, TypeOK, Steps, aside
<1>6. ASSUME NEW d \in Deliveries, Fail(d) \/ Crash(d) PROVE TypeOK'
  <2>1. "abandon" \in Steps /\ "idle" \in Steps
    BY DEF Steps, Working
  <2>2. faults' \in 0..MaxFaults
    BY <1>6 DEF Fail, Crash, TypeOK
  <2> QED
    BY <1>6, <2>1, <2>2, GotoType DEF Fail, Crash, TypeOK
<1> QED
    BY <1>1, <1>2, <1>3, <1>4, <1>5, <1>6 DEF Next

-----------------------------------------------------------------------------
(* Every step preserves the rest of the invariant.                         *)

\* What no step takes back: an approval, and money in the escrow.
LEMMA ApprovalAndMoneyStay ==
    ASSUME Inv, [Next]_vars
    PROVE  /\ payment = "approved" => payment' = "approved"
           /\ Funded => Funded'
BY DEF Inv, TypeOK, Next, Approve, Age, Release, Reprice, Deliver, Handle, Begin, DeleteStale,
       Create, Execute, CheckEscrow, FundRead, FundTx, Complete, Abandon, Fail, Crash, Funded, vars, aside

\* A step of a delivery towards funding or completion has seen what it claims.
LEMMA DeliveryKnows ==
    ASSUME Inv, [Next]_vars, NEW d \in Deliveries
    PROVE  /\ first = "approved" /\ At(d, "complete")' => Funded'
           /\ del'[d] \in {"check", "fundRead", "fundTx"} => payment' = "approved"
           /\ first = "approved" => about'[d] = "approved"
<1>1. /\ payment = "approved" => payment' = "approved"
      /\ Funded => Funded'
    BY ApprovalAndMoneyStay
<1>2. CASE del'[d] = del[d] /\ about'[d] = about[d]
    BY <1>1, <1>2 DEF Inv, At
<1>3. ASSUME NEW status \in {"pending", "approved"}, Deliver(d, status)
      PROVE  /\ del'[d] = "begin"
             /\ first = "approved" => about'[d] = "approved"
    BY <1>3 DEF Deliver, Inv, TypeOK
<1>4. CASE Handle(d) \/ Fail(d) \/ Crash(d)
  <2>1. about' = about
    BY <1>4 DEF Handle, Begin, DeleteStale, Create, Execute, CheckEscrow, FundRead, FundTx,
       Complete, Abandon, Fail, Crash, Ack, Refuse, Goto
  <2>2. del'[d] \in {"check", "fundRead", "fundTx"} => payment' = "approved"
    BY <1>1, <1>4 DEF Handle, Begin, DeleteStale, Create, Execute, CheckEscrow, FundRead,
       FundTx, Complete, Abandon, Fail, Crash, Ack, Refuse, Goto, At, Inv, TypeOK
  <2>3. first = "approved" /\ del'[d] = "complete" => Funded'
    BY <1>1, <1>4 DEF Handle, Begin, DeleteStale, Create, Execute, CheckEscrow, FundRead,
       FundTx, Complete, Abandon, Fail, Crash, Ack, Refuse, Goto, At, Inv, TypeOK, Funded
  <2> QED
    BY <2>1, <2>2, <2>3 DEF Inv, At
<1>5. \/ del'[d] = del[d] /\ about'[d] = about[d]
      \/ \E status \in {"pending", "approved"} : Deliver(d, status)
      \/ Handle(d) \/ Fail(d) \/ Crash(d)
    BY DEF Inv, TypeOK, Next, Approve, Age, Release, Reprice, Deliver, Handle, Begin, DeleteStale,
       Create, Execute, CheckEscrow, FundRead, FundTx, Complete, Abandon, Fail, Crash, Ack,
       Refuse, Goto, vars, aside
<1> QED
    BY <1>2, <1>3, <1>4, <1>5 DEF At

\* The row is completed, and an approval answered with 200, by deliveries that
\* saw the escrow funded.
LEMMA AnswerKnows ==
    ASSUME Inv, [Next]_vars, first = "approved",
           "approved" \notin due' \/ entry' = "COMPLETED"
    PROVE  Funded'
<1>1. Funded => Funded'
    BY ApprovalAndMoneyStay
<1>2. CASE "approved" \notin due \/ entry = "COMPLETED"
    BY <1>1, <1>2 DEF Inv
<1>3. CASE \E d \in Deliveries : At(d, "complete")
    BY <1>1, <1>3 DEF Inv
<1>4. CASE \A d \in Deliveries : ~At(d, "complete")
  <2>1. CASE "approved" \in due /\ entry # "COMPLETED"
    BY <1>4, <2>1 DEF Next, Approve, Age, Release, Reprice, Deliver, Handle, Begin, DeleteStale,
       Create, Execute, CheckEscrow, FundRead, FundTx, Complete, Abandon, Fail, Crash, Ack, Refuse,
       vars, aside
  <2> QED
    BY <1>2, <2>1
<1> QED
    BY <1>3, <1>4

\* Only FundTx moves money in, for a payment seen approved.
LEMMA FundingKnows ==
    ASSUME Inv, [Next]_vars
    PROVE  FundedWasApproved'
<1>1. CASE Funded
    BY <1>1, ApprovalAndMoneyStay DEF Inv, FundedWasApproved
<1>2. CASE \E d \in Deliveries : FundTx(d)
    BY <1>2 DEF FundTx, At, Inv, FundedWasApproved
<1>3. CASE ~Funded /\ escrow' = escrow
    BY <1>3 DEF Funded, FundedWasApproved
<1>4. Funded \/ escrow' = escrow \/ \E d \in Deliveries : FundTx(d)
    BY DEF Next, Approve, Age, Release, Reprice, Deliver, Handle, Begin, DeleteStale,
       Create, Execute, CheckEscrow, FundRead, Complete, Abandon, Fail, Crash, Funded, vars, aside
<1> QED
    BY <1>1, <1>2, <1>3, <1>4

\* The invariant holds for any number of concurrent deliveries.
THEOREM Invariant == Spec => []Inv
<1>1. Inv /\ [Next]_vars => Inv'
  <2> SUFFICES ASSUME Inv, [Next]_vars PROVE Inv'
    OBVIOUS
  <2>1. TypeOK'
    BY NextType DEF Inv
  <2>2. first = "approved" => payment' = "approved" /\ due' \subseteq {"approved"}
    <3>1. due' \subseteq due \/ Approve
      BY DEF Next, Age, Release, Reprice, Deliver, Handle, Begin, DeleteStale, Create, Execute,
         CheckEscrow, FundRead, FundTx, Complete, Abandon, Fail, Crash, Ack, Refuse, vars
    <3> QED
      BY <3>1, ApprovalAndMoneyStay DEF Inv, Approve
  <2>3. first' = first
    BY DEF Next, Approve, Age, Release, Reprice, Deliver, Handle, Begin, DeleteStale,
       Create, Execute, CheckEscrow, FundRead, FundTx, Complete, Abandon, Fail, Crash, vars, aside
  <2>4. first = "approved" =>
            /\ \A d \in Deliveries : about'[d] = "approved"
            /\ "approved" \notin due' \/ entry' = "COMPLETED" => Funded'
            /\ \A d \in Deliveries : At(d, "complete")' => Funded'
    BY DeliveryKnows, AnswerKnows
  <2>5. \A d \in Deliveries : del'[d] \in {"check", "fundRead", "fundTx"} => payment' = "approved"
    BY DeliveryKnows
  <2> QED
    BY <2>1, <2>2, <2>3, <2>4, <2>5, FundingKnows DEF Inv
<1> QED
    BY <1>1, InitInv, PTL DEF Spec

\* A payment approved before its first notification is never answered with 200
\* while its money is not in the escrow.
THEOREM AnswerIsSafe == Spec => []AckedApprovalIsFunded
<1>1. Inv => AckedApprovalIsFunded
    BY DEF Inv, AckedApprovalIsFunded
<1> QED
    BY <1>1, Invariant, PTL

\* Money enters the escrow only for an approved payment.
THEOREM FundingIsSafe == Spec => []FundedWasApproved
<1>1. Inv => FundedWasApproved
    BY DEF Inv
<1> QED
    BY <1>1, Invariant, PTL

-----------------------------------------------------------------------------
(* One worker at a time until the row is taken for stale.                  *)

\* While no row has outlived the threshold, none is taken over, and a delivery
\* at work is the one that created the row.
WorkerInv ==
    ~aged =>
        /\ ~stale
        /\ \A d \in Deliveries : del[d] # "delete"
        /\ \A d \in Deliveries : del[d] \in Working =>
              /\ entry = "PROCESSING"
              /\ \A e \in Deliveries : del[e] \in Working => e = d

LEMMA InitWorker == Init => WorkerInv
<1> SUFFICES ASSUME Init PROVE WorkerInv
    OBVIOUS
<1>1. \A d \in Deliveries : del[d] = "idle"
    BY DEF Init
<1>2. ~stale
    BY DEF Init
<1> QED
    BY <1>1, <1>2 DEF WorkerInv, Working

\* A step of d that starts no work leaves the others as they are, and does not
\* touch a row somebody else works on.
LEMMA WorkerStep ==
    ASSUME TypeOK, WorkerInv, NEW d \in Deliveries, NEW step, Goto(d, step),
           ~aged, step # "delete", stale' = FALSE \/ stale' = stale,
           \/ step \notin Working /\ (entry' = entry \/ del[d] \in Working)
           \/ entry' = entry /\ del[d] \in Working
           \/ entry = "absent" /\ entry' = "PROCESSING"
    PROVE  WorkerInv'
<1>1. del'[d] = step /\ \A e \in Deliveries \ {d} : del'[e] = del[e]
    BY DEF TypeOK, Goto
<1> SUFFICES ASSUME ~aged' PROVE WorkerInv'
    BY DEF WorkerInv
<1>2. ~stale' /\ \A e \in Deliveries : del'[e] # "delete"
    BY <1>1 DEF WorkerInv
<1>3. ASSUME NEW e \in Deliveries, del'[e] \in Working
      PROVE  entry' = "PROCESSING" /\ \A f \in Deliveries : del'[f] \in Working => f = e
    BY <1>1, <1>3 DEF WorkerInv
<1> QED
    BY <1>2, <1>3 DEF WorkerInv

LEMMA NextWorker == ASSUME TypeOK, WorkerInv, [Next]_vars PROVE WorkerInv'
<1> SUFFICES ASSUME ~aged' PROVE WorkerInv'
    BY DEF WorkerInv
<1>1. {"idle", "begin", "create"} \cap Working = {} /\ "delete" \notin Working
      /\ {"execute", "check", "fundRead", "fundTx", "complete", "abandon"} \subseteq Working
    BY DEF Working
<1>2. ~aged /\ ~Age
    BY DEF TypeOK, Next, Age, Approve, Release, Reprice, Deliver, Handle, Begin, DeleteStale,
       Create, Execute, CheckEscrow, FundRead, FundTx, Complete, Abandon, Fail, Crash, vars, aside
<1>3. CASE UNCHANGED vars \/ Approve \/ Release \/ Reprice
    BY <1>3 DEF Approve, Release, Reprice, WorkerInv, vars, aside
<1>4. ASSUME NEW d \in Deliveries, NEW status \in {"pending", "approved"}, Deliver(d, status)
      PROVE  WorkerInv'
  <2>1. del'[d] = "begin" /\ \A e \in Deliveries \ {d} : del'[e] = del[e]
    BY <1>4 DEF Deliver, TypeOK
  <2>2. entry' = entry /\ stale' = stale
    BY <1>4 DEF Deliver
  <2> QED
    BY <1>1, <1>2, <2>1, <2>2 DEF WorkerInv
<1>5. ASSUME NEW d \in Deliveries, Handle(d) PROVE WorkerInv'
  <2>1. CASE Begin(d)
    <3>1. PICK step \in {"idle", "create"} : Goto(d, step)
      BY <1>2, <2>1 DEF Begin, WorkerInv, Ack, Refuse
    <3> QED
      BY <1>1, <1>2, <2>1, <3>1, WorkerStep DEF Begin, aside
  <2>2. CASE DeleteStale(d)
    BY <1>2, <2>2 DEF DeleteStale, WorkerInv, At
  <2>3. CASE Create(d)
    <3>1. \/ Goto(d, "execute") /\ entry = "absent" /\ entry' = "PROCESSING" /\ stale' = FALSE
          \/ Goto(d, "begin") /\ entry' = entry /\ stale' = stale
      BY <2>3 DEF Create
    <3> QED
      BY <1>1, <1>2, <3>1, WorkerStep
  <2>4. CASE Execute(d) \/ CheckEscrow(d) \/ FundRead(d) \/ FundTx(d)
    <3>1. del[d] \in Working /\ entry' = entry /\ stale' = stale
      BY <1>1, <2>4 DEF Execute, CheckEscrow, FundRead, FundTx, At
    <3>2. PICK step \in {"check", "complete", "fundRead", "fundTx", "abandon"} : Goto(d, step)
      BY <2>4 DEF Execute, CheckEscrow, FundRead, FundTx
    <3> QED
      BY <1>1, <1>2, <3>1, <3>2, WorkerStep
  <2>5. CASE Complete(d)
    <3>1. del[d] \in Working /\ entry = "PROCESSING" /\ Goto(d, "idle")
      BY <1>1, <1>2, <2>5 DEF Complete, At, Ack, WorkerInv
    <3>2. stale' = FALSE \/ stale' = stale
      BY <2>5 DEF Complete
    <3> QED
      BY <1>1, <1>2, <3>1, <3>2, WorkerStep
  <2>6. CASE Abandon(d)
    <3>1. del[d] \in Working /\ Goto(d, "idle") /\ stale' = FALSE
      BY <1>1, <2>6 DEF Abandon, At, Refuse
    <3> QED
      BY <1>1, <1>2, <3>1, WorkerStep
  <2> QED
    BY <1>5, <2>1, <2>2, <2>3, <2>4, <2>5, <2>6 DEF Handle
<1>6. ASSUME NEW d \in Deliveries, Fail(d) PROVE WorkerInv'
  <2>1. del[d] \in Working /\ Goto(d, "abandon") /\ entry' = entry /\ stale' = stale
    BY <1>6 DEF Fail
  <2> QED
    BY <1>1, <1>2, <2>1, WorkerStep
<1>7. ASSUME NEW d \in Deliveries, Crash(d) PROVE WorkerInv'
  <2>1. Goto(d, "idle") /\ entry' = entry /\ stale' = stale
    BY <1>7 DEF Crash
  <2> QED
    BY <1>1, <1>2, <2>1, WorkerStep
<1> QED
    BY <1>2, <1>3, <1>4, <1>5, <1>6, <1>7 DEF Next

\* Until a row outlives the threshold, one delivery at most works on the payment.
THEOREM OneWorker == Spec => []OneWorkerBeforeStale
<1>1. WorkerInv => OneWorkerBeforeStale
    BY DEF WorkerInv, OneWorkerBeforeStale, Executing
<1>2. Inv => TypeOK
    BY DEF Inv
<1> QED
    BY <1>1, <1>2, Invariant, InitWorker, NextWorker, PTL DEF Spec
=============================================================================
