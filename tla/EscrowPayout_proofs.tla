------------------------ MODULE EscrowPayout_proofs ------------------------
(***************************************************************************)
(* Proofs about EscrowPayout, for any calls, bounds and mode.              *)
(***************************************************************************)
EXTENDS EscrowPayout, TLAPS, FiniteSetTheorems

LEMMA IdleCall == Idle \in Call /\ Idle.pc = "idle"
BY ConstantsAssumption DEF Idle, Call

LEMMA InitInv == Init => Inv
<1> SUFFICES ASSUME Init PROVE Inv
    OBVIOUS
<1> USE ConstantsAssumption
<1>1. PICK busy : call = [c \in Calls |-> IF c \in busy THEN [Idle EXCEPT !.pc = "read"] ELSE Idle]
  <2>1. CASE \E r \in Requests :
                call = [c \in Calls |-> IF c = r THEN [Idle EXCEPT !.pc = "read"] ELSE Idle]
    <3>1. PICK r \in Requests :
              call = [c \in Calls |-> IF c = r THEN [Idle EXCEPT !.pc = "read"] ELSE Idle]
      BY <2>1
    <3> QED
      BY <3>1, \A c : c \in {r} <=> c = r
  <2>2. CASE call = [c \in Calls |-> Idle]
    BY <2>2, \A c : c \notin {}
  <2> QED
    BY <2>1, <2>2 DEF Init
<1>2. [Idle EXCEPT !.pc = "read"] \in Call /\ [Idle EXCEPT !.pc = "read"].pc = "read"
  BY DEF Idle, Call
<1>3. \A c \in Calls : call[c].pc \in {"idle", "read"}
  BY <1>1, <1>2, IdleCall
<1>4. TypeOK
  <2>1. call \in [Calls -> Call]
    BY <1>1, <1>2, IdleCall
  <2>2. left \in [{"confirms", "releases", "crashes", "lost"} -> Nat]
    BY DEF Init
  <2> QED
    BY <2>1, <2>2 DEF Init, TypeOK, PayoutStatus, AttemptStatus
<1>5. PaymentIsRecorded /\ SucceededWasPaid
  BY DEF Init, PaymentIsRecorded, SucceededWasPaid
<1>6. OneOwner /\ \A c \in Calls : InProgress(c)
  BY <1>3 DEF OneOwner, InProgress, At
<1> QED
  BY <1>4, <1>5, <1>6 DEF Inv

-----------------------------------------------------------------------------
(* Steps that move one call on and leave the rows alone.                   *)

\* The call of c becomes "next"; nothing but the bounds and the age of the
\* attempts changes besides.
Moves(c, next) ==
    /\ call' = [call EXCEPT ![c] = next]
    /\ UNCHANGED <<payout, attempts, ledger, manual>>
    /\ stuck' \subseteq Numbers
    /\ orderly' \in BOOLEAN
    /\ left' \in [{"confirms", "releases", "crashes", "lost"} -> Nat]

\* Such a step preserves the invariant when the new record owns no attempt or
\* the one it owned before.
LEMMA MoveInv ==
    ASSUME Inv, NEW c \in Calls, NEW next \in Call, Moves(c, next),
           next.pc = "create" => next.n \in Numbers,
           next.pc = "reconcile" => next.kind = "recovery",
           next.pc \in {"reconcile", "issue", "complete"} =>
               next.n \in Numbers /\ attempts[next.n] # "none",
           next.pc = "complete" /\ next.out = "SUCCEEDED" =>
               ledger[next.n] = "paid" \/ next.n \in manual,
           next.pc \in {"issue", "complete"} /\ next.kind # "recovery" =>
               /\ call[c].pc \in {"issue", "complete"} /\ call[c].kind # "recovery"
               /\ call[c].n = next.n
    PROVE  Inv'
<1>1. call \in [Calls -> Call]
  BY DEF Inv, TypeOK
<1>2. /\ call'[c] = next
      /\ \A d \in Calls : d # c => call'[d] = call[d]
  BY <1>1 DEF Moves
<1>3. TypeOK'
  BY <1>1 DEF Inv, TypeOK, Moves
<1>4. PaymentIsRecorded' /\ SucceededWasPaid'
  BY DEF Inv, PaymentIsRecorded, SucceededWasPaid, Moves
<1>5. OneOwner'
  BY <1>2 DEF Inv, OneOwner
<1>6. ASSUME NEW d \in Calls PROVE InProgress(d)'
  <2>1. CASE d = c
    BY <1>2, <2>1 DEF InProgress, At, Moves
  <2>2. CASE d # c
    BY <1>2, <2>2 DEF Inv, InProgress, At, Moves
  <2> QED
    BY <2>1, <2>2
<1> QED
  BY <1>3, <1>4, <1>5, <1>6 DEF Inv

LEMMA SpendType ==
    ASSUME TypeOK, NEW bound \in {"confirms", "releases", "crashes", "lost"}, Spend(bound)
    PROVE  left' \in [{"confirms", "releases", "crashes", "lost"} -> Nat]
BY DEF TypeOK, Spend

\* A call starts with a record of this shape.
Fresh(step, kind, n) == [Idle EXCEPT !.pc = step, !.kind = kind, !.n = n]

LEMMA FreshCall ==
    ASSUME NEW step \in {"read", "count", "reconcile"},
           NEW kind \in {"gateway", "manual", "recovery"}, NEW n \in 0..MaxAttempts
    PROVE  /\ Fresh(step, kind, n) \in Call
           /\ Fresh(step, kind, n).pc = step
           /\ Fresh(step, kind, n).n = n
           /\ Fresh(step, kind, n).kind = kind
BY DEF Fresh, Idle, Call

LEMMA BeginInv ==
    ASSUME Inv, NEW c \in Calls,
           \/ BeginRelease(c) \/ BeginRetry(c) \/ BeginConfirm(c) \/ RecoverPending(c)
           \/ \E n \in Numbers : RecoverStuck(c, n)
    PROVE  Inv'
<1> USE ConstantsAssumption
<1>1. 0 \in 0..MaxAttempts /\ Numbers \subseteq 0..MaxAttempts
  BY DEF Numbers
<1>2. TypeOK
  BY DEF Inv
<1>3. left \in [{"confirms", "releases", "crashes", "lost"} -> Nat] /\ stuck \subseteq Numbers /\ orderly \in BOOLEAN
  BY <1>2 DEF TypeOK
<1>4. CASE BeginRelease(c) \/ BeginRetry(c) \/ RecoverPending(c)
  <2>1. left' \in [{"confirms", "releases", "crashes", "lost"} -> Nat]
    BY <1>2, <1>3, <1>4, SpendType DEF BeginRelease, BeginRetry, RecoverPending
  <2>2. Moves(c, Fresh("read", "gateway", 0))
    BY <1>3, <1>4, <2>1 DEF BeginRelease, BeginRetry, RecoverPending, Start, Fresh, Moves
  <2> QED
    BY <1>1, <2>2, FreshCall, MoveInv
<1>5. CASE BeginConfirm(c)
  <2>1. left' \in [{"confirms", "releases", "crashes", "lost"} -> Nat]
    BY <1>2, <1>5, SpendType DEF BeginConfirm
  <2>2. Moves(c, Fresh("count", "manual", 0))
    BY <1>3, <1>5, <2>1 DEF BeginConfirm, Start, Fresh, Moves
  <2> QED
    BY <1>1, <2>2, FreshCall, MoveInv
<1>6. ASSUME NEW n \in Numbers, RecoverStuck(c, n) PROVE Inv'
  <2>1. Moves(c, Fresh("reconcile", "recovery", n))
    BY <1>3, <1>6 DEF RecoverStuck, Start, Fresh, Moves
  <2>2. attempts[n] # "none"
    BY <1>6 DEF RecoverStuck
  <2>3. n \in 0..MaxAttempts
    BY <1>1
  <2> QED
    BY <2>1, <2>2, <2>3, FreshCall, MoveInv
<1> QED
  BY <1>4, <1>5, <1>6

LEMMA ReturnInv ==
    ASSUME Inv, NEW c \in Calls, Return(c), UNCHANGED <<payout, attempts, ledger, manual>>,
           stuck' \subseteq Numbers, orderly' \in BOOLEAN,
           left' \in [{"confirms", "releases", "crashes", "lost"} -> Nat]
    PROVE  Inv'
<1>1. Moves(c, Idle)
  BY DEF Return, Moves
<1> QED
  BY <1>1, IdleCall, MoveInv

LEMMA ReadOnlyInv ==
    ASSUME Inv, NEW c \in Calls, Read(c) \/ Count(c) \/ Reconcile(c)
    PROVE  Inv'
<1>1. /\ call[c] \in Call /\ stuck \subseteq Numbers /\ orderly \in BOOLEAN
      /\ left \in [{"confirms", "releases", "crashes", "lost"} -> Nat]
      /\ ledger \in [Numbers -> {"none", "paid", "refused"}]
  BY DEF Inv, TypeOK
<1>2. CASE Return(c)
  BY <1>1, <1>2, ReturnInv DEF Read, Count, Reconcile
<1>3. CASE Read(c) /\ Goto(c, "count")
  <2>1. Moves(c, [call[c] EXCEPT !.pc = "count"])
    BY <1>1, <1>3 DEF Read, Goto, Moves
  <2>2. /\ [call[c] EXCEPT !.pc = "count"] \in Call
        /\ [call[c] EXCEPT !.pc = "count"].pc = "count"
    BY <1>1 DEF Call
  <2> QED
    BY <2>1, <2>2, MoveInv
<1>4. CASE Count(c) /\ ~Return(c)
  <2> DEFINE n == Cardinality(Recorded) + 1
             next == [call[c] EXCEPT !.pc = "create", !.n = n]
  <2>1. n \in Numbers /\ Moves(c, next)
    BY <1>1, <1>4 DEF Count, Moves
  <2>2. n \in 0..MaxAttempts
    BY <2>1, ConstantsAssumption DEF Numbers
  <2> HIDE DEF n
  <2>3. next \in Call /\ next.pc = "create" /\ next.n = n
    BY <1>1, <2>2 DEF Call
  <2> QED
    BY <2>1, <2>3, MoveInv
<1>5. CASE Reconcile(c)
  <2> DEFINE n == call[c].n
  <2>1. n \in Numbers /\ attempts[n] # "none" /\ At(c, "reconcile")
    BY <1>5 DEF Inv, InProgress, Reconcile, At
  <2>2. CASE Goto(c, "issue")
    <3> DEFINE next == [call[c] EXCEPT !.pc = "issue"]
    <3>1. Moves(c, next)
      BY <1>1, <1>5, <2>2 DEF Reconcile, Goto, Moves
    <3>2. next \in Call /\ next.pc = "issue" /\ next.n = n /\ next.kind = call[c].kind
      BY <1>1 DEF Call
    <3>3. call[c].kind = "recovery"
      BY <2>1 DEF Inv, InProgress
    <3> QED
      BY <2>1, <3>1, <3>2, <3>3, MoveInv
  <2>3. CASE call' = [call EXCEPT ![c].pc = "complete", ![c].out = Outcome(ledger[n])]
    <3> DEFINE next == [call[c] EXCEPT !.pc = "complete", !.out = Outcome(ledger[n])]
    <3>1. Moves(c, next)
      BY <1>1, <1>5, <2>3 DEF Reconcile, Moves
    <3>2. /\ next \in Call /\ next.pc = "complete" /\ next.n = n
          /\ next.kind = call[c].kind /\ next.out = Outcome(ledger[n])
      BY <1>1 DEF Call, Outcome
    <3>3. call[c].kind = "recovery"
      BY <2>1 DEF Inv, InProgress
    <3>4. next.out = "SUCCEEDED" => ledger[n] = "paid"
      BY <3>2 DEF Outcome
    <3> QED
      BY <2>1, <3>1, <3>2, <3>3, <3>4, MoveInv
  <2> QED
    BY <1>5, <2>2, <2>3 DEF Reconcile
<1> QED
  BY <1>2, <1>3, <1>4, <1>5 DEF Read

-----------------------------------------------------------------------------
(* Steps that write an attempt, the provider's ledger or a transfer.       *)

\* What a step has to show that gives attempt n of call c a new status or
\* outcome and moves c on to "next": no other attempt is touched.
Writes(c, next, n) ==
    /\ call' = [call EXCEPT ![c] = next]
    /\ \A m \in Numbers \ {n} : attempts'[m] = attempts[m] /\ ledger'[m] = ledger[m]
    /\ manual \subseteq manual' /\ manual' \subseteq manual \cup {n}
    /\ attempts'[n] # "none"
    /\ ledger[n] = "paid" => ledger'[n] = "paid"
    /\ attempts'[n] = "SUCCEEDED" => ledger'[n] = "paid" \/ n \in manual'
    /\ \/ attempts'[n] = attempts[n] /\ payout' = payout
       \/ payout' \in {"PENDING", "FAILED"}
       \/ payout' = "SUCCEEDED" /\ attempts'[n] = "SUCCEEDED"

LEMMA WriteInv ==
    ASSUME Inv, TypeOK', NEW c \in Calls, NEW next \in Call, NEW n \in Numbers,
           Writes(c, next, n),
           next.pc \in {"idle", "issue", "complete"},
           next.pc # "idle" => next.n = n,
           next.pc = "complete" /\ next.out = "SUCCEEDED" =>
               ledger'[n] = "paid" \/ n \in manual',
           next.pc \in {"issue", "complete"} /\ next.kind # "recovery" =>
               \/ attempts[n] = "none"
               \/ /\ call[c].pc \in {"issue", "complete"} /\ call[c].kind # "recovery"
                  /\ call[c].n = next.n
    PROVE  Inv'
<1>1. call \in [Calls -> Call]
  BY DEF Inv, TypeOK
<1>2. /\ call'[c] = next
      /\ \A d \in Calls : d # c => call'[d] = call[d]
  BY <1>1 DEF Writes
<1>3. \A m \in Numbers : attempts[m] # "none" => attempts'[m] # "none"
  BY DEF Writes
<1>4. \A m \in Numbers : ledger[m] = "paid" => ledger'[m] = "paid"
  BY DEF Writes
<1>5. PaymentIsRecorded'
  BY DEF Inv, PaymentIsRecorded, Writes
<1>6. SucceededWasPaid'
  <2>1. \A m \in Numbers : attempts'[m] = "SUCCEEDED" => ledger'[m] = "paid" \/ m \in manual'
    BY DEF Inv, SucceededWasPaid, Writes
  <2>2. payout' = "SUCCEEDED" => \E m \in Numbers : attempts'[m] = "SUCCEEDED"
    BY DEF Inv, SucceededWasPaid, Writes
  <2> QED
    BY <2>1, <2>2 DEF SucceededWasPaid
<1>7. OneOwner'
  <2>1. \A d \in Calls :
            call[d].pc \in {"issue", "complete"} =>
                call[d].n \in Numbers /\ attempts[call[d].n] # "none"
    BY DEF Inv, InProgress
  <2>2. \A d \in Calls \ {c} :
            call[d].pc \in {"issue", "complete"} /\ call[d].kind # "recovery"
            /\ next.pc \in {"issue", "complete"} /\ next.kind # "recovery" => call[d].n # next.n
    BY <2>1 DEF Inv, OneOwner
  <2> QED
    BY <1>2, <2>2 DEF Inv, OneOwner
<1>8. ASSUME NEW d \in Calls PROVE InProgress(d)'
  <2>1. CASE d = c
    BY <1>2, <2>1 DEF InProgress, At, Writes
  <2>2. CASE d # c
    <3>1. InProgress(d) /\ call'[d] = call[d] /\ manual \subseteq manual'
      BY <1>2, <2>2 DEF Inv, Writes
    <3> QED
      BY <1>3, <1>4, <3>1 DEF InProgress, At
  <2> QED
    BY <2>1, <2>2
<1> QED
  BY <1>5, <1>6, <1>7, <1>8 DEF Inv

LEMMA CreateInv ==
    ASSUME Inv, NEW c \in Calls, Create(c)
    PROVE  Inv'
<1> DEFINE n == call[c].n
<1>1. /\ call \in [Calls -> Call] /\ call[c] \in Call
      /\ stuck \subseteq Numbers /\ manual \subseteq Numbers /\ orderly \in BOOLEAN
      /\ left \in [{"confirms", "releases", "crashes", "lost"} -> Nat]
      /\ attempts \in [Numbers -> AttemptStatus]
  BY DEF Inv, TypeOK
<1>2. n \in Numbers
  BY DEF Inv, InProgress, Create
<1>3. CASE attempts[n] = "none"
  <2>1. /\ attempts' = [attempts EXCEPT ![n] = "PENDING"] /\ payout' = "PENDING"
        /\ Proceed(c) /\ UNCHANGED <<stuck, ledger, orderly, left>>
    BY <1>3 DEF Create
  <2>2. attempts'[n] = "PENDING" /\ \A m \in Numbers \ {n} : attempts'[m] = attempts[m]
    BY <1>1, <1>2, <2>1
  <2>3. CASE call[c].kind = "manual"
    <3> DEFINE next == [call[c] EXCEPT !.pc = "complete", !.out = "SUCCEEDED"]
    <3>1. call' = [call EXCEPT ![c] = next] /\ manual' = manual \cup {n}
      BY <2>1, <2>3 DEF Proceed
    <3>2. next \in Call /\ next.pc = "complete" /\ next.n = n
      BY <1>1 DEF Call
    <3>3. TypeOK'
      BY <1>1, <1>2, <2>1, <3>1, <3>2 DEF Inv, TypeOK, AttemptStatus, PayoutStatus
    <3>4. Writes(c, next, n)
      BY <2>1, <2>2, <3>1 DEF Writes
    <3> QED
      BY <1>2, <1>3, <3>1, <3>2, <3>3, <3>4, WriteInv
  <2>4. CASE call[c].kind # "manual"
    <3> DEFINE next == [call[c] EXCEPT !.pc = "issue"]
    <3>1. call' = [call EXCEPT ![c] = next] /\ UNCHANGED manual
      BY <2>1, <2>4 DEF Proceed, Goto
    <3>2. next \in Call /\ next.pc = "issue" /\ next.n = n
      BY <1>1 DEF Call
    <3>3. TypeOK'
      BY <1>1, <1>2, <2>1, <3>1, <3>2 DEF Inv, TypeOK, AttemptStatus, PayoutStatus
    <3>4. Writes(c, next, n)
      BY <2>1, <2>2, <3>1 DEF Writes
    <3> QED
      BY <1>2, <1>3, <3>1, <3>2, <3>3, <3>4, WriteInv
  <2> QED
    BY <2>3, <2>4
<1>4. CASE attempts[n] # "none"
  BY <1>1, <1>4, ReturnInv DEF Create
<1> QED
  BY <1>3, <1>4

LEMMA ProviderInv ==
    ASSUME Inv, NEW c \in Calls, Issue(c) \/ LoseReply(c)
    PROVE  Inv'
<1> DEFINE n == call[c].n
<1>1. /\ call \in [Calls -> Call] /\ call[c] \in Call
      /\ left \in [{"confirms", "releases", "crashes", "lost"} -> Nat]
      /\ ledger \in [Numbers -> {"none", "paid", "refused"}]
      /\ TypeOK
  BY DEF Inv, TypeOK
<1>2. n \in Numbers /\ attempts[n] # "none" /\ call[c].pc = "issue"
  BY DEF Inv, InProgress, Issue, LoseReply, At
<1>3. left' \in [{"confirms", "releases", "crashes", "lost"} -> Nat]
  BY <1>1, SpendType DEF Issue, LoseReply
<1>4. PICK done \in {"none", "paid", "refused"}, out \in {"SUCCEEDED", "FAILED"} :
          /\ ledger' = [ledger EXCEPT ![n] = done]
          /\ ledger[n] = "paid" => done = "paid"
          /\ out = "SUCCEEDED" => done = "paid"
          /\ call' = [call EXCEPT ![c].pc = "complete", ![c].out = out]
  <2>1. CASE Issue(c)
    BY <1>1, <1>2, <2>1 DEF Issue, Outcome
  <2>2. CASE LoseReply(c)
    <3>1. CASE ledger' = ledger
      <4>1. ledger' = [ledger EXCEPT ![n] = ledger[n]]
        BY <1>1, <1>2, <3>1
      <4> QED
        BY <1>1, <1>2, <2>2, <4>1 DEF LoseReply
    <3>2. CASE ledger[n] = "none" /\ ledger' = [ledger EXCEPT ![n] = "paid"]
      BY <2>2, <3>2 DEF LoseReply
    <3> QED
      BY <2>2, <3>1, <3>2 DEF LoseReply
  <2> QED
    BY <2>1, <2>2
<1>5. UNCHANGED <<payout, attempts, stuck, manual>> /\ orderly' \in BOOLEAN
  BY <1>1 DEF Issue, LoseReply, TypeOK
<1> DEFINE next == [call[c] EXCEPT !.pc = "complete", !.out = out]
<1>6. /\ next \in Call /\ next.pc = "complete" /\ next.n = n /\ next.out = out
      /\ next.kind = call[c].kind /\ call' = [call EXCEPT ![c] = next]
  BY <1>1, <1>4 DEF Call
<1>7. ledger'[n] = done /\ \A m \in Numbers \ {n} : ledger'[m] = ledger[m]
  BY <1>1, <1>2, <1>4
<1>8. TypeOK'
  BY <1>1, <1>2, <1>3, <1>4, <1>5, <1>6 DEF TypeOK
<1>9. Writes(c, next, n)
  <2>1. attempts[n] = "SUCCEEDED" => ledger[n] = "paid" \/ n \in manual
    BY <1>2 DEF Inv, SucceededWasPaid
  <2> QED
    BY <1>2, <1>4, <1>5, <1>6, <1>7, <2>1 DEF Writes
<1> QED
  BY <1>2, <1>4, <1>6, <1>7, <1>8, <1>9, WriteInv

LEMMA CompleteInv ==
    ASSUME Inv, NEW c \in Calls, Complete(c)
    PROVE  Inv'
<1> DEFINE n == call[c].n
           out == call[c].out
<1>1. /\ call \in [Calls -> Call] /\ out \in {"SUCCEEDED", "FAILED"}
      /\ attempts \in [Numbers -> AttemptStatus] /\ TypeOK
  BY DEF Inv, TypeOK, Call
<1>2. n \in Numbers /\ (out = "SUCCEEDED" => ledger[n] = "paid" \/ n \in manual)
  BY DEF Inv, InProgress, Complete, At
<1>3. /\ attempts' = [attempts EXCEPT ![n] = out] /\ payout' = out
      /\ call' = [call EXCEPT ![c] = Idle] /\ UNCHANGED <<stuck, ledger, manual, orderly, left>>
  BY DEF Complete, Return
<1>4. TypeOK'
  BY <1>1, <1>2, <1>3, IdleCall DEF TypeOK, AttemptStatus, PayoutStatus
<1>5. attempts'[n] = out /\ \A m \in Numbers \ {n} : attempts'[m] = attempts[m]
  BY <1>1, <1>2, <1>3
<1>6. Writes(c, Idle, n)
  BY <1>1, <1>2, <1>3, <1>5 DEF Writes
<1> QED
  BY <1>2, <1>4, <1>6, IdleCall, WriteInv

-----------------------------------------------------------------------------

LEMMA NextInv ==
    ASSUME Inv, [Next]_vars
    PROVE  Inv'
<1>1. ASSUME NEW c \in Calls, Crash(c) PROVE Inv'
  <2>1. left' \in [{"confirms", "releases", "crashes", "lost"} -> Nat]
    BY <1>1, SpendType DEF Inv, Crash
  <2> QED
    BY <1>1, <2>1, ReturnInv DEF Inv, TypeOK, Crash
<1>2. ASSUME NEW n \in Numbers, Age(n) PROVE Inv'
  <2>1. TypeOK'
    BY <1>2 DEF Inv, TypeOK, Age
  <2> QED
    BY <1>2, <2>1 DEF Inv, Age, PaymentIsRecorded, SucceededWasPaid, OneOwner, InProgress, At
<1>3. ASSUME NEW c \in Calls, Continue(c) \/ LoseReply(c) PROVE Inv'
  BY <1>3, ReadOnlyInv, CreateInv, ProviderInv, CompleteInv DEF Continue
<1>4. ASSUME NEW c \in Requests, BeginRelease(c) \/ BeginRetry(c) \/ BeginConfirm(c) PROVE Inv'
  BY <1>4, BeginInv DEF Calls
<1>5. ASSUME NEW c \in Workers, Recover(c) PROVE Inv'
  BY <1>5, BeginInv DEF Calls, Recover
<1>6. CASE UNCHANGED vars
  BY <1>6 DEF vars, Inv, TypeOK, PaymentIsRecorded, SucceededWasPaid, OneOwner, InProgress, At
<1> QED
  BY <1>1, <1>2, <1>3, <1>4, <1>5, <1>6 DEF Next

\* The inductive invariant holds in every reachable state of the payout of one
\* released escrow, whatever calls, crashes and lost replies meet in it.
THEOREM Invariant == Spec => []Inv
<1>1. Init => Inv
  BY InitInv
<1>2. Inv /\ [Next]_vars => Inv'
  BY NextInv
<1> QED
  BY <1>1, <1>2, PTL DEF Spec

\* A payout the provider made is always on record, and what is reported
\* SUCCEEDED was paid (createPayoutAttempt, issuePayout, completePayoutAttempt).
THEOREM PayoutIsSafe == Spec => []LedgerIsBacked
<1>1. Inv => LedgerIsBacked
  BY DEF Inv, LedgerIsBacked
<1> QED
  BY <1>1, Invariant, PTL

\* However many calls race for an attempt number, one goes on with it
\* (the unique key of PayoutAttempt).
THEOREM AttemptHasOneOwner == Spec => []OneOwner
<1>1. Inv => OneOwner
  BY DEF Inv
<1> QED
  BY <1>1, Invariant, PTL

-----------------------------------------------------------------------------
(* Calls that follow one another.                                          *)

Live(n) == attempts[n] \in {"PENDING", "SUCCEEDED"}

\* What the only call under way has found and not changed since.
StepInOrder(c) ==
    /\ At(c, "read") => \A n \in Numbers : attempts[n] # "PENDING"
    /\ call[c].pc \in {"count", "create"} => \A n \in Numbers : ~Live(n)
    /\ call[c].pc \in {"reconcile", "issue", "complete"} => attempts[call[c].n] = "PENDING"
    /\ call[c].pc \in {"reconcile", "issue"} => call[c].n \notin manual
    /\ At(c, "complete") /\ call[c].out = "FAILED" =>
          ledger[call[c].n] # "paid" /\ call[c].n \notin manual

Alone == \A c, d \in Calls : call[c] # Idle /\ call[d] # Idle => c = d

\* One attempt at most is under way or has succeeded, and what was paid, by
\* whichever way, was paid under it.
OneLive == \A m, n \in Numbers : Live(m) /\ Live(n) => m = n
PaidIsLive == \A n \in Numbers : ledger[n] = "paid" \/ n \in manual => Live(n)
SettledIsReported == \A n \in Numbers : attempts[n] = "SUCCEEDED" => payout = "SUCCEEDED"
ByHand ==
    \A n \in manual :
        /\ ledger[n] # "paid"
        /\ attempts[n] = "PENDING" => \E c \in Calls : call[c].kind = "manual"

OrderInv ==
    orderly => /\ Alone /\ OneLive /\ PaidIsLive /\ SettledIsReported /\ ByHand
               /\ \A c \in Calls : StepInOrder(c)

LEMMA IdleIsIdle == Idle.pc = "idle" /\ Idle.kind = "gateway"
BY DEF Idle

LEMMA OrderInit == Init => OrderInv
<1> SUFFICES ASSUME Init PROVE OrderInv
    OBVIOUS
<1>1. (\A n \in Numbers : attempts[n] = "none" /\ ledger[n] = "none") /\ manual = {}
  BY DEF Init
<1>2. [Idle EXCEPT !.pc = "read"].pc = "read"
  BY DEF Idle
<1>3. Alone /\ \A c \in Calls : call[c].pc \in {"idle", "read"}
  <2>1. CASE \E r \in Requests :
                call = [c \in Calls |-> IF c = r THEN [Idle EXCEPT !.pc = "read"] ELSE Idle]
    <3>1. PICK r \in Requests :
              call = [c \in Calls |-> IF c = r THEN [Idle EXCEPT !.pc = "read"] ELSE Idle]
      BY <2>1
    <3>2. \A c \in Calls : call[c] = IF c = r THEN [Idle EXCEPT !.pc = "read"] ELSE Idle
      BY <3>1
    <3> QED
      BY <3>2, <1>2, IdleIsIdle DEF Alone
  <2>2. CASE call = [c \in Calls |-> Idle]
    BY <2>2, IdleIsIdle DEF Alone
  <2> QED
    BY <2>1, <2>2 DEF Init
<1>4. OneLive /\ PaidIsLive /\ SettledIsReported /\ ByHand
  BY <1>1 DEF OneLive, PaidIsLive, SettledIsReported, ByHand, Live
<1>5. \A c \in Calls : StepInOrder(c)
  BY <1>1, <1>3 DEF StepInOrder, At, Live
<1> QED
  BY <1>3, <1>4, <1>5 DEF OrderInv

\* The call of c becomes "next" while all others are idle.
Steps(c, next) ==
    /\ call'[c] = next /\ \A d \in Calls \ {c} : call'[d] = Idle /\ call[d] = Idle

LEMMA StepsAlone ==
    ASSUME Inv, NEW c \in Calls, NEW next, call' = [call EXCEPT ![c] = next],
           \A d \in Calls \ {c} : call[d] = Idle
    PROVE  Steps(c, next)
BY DEF Inv, TypeOK, Steps

\* A call that is under way is the only one.
LEMMA OthersIdle ==
    ASSUME OrderInv, orderly, NEW c \in Calls, call[c].pc # "idle"
    PROVE  \A d \in Calls \ {c} : call[d] = Idle
BY IdleIsIdle DEF OrderInv, Alone

\* What is left to show of a step: the rows, and what c knows of them.
LEMMA OrderStep ==
    ASSUME NEW c \in Calls, NEW next, Steps(c, next),
           OneLive', PaidIsLive', SettledIsReported', ByHand', StepInOrder(c)'
    PROVE  OrderInv'
<1>1. Alone'
  BY DEF Steps, Alone
<1>2. ASSUME NEW d \in Calls \ {c} PROVE StepInOrder(d)'
  BY <1>2, IdleIsIdle DEF Steps, StepInOrder, At
<1> QED
  BY <1>1, <1>2 DEF OrderInv

\* A step that leaves the rows alone.
LEMMA OrderMove ==
    ASSUME OrderInv, orderly, NEW c \in Calls, NEW next, Steps(c, next),
           UNCHANGED <<payout, attempts, ledger, manual>>, StepInOrder(c)',
           next.kind = call[c].kind \/ \A n \in manual : attempts[n] # "PENDING"
    PROVE  OrderInv'
<1>1. OneLive' /\ PaidIsLive' /\ SettledIsReported'
  BY DEF OrderInv, OneLive, PaidIsLive, SettledIsReported, Live
<1>2. ASSUME NEW n \in manual, attempts[n] = "PENDING" PROVE \E d \in Calls : call'[d].kind = "manual"
  <2>1. PICK d \in Calls : call[d].kind = "manual"
    BY <1>2 DEF OrderInv, ByHand
  <2> QED
    BY <1>2, <2>1, IdleIsIdle DEF Steps
<1>3. ByHand'
  BY <1>2 DEF OrderInv, ByHand
<1> QED
  BY <1>1, <1>3, OrderStep

LEMMA OrderBegins ==
    ASSUME Inv, OrderInv, orderly', NEW c \in Calls,
           \/ c \in Requests /\ (BeginRelease(c) \/ BeginRetry(c) \/ BeginConfirm(c))
           \/ RecoverPending(c)
           \/ \E n \in Numbers : RecoverStuck(c, n)
    PROVE  OrderInv'
<1>1. PICK step \in {"read", "count", "reconcile"}, kind \in {"gateway", "manual", "recovery"},
           n \in 0..MaxAttempts :
          /\ Start(c, step, kind, n)
          /\ step = "reconcile" => n \in Numbers /\ attempts[n] = "PENDING"
          /\ step # "reconcile" => c \in Requests \/ \A m \in Numbers : attempts[m] = "none"
          /\ step = "count" => payout = "PENDING"
  <2>1. 0 \in 0..MaxAttempts /\ Numbers \subseteq 0..MaxAttempts
    BY ConstantsAssumption DEF Numbers
  <2>2. CASE c \in Requests /\ (BeginRelease(c) \/ BeginRetry(c) \/ BeginConfirm(c))
    BY <2>1, <2>2 DEF BeginRelease, BeginRetry, BeginConfirm
  <2>3. CASE RecoverPending(c)
    BY <2>1, <2>3 DEF RecoverPending
  <2>4. ASSUME NEW m \in Numbers, RecoverStuck(c, m)
        PROVE  Start(c, "reconcile", "recovery", m) /\ attempts[m] = "PENDING"
    BY <2>4 DEF RecoverStuck
  <2> QED
    BY <2>1, <2>2, <2>3, <2>4
<1>2. UNCHANGED <<payout, attempts, ledger, manual>>
  BY DEF BeginRelease, BeginRetry, BeginConfirm, RecoverPending, RecoverStuck
<1>3. /\ orderly /\ \A d \in Calls : call[d] = Idle
      /\ c \in Workers \/ \A m \in Numbers : attempts[m] # "PENDING"
      /\ call' = [call EXCEPT ![c] = Fresh(step, kind, n)]
  BY <1>1 DEF Start, Fresh
<1>4. /\ Fresh(step, kind, n).pc = step /\ Fresh(step, kind, n).n = n
      /\ Steps(c, Fresh(step, kind, n))
  <2>1. Fresh(step, kind, n).pc = step /\ Fresh(step, kind, n).n = n
    BY FreshCall
  <2> DEFINE next == Fresh(step, kind, n)
  <2>2. call' = [call EXCEPT ![c] = next]
    BY <1>3
  <2>3. \A d \in Calls \ {c} : call[d] = Idle
    BY <1>3
  <2> HIDE DEF next
  <2>4. Steps(c, next)
    BY <2>2, <2>3, StepsAlone
  <2> QED
    BY <2>1, <2>4 DEF next
<1>5. \A m \in manual : attempts[m] # "PENDING"
  BY <1>3, IdleIsIdle DEF OrderInv, ByHand
<1>6. step # "reconcile" => \A m \in Numbers : attempts[m] # "PENDING"
  BY <1>1, <1>3, ConstantsAssumption
<1>7. step = "count" => \A m \in Numbers : ~Live(m)
  BY <1>1, <1>3, <1>6 DEF OrderInv, SettledIsReported, Live
<1>8. StepInOrder(c)'
  BY <1>1, <1>2, <1>4, <1>5, <1>6, <1>7 DEF Steps, StepInOrder, At, Live
<1> QED
  BY <1>2, <1>3, <1>4, <1>5, <1>8, OrderMove

\* A call ends without a write: one of an administrator that may have left a
\* transfer behind is not in order.
LEMMA OrderReturns ==
    ASSUME Inv, OrderInv, orderly, NEW c \in Calls, call[c].pc # "idle", Return(c),
           UNCHANGED <<payout, attempts, ledger, manual>>,
           call[c].kind # "manual" \/ call[c].pc \in {"read", "count", "create"}
    PROVE  OrderInv'
<1>1. Steps(c, Idle)
  BY OthersIdle, StepsAlone DEF Return
<1>2. StepInOrder(c)'
  BY <1>1, IdleIsIdle DEF Steps, StepInOrder, At
<1>3. CASE call[c].kind = "manual"
  <2>1. \A n \in Numbers : attempts[n] # "PENDING"
    BY <1>3 DEF OrderInv, StepInOrder, At, Live
  <2>2. \A n \in manual : attempts[n] # "PENDING"
    BY <2>1 DEF Inv, TypeOK
  <2> QED
    BY <1>1, <1>2, <2>2, OrderMove
<1>4. CASE call[c].kind # "manual"
  <2>1. \A d \in Calls : call[d].kind # "manual"
    BY <1>1, <1>4, IdleIsIdle DEF Steps
  <2>2. \A n \in manual : attempts[n] # "PENDING"
    BY <2>1 DEF OrderInv, ByHand
  <2> QED
    BY <1>1, <1>2, <2>2, OrderMove
<1> QED
  BY <1>3, <1>4

LEMMA OrderReads ==
    ASSUME Inv, OrderInv, orderly, NEW c \in Calls, Read(c) \/ Count(c) \/ Reconcile(c)
    PROVE  OrderInv'
<1>1. /\ call[c] \in Call /\ call[c].pc \in {"read", "count", "reconcile"}
      /\ UNCHANGED <<payout, attempts, ledger, manual>> /\ StepInOrder(c)
      /\ attempts \in [Numbers -> AttemptStatus]
  BY DEF Inv, TypeOK, Read, Count, Reconcile, At, OrderInv
<1>2. \A d \in Calls \ {c} : call[d] = Idle
  BY <1>1, OthersIdle
<1>3. CASE Return(c)
  <2>1. call[c].kind # "manual" \/ call[c].pc \in {"read", "count", "create"}
    BY <1>1 DEF Inv, InProgress, At
  <2> QED
    BY <1>1, <1>3, <2>1, OrderReturns
<1>4. CASE Read(c) /\ payout # "SUCCEEDED" /\ Goto(c, "count")
  <2> DEFINE next == [call[c] EXCEPT !.pc = "count"]
  <2>1. next.pc = "count" /\ next.kind = call[c].kind /\ call' = [call EXCEPT ![c] = next]
    BY <1>1, <1>4 DEF Call, Goto
  <2> HIDE DEF next
  <2>2. Steps(c, next)
    BY <1>2, <2>1, StepsAlone
  <2>3. \A n \in Numbers : ~Live(n)
    BY <1>1, <1>4 DEF OrderInv, SettledIsReported, StepInOrder, Read, Live
  <2>4. StepInOrder(c)'
    BY <1>1, <2>1, <2>2, <2>3 DEF Steps, StepInOrder, At, Live
  <2> QED
    BY <1>1, <2>1, <2>2, <2>4, OrderMove
<1>5. CASE Count(c) /\ ~Return(c)
  <2> DEFINE next == [call[c] EXCEPT !.pc = "create", !.n = Cardinality(Recorded) + 1]
  <2>1. next.pc = "create" /\ next.kind = call[c].kind /\ call' = [call EXCEPT ![c] = next]
    BY <1>1, <1>5 DEF Call, Count
  <2> HIDE DEF next
  <2>2. Steps(c, next)
    BY <1>2, <2>1, StepsAlone
  <2>3. StepInOrder(c)'
    BY <1>1, <1>5, <2>1, <2>2 DEF Steps, StepInOrder, At, Live, Count
  <2> QED
    BY <1>1, <2>1, <2>2, <2>3, OrderMove
<1>6. CASE Reconcile(c)
  <2>1. PICK next : /\ call' = [call EXCEPT ![c] = next]
                    /\ next.n = call[c].n /\ next.kind = call[c].kind
                    /\ \/ next.pc = "issue"
                       \/ /\ next.pc = "complete" /\ ledger[call[c].n] # "none"
                          /\ next.out = Outcome(ledger[call[c].n])
    <3>1. CASE Goto(c, "issue")
      <4>1. /\ [call[c] EXCEPT !.pc = "issue"].pc = "issue"
            /\ [call[c] EXCEPT !.pc = "issue"].n = call[c].n
            /\ [call[c] EXCEPT !.pc = "issue"].kind = call[c].kind
            /\ call' = [call EXCEPT ![c] = [call[c] EXCEPT !.pc = "issue"]]
        BY <1>1, <3>1 DEF Call, Goto
      <4> QED
        BY <4>1
    <3>2. CASE /\ ledger[call[c].n] # "none"
               /\ call' = [call EXCEPT ![c].pc = "complete", ![c].out = Outcome(ledger[call[c].n])]
      <4> DEFINE after == [call[c] EXCEPT !.pc = "complete", !.out = Outcome(ledger[call[c].n])]
      <4>1. /\ after.pc = "complete" /\ after.n = call[c].n /\ after.kind = call[c].kind
            /\ after.out = Outcome(ledger[call[c].n]) /\ call' = [call EXCEPT ![c] = after]
        BY <1>1, <3>2 DEF Call
      <4> HIDE DEF after
      <4> QED
        BY <3>2, <4>1
    <3> QED
      BY <1>6, <3>1, <3>2 DEF Reconcile
  <2>2. Steps(c, next)
    BY <1>2, <2>1, StepsAlone
  <2>3. /\ attempts[call[c].n] = "PENDING" /\ call[c].n \notin manual
    BY <1>1, <1>6 DEF StepInOrder, Reconcile, At
  <2>4. next.pc = "complete" /\ next.out = "FAILED" => ledger[call[c].n] # "paid"
    BY <2>1 DEF Outcome
  <2>5. StepInOrder(c)'
    BY <1>1, <2>1, <2>2, <2>3, <2>4 DEF Steps, StepInOrder, At
  <2> QED
    BY <1>1, <2>1, <2>2, <2>5, OrderMove
<1> QED
  BY <1>3, <1>4, <1>5, <1>6 DEF Read

LEMMA OrderCreates ==
    ASSUME Inv, OrderInv, orderly, NEW c \in Calls, Create(c) PROVE OrderInv'
<1> DEFINE n == call[c].n
<1>1. /\ call[c] \in Call /\ call[c].pc = "create" /\ n \in Numbers
      /\ attempts \in [Numbers -> AttemptStatus] /\ manual \subseteq Numbers
      /\ \A m \in Numbers : ~Live(m)
  BY DEF Inv, TypeOK, Create, At, InProgress, OrderInv, StepInOrder
<1>2. \A d \in Calls \ {c} : call[d] = Idle
  BY <1>1, OthersIdle
<1>3. (\A m \in Numbers : ledger[m] # "paid") /\ manual = {}
  BY <1>1 DEF OrderInv, PaidIsLive
<1>4. CASE attempts[n] # "none"
  BY <1>1, <1>4, OrderReturns DEF Create
<1>5. CASE attempts[n] = "none"
  <2>1. /\ attempts' = [attempts EXCEPT ![n] = "PENDING"] /\ UNCHANGED ledger /\ Proceed(c)
    BY <1>5 DEF Create
  <2>2. attempts'[n] = "PENDING" /\ \A m \in Numbers \ {n} : attempts'[m] = attempts[m]
    BY <1>1, <2>1
  <2>3. PICK next : /\ call' = [call EXCEPT ![c] = next] /\ next.n = n /\ next.kind = call[c].kind
                    /\ \/ /\ next.pc = "complete" /\ next.out = "SUCCEEDED"
                          /\ next.kind = "manual" /\ manual' = {n}
                       \/ next.pc = "issue" /\ manual' = {}
    <3>1. CASE call[c].kind = "manual"
      <4> DEFINE after == [call[c] EXCEPT !.pc = "complete", !.out = "SUCCEEDED"]
      <4>1. /\ after.pc = "complete" /\ after.out = "SUCCEEDED" /\ after.n = n
            /\ after.kind = call[c].kind /\ call' = [call EXCEPT ![c] = after]
            /\ manual' = manual \cup {n}
        BY <1>1, <2>1, <3>1 DEF Call, Proceed
      <4> HIDE DEF after
      <4> QED
        BY <1>3, <3>1, <4>1
    <3>2. CASE call[c].kind # "manual"
      <4> DEFINE after == [call[c] EXCEPT !.pc = "issue"]
      <4>1. /\ after.pc = "issue" /\ after.n = n /\ after.kind = call[c].kind
            /\ call' = [call EXCEPT ![c] = after] /\ manual' = manual
        BY <1>1, <2>1, <3>2 DEF Call, Proceed, Goto
      <4> HIDE DEF after
      <4> QED
        BY <1>3, <4>1
    <3> QED
      BY <3>1, <3>2
  <2> HIDE DEF n
  <2>4. Steps(c, next)
    BY <1>2, <2>3, StepsAlone
  <2>5. OneLive' /\ PaidIsLive' /\ SettledIsReported'
    BY <1>1, <1>3, <2>1, <2>2, <2>3 DEF OneLive, PaidIsLive, SettledIsReported, Live
  <2>6. ByHand'
    BY <1>1, <1>3, <2>1, <2>3, <2>4 DEF ByHand, Steps
  <2>7. StepInOrder(c)'
    BY <1>1, <2>1, <2>2, <2>3, <2>4 DEF StepInOrder, Steps, At
  <2> QED
    BY <2>4, <2>5, <2>6, <2>7, OrderStep
<1> QED
  BY <1>4, <1>5

LEMMA OrderIssues ==
    ASSUME Inv, OrderInv, orderly, NEW c \in Calls, Issue(c) PROVE OrderInv'
<1> DEFINE n == call[c].n
<1>1. /\ call[c] \in Call /\ call[c].pc = "issue" /\ n \in Numbers
      /\ ledger \in [Numbers -> {"none", "paid", "refused"}] /\ manual \subseteq Numbers
      /\ attempts[n] = "PENDING" /\ n \notin manual
  BY DEF Inv, TypeOK, Issue, At, InProgress, OrderInv, StepInOrder
<1>2. \A d \in Calls \ {c} : call[d] = Idle
  BY <1>1, OthersIdle
<1>3. PICK done \in {"none", "paid", "refused"}, out \in {"SUCCEEDED", "FAILED"} :
          /\ ledger' = [ledger EXCEPT ![n] = done]
          /\ out = "FAILED" => done # "paid"
          /\ call' = [call EXCEPT ![c].pc = "complete", ![c].out = out]
  BY <1>1 DEF Issue, Outcome
<1>4. UNCHANGED <<payout, attempts, manual>>
  BY DEF Issue
<1> DEFINE next == [call[c] EXCEPT !.pc = "complete", !.out = out]
<1>5. /\ next.pc = "complete" /\ next.n = n /\ next.kind = call[c].kind
      /\ next.out = out /\ call' = [call EXCEPT ![c] = next]
  BY <1>1, <1>3 DEF Call
<1>6. ledger'[n] = done /\ \A m \in Numbers \ {n} : ledger'[m] = ledger[m]
  BY <1>1, <1>3
<1> HIDE DEF next, n
<1>7. Steps(c, next)
  BY <1>2, <1>5, StepsAlone
<1>8. OneLive' /\ PaidIsLive' /\ SettledIsReported'
  BY <1>1, <1>4, <1>6 DEF OrderInv, OneLive, PaidIsLive, SettledIsReported, Live
<1>9. ByHand'
  BY <1>1, <1>4, <1>5, <1>6, <1>7, IdleIsIdle DEF OrderInv, ByHand, Steps
<1>10. StepInOrder(c)'
  BY <1>1, <1>3, <1>4, <1>5, <1>6, <1>7 DEF StepInOrder, Steps, At
<1> QED
  BY <1>7, <1>8, <1>9, <1>10, OrderStep

LEMMA OrderCompletes ==
    ASSUME Inv, OrderInv, orderly, NEW c \in Calls, Complete(c) PROVE OrderInv'
<1> DEFINE n == call[c].n
           out == call[c].out
<1>1. /\ call[c].pc = "complete" /\ n \in Numbers /\ out \in {"SUCCEEDED", "FAILED"}
      /\ attempts \in [Numbers -> AttemptStatus] /\ manual \subseteq Numbers
      /\ attempts[n] = "PENDING"
      /\ out = "FAILED" => ledger[n] # "paid" /\ n \notin manual
  BY DEF Inv, TypeOK, Call, Complete, At, InProgress, OrderInv, StepInOrder
<1>2. /\ attempts' = [attempts EXCEPT ![n] = out] /\ payout' = out
      /\ call' = [call EXCEPT ![c] = Idle] /\ UNCHANGED <<ledger, manual>>
  BY DEF Complete, Return
<1>3. attempts'[n] = out /\ \A m \in Numbers \ {n} : attempts'[m] = attempts[m]
  BY <1>1, <1>2
<1> HIDE DEF n, out
<1>4. \A m \in Numbers \ {n} : ~Live(m)
  BY <1>1 DEF OrderInv, OneLive, Live
<1>5. Steps(c, Idle)
  BY <1>1, <1>2, OthersIdle, StepsAlone
<1>6. OneLive' /\ PaidIsLive' /\ SettledIsReported'
  BY <1>1, <1>2, <1>3, <1>4 DEF OrderInv, OneLive, PaidIsLive, SettledIsReported, Live
<1>7. ByHand'
  BY <1>1, <1>2, <1>3, <1>4 DEF OrderInv, ByHand, Live
<1>8. StepInOrder(c)'
  BY <1>5, IdleIsIdle DEF StepInOrder, Steps, At
<1> QED
  BY <1>5, <1>6, <1>7, <1>8, OrderStep

LEMMA OrderNext == ASSUME Inv, OrderInv, [Next]_vars PROVE OrderInv'
<1> SUFFICES ASSUME orderly' PROVE OrderInv'
    BY DEF OrderInv
<1>1. ASSUME NEW c \in Requests, BeginRelease(c) \/ BeginRetry(c) \/ BeginConfirm(c) PROVE OrderInv'
  BY <1>1, OrderBegins DEF Calls
<1>2. ASSUME NEW c \in Workers, Recover(c) PROVE OrderInv'
  BY <1>2, OrderBegins DEF Calls, Recover
<1>3. ASSUME NEW c \in Calls, Continue(c) PROVE OrderInv'
  <2>1. orderly
    BY <1>3 DEF Continue, Read, Count, Create, Reconcile, Issue, Complete
  <2> QED
    BY <1>3, <2>1, OrderReads, OrderCreates, OrderIssues, OrderCompletes DEF Continue
<1>4. ASSUME NEW c \in Calls, LoseReply(c) PROVE FALSE
  BY <1>4 DEF LoseReply
<1>5. ASSUME NEW c \in Calls, Crash(c) PROVE OrderInv'
  <2>1. orderly /\ call[c].kind # "manual" /\ call[c] # Idle /\ Return(c)
        /\ UNCHANGED <<payout, attempts, ledger, manual>>
    BY <1>5 DEF Crash
  <2>2. CASE call[c].pc # "idle"
    BY <2>1, <2>2, OrderReturns
  <2>3. CASE call[c].pc = "idle"
    <3>1. \A d \in Calls \ {c} : call[d] = Idle
      BY <2>1 DEF OrderInv, Alone
    <3>2. Steps(c, Idle)
      BY <2>1, <3>1, StepsAlone DEF Return
    <3>3. StepInOrder(c)'
      BY <3>2, IdleIsIdle DEF Steps, StepInOrder, At
    <3>4. \A d \in Calls : call[d].kind # "manual"
      BY <2>1, <3>1, IdleIsIdle
    <3>5. \A n \in manual : attempts[n] # "PENDING"
      BY <2>1, <3>4 DEF OrderInv, ByHand
    <3> QED
      BY <2>1, <3>2, <3>3, <3>5, OrderMove
  <2> QED
    BY <2>2, <2>3
<1>6. ASSUME NEW n \in Numbers, Age(n) PROVE OrderInv'
  BY <1>6 DEF Age, OrderInv, Alone, OneLive, PaidIsLive, SettledIsReported, ByHand, StepInOrder,
              At, Live
<1>7. CASE UNCHANGED vars
  BY <1>7 DEF vars, OrderInv, Alone, OneLive, PaidIsLive, SettledIsReported, ByHand, StepInOrder,
              At, Live
<1> QED
  BY <1>1, <1>2, <1>3, <1>4, <1>5, <1>6, <1>7 DEF Next

\* What was paid was paid under the one live attempt, and in one way.
LEMMA PaidOnce == ASSUME Inv, OrderInv, orderly PROVE Paid <= 1
<1> DEFINE byProvider == {n \in Numbers : ledger[n] = "paid"}
<1>1. manual \subseteq Numbers /\ byProvider \cap manual = {}
  BY DEF Inv, TypeOK, OrderInv, ByHand
<1>2. \A m, n \in byProvider \cup manual : m = n
  BY <1>1 DEF OrderInv, OneLive, PaidIsLive
<1>3. Paid = Cardinality(byProvider) + Cardinality(manual)
  BY DEF Paid
<1> HIDE DEF byProvider
<1>4. CASE byProvider = {} /\ manual = {}
  BY <1>3, <1>4, FS_EmptySet
<1>5. ASSUME NEW x \in byProvider PROVE Paid <= 1
  <2>1. byProvider = {x} /\ manual = {}
    BY <1>1, <1>2, <1>5
  <2> QED
    BY <2>1, <1>3, FS_EmptySet, FS_Singleton
<1>6. ASSUME NEW x \in manual PROVE Paid <= 1
  <2>1. byProvider = {} /\ manual = {x}
    BY <1>1, <1>2, <1>6
  <2> QED
    BY <2>1, <1>3, FS_EmptySet, FS_Singleton
<1> QED
  BY <1>4, <1>5, <1>6

\* The professional is paid once, by the provider or by hand, through any
\* number of refusals, retries, confirmations, crashes and recoveries, as long
\* as calls follow one another, no answer of the provider is lost and no manual
\* confirmation is cut short (executePayoutForJob, confirmManualPayout,
\* recoverStuckPayoutAttempts).
THEOREM PaidOnceWhenInOrder == Spec => []PaidOnceInOrder
<1>1. Inv /\ OrderInv /\ [Next]_vars => OrderInv'
  BY OrderNext
<1>2. Inv /\ OrderInv => PaidOnceInOrder
  BY PaidOnce DEF PaidOnceInOrder
<1> QED
  BY <1>1, <1>2, OrderInit, Invariant, PTL DEF Spec
=============================================================================
