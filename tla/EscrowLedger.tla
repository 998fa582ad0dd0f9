---------------------------- MODULE EscrowLedger ----------------------------
(***************************************************************************)
(* What the escrow of one job promises, without handlers: money is taken   *)
(* in once for one professional, and either stays held or goes to that     *)
(* professional in full.  The status only moves forward (escrow-logic.md,  *)
(* "Regla de progresion").                                                 *)
(***************************************************************************)
EXTENDS Integers

CONSTANTS Pros, Nobody

VARIABLES status, payee, amount, net

ledger == <<status, payee, amount, net>>

Init == status = "NONE" /\ payee = Nobody /\ amount = 0 /\ net = 0

\* A professional takes the job.
Open(p) ==
    /\ status = "NONE" /\ status' = "PENDING"
    /\ payee' = p
    /\ UNCHANGED <<amount, net>>

\* The client's money arrives; the platform keeps its share of it.
Hold ==
    /\ status = "PENDING" /\ status' = "HELD"
    /\ amount' \in Nat /\ net' \in 0..amount'
    /\ UNCHANGED payee

Release ==
    /\ status = "HELD" /\ status' = "RELEASED"
    /\ UNCHANGED <<payee, amount, net>>

Next == (\E p \in Pros : Open(p)) \/ Hold \/ Release

Spec == Init /\ [][Next]_ledger
=============================================================================
