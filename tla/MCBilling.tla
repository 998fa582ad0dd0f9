----------------------------- MODULE MCBilling -----------------------------
(* Billing for TLC: handlers are alike, and so are the two paid plans.     *)
EXTENDS Billing, TLC

Symmetry == Permutations(Slots) \cup Permutations(Plans)
=============================================================================
