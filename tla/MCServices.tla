----------------------------- MODULE MCServices -----------------------------
(* Services for TLC: no part tells one request from another.  Two trades,   *)
(* and two professionals in a search, are alike too: one initial state       *)
(* stands for those that differ in which of them is which.                  *)
EXTENDS Services, SequencesExt

Symmetry == Permutations(Slots)

Offered == SetToSeq(Finder!Offers)

\* Of two professionals, the first one has the row that is listed first.
RowsInOrder ==
    LET s == CHOOSE t \in Professionals : TRUE IN
    \A t \in Professionals : \A i, j \in DOMAIN Offered :
        Offered[i] = searchRows[s] /\ Offered[j] = searchRows[t] => i <= j

Start ==
    /\ Init
    /\ linkTrade = CHOOSE f \in [LinkedJobs -> Trades] : TRUE
    /\ focus = "search" => RowsInOrder

StartSpec == Start /\ [][Next]_vars
=============================================================================
