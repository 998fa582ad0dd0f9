---------------------------- MODULE MCPortfolio ----------------------------
(* Portfolio for TLC: requests are alike, and so are photos.               *)
EXTENDS Portfolio, TLC

Symmetry == Permutations(Slots) \cup Permutations(Photos)
=============================================================================
