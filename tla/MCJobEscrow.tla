---------------------------- MODULE MCJobEscrow ----------------------------
\* Small instances of JobEscrow for TLC.
EXTENDS JobEscrow, TLC

\* One rate for a job in UYU, two consecutive BCU rates for a job in USD.
RateUyu == {1000000}
RatesUsd == {40000000, 41000000}

\* Request slots, professionals and payments are interchangeable; used by the
\* runs that check safety only.
Interchangeable == Permutations(Requests) \cup Permutations(Pros) \cup Permutations(Payments)
=============================================================================
