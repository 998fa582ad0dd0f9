------------------------------- MODULE Money -------------------------------
(***************************************************************************)
(* Integer money of the backend: contract amounts are minor units of the   *)
(* job's currency, settlement is in UYU cents.  Translated from            *)
(* money-conversion.service.ts and the commission split of                 *)
(* EscrowService.fundEscrow.                                               *)
(***************************************************************************)
EXTENDS Integers

\* ESCROW_COMMISSION_RATE_BPS of escrow.config.ts, in basis points.
CONSTANT CommissionBps

ASSUME CommissionAssumption == CommissionBps \in 0..10000

MicrosPerUnit == 1000000
BpsPerUnit == 10000

\* Math.round(n / d) for n >= 0, d > 0: a half is rounded up.
RoundHalfUp(n, d) == (2 * n + d) \div (2 * d)

\* convertJobAmountToUyuCents.  A job in UYU is converted at MicrosPerUnit,
\* where the rounding is the identity.
HeldAmount(total, sellRateMicros) ==
    RoundHalfUp(total * sellRateMicros, MicrosPerUnit)

\* Mutant: the configured basis points are taken for per cent.
CommissionInPercent(amount) == RoundHalfUp(amount * CommissionBps, 100)

\* The platform's share of a held amount, rounded to the cent.
CommissionOf(amount) == RoundHalfUp(amount * CommissionBps, BpsPerUnit)

\* Mutant: the net is a rounding of its own instead of the remainder.
NetRoundedAlone(amount) == (amount * (BpsPerUnit - CommissionBps)) \div BpsPerUnit

\* What is left for the professional.
NetOf(amount) == amount - CommissionOf(amount)
=============================================================================
