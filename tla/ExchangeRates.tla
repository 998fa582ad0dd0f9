--------------------------- MODULE ExchangeRates ---------------------------
(***************************************************************************)
(* The UYU/USD rate: the daily synchronisation with the central bank (BCU), *)
(* and the checkout of a job in dollars that is priced with it.             *)
(*                                                                         *)
(* A sync takes the calendar day when it starts, asks the BCU for that day  *)
(* only and upserts one row per day; the latest row is the current rate.    *)
(* A rate is the number of its edition: the BCU may revise a day.           *)
(*                                                                         *)
(* effectiveDate is a DATE.  PostgreSQL drops its hour and Prisma reads it  *)
(* as midnight UTC, so in a zone behind UTC its calendar day is the day     *)
(* before.                                                                  *)
(***************************************************************************)
EXTENDS Naturals

CONSTANTS
    Slots,          \* syncs in progress at once
    MaxDay,         \* bound: days
    MaxEdition      \* bound: editions of a day's rate

VARIABLES
    behindUtc,      \* the zone of APP_TIMEZONE is behind UTC, as Montevideo is
    today,          \* the calendar day in that zone
    bcu,            \* the BCU's rates: day -> edition, 0 before the first
    rates,          \* ExchangeRate rows: day -> edition, 0 for no row
    syncs,          \* the syncs in progress
    checkout,       \* the checkout in progress
    fetched,        \* history: the last edition written for each day
    orderly         \* history: no sync has met another

vars == <<behindUtc, today, bcu, rates, syncs, checkout, fetched, orderly>>

Days == 1..MaxDay
Editions == 0..MaxEdition
Idle == [pc |-> "idle"]
Rows == {d \in Days : rates[d] # 0}

Init ==
    /\ behindUtc \in BOOLEAN /\ today = 1
    /\ bcu = [d \in Days |-> 0] /\ rates = [d \in Days |-> 0]
    /\ syncs = [s \in Slots |-> Idle] /\ checkout = Idle
    /\ fetched = [d \in Days |-> 0] /\ orderly = TRUE

Goto(s, sync) == syncs' = [syncs EXCEPT ![s] = sync]

-----------------------------------------------------------------------------
\* BcuSyncProcessor.process, syncFromBcu: the day is taken once.
BeginSync(s) ==
    /\ syncs[s] = Idle /\ Goto(s, [pc |-> "fetch", day |-> today])
    /\ orderly' = (orderly /\ \A r \in Slots : syncs[r] = Idle)
    /\ UNCHANGED <<behindUtc, today, bcu, rates, checkout, fetched>>

\* fetchUsdCotizaciones: the day's rate; without one there is nothing to write.
Fetch(s) ==
    /\ syncs[s].pc = "fetch"
    /\ LET d == syncs[s].day
       IN Goto(s, IF bcu[d] = 0 THEN Idle ELSE [pc |-> "upsert", day |-> d, edition |-> bcu[d]])
    /\ UNCHANGED <<behindUtc, today, bcu, rates, checkout, fetched, orderly>>

\* assertSuccessfulResponse, parseCotizacionesLive: an HTTP error, a fault, a
\* code other than success, or no row that parses.  The job is not retried.
FetchFails(s) ==
    /\ syncs[s].pc = "fetch" /\ Goto(s, Idle)
    /\ UNCHANGED <<behindUtc, today, bcu, rates, checkout, fetched, orderly>>

Write(s, row, d) ==
    /\ Goto(s, Idle)
    /\ rates' = row /\ fetched' = [fetched EXCEPT ![d] = syncs[s].edition]
    /\ UNCHANGED <<behindUtc, today, bcu, checkout, orderly>>

\* Mutant: one row per pair of currencies.
UpsertPair(s) ==
    /\ syncs[s].pc = "upsert"
    /\ Write(s, [d \in Days |-> IF d = syncs[s].day THEN syncs[s].edition ELSE 0], syncs[s].day)

\* upsertRate: one row per pair and day.
Upsert(s) ==
    /\ syncs[s].pc = "upsert"
    /\ Write(s, [rates EXCEPT ![syncs[s].day] = syncs[s].edition], syncs[s].day)

-----------------------------------------------------------------------------
\* findLatestUsdRate
Latest == CHOOSE d \in Rows : \A e \in Rows : e <= d

\* formatInTimeZone of the column
ZoneDay(d) == IF behindUtc THEN d - 1 ELSE d

\* isEffectiveDateStale
Stale(d) == ZoneDay(d) < today

\* createJobCheckout in USD: refused without a rate or with a stale one.
BeginCheckout ==
    /\ checkout.pc # "convert" /\ Rows # {} /\ ~Stale(Latest)
    /\ checkout' = [pc |-> "convert", asked |-> today]
    /\ UNCHANGED <<behindUtc, today, bcu, rates, syncs, fetched, orderly>>

\* convertJobTotalToUyuCents: the rate is read again.
Convert ==
    /\ checkout.pc = "convert"
    /\ checkout' = [pc |-> "priced", asked |-> checkout.asked, day |-> Latest]
    /\ UNCHANGED <<behindUtc, today, bcu, rates, syncs, fetched, orderly>>

-----------------------------------------------------------------------------
\* The BCU publishes or revises the rate of a day that has come.
Publish(d) ==
    /\ d <= today /\ bcu[d] < MaxEdition /\ bcu' = [bcu EXCEPT ![d] = @ + 1]
    /\ UNCHANGED <<behindUtc, today, rates, syncs, checkout, fetched, orderly>>

Midnight ==
    /\ today < MaxDay /\ today' = today + 1
    /\ UNCHANGED <<behindUtc, bcu, rates, syncs, checkout, fetched, orderly>>

Next ==
    \/ \E s \in Slots : BeginSync(s) \/ Fetch(s) \/ FetchFails(s) \/ Upsert(s)
    \/ BeginCheckout \/ Convert
    \/ \E d \in Days : Publish(d)
    \/ Midnight

Spec == Init /\ [][Next]_vars

-----------------------------------------------------------------------------
TypeOK ==
    /\ behindUtc \in BOOLEAN /\ today \in Days
    /\ bcu \in [Days -> Editions] /\ rates \in [Days -> Editions] /\ fetched \in [Days -> Editions]
    /\ \A s \in Slots :
          syncs[s] \in {Idle} \cup [pc : {"fetch"}, day : Days]
                              \cup [pc : {"upsert"}, day : Days, edition : Editions]
    /\ checkout \in {Idle} \cup [pc : {"convert"}, asked : Days]
                           \cup [pc : {"priced"}, asked : Days, day : Days]
    /\ orderly \in BOOLEAN

\* The current rate is that of the newest day ever synchronised, whatever order
\* the syncs end in, in the BCU's edition of when it was fetched; a checkout is
\* priced at the rate of a day no earlier than the one it was asked on; and
\* syncs that do not meet never put back an older edition.
RateIsLatest ==
    /\ Rows = {d \in Days : fetched[d] # 0}
    /\ checkout.pc = "priced" => checkout.day >= checkout.asked
    /\ \A d \in Rows : rates[d] = fetched[d] /\ rates[d] <= bcu[d]
    /\ orderly => \A s \in Slots : syncs[s].pc = "upsert" => syncs[s].edition >= rates[syncs[s].day]

\* "flag stale si fecha < hoy": the rate of today is not stale today.
TodaysRateIsFresh == rates[today] # 0 => ~Stale(Latest)
=============================================================================
