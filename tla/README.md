# Formal models of the Nexo backend

TLA+ specifications of the Nexo backend (NestJS, Prisma on PostgreSQL, BullMQ on
Redis, Mercado Pago), TLC configurations that check them on small instances and
TLAPS proofs of their main invariants. The money paths came first; what decides
who a professional is, what clients see of them and which plan they have
followed. `PROJECT.json`
is the index: components, runs, mutants, the map from definitions to source
lines, findings, hazards and theorems. Source paths below are relative to
`src/src/modules/` unless they say otherwise.

Contents: 1 the system; 2 the modules; 3 how they correspond to the code; 4 the
runs, their bounds and fairness; 5 the proofs; 6 where documents and code
disagree; 7 what is not modelled; 8 the plan.

## 1. The system

Nexo is a marketplace: a client publishes a job, a professional accepts it, the
client pays into an escrow, the work is done and approved (or silently accepted
after a deadline), and the professional is paid. Around that core there are
subscriptions, identity checks of professionals and companies, portfolios
moderated by an AI pipeline, and search. There is one PostgreSQL database; every
process is a stateless Node instance, so **all** coordination between requests,
queue workers and webhooks goes through rows, unique keys and BullMQ job ids.

| component | state it keeps | operations that change it | what makes it correct |
|---|---|---|---|
| jobs (`jobs/`) | `Job`, `JobChangeOrder`, price lines | create, accept, PATCH status, complete, approve, propose and resolve change orders | one professional gets the job; CLOSED only with the release; the total is what was agreed |
| escrow (`escrow/`) | `EscrowTransaction`, queue `silent-acceptance` | open, fund, release, silent acceptance | money in once, out once, never back; the split is exact; finished and funded work gets settled |
| escrow payout (`escrow/`) | `PayoutAttempt`, `payoutStatus` | execute, retry, confirm by hand, two recovery loops | paid once; nothing reported that was not paid; no attempt stuck |
| payments (`payments/`) | `PaymentWebhookIdempotency`, checkout session | checkout, webhook, the begin/complete/abandon of a row | no approval lost, none applied twice, nothing funded that was not approved |
| exchange-rates (`exchange-rates/`) | `ExchangeRate`, one row per day | BCU sync, current rate, conversion | the snapshot of one instant at a rate in force; the latest day's rate is the one used |
| payout-accounts (`payout-accounts/`) | accounts, the primary flag | create, set primary, update, deactivate | at most one primary; a job is accepted only by someone who can be paid |
| billing (`billing/`) | `BillingSubscription`, profile plan, dunning queue | subscribe, cancel, preapproval and payment webhooks, dunning, downgrade | the plan follows what is paid; nothing charged that is not recorded |
| entitlements (`entitlements/`) | plan definitions, the profile's plan, a cache per process | assign a catalogue or custom plan, revise a plan, resolve | the plan in force is the one assigned, and grants what its row says |
| users: DGI verification (`users/`) | verification status, documents, trust level, queues | submit, verify, watchdog, orphan clean-up, administrator review | VERIFIED is backed by a document of the DGI; nobody stays in PROCESSING |
| users: profile and company, authorization | profiles, companies, employees, cached role | register, onboard with a location, resolve the role | one registration per person and RUT; a location nested in the catalogue |
| service-areas (`service-areas/`) | area rows, the primary flag | create under the limit, promote, edit, delete | one primary area; the plan's limit holds |
| portfolio (`portfolio/`) | items, photos, consents, moderation log, three queues, the bucket | item life cycle, moderation, photos, link to a job, consent, clean-up, review | nothing public that was not reviewed; a badge only for what the client accepted |
| ai (`ai/`) | Redis and PostgreSQL caches, lock | moderate text and image | a verdict is the one of that content under that policy |
| categories, geo | catalogue rows, cached trees and answers, a prompt per process | create, update, remove; resolve an address | the rules of the tree; caches that agree with the database |
| search (`search/`) | cache of query expansions | expand, four queries, rank, merge, page | a page shows what matches, in order, once |
| storage (`storage/`) | objects in the bucket | presign, HEAD, delete | what is shown is there |
| realtime, notifications, auth, admin, diagnostics, common | none of their own, or single rows | reads, output | - |

**Interactions.** `JobsService.accept` creates the escrow row in its own
transaction and asks payout-accounts whether the professional can be paid.
`PaymentsService` converts with exchange-rates, calls the gateway and stores the
session on the escrow row; its webhook takes an idempotency row and calls
`EscrowService.fundEscrow`. `JobsService.complete` schedules a BullMQ job with
the id `silent-<jobId>` that `SilentAcceptanceProcessor` runs;
`approveCompletion` removes it and closes and releases in one transaction. Both
continue, outside that transaction, with
`EscrowPayoutService.executePayoutForJob`, whose leftovers the payout-recovery
cron picks up. Billing shares the webhook idempotency table and writes the
profile's plan, which entitlements resolve and which limits portfolio items and
service areas. The portfolio asks the ai component for a verdict through a queue,
links an item to a CLOSED job and its badge to the client's consent. DGI
verification, registration and the RUT decide who a subject is; payout-accounts
decide whether a professional may accept; geo and categories give search its
rows.

**What is hard about it.** Handlers read, decide and write without locks: the
guard of most writes is a read in an earlier statement, and only some writes
repeat it in their `where`. Providers repeat, delay and reorder notifications.
Processes die between a transaction, a queue call and a gateway call. Rows and
queue entries that describe the same thing are written separately. Rates move
between checkout, notification and funding. `PROJECT.json`, "hazards", lists
each at its line with the properties that watch it.

## 2. The modules

| module | what it is |
|---|---|
| `Money` | conversion to UYU cents, commission and net, as pure operators on integers |
| `EscrowLedger` | abstract: what the escrow of one job promises (opened once for one payee, held once, released once) |
| `JobEscrow` | the job, its change orders, its escrow row, checkout and funding, the exchange rate, the silent-acceptance queue and worker; implements `EscrowLedger` |
| `WebhookIdempotency` | the notifications of one payment around the idempotency row |
| `PaymentIntake` | which payment funds which job: links, payments, orders and both kinds of notification, for several jobs |
| `EscrowPayout` | payout attempts of one released escrow: calls, provider, recovery |
| `Billing` | the subscription of one subject: row, profile plan, preapprovals at Mercado Pago, webhooks, dunning |
| `Portfolio` | one item: its life cycle, the moderation queue and its verdicts, reports, the administrator, the clean-up |
| `PhotoOrder` | the positions of an item's photos |
| `PhotoStorage` | photos, their files in the bucket, the check before publication, the clean-up |
| `PortfolioLink` | an item's category, its job, the badge, the plan's limit of items |
| `PortfolioConsent` | the client's consent: request, answer, reminder, expiry |
| `DgiVerification` | submissions, the worker and its strategies, watchdog, administrator, orphan clean-up |
| `DgiDocument` | the RUT's check and the verdict on QR code, page and text, as operators |
| `PayoutAccounts`, `ServiceAreas` | rows of which one is primary |
| `PayoutDestination` | what a payout account says of its destination, from the form to the gateway, the snapshot and the listing |
| `Registration` | companies, profiles, employees, the RUT in two tables, the cached role |
| `PlanAssignment`, `PlanEntitlements` | who writes the plan of a subject and how it is resolved; what the stored JSON grants |
| `Moderation` | the inference with its two caches and its lock |
| `Categories`, `GeoCatalog`, `GeoPlaces` | the tree of trades; neighbourhoods added by a resolution, with the caches; an address, place id or pin turned into one location |
| `Search`, `Listings` | one search and its pages; the paged lists of portfolio, jobs and payouts |
| `ExchangeRates` | the daily synchronisation, the current rate, the checkout in dollars |
| `Progress`, `Reputation`, `Services` | suites: several of the modules above side by side (below) |
| `MCJobEscrow`, `MCBilling`, `MCPortfolio`, `MCServices` | values and symmetry for TLC |
| `JobEscrow_proofs`, `WebhookIdempotency_proofs`, `EscrowPayout_proofs`, `Billing_proofs`, `Portfolio_proofs` | TLAPS, of the modules |
| `Progress_proofs`, `Reputation_proofs`, `Services_proofs` | TLAPS, of the suites and so of the parts they hold |

**What composes what.** `JobEscrow` extends `Money` and implements
`EscrowLedger`. It abstracts the idempotency row to "a notification that passed
the checks of `fundEscrowFromReference` arrives any number of times"
(`BeginFund`), which allows more than the row does; `WebhookIdempotency` opens
that step up for one payment, with crashes and takeovers, and `PaymentIntake`
for several payments, orders and jobs, with the row reduced to the set of keys
that are done. `EscrowPayout` starts where `JobEscrow` has RELEASED the escrow.
`Billing` keeps of the row that one handler at a time works on a resource and
none does once it is COMPLETED. `Portfolio` leaves the positions of the photos,
their files, the link and the consent to the four modules named after them;
`PlanAssignment`'s plans are the numbers `ServiceAreas` and `PortfolioLink` are
limited by, and `Moderation` is how the verdict comes about that `Portfolio`'s
worker writes.

**The suites.** The components outside the money path share no state that two
of them write, so their interleavings would only multiply states. A suite has
the variables of all its parts and a variable `focus`: a behaviour chooses a
part at the start, is a behaviour of that part alone, and the others rest in an
initial state. One run then checks all parts, and a property of a suite is
asked of the part that moves. `Progress` holds the parts where money waits (job, billing,
payments), `Reputation` what is shown of a professional (photos, files,
consent, dgi, document), `Services` the other fourteen.
A part's ASSUMEs are the suite's, about the suite's own constants, since TLC
evaluates no ASSUME of an instantiated module.

## 3. Correspondence to the code

One job, one payment, one escrow, one subject, one item are enough in most
modules, because every handler addresses rows by one id and no statement ranges
over several; where one does (a unique key, a primary flag, a limit, a list, a
payment link that names its job) the module has several rows. What is
concurrent is the number of *handlers*: each is a slot (`req`, `del`, `call`,
`calls`) that holds what the handler has read.
Every database transaction, queue call and gateway call is a step of its own;
consecutive reads with no write of the handler between them are one step, and
everything may happen between two steps.

**JobEscrow.** `job`, `escrow` and `orders` are the rows; `job.completed` and
`job.quoted` are history (the code's `completedAt`, and the sum of the price
lines). `timer` is the BullMQ job with id `silent-<jobId>`: absent, delayed,
locked by a worker, or failed and kept (`attempts: 1`, `removeOnFail` unset).
`worker` is the processor. `links` and `charged` are the provider: the amounts
the client was given a link for, and what each payment charged. A write `by id`
in the code (`updateStatus`, `setCheckoutSession`, `resolveChangeOrder`,
`setBullJobId`) has no guard on the row in the model; a conditional
`updateMany` has. `CloseAndRelease` is the transaction of
`approveCompletionAtomically` and of `processSilentAcceptance`: if the escrow is
neither HELD nor RELEASED it throws and nothing of it happens. `Crash` ends a
request anywhere, which also stands for any failing call in it.

**WebhookIdempotency.** `due` are the notifications the provider has not seen
answered with 200; `entry` and `stale` the row and whether it is older than
`PAYMENTS_WEBHOOK_IDEMPOTENCY_STALE_MS`; `del` the step of each request. `Begin`
is `findUnique` and its branches, `DeleteStale` and `Create` the two statements
after it, whose gap is not protected. `fits` says whether the job's total,
converted now, is what the payment paid: `Reprice` (a rate sync, a change order)
makes it false or true at any time, and `CheckEscrow` refuses a payment that does
not fit (`PAYMENT_AMOUNT_MISMATCH`, `payments.service.ts:444`). `aged` is history:
the row has once outlived the threshold. `Fail` is any exception inside the
handler's `try`, `Crash` a dead process. Topic and id are the key, so all
notifications of the payment use one row whatever status they announce.

**EscrowPayout.** `attempts` are the rows by attempt number (unique per escrow),
`ledger` what the provider did under each key `payout:<escrow>:attempt:<n>`,
honouring a key once (external; `payments-psp.md`, 37-41), `manual` the attempts
that record a transfer an administrator made by hand. A call is one execution of
`executePayoutForJob`, `confirmManualPayout` or an iteration of
`recoverStuckPayoutAttempts`. `LoseReply` is an exception of `issuePayout`: the
provider has paid, or was never reached, and the code records FAILED either way.
`orderly` is history and no guard reads it.

**Billing.** `sub` is the `BillingSubscription` row and `profile` the plan of
the professional's or company's profile, which is what entitlements read. `mp`
is the status of each preapproval at the provider, `links` those whose init
point the subject was given (the payer accepts no other), `pay` the recurring
charges. All of them carry one external reference, which is how webhooks find
the row: a charge or a status says nothing of which preapproval the row names.
`closed` are the resources whose idempotency row is COMPLETED. `BeginSync` and
`BeginPayment` are the reads at the provider, `Find` the read of the row, and
the writes that follow are by id. `Subscribed` is one transaction over row and
profile; `Activate`/`SyncProfile` and `Downgrade`/`FreeProfile` are two writes
each, as in the code. The worker's three lists are separate reads from which it
goes on with the row as it was listed. Time is what the code asks of it:
whether the period is over, read only of a CANCELED row, and what is left of
the grace, read only of one that is PAST_DUE (more than five days, more than
one, some, none); so it passes in those statuses. `HandlerFails` and `CronFails`
stand for a dead process and for any call that throws; the webhook's catch
abandons the row, so the resource stays open. `recorded` and `orderly` are
history and no guard reads them.

**PaymentIntake.** A link is a preference, which carries its job's external
reference for ever; `payments` are what clients made of links, `completed` the
keys (topic and id) whose row is COMPLETED, `skipped` history: keys completed
without funding because nothing was approved yet. A `merchant_order` leads to
the approved payment of its order. `call` is, by key, the notification being
handled: the row lets one handler at a time work on a key, so that a handler goes
by its key. `price` is what each job's total converts
to now, and moves with the rate and with change orders (`Reprice`). The way to
the escrow is three steps, as the code awaits between them: `Check`
(`payments.service.ts:422`, which compares what was paid with the conversion of
now), `Convert` (`escrow.service.ts:43`, which reads and converts again) and
`FundEscrow` (`escrow.repository.ts:49`, which writes what `Convert` found).
`moved`, in a handler and then in the escrow row, is history: the amount moved
between the first two.

**Portfolio.** `item` is the row, `photos` its photo rows by key, `jobs` the
moderation jobs with what they were queued with (text and keys: the worker reads
nothing else), `stored` the bucket. A request keeps the item it read first,
because `enqueueRemoderationIfNeeded` decides by that snapshot. `reviewed` is
history: what a verdict or an administrator has passed. `orderly` becomes FALSE
when a request meets another request or a queued job, or something fails. `ban`
is history: in force once an administrator hides an item with nothing under way,
none when an administrator gives it back, undone when a client's complaint
(`declinePortfolioConsent`, `portfolio.repository.ts:741`) moves the item to
HIDDEN_PENDING_REVIEW, with no administrator. An edit or a new photo is written
first and the item hidden by a second update (`"pend"`): in between it is public
and unreviewed, which `PublishedIsReviewed` excepts and a crash makes last.

**PhotoOrder, PhotoStorage.** READ COMMITTED is modelled by what a transaction
read before its write; the shift of positions is one step since its rows are
locked until commit. In `PhotoStorage` no key is ever in two rows (they are
generated); `known` is the Redis cache of HEAD results; the clean-up lists rows
and deletes objects.

**PortfolioLink, PortfolioConsent.** The trigger that freezes a verified item
(`portfolio_item_freeze_after_verification`) is part of the update's step.
`agreed` is history: what the item said when the client accepted. `closed` are the
jobs that are CLOSED now, `released` those whose escrow was released: an approval
adds to both, but `updateStatus` writes by id (`jobs.repository.ts:204`), so a
stale start or completion takes a job out of `closed` again (`Reopen`). Acceptance is
one serializable transaction; a refusal reads and later updates by id.

**DgiVerification, DgiDocument.** Every job of a subject has one id, so the
queue holds one and ignores additions meanwhile. The worker's two strategies,
its writes, `onFailed`, the watchdog's read and its write are steps; what a
document says is a choice here and computed in `DgiDocument` from the QR code,
the page's labels and numbers, and the text.

**PayoutAccounts, ServiceAreas, Registration, PlanAssignment.** A transaction
that reads, then writes, is two steps unless what it reads is locked; a clearing
`updateMany` remembers the rows it saw (READ COMMITTED does not see rows inserted
later, and sees the newest version of those it waited for). Unique indexes
refuse. Plan assignment is no transaction in the code and none in the model.
The caches of roles and of plans are those of one process, whose reader takes
the row and stores it later.

**PayoutDestination.** A text is its form (what the validation's expressions
tell apart), its length, its digits and whether it is still raw, that is, not
trimmed, lower-cased or stripped. `snapshot` is the masked copy an attempt
keeps, `told` what the gateway, recovery's call of the gateway or the listing
for administrators is given as the destination.

**Moderation, Categories, GeoCatalog.** Releases of the program with different
policies share caches and lock. Reading the database and filling a cache are two
steps, so a filler may be overtaken; what a cached value was built from is the
number of changes (categories) or the catalogue itself (geo).

**Search, Listings.** The queries of one request are separate steps over rows
that owners change in between. What a query returns is any list that its ORDER
BY and LIMIT allow (`FirstOf`): rows that tie come in any order and any of them
may be cut. The merge is a stable sort, a hit standing where as many are
`Ahead`. In `Listings` a row keeps the set of those with an older sort key
(`older`), so that its place in a list is how many are shown before it, and a
write that moves `updatedAt` changes one row's set; `seen` and `again` are what
the client has been shown, and shown twice. A behaviour is a client who turns
the pages of one of the lists. Two things are assumed of the data: the query is
among the terms that are kept of an expansion (`maxTerms`; an answer that lists
it beyond them loses it), and no two rows of a list have the same sort key, a
timestamp in milliseconds.

**ExchangeRates.** A DATE is read as midnight UTC: the calendar day in a zone
behind UTC is the day before. A rate is told apart by its edition, as the
central bank may revise a day.

`orderly` and `settled`, wherever they appear, are history variables that no
guard reads. They say that what the property promises is owed: no two
operations of the kind the code does not order have overlapped, and nothing the
code leaves unrepaired has failed. Each module's comment says which overlaps;
section 6 says what happens when they do.

## 4. Runs, bounds, fairness

| run | module, cfg | shows |
|---|---|---|
| `job_safety` | `MCJobEscrow`, `JobEscrow_safety.cfg` | type, safety and action properties, and that `JobEscrow` implements `EscrowLedger` |
| `webhook_notifications` | `WebhookIdempotency`, `Webhook_notifications.cfg` | no approval acknowledged before funding, nothing unapproved funded, one worker until the row is stale, approved payments funded in the end once the total stays what was paid |
| `payout_calls` | `EscrowPayout`, `Payout.cfg` | what is paid is recorded, what is reported was paid, one owner per attempt, paid once by calls in order, no attempt stays PENDING |
| `billing_safety` | `MCBilling`, `Billing_safety.cfg` | every chargeable preapproval was recorded and none is left without an owner; row and profile agree after operations that do not overlap |
| `portfolio_safety` | `MCPortfolio`, `Portfolio_safety.cfg` | what is public was reviewed, but for the window of an edit; a ban on a settled item lasts until an administrator gives it back or a client complains |
| `portfolio_live` | `Portfolio`, `Portfolio_live.cfg` | a queued verdict is reached although attempts fail; the objects of a deleted item leave the bucket |
| `progress` | `Progress`, `Progress.cfg` | completed held work is settled, an approved charge is honoured, an unpaid plan runs out; money held for a job comes from its payment, and is what that paid unless the amount moved after the check |
| `reputation` | `Reputation`, `Reputation.cfg` | photos in order and present, a badge only for an acceptance, verification backed by a document, clients reminded, no verification left PROCESSING |
| `services` | `MCServices`, `Services.cfg` | one primary row, one registration, the plan in force, faithful verdicts, whole pages, whole destinations, a frozen badge within the limit, catalogues and caches that agree |
| `payout_twice`, `portfolio_admin_hide`, `rates_stale` | (violations) | section 6 |

**Bounds.** `job_safety`: two professionals (a race has two), two requests in
flight beside worker, provider and rate sync, one payment notified any number of
times, one change order, a total of 2 minor units at 40 or 41 UYU and 5 %
commission, so that rounding matters; slots and professionals are symmetric.
TLC's integers have 32 bits, hence the small total: `total * rate` must fit.
There is no bound on steps, crashes, rate syncs or timer firings.
`webhook_notifications`: two deliveries (every conflict on the row is between
two), two faults; the row ages, handlers outlive the threshold and the
total moves any number of times. `payout_calls`: two
requests and the worker, two attempt numbers (`PAYOUT_MAX_ATTEMPTS` is reached),
one each of crash, lost answer, confirmation and repeated release.
`billing_safety`: two handlers (two requests, two webhooks or one of each)
beside the worker and the payer, two plans, two preapprovals (a row taken out
again, or two first subscriptions at once), one charge and one failure; 1.5
million states with handlers and plans symmetric. `portfolio_safety`: two
requests, two photos (the least an item is published with), one change of text,
two moderation jobs (an old verdict may meet a new one, in either order), one
failure; 0.6 million states with requests and photos symmetric.
`portfolio_live`: one request and two failures, of a job's three attempts, without
symmetry. `progress`: two handlers; one job of one professional without change orders, one plan and one preapproval;
for `MoneyMatches` two jobs (the amount of one moves), two payments, two links, two
amounts of which the larger comes later, and at most three links and notifications
being handled at once (`MaxLoad`), so that links of one job, payments of two
and handlers of both cross; 0.44 million states.
`reputation`: two requests in a part (one beside the DGI's workers), three photos
of which an item may have two, two items with two files, two documents, two
failures; the digits of a RUT are 0 and 9 (`Digits`), which keeps the numbers to
check few and still gives valid ones to mistype and to swap. `services`: two requests in each
part, three rows where two can be primary, two limits, two policies, a list of up
to three rows read in pages of one with one change meanwhile, a search turned to
its second page, three changes of the catalogue, three days and two editions of
a rate, one failure; 0.84 million states. Slots are symmetric in every part, and
no property of the run is temporal; `MCServices` starts with one choice of which
trade the job is of and of which of two professionals has which row, since both
are alike.

**Fairness.** It is asked of what the runtime drives and never of people.
`progress`, job: a handler that has begun goes on (Node runs its continuation)
and BullMQ runs a job whose delay is over (`Healthy` excludes dead handlers: one
of them can end a release for good); billing: handlers, the dunning cron (every six hours) and time go on, and the
provider repeats the notification of a charge. That last condition is the only
strong one: a delivery waits for a free slot in the model and for nothing in
the code. Webhook `FairSpec`: a handler goes on, time passes (`Age`), and the
provider sends again what was not answered with 200, which is what the
handlers' 503 relies on; faults are finitely many. `ApprovedIsFunded` asks in
addition that the total is in the end what was paid (`<>[]fits`): the code refuses
the payment at every notification as long as it is not. Payout `FairSpec`: calls go
on, time passes, the recovery cron runs; administrators owe nothing.
`portfolio_live`: a request goes on, the worker takes what is queued and the
clean-up runs. `reputation`: a request that is creating a consent ends and its
reminder fires; a row of the DGI ages and the watchdog runs. Owners, clients,
payers, subjects and administrators may stop anywhere.
`CHECK_DEADLOCK FALSE` is set where the system may rest: a closed job, an
answered payment, a paid escrow, a subject that has used up the preapprovals of
the bound, a part of a suite whose bounds are used up; `billing_safety` checks
for deadlock.

Every property of a passing run has a mutant in the module it is about
(commented "Mutant:"): the same code with a plausible bug, which TLC refutes.

## 5. Proofs

Proved by TLAPS for **every** value of the constants: any numbers of requests,
professionals, payments, change orders, deliveries, attempts, calls, plans,
preapprovals, photos, files, jobs, links, items, accounts, areas, users, RUTs,
categories, days and editions; any rates; any commission from 0 to 10 000 bps;
any digits of a number; any page size, and any sets of professionals and
companies in a search. They rest on the ASSUMEs of the modules, which
every run evaluates and which only keep sentinels apart from values and bounds
numbers:

| ASSUME | says |
|---|---|
| `ConstantsAssumption` (`JobEscrow`, `WebhookIdempotency`, `EscrowPayout`, `Billing`, `Portfolio`), `CommissionAssumption` | bounds and amounts are numbers, nobody is no professional; finitely many slots in `Portfolio`, whose bounds count them |
| `Progress!ApartAssumption` | the subscription's reference, and none, are no job's |
| `Reputation`: `LimitAssumption`, `FaultAssumption`, `DigitAssumption`, `NoneAssumption` | limits and failures are numbers, digits are digits, "none" is no document and no verdict |
| `Services`: `BoundAssumption`, `LinkAssumption`, `TextAssumption`, `PlanAssumption`, `RequestAssumption`, `EntitlementAssumption`, `PageAssumption`, `SearchAssumption` | bounds are numbers and slots finitely many (areas are counted against them), sentinels are no values, a custom definition is none of the catalogue, a page has rows, professionals and companies are finitely many and of two tables |

- `JobEscrow_proofs`: `TypeCorrect`; `ReleaseIsSafe` (CLOSED goes with RELEASED;
  released work was completed by an assigned professional and funded);
  `AssignmentIsAtomic`; `SplitCorrect` and `CommissionBounded`;
  `ProfessionalKept` and `SettlementKept` (action properties); `Refinement`:
  `Spec => ImplementsLedger`.
- `WebhookIdempotency_proofs`: `AnswerIsSafe`, `FundingIsSafe`, `OneWorker`.
- `EscrowPayout_proofs`: `PayoutIsSafe`, `AttemptHasOneOwner`,
  `PaidOnceWhenInOrder`.
- `Billing_proofs`: `TypeCorrect`, `StrayPreapprovals`, `PlanFollowsRow`.
- `Portfolio_proofs`: `TypeCorrect`, `ReviewIsSafe`, `BanIsKept`.
- `Progress_proofs`: `MoneyIsTraced` (`PaymentIntake`).
- `Reputation_proofs`: `PhotosInPlace` (`PhotoOrder`, `PhotoStorage`),
  `BadgeIsConsented` (`PortfolioConsent`), `CertificateHolds`
  (`DgiVerification`, `DgiDocument`), `StatesAreTyped` (all five).
- `Services_proofs`: `AccountsInOrder` (`PayoutAccounts`, `ServiceAreas`,
  `PayoutDestination`),
  `RegistrationIsUnique` (`Registration`), `PlanInForce` (`PlanAssignment`,
  `PlanEntitlements`), `ModerationIsFaithful` (`Moderation`), `BadgeIsFrozen`
  (`PortfolioLink`), `CatalogsKeepUp`
  (`Categories`, `GeoCatalog`, `GeoPlaces`, `ExchangeRates`), `PagesAreExact`
  (`Search`, `Listings`), `TypesHold` (all fourteen).

A theorem of a suite has one lemma per part, `Inv /\ [Next]_vars => Inv'` of that
part alone; `FocusMoves` says that a step of the suite is a step of the part that
moves, so the invariant of the suite is `focus = "..." => Inv` for each.

**Why the invariants are what they are.** None of the safety properties of
`JobEscrow` is inductive: a request between its read and its write may hold
anything. `Inv` adds `InFlight` (what a request may rely on because nobody can
undo it: a professional was assigned, the amount is a conversion at some rate in
`Rates`), `RowsInv` (COMPLETED and CLOSED have `completed`; a funded escrow has
a positive job amount) and what the worker's transaction knows. It
deliberately does *not* contain "the job's status is still what the request
read", which is false here and the source of section 6. `Refinement`
maps `AcceptTx` to `Open`, `FundTx` to `Hold`, `ApproveTx` and `SilentCommit` to
`Release` and everything else to a stutter.

Webhook `Inv` says that a delivery about to complete the row has seen the money
(when the payment was approved from the start), and that one on the funding path
has seen the approval; `WorkerInv` adds what `OneWorkerBeforeStale` needs: until
a row is stale nobody takes one over, and the row is PROCESSING as long as its
one creator works. `PaymentIntake`'s says what the handler has found out by now
(`CallIsSound`, for each handler by itself: the payment it holds is approved and
went through a link of the job it holds, for the amount it holds; past the check
that amount is the job's, and past the second conversion the one it will write,
unless the amount moved) and what a completed key is about and has left behind
(`KeyIsDone`); that links, approvals and funded escrows only grow (`Grows`) keeps
both, whatever the other handlers do.

Payout `Inv` says that a call past `Create` owns a recorded attempt, and one
about to write SUCCEEDED has a payment behind it. `OrderInv` is what "calls in
order" gives on top: one call at most is under way (`Alone`), one attempt at
most is PENDING or SUCCEEDED (`OneLive`), whatever moved money is that attempt
(`PaidIsLive`), what succeeded is what the escrow reports, an attempt made by
hand was not also paid by the provider, and the call knows of the rows what it
has just read (`StepInOrder`). Billing's `PreapprovalInv` says who answers for
an open preapproval: the row that has named it or, as long as nothing has
failed, the subscribe that created it and has not yet saved or cancelled it; and
that only recorded ones were handed out. Its `SequenceInv` is about operations
that follow one another: one handler, or the worker, is at work at a time
(`OneAtWork`); between the row's write and the profile's the handler holds the
row's plan and the row is ACTIVE (`Knows`), and the worker's row stays EXPIRED
until it has freed the profile.

`Portfolio_proofs` needs two: `StepIsSound`, what a request may still do to the
item it has read (while the history is orderly, one about to publish or to queue
carries the item's own text and keys), and `BanIsSafe`, that behind a
ban in force there is no job and no request that could publish. Its types with their
bounds are a second induction (`BoundInv`): a version and a job are left for
every request that will need one, counted as cardinalities of sets of slots.

In `Reputation_proofs`, `ConsentInv`: the history's first answer is the row's
status unless a refusal was under way, and an orderly refusal is alone with a
PENDING row. `FileInv`: no key is in two rows, a clean-up is of a deleted item
and what it still has to delete is in no live one; without the first, deleting an
item's files could take another's. `PhotoInv`: in an orderly history one
insertion or deletion is under way, the maximum or position it has read is still
that of the rows, and between a shift and the row that fills the gap the
positions are dense but for it. `DgiInv`: whoever is at work is alone
(`DgiAlone`), a submission past its first write and a worker that has read its
job are about the document the row names, which is in the bucket. That last part
is what `VerificationIsBacked` lacks, since the verdict is written long after the
document was read. `DocumentInv` is arithmetic: a number is accepted when its
weighted sum with its check digit is a multiple of eleven, two accepted numbers
that differ in one place or by a swap of neighbours would make eleven divide a
product of smaller numbers, and so they do not differ.

In `Services_proofs` what the code leaves to order has to be said of the request
under way. `AccountInv`: between the clearing of the primary flags and the
commit there may be two primaries, but the clearing has seen every one.
`AreaInv`: an orderly creation is the only one, its snapshot has every row there
is, and there is room for one more (cardinalities, hence the finite slots).
`RegisterInv`: one request or lookup is under way, what it has checked (its user
owns nothing, its number is nobody's) still holds, and a stale cached role is about
to be forgotten. `PlanInv`: how far an assignment has come and what can be used
by then; at rest the profile is on an active definition with its code.
`GrantInv`: a stored plan is read back through both schemas as it was written.
`InferenceInv`: what a request carries from cache to cache is the provider's
verdict under the policy of the key. `LinkInv`: a job is in one item at most,
deleted ones included (the unique index), items name jobs whose escrow was
released and consents are asked for those only (a job's CLOSED may be overwritten
later, the release not), a verified item is as it was agreed (the trigger); `LinkQuotaInv`: an
orderly creation is alone and has seen room. `DestinationInv`: a stored row is a
fixed point of the validation. `CategoryInv`: while orderly, what a change has
checked still holds for the row it will write, and once settled the cached tree
and the prompt have the number of the last change or somebody is about to see
to it. `GeoInv`: a neighbourhood is added only where the seed tells more than one,
and an answer names a row there is. `PlaceInv`: an answer lies where it says.
`RateInv`: no stored edition is later than the central bank's, and a checkout
that converts has a day no earlier than it asked for.

Paging is counting, and both modules rest on four lemmas about a ranking, a
finite set in which of any two elements one comes before the other and whatever
comes before what comes before a row comes before it too (`IsRanking`): who
comes first has fewer before it (`RankLess`), no two have as many (`RankUnique`),
every place is taken (`RankOnto`), and a range of places holds as many elements
as it is long (`RankSegment`). The lists: `ListInv` says that the rows that are
there are ranked by `older`; that as long as no row has left or moved the
shown rows are at least the places before the page, and as long as none has come
in or moved they are at most those; and a list by which payouts come oldest first
grows at its far end, where no page has been. A page that comes up short is the
last, so nothing lasting lies behind it. The search: `FinderInv` says of a query
under way that every hit matches and has its distance, that no subject is hit
twice, and that a match of a kind already asked for is hit or has at least
`Offset + limit` *rivals*, others of its kind that the query may put before it
(`FinderRivals`). Rivals of equally relevant subjects at different distances are
nearer ones, so whoever belongs on the page was hit (`FinderPage`), and the place
the merge gives a hit is the number of hits ahead of it (`FinderMerge`), which is
the number of nearer matches. `PageIsExact` itself says nothing before the
answer.

Types are not always a by-product either. `PlanTyped`: that a resolution finds
the definition it looks up takes that whoever is past its creation names a
definition there is, and that none is ever removed.

Each `Invariant` theorem follows from `Init => Inv` and one lemma per group of
actions; shapes that many steps have (`Moves` and `Writes` of payouts,
`OrderStep`, `WorkerStep`) are stated once.

**Model-checked only.** Liveness under fairness is beyond the prover:
`HeldWorkIsSettled`, `ChargeIsHonoured`, `UnpaidPlanRunsOut`,
`ApprovedIsFunded`, `AttemptIsSettled`, `WaitingIsDecided`, `DeletedIsCleaned`,
`WorkersFinish`. Every safety property and action property of a passing run is
proved. The violation runs are TLC's alone.
No module declares RECURSIVE operators. Where a proof needs a least or a greatest
number of a set (the last photo, the latest day of a rate), it is had from the
well-foundedness of the naturals, which the library states without an operator
parameter (`WFMin`).

## 6. Where documents and code disagree

Checked by a standing run and listed under "findings":

- `PaidAtMostOnce` (`payout_twice`): two retries of a FAILED payout take two
  attempt numbers and so two idempotency keys. `PaidOnceInOrder` says when it
  does hold. Besides overlap, its history variable excludes a lost answer, and a
  manual confirmation cut short between its two transactions: the worker finds
  that attempt PENDING and pays it through the gateway.
- `HiddenUntilRestored` (`portfolio_admin_hide`): a verdict still queued when the
  administrator hides the item is written by id and publishes it.
- `TodaysRateIsFresh` (`rates_stale`): a rate synchronised today is read as
  yesterday's in America/Montevideo, so every checkout in dollars is refused on
  the day itself.

Stated in the modules, refuted by TLC when added to a cfg of the module, without
a standing run:

| definition | document | what the code does |
|---|---|---|
| `JobEscrow!CancelledHoldsNoMoney` | `jobs-module.md:19` | `jobs.service.ts:185` lets a client cancel an ACCEPTED job that is funded or being funded; the escrow stays HELD |
| `JobEscrow!CompletedIsFunded` | `jobs-module.md:22` | `jobs.service.ts:196` completes unpaid jobs |
| `JobEscrow!HeldIsCharged` | `money-rules.md:103` | `escrow.service.ts:58` converts again, at a later rate than the check |
| `JobEscrow!FundedReferenceIsPayment` | `escrow-logic.md:101` | `payments.service.ts:110` stores a preference id over the payment's |
| `JobEscrow!TotalIsSumOfApproved` | `schema.prisma:905` | `jobs.service.ts:342` adds a delta to a stale total |
| `JobEscrow!DrawnTransitions` | `jobs-module.md:14-21` | `jobs.repository.ts:204` writes a stale status by id |
| `JobEscrow!ReleasedCoversTotal` | `jobs-module.md:45` | `jobs.service.ts:338` raises a funded job's total without more funding |
| `JobEscrow!SilentAcceptanceSettles` | `escrow-logic.md:141` | `escrow.service.ts:177` gives up on work funded after the timer |
| `WebhookIdempotency!ApprovalAnsweredIsFunded` | `payments-module.md:10` | `payments.service.ts:368`: a payment notified while pending completes the row, and its approval is answered 200 without funding; `AckedApprovalIsFunded` is therefore about payments approved when first notified |
| `WebhookIdempotency!FreshRowExcludes` | `payments-module.md:25` | `payment-webhook-idempotency.repository.ts:33` deletes a row another taker has just renewed |
| `WebhookIdempotency!ApprovalIsFundedAnyway` | `escrow-logic.md:91` | `payments.service.ts:444-454`: an approved payment whose job now converts to another amount is refused at every notification, and never funded unless the amount comes back |
| `WebhookIdempotency!FundedIsAnswered` | `payments-module.md:26` | `payments.service.ts:441` refuses a late notification of a RELEASED escrow for ever |
| `PaymentIntake!HeldIsPaid` | `money-rules.md:103` | `escrow.service.ts:58` converts again after the check of `payments.service.ts:444`: an amount that moves in between is held instead of what was paid |
| `EscrowPayout!ReleasedIsPaidOut` | `payout-accounts-module.md:7` | `escrow.repository.ts:347`: a crash between release and execution leaves NOT_APPLICABLE, which no recovery query lists |
| `EscrowPayout!CompletedAttemptIsFinal` | `schema.prisma:1073` | `escrow.repository.ts:260` rewrites a settled attempt |
| `EscrowPayout!ConfirmedOnce` | `admin-escrow-payout.controller.ts:60` | `escrow-payout.service.ts:293` is a read long before the write |
| `Billing!CancelStopsCharging` | `billing.controller.ts:71` | `billing.service.ts:250` cancels only the preapproval the row names last |
| `Billing!ExpiredIsFree` | `billing-module.md:25` | `billing.service.ts:556` writes EXPIRED first; after a crash no list finds the row |
| `Billing!OnlyUnpaidExpires` | `billing-module.md:25` | `billing.service.ts:515` downgrades a row that was paid after it was listed |
| `Billing!PastDueKeepsPlan` | `billing-module.md:53` | `billing.service.ts:485` makes an EXPIRED row PAST_DUE when its old preapproval is refused a charge |
| `Billing!CanceledAtProvider` | `billing-module.md:24` | `billing.service.ts:454` cancels the row for any preapproval with its reference |
| `Portfolio!ChangedIsModerated` | `portfolio.service.ts:429` | the edit or photo is written first (487, 420) and the item hidden later (167): public and unreviewed in between, and for good if the process dies |
| `Portfolio!BannedStaysBlocked` | `portfolio.service.ts:728` | `portfolio.repository.ts:741`: a client's complaint moves a HIDDEN_BY_ADMIN item to HIDDEN_PENDING_REVIEW, and its owner's next edit has it published by a verdict |
| `PortfolioLink!LinkedIsClosed` | `portfolio-module.md:200` | `jobs.repository.ts:204` overwrites CLOSED by id after the item was linked |
| `PayoutDestination!ListingNamesAccount` | `docs/how-to/admin-payout-manual-mercadopago.md:10` | `escrow-payout.service.ts:306` lists the masked snapshot, in which the CVU or alias to pay cannot be read |
| `PayoutDestination!RecoveryNamesAccount` | `payment-gateway.interface.ts:21` | `escrow-payout.service.ts:428` issues the payout again with that snapshot as destination, which names no account |
| `Search!PagesCoverTotal` | `search.controller.ts:29` | `search.service.ts:90`: each kind is cut by relevance and then distance, and merged by distance alone, so a subject may be on no page |

Seen while modelling, and allowed by the models; the history variables of
section 3 keep them out of the properties:

- **Jobs, payments.** TRIALING never expires (`billing.repository.ts:88`),
  although `billing-module.md:21` gives it seven days. A status that changes
  after its first notification was answered is never seen, because the key has
  no status (`billing.service.ts:357`). An order notified before its payment is
  approved is completed and ignored for good. A second approved payment of a
  HELD job is answered 200 and leaves no record. A late checkout overwrites the
  provider reference of a HELD escrow.
- **Portfolio.** `enqueueRemoderationIfNeeded` (`portfolio.service.ts:160`)
  decides by the item the request read first. An edit of an item that is hidden
  and pending queues nothing (151), and the old verdict publishes it. An item
  FLAGGED and stripped of photos may be published with one (963). A crash
  between the row and the queue strands the item (756). The clean-up lists rows,
  not the deleted photos' objects its comment speaks of (946-949), never sets
  `cleanedUpAt`, and may run before a photo that is being added. A photo that
  cannot be downloaded counts as OK (`portfolio-moderation.processor.ts:169`).
- **Photos.** Racing additions and deletions leave duplicate positions, and an
  explicit `displayOrder` leaves gaps, where `schema.prisma:1429` says 1..N. A
  photo added to a PUBLISHED item is never checked for its file; a PUT after the
  clean-up brings an object back.
- **Link, consent.** The category may be changed until the acceptance, so a
  badge can be in another category than the job's (`portfolio.service.ts:197`
  says otherwise). A deleted item keeps its job taken. A refusal that overlaps
  an acceptance leaves a verified item with a DECLINED consent
  (`schema.prisma:1387`). A reminder that fails is not repeated, whatever its
  comment says.
- **DGI.** A failing notification after a successful QR check falls through to
  the text and ends in PENDING_MANUAL_REVIEW, with the trust level raised
  (`dgi-verify.processor.ts:245`). A rejection by an administrator
  leaves the trust level where it was. A resubmission
  while the old job is queued is ignored by the queue
  (`dgi-verification.service.ts:143`). An approval is by subject and may concern
  an older document. Worker, watchdog and `onFailed` write whatever the status
  has become; `onFailed` rejects although attempts remain.
- **Accounts, areas.** `isActive: false` on the only active account passes
  (`payout-accounts.service.ts:142` refuses it elsewhere). Overlapping creations
  give two primaries, which block acceptance. Deleting the primary area among
  several leaves none; a downgraded plan keeps its surplus.
- **Registration, plans.** The same RUT gets into both tables by racing
  registrations, and one user may be a company's administrator and a
  professional. A role read before a change and cached after it stays. A custom
  plan cannot follow a custom plan (the unique owner refuses before the old one
  is deactivated); a plan synchronised by billing leaves the custom one linked;
  assignments that stop half-way leave the plan's defaults. The DTO calls `max`
  optional and the parser refuses a group without it.
- **ai, categories, geo, lists, rates.** Without the lock two workers go on at
  once (`inference-lock.service.ts:9` means to prevent it). Removing a trade
  leaves its services; overlapping changes leave an old tree until its TTL. An
  onboarding merges the ids a client names with the geocoder's one by one, so
  ids that disagree give a location that is not nested. Offset paging repeats and loses rows when
  rows move; the jobs' lists return no total, which `architecture.md:84`
  promises of all. A rate synchronisation that fails is not retried and a missed
  day is never filled, although the specification asks for three attempts.

## 7. Not modelled, and why

- **realtime**: a gateway that joins the library's room and emits. **auth**:
  verification of a token. **admin**, **diagnostics and health**: reads.
  **notifications**: one insert and one emit that nobody reads back; where a
  failure of it matters it is a step of the model it happens in. **common and
  config**: logging, problem details, configuration, whose values are CONSTANTS.
- **users: profile and company**, the edits of names, contacts and business
  hours: single-row writes of one owner.
- **storage**, key building and download. **authorization**, the guard that
  compares the cached role with a route's.
- Left out of modelled components: DTOs; signatures; the mock provider's webhook
  (same row and funding path, without the comparison of amounts); refunds and
  disputes (no code writes HELD_DISPUTED or REFUNDED); `releaseForJob` (no
  caller); the receipt upload; the batch and order of
  the recovery loops (one escrow in the model; an escrow whose payout throws ends the
  batch of `recoverPendingGatewayPayouts`).
- A payment or a charge refunded after its approval: the code ignores it. In
  `Billing` a charge is approved or refused at once, and a staleness takeover of
  the idempotency row, the subject of `WebhookIdempotency`, is left out.
- Outside services are choices of outcome: what Mercado Pago, the geocoder, the
  central bank, the model providers and the DGI's pages answer, within what the
  code under `src/` relies on.

## 8. Plan

1. (done) `Money`, `EscrowLedger`, `JobEscrow`, with refinement and proofs.
2. (done) `WebhookIdempotency`, `EscrowPayout`, `PaymentIntake`, with proofs.
3. (done) `Billing`, with proofs.
4. (done) `Portfolio` and its four companions; proofs of the item, the link and
   the consent.
5. (done) DGI verification and document; payout accounts, areas, registration,
   plans, moderation, catalogues, search, lists, rates.
6. (done) Proofs of the suites: money traced, photos and files, consent,
   verification and document, primaries, registration, plans, moderation, link,
   destination, catalogues, places and rates.
7. (done) Proofs of search and lists, and the types of every part, so that no
   safety property of a run is left to the bounds.
8. An abstract specification of moderation (an item is public only as reviewed)
   that `Portfolio` implements while orderly; a model of the recovery batch.
