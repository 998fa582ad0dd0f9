------------------------------ MODULE Services ------------------------------
(***************************************************************************)
(* Fourteen services that share no state, side by side, so that one run     *)
(* checks them all: a behaviour chooses a part at the start and is a        *)
(* behaviour of that part alone, since interleaving them would only         *)
(* multiply their states.                                                   *)
(*                                                                         *)
(* The sizes: two requests at once in each, three rows where two can be     *)
(* primary, two releases of the program for the shared caches.              *)
(***************************************************************************)
EXTENDS Naturals, FiniteSets

CONSTANTS
    None,
    Slots,                      \* requests in progress at once
    MaxFaults,
    RowIds, TwoIds, PlanLimits,
    Users, Ruts, NoRut,
    Catalog, Customs, MaxVersion,
    Policies,
    MaxChanges,
    Capital, Centro, Pocitos, Cordon,
    Professionals, Companies, MaxPage,
    MaxDay, MaxEdition,
    MaxRows, PageSize, MaxMoves,
    Rocha, NumericCode,
    Trades, LinkedJobs,
    Absent, Null, Junk, Yes, No, Numbers, Default, Cap,
    Banks, OtherBank

\* The bounds are numbers; requests in progress are finitely many; and no id is
\* "no id".
ASSUME BoundAssumption ==
    /\ MaxDay \in Nat \ {0} /\ MaxEdition \in Nat /\ MaxChanges \in Nat /\ MaxFaults \in Nat
    /\ IsFiniteSet(Slots) /\ None \notin TwoIds

\* Pages have rows, and the rows of a list are finitely many.
ASSUME PageAssumption == MaxRows \in Nat /\ MaxMoves \in Nat /\ PageSize \in Nat \ {0}

\* Professionals and companies are rows of two tables.
ASSUME SearchAssumption ==
    IsFiniteSet(Professionals) /\ IsFiniteSet(Companies) /\ Professionals \cap Companies = {}

\* "No job" is no job, and a limit is a number.
ASSUME LinkAssumption == None \notin LinkedJobs /\ PlanLimits \subseteq Nat

\* No text is undefined.
TextForms == {"blank", "email", "word", "number", "grouped", "phone", "masked"}
ASSUME TextAssumption ==
    Null \notin [form : TextForms, length : Nat, digits : Nat, raw : BOOLEAN]

\* A custom definition is none of the catalog, and versions are numbered from one.
ASSUME PlanAssumption == Catalog \cap Customs = {} /\ MaxVersion \in Nat \ {0}

VARIABLES
    focus,      \* the part that moves
    payoutSubjectType, payoutAccounts, payoutCalls, payoutOrderly,
    areaLimit, areaPrimary, areaCalls, areaPeak, areaOrderly,
    registerRole, registerCompany, registerProfile, registerEmployer,
    registerCalls, registerCache, registerLookups, registerOrderly,
    planProfile, planDefinitions, planCalls, planCache, planReading,
    planOrderly,
    inferenceVerdict, inferencePgEnabled, inferenceL1, inferenceL2,
    inferenceLock, inferenceRequests, inferenceFaults,
    categoryRows, categoryChanges, categoryTree, categoryPrompt,
    categoryCalls, categoryReading, categoryOrderly, categorySettled,
    geoSeed, geoCatalog, geoTree, geoAnswers, geoCalls, geoReading,
    geoSettled,
    searchRows, searchEnabled, searchExpansions, searchSearch, searchShown,
    searchMet,
    rateBehindUtc, rateToday, rateBcu, rateRates, rateSyncs, rateCheckout,
    rateFetched, rateOrderly,
    listList, listOlder, listState, listDeleted, listPage, listAsked, listSeen,
    listAgain, listTotal, listLasting, listChanges, listMoves,
    placeRequest, placePlaces, placeAnswer, placeGiven, placeLocation,
    grantRow, grantSent, grantTried,
    moneyAccount, moneySnapshot, moneyTold,
    linkActive, linkLimit, linkTrade, linkClosed, linkReleased, linkItems,
    linkConsents, linkCalls, linkAgreed, linkPeak, linkOrderly

payoutVars ==
    <<payoutSubjectType, payoutAccounts, payoutCalls, payoutOrderly>>
areaVars ==
    <<areaLimit, areaPrimary, areaCalls, areaPeak, areaOrderly>>
registerVars ==
    <<registerRole, registerCompany, registerProfile, registerEmployer,
      registerCalls, registerCache, registerLookups, registerOrderly>>
planVars ==
    <<planProfile, planDefinitions, planCalls, planCache, planReading,
      planOrderly>>
inferenceVars ==
    <<inferenceVerdict, inferencePgEnabled, inferenceL1, inferenceL2,
      inferenceLock, inferenceRequests, inferenceFaults>>
categoryVars ==
    <<categoryRows, categoryChanges, categoryTree, categoryPrompt,
      categoryCalls, categoryReading, categoryOrderly, categorySettled>>
geoVars ==
    <<geoSeed, geoCatalog, geoTree, geoAnswers, geoCalls, geoReading,
      geoSettled>>
searchVars ==
    <<searchRows, searchEnabled, searchExpansions, searchSearch, searchShown,
      searchMet>>
rateVars ==
    <<rateBehindUtc, rateToday, rateBcu, rateRates, rateSyncs, rateCheckout,
      rateFetched, rateOrderly>>
listVars ==
    <<listList, listOlder, listState, listDeleted, listPage, listAsked, listSeen,
      listAgain, listTotal, listLasting, listChanges, listMoves>>
placeVars ==
    <<placeRequest, placePlaces, placeAnswer, placeGiven, placeLocation>>
grantVars ==
    <<grantRow, grantSent, grantTried>>
moneyVars ==
    <<moneyAccount, moneySnapshot, moneyTold>>
linkVars ==
    <<linkActive, linkLimit, linkTrade, linkClosed, linkReleased, linkItems,
      linkConsents, linkCalls, linkAgreed, linkPeak, linkOrderly>>

Names == {Centro, Pocitos, Cordon}
Cities == {Capital}
Seeds == {{<<Capital, Centro>>}, {<<Capital, Centro>>, <<Capital, Pocitos>>}}

\* What the geocoder may list: lines whose parts are missing, are codes, or
\* name a city and a neighbourhood that the catalog has in two states.
Line(kind, state, locality, level2, hood, sub) ==
    [kind |-> kind, uruguay |-> TRUE, inside |-> TRUE, state |-> state, locality |-> locality,
     level2 |-> level2, level3 |-> None, hood |-> hood, sub |-> sub]
Lines ==
    {Line("street_address", Capital, Capital, None, None, Cordon),
     Line("route", Capital, None, NumericCode, NumericCode, Cordon),
     Line("political", Capital, None, Capital, Centro, None),
     Line("route", Rocha, Pocitos, None, Pocitos, None),
     Line("political", Rocha, None, Pocitos, None, Centro),
     [Line("political", Capital, Capital, None, None, None) EXCEPT !.uruguay = FALSE],
     [Line("route", Capital, Capital, None, None, None) EXCEPT !.inside = FALSE]}
TwoStates == {Capital, Rocha}
StateCities == {<<Capital, Capital>>, <<Capital, Pocitos>>, <<Rocha, Pocitos>>}
CityHoods == {<<<<Capital, Capital>>, Centro>>, <<<<Rocha, Pocitos>>, Centro>>}
GrowingCities == {<<Capital, Capital>>}

Accounts == INSTANCE PayoutAccounts WITH
    Accounts <- RowIds, subjectType <- payoutSubjectType,
    accounts <- payoutAccounts, calls <- payoutCalls,
    orderly <- payoutOrderly

Areas == INSTANCE ServiceAreas WITH
    Areas <- RowIds, Limits <- PlanLimits, limit <- areaLimit, primary <- areaPrimary,
    calls <- areaCalls, peak <- areaPeak, orderly <- areaOrderly

Register == INSTANCE Registration WITH
    role <- registerRole, company <- registerCompany,
    profile <- registerProfile, employer <- registerEmployer,
    calls <- registerCalls, cache <- registerCache,
    lookups <- registerLookups, orderly <- registerOrderly

Plans == INSTANCE PlanAssignment WITH
    profile <- planProfile, definitions <- planDefinitions,
    calls <- planCalls, cache <- planCache, reading <- planReading,
    orderly <- planOrderly

Inference == INSTANCE Moderation WITH
    Requests <- Slots, verdict <- inferenceVerdict,
    pgEnabled <- inferencePgEnabled, l1 <- inferenceL1, l2 <- inferenceL2,
    lock <- inferenceLock, requests <- inferenceRequests,
    faults <- inferenceFaults

Tree == INSTANCE Categories WITH
    Ids <- TwoIds, rows <- categoryRows, changes <- categoryChanges,
    tree <- categoryTree, prompt <- categoryPrompt, calls <- categoryCalls,
    reading <- categoryReading, orderly <- categoryOrderly,
    settled <- categorySettled

Geo == INSTANCE GeoCatalog WITH
    seed <- geoSeed, catalog <- geoCatalog, tree <- geoTree,
    answers <- geoAnswers, calls <- geoCalls, reading <- geoReading,
    settled <- geoSettled

Finder == INSTANCE Search WITH
    Limits <- PlanLimits, rows <- searchRows, enabled <- searchEnabled,
    expansions <- searchExpansions, search <- searchSearch,
    shown <- searchShown, met <- searchMet

Rates == INSTANCE ExchangeRates WITH
    behindUtc <- rateBehindUtc, today <- rateToday, bcu <- rateBcu,
    rates <- rateRates, syncs <- rateSyncs, checkout <- rateCheckout,
    fetched <- rateFetched, orderly <- rateOrderly

Lists == INSTANCE Listings WITH
    list <- listList, older <- listOlder, state <- listState,
    deleted <- listDeleted, page <- listPage, asked <- listAsked,
    seen <- listSeen, again <- listAgain, total <- listTotal, lasting <- listLasting,
    changes <- listChanges, moves <- listMoves

Places == INSTANCE GeoPlaces WITH
    States <- TwoStates, Cities <- StateCities, Hoods <- CityHoods,
    Growing <- GrowingCities, Results <- Lines, Code <- NumericCode,
    request <- placeRequest, places <- placePlaces, answer <- placeAnswer,
    given <- placeGiven, location <- placeLocation

\* "No request" is no request.
ASSUME RequestAssumption == None \notin Places!Requests

Entitlements == INSTANCE PlanEntitlements WITH
    row <- grantRow, sent <- grantSent, tried <- grantTried

\* A value that is there is not Absent, and neither is a plan; a default is a
\* number other than zero.
ASSUME EntitlementAssumption ==
    /\ Numbers \subseteq Nat /\ 1 \in Numbers /\ Default \in Numbers \ {0} /\ Cap \in Nat
    /\ Absent \notin Numbers \cup {Null, Yes, No}
    /\ Absent \notin [Entitlements!Limits -> Entitlements!Leaves]

Destination == INSTANCE PayoutDestination WITH
    account <- moneyAccount, snapshot <- moneySnapshot, told <- moneyTold

Link == INSTANCE PortfolioLink WITH
    Ids <- TwoIds, Jobs <- LinkedJobs, Limits <- PlanLimits,
    active <- linkActive, limit <- linkLimit,
    trade <- linkTrade, closed <- linkClosed, released <- linkReleased,
    items <- linkItems, consents <- linkConsents, calls <- linkCalls, agreed <- linkAgreed,
    peak <- linkPeak, orderly <- linkOrderly

Parts ==
    {"accounts", "areas", "registration", "plans", "moderation", "categories",
     "geo", "search", "rates", "lists", "places", "entitlements", "destination", "link"}

\* A part that does not move has one initial state.
Init ==
    /\ focus \in Parts
    /\ Entitlements!Init
    /\ focus # "entitlements" => grantRow = Entitlements!Canonical(Entitlements!Plan)
    /\ Accounts!Init
    /\ focus # "accounts" => payoutSubjectType = "COMPANY"
    /\ Areas!Init
    /\ focus # "areas" => \A l \in PlanLimits : l <= areaLimit
    /\ Register!Init
    /\ Plans!Init
    /\ Inference!Init
    /\ focus # "moderation" =>
          inferencePgEnabled /\ \A p \in Policies : inferenceVerdict[p] = "ok"
    /\ Tree!Init
    /\ Geo!Init
    /\ focus # "geo" => <<Capital, Pocitos>> \in geoSeed
    /\ Finder!Init
    /\ focus # "search" =>
          searchEnabled /\ searchRows = CHOOSE f \in [Finder!Subjects -> Finder!Offers] : TRUE
    /\ Rates!Init
    /\ focus # "rates" => rateBehindUtc
    /\ Lists!Init
    /\ focus # "lists" => listList = "listMine"
    /\ Places!Init
    /\ Destination!Init
    /\ Link!Init
    /\ focus # "link" => /\ \A l \in PlanLimits : l <= linkLimit
                         /\ linkTrade = CHOOSE f \in [LinkedJobs -> Trades] : TRUE

Still ==
    /\ UNCHANGED focus
    /\ IF focus = "accounts" THEN TRUE ELSE UNCHANGED payoutVars
    /\ IF focus = "areas" THEN TRUE ELSE UNCHANGED areaVars
    /\ IF focus = "registration" THEN TRUE ELSE UNCHANGED registerVars
    /\ IF focus = "plans" THEN TRUE ELSE UNCHANGED planVars
    /\ IF focus = "moderation" THEN TRUE ELSE UNCHANGED inferenceVars
    /\ IF focus = "categories" THEN TRUE ELSE UNCHANGED categoryVars
    /\ IF focus = "geo" THEN TRUE ELSE UNCHANGED geoVars
    /\ IF focus = "search" THEN TRUE ELSE UNCHANGED searchVars
    /\ IF focus = "rates" THEN TRUE ELSE UNCHANGED rateVars
    /\ IF focus = "lists" THEN TRUE ELSE UNCHANGED listVars
    /\ IF focus = "places" THEN TRUE ELSE UNCHANGED placeVars
    /\ IF focus = "entitlements" THEN TRUE ELSE UNCHANGED grantVars
    /\ IF focus = "destination" THEN TRUE ELSE UNCHANGED moneyVars
    /\ IF focus = "link" THEN TRUE ELSE UNCHANGED linkVars

Next ==
    \/ focus = "accounts" /\ Accounts!Next /\ Still
    \/ focus = "areas" /\ Areas!Next /\ Still
    \/ focus = "registration" /\ Register!Next /\ Still
    \/ focus = "plans" /\ Plans!Next /\ Still
    \/ focus = "moderation" /\ Inference!Next /\ Still
    \/ focus = "categories" /\ Tree!Next /\ Still
    \/ focus = "geo" /\ Geo!Next /\ Still
    \/ focus = "search" /\ Finder!Next /\ Still
    \/ focus = "rates" /\ Rates!Next /\ Still
    \/ focus = "lists" /\ Lists!Next /\ Still
    \/ focus = "places" /\ Places!Next /\ Still
    \/ focus = "entitlements" /\ Entitlements!Next /\ Still
    \/ focus = "destination" /\ Destination!Next /\ Still
    \/ focus = "link" /\ Link!Next /\ Still

vars == <<focus, payoutVars, areaVars, registerVars, planVars, inferenceVars, categoryVars, geoVars,
          searchVars, rateVars, listVars, placeVars, grantVars, moneyVars, linkVars>>

Spec == Init /\ [][Next]_vars

-----------------------------------------------------------------------------
\* The parts at rest are in an initial state.
TypeOK ==
    /\ focus \in Parts
    /\ focus = "accounts" => Accounts!TypeOK
    /\ focus = "areas" => Areas!TypeOK
    /\ focus = "registration" => Register!TypeOK
    /\ focus = "plans" => Plans!TypeOK
    /\ focus = "moderation" => Inference!TypeOK
    /\ focus = "categories" => Tree!TypeOK
    /\ focus = "geo" => Geo!TypeOK
    /\ focus = "search" => Finder!TypeOK
    /\ focus = "rates" => Rates!TypeOK
    /\ focus = "lists" => Lists!TypeOK
    /\ focus = "places" => Places!TypeOK
    /\ focus = "entitlements" => Entitlements!TypeOK
    /\ focus = "destination" => Destination!TypeOK
    /\ focus = "link" => Link!TypeOK

\* Each property is stated with its part, and asked of the part that moves.
AccountsAreInOrder ==
    /\ focus = "accounts" => Accounts!OnePrimary
    /\ focus = "areas" => Areas!OnePrimaryArea
    /\ focus = "destination" => Destination!DestinationIsWhole
RegisteredOnce == focus = "registration" => Register!RegisteredOnce
PlanIsEffective ==
    /\ focus = "plans" => Plans!PlanIsEffective
    /\ focus = "entitlements" => Entitlements!LimitsAreAsWritten
VerdictIsFaithful == focus = "moderation" => Inference!VerdictIsFaithful
LinkIsFrozen == focus = "link" => Link!LinkIsFrozen /\ Link!QuotaHolds
PageIsExact ==
    /\ focus = "search" => Finder!PageIsExact
    /\ focus = "lists" => Lists!PagesAreWhole
CatalogsAreCurrent ==
    /\ focus = "categories" => Tree!TreeIsCurrent
    /\ focus = "geo" => Geo!GeoIsConsistent
    /\ focus = "places" => Places!LocationIsNested
    /\ focus = "rates" => Rates!RateIsLatest
=============================================================================
