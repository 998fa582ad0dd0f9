------------------------------ MODULE GeoPlaces ------------------------------
(***************************************************************************)
(* From an address, a place id or a pin to the state, city and              *)
(* neighbourhood of the catalog, and the location a new professional is     *)
(* stored with: the geocoding provider, GeoResolveService.resolve and       *)
(* UsersProfileService.resolveGeoForOnboarding.                             *)
(*                                                                         *)
(* A city of the catalog is named by its state and name, a neighbourhood by *)
(* its city and name, and a name and its slug are one.  Coordinates are     *)
(* told apart only by who gave them and whether they lie in Uruguay.        *)
(* GeoCatalog models the cache of answers and the creation of               *)
(* neighbourhoods; the country itself is always in the catalog.             *)
(***************************************************************************)
EXTENDS Naturals, SequencesExt

CONSTANTS
    States,         \* states of Uruguay in the catalog
    Cities,         \* cities of the catalog: pairs <<state, name>>
    Hoods,          \* neighbourhoods of the catalog: pairs <<city, name>>
    Growing,        \* cities whose neighbourhoods the geocoder may add to
    Results,        \* results the geocoder may list
    Code,           \* a sectional code of Montevideo
    None

VARIABLES
    request,        \* what the client sends
    places,         \* what the geocoder lists for it, or None
    answer,         \* the response, or None while there is none
    given,          \* the ids the client sends along with the registration
    location        \* the location the profile is stored with, or None

vars == <<request, places, answer, given, location>>

\* The results of the reply, of which the first must lie in Uruguay.
Replies == {None} \cup {<<r>> : r \in Results} \cup {<<r, s>> : r, s \in Results}
Pins == {None, "inside", "outside"}
Requests ==
    {r \in [via : {"placeId", "addressLine", "pin"}, pin : Pins, prefer : BOOLEAN,
            stateId : States \cup {None}, cityId : Cities \cup {None}] :
        r.via = "pin" => r.pin # None}

Init ==
    /\ request = None /\ places = None /\ answer = None
    /\ given = None /\ location = None

-----------------------------------------------------------------------------
(* The geocoding provider                                                  *)

\* fetchRaw: no reply, no result, or a first result outside Uruguay
Useful(reply) == reply # None /\ reply[1].uruguay

\* fetch: the first result
Forward(reply) == reply[1]

FirstWith(reply, Test(_)) ==
    LET found == SelectSeq(reply, Test) IN IF found = <<>> THEN None ELSE found[1]

\* mergeReverseResults: a street, else a route, else the first result, with
\* the neighbourhood of another result when it has none, else the sublocality.
MergeReverse(reply) ==
    LET street == FirstWith(reply, LAMBDA r : r.kind = "street_address")
        route == FirstWith(reply, LAMBDA r : r.kind = "route")
        primary == IF street # None THEN street ELSE IF route # None THEN route ELSE reply[1]
        hood == FirstWith(reply, LAMBDA r : r.hood # None)
        sub == FirstWith(reply, LAMBDA r : r.sub # None) IN
    CASE primary.hood # None -> primary
      [] primary.hood = None /\ hood # None -> [primary EXCEPT !.hood = hood.hood]
      [] hood = None /\ primary.sub = None /\ sub # None -> [primary EXCEPT !.sub = sub.sub]
      [] OTHER -> primary

Geocoded(req, reply) ==
    IF ~Useful(reply) THEN None
    ELSE IF req.via = "pin" THEN MergeReverse(reply) ELSE Forward(reply)

-----------------------------------------------------------------------------
(* GeoResolveService                                                       *)

\* parseComponents: a sectional code counts neither as a city nor as a
\* neighbourhood; as a neighbourhood it hides a sublocality.
CityName(result) ==
    CASE result.locality # None -> result.locality
      [] result.locality = None /\ result.level2 \notin {None, Code} -> result.level2
      [] OTHER -> result.level3
HoodName(result) ==
    LET name == IF result.hood # None THEN result.hood ELSE result.sub IN
    IF name = Code THEN None ELSE name

\* Mutant: hints are used whatever else the request gives.
UseAnyHint(req) == TRUE

\* shouldIgnoreUiGeoHints
UseHints(req) == req.via = "pin" /\ ~req.prefer

\* resolveAnchoredEntities: a hinted city brings its state, and the name in
\* the reply is looked up only in the state that has been settled on.
State(req, result) ==
    CASE UseHints(req) /\ req.cityId # None -> req.cityId[1]
      [] UseHints(req) /\ req.cityId = None /\ req.stateId # None -> req.stateId
      [] OTHER -> IF result.state \in States THEN result.state ELSE None

\* Mutant: a city of that name in any state.
CityAnywhere(req, result) ==
    IF UseHints(req) /\ req.cityId # None THEN req.cityId
    ELSE LET named == {c \in Cities : c[2] = CityName(result)} IN
         IF named = {} THEN None ELSE CHOOSE c \in named : TRUE

City(req, result) ==
    IF UseHints(req) /\ req.cityId # None THEN req.cityId
    ELSE IF <<State(req, result), CityName(result)>> \in Cities
         THEN <<State(req, result), CityName(result)>> ELSE None

\* resolveNeighborhoodId: none of the name of its city, one of the catalog, or
\* a new one where GeoCatalog lets the geocoder add it.
Hood(city, result) ==
    LET name == HoodName(result) IN
    IF name # None /\ city # None /\ name # city[2] /\ (<<city, name>> \in Hoods \/ city \in Growing)
    THEN <<city, name>> ELSE None

\* The coordinates: the pin where it is preferred, else the geocoder's.
Point(req, result) ==
    IF req.prefer /\ req.pin # None THEN "pin"
    ELSE IF result # None THEN "geocoder" ELSE IF req.pin # None THEN "pin" ELSE None

NoGeo == [stateId |-> None, cityId |-> None, neighborhoodId |-> None]
Refused(reason, point) == [resolved |-> FALSE, reason |-> reason, point |-> point, geo |-> NoGeo]

\* buildOutsideUruguayResponse
OutsideUruguay == Refused("OUTSIDE_URUGUAY", None)

Response(req, reply) ==
    LET result == Geocoded(req, reply)
        city == City(req, result) IN
    CASE req.pin = "outside" -> OutsideUruguay
      [] req.pin # "outside" /\ result = None -> Refused("NOT_FOUND", Point(req, result))
      [] OTHER ->
         IF ~result.inside THEN OutsideUruguay
         ELSE IF State(req, result) = None
              THEN Refused("INCOMPLETE_COMPONENTS", Point(req, result))
              ELSE [resolved |-> TRUE, reason |-> None, point |-> Point(req, result),
                    geo |-> [stateId |-> State(req, result), cityId |-> city,
                             neighborhoodId |-> Hood(city, result)]]

Resolve(req, reply) ==
    /\ request' = req /\ places' = reply
    /\ answer' = Response(req, reply)
    /\ UNCHANGED <<given, location>>

-----------------------------------------------------------------------------
(* UsersProfileService.resolveGeoForOnboarding                             *)

NoIds == [stateId |-> None, cityId |-> None, neighborhoodId |-> None]
Given ==
    [stateId : States \cup {None}, cityId : Cities \cup {None}, neighborhoodId : Hoods \cup {None}]

\* `??', for each id by itself
Or(mine, resolved) == IF mine # None THEN mine ELSE resolved

\* The registration resolves its address or pin without hints and prefers the
\* pin; every id it gives itself wins over the resolved one.
Onboard(ids) ==
    /\ given = None
    /\ request.prefer /\ request.via # "placeId"
    /\ request.stateId = None /\ request.cityId = None
    /\ given' = ids
    /\ LET stateId == Or(ids.stateId, answer.geo.stateId)
           cityId == Or(ids.cityId, answer.geo.cityId)
           point == IF request.pin # None THEN "pin" ELSE answer.point IN
       location' = IF point = None \/ stateId = None \/ cityId = None THEN None
                   ELSE [stateId |-> stateId, cityId |-> cityId, point |-> point,
                         neighborhoodId |-> Or(ids.neighborhoodId, answer.geo.neighborhoodId)]
    /\ UNCHANGED <<request, places, answer>>

Next ==
    \/ request = None /\ \E req \in Requests, reply \in Replies : Resolve(req, reply)
    \/ answer # None /\ \E ids \in Given : Onboard(ids)

Spec == Init /\ [][Next]_vars

-----------------------------------------------------------------------------
Nested(l) ==
    /\ l.cityId # None => l.stateId = l.cityId[1]
    /\ l.neighborhoodId # None => l.cityId = l.neighborhoodId[1]

TypeOK ==
    /\ request # None => request.pin \in Pins /\ request.cityId \in Cities \cup {None}
    /\ answer # None =>
          /\ answer.resolved \in BOOLEAN /\ answer.point \in {None, "pin", "geocoder"}
          /\ answer.geo.stateId \in States \cup {None} /\ answer.geo.cityId \in Cities \cup {None}
    /\ given # None => given.neighborhoodId \in Hoods \cup {None}
    /\ location # None => location.stateId \in States /\ location.cityId \in Cities

\* However the parts of the reply, the hints and the catalog disagree, an
\* answer names a neighbourhood only in its city and a city only in its state,
\* and no hint of the client moves an address or a preferred pin elsewhere.  A
\* professional is stored with such a location too, and at the pin they gave,
\* unless they name only some of its parts or parts that disagree themselves.
LocationIsNested ==
    /\ answer # None =>
          /\ Nested(answer.geo)
          /\ answer.resolved /\ (request.via # "pin" \/ request.prefer) =>
                answer.geo.stateId = Geocoded(request, places).state
    /\ location # None =>
          /\ request.pin # None => location.point = "pin"
          /\ given = NoIds \/ (None \notin {given.stateId, given.cityId, given.neighborhoodId}
                               /\ Nested(given))
                => Nested(location)
=============================================================================
