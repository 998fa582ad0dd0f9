----------------------------- MODULE GeoCatalog -----------------------------
(***************************************************************************)
(* GeoResolveService.resolve, which may add a neighbourhood the geocoder    *)
(* names to the catalog, with its cache of answers, and the cached tree of  *)
(* GeoService.                                                              *)
(*                                                                         *)
(* The catalog has its country, states and cities from the seed.  A         *)
(* request is told apart by what the geocoder answers for it, and its       *)
(* answer by the city and neighbourhood; coordinates, the formatted address *)
(* and the parsed names are left out.                                       *)
(***************************************************************************)
EXTENDS Naturals, FiniteSets

CONSTANTS
    Cities,
    Names,          \* slugs of neighbourhoods; a name and its slug are one
    Seeds,          \* the catalogs the seed may leave, as sets of pairs <<city, name>>
    Slots,          \* requests in progress at once
    None

VARIABLES
    seed,           \* the catalog as it was seeded
    catalog,        \* Neighborhood rows: pairs <<city, name>>
    tree,           \* the cached tree, as its set of neighbourhoods, or None
    answers,        \* the cached answers, by query
    calls,          \* the requests in progress
    reading,        \* the getTree in progress
    settled         \* history: nothing has overlapped or failed since a creation began

vars == <<seed, catalog, tree, answers, calls, reading, settled>>

\* What the geocoder answers: a city of the catalog and the hint of a
\* neighbourhood, or nothing of use (no place, one outside Uruguay, no city).
Unresolved == <<None, None>>
Queries == {Unresolved} \cup (Cities \X (Names \cup {None}))
Idle == [pc |-> "idle"]
Quiet == reading = Idle /\ \A s \in Slots : calls[s] = Idle

Init ==
    /\ seed \in Seeds /\ catalog = seed
    /\ tree = None
    /\ answers = [q \in Queries |-> None]
    /\ calls = [s \in Slots |-> Idle] /\ reading = Idle
    /\ settled = TRUE

Goto(s, step) == calls' = [calls EXCEPT ![s] = step]

\* A cached answer ends the request at once and changes nothing; otherwise the
\* geocoder is asked.
Begin(s, q) ==
    /\ calls[s] = Idle /\ answers[q] = None
    /\ Goto(s, [pc |-> "resolve", query |-> q])
    /\ settled' = (settled /\ Quiet)
    /\ UNCHANGED <<seed, catalog, tree, answers, reading>>

OfCity(city) == {name \in Names : <<city, name>> \in catalog}

\* Mutant: any city with a neighbourhood in the catalog.
CanUpsertAnywhere(city) == OfCity(city) # {}

\* canUpsertNeighborhoodFromGoogle: more than one, which are then not all
\* `centro', since slugs are unique in a city
CanUpsert(city) == Cardinality(OfCity(city)) > 1

\* resolve, resolveNeighborhoodId: the checks before the upsert.  A hint equal
\* to the name of its city counts as none.
Resolve(s) ==
    LET q == calls[s].query
        known == q[2] = None \/ q[2] \in OfCity(q[1]) IN
    /\ calls[s].pc = "resolve"
    /\ Goto(s, IF ~known /\ CanUpsert(q[1]) THEN [pc |-> "upsert", query |-> q]
               ELSE [pc |-> "cache", query |-> q, created |-> FALSE,
                     result |-> IF known THEN q ELSE <<q[1], None>>])
    /\ UNCHANGED <<seed, catalog, tree, answers, reading, settled>>

\* upsertNeighborhood; `created' is set even when another request has created
\* the row meanwhile.
Upsert(s) ==
    LET q == calls[s].query IN
    /\ calls[s].pc = "upsert"
    /\ catalog' = catalog \cup {q}
    /\ Goto(s, [pc |-> "cache", query |-> q, result |-> q, created |-> TRUE])
    /\ settled' = (Cardinality({t \in Slots : calls[t] # Idle}) = 1 /\ reading = Idle)
    /\ UNCHANGED <<seed, tree, answers, reading>>

\* cacheResolve, which swallows an error
CacheResolve(s) ==
    LET c == calls[s] IN
    /\ c.pc = "cache"
    /\ answers' \in {answers, [answers EXCEPT ![c.query] = c.result]}
    /\ Goto(s, IF c.created THEN [pc |-> "invalidate"] ELSE Idle)
    /\ UNCHANGED <<seed, catalog, tree, reading, settled>>

\* Mutant: the tree is left to its TTL.
KeepTree(s) ==
    /\ calls[s].pc = "invalidate" /\ Goto(s, Idle)
    /\ UNCHANGED <<seed, catalog, tree, answers, reading, settled>>

Invalidate(s) ==
    /\ calls[s].pc = "invalidate" /\ Goto(s, Idle)
    /\ tree' = None
    /\ UNCHANGED <<seed, catalog, answers, reading, settled>>

\* The process dies, or the geocoder, the database or Redis fails.
Fails(s) ==
    /\ calls[s] # Idle /\ Goto(s, Idle)
    /\ settled' = FALSE
    /\ UNCHANGED <<seed, catalog, tree, answers, reading>>

\* The TTL of an answer passes.
AnswerExpires(q) ==
    /\ answers[q] # None /\ answers' = [answers EXCEPT ![q] = None]
    /\ UNCHANGED <<seed, catalog, tree, calls, reading, settled>>

-----------------------------------------------------------------------------
(* GeoService.getTree                                                      *)

\* A miss reads the whole hierarchy.
GetTree ==
    /\ reading = Idle /\ tree = None
    /\ reading' = [pc |-> "fill", rows |-> catalog]
    /\ settled' = (settled /\ Quiet)
    /\ UNCHANGED <<seed, catalog, tree, answers, calls>>

FillTree ==
    /\ reading # Idle /\ reading' = Idle
    /\ tree' = reading.rows
    /\ UNCHANGED <<seed, catalog, answers, calls, settled>>

TreeExpires ==
    /\ tree # None /\ tree' = None
    /\ UNCHANGED <<seed, catalog, answers, calls, reading, settled>>

Next ==
    \/ \E s \in Slots :
          \/ \E q \in Queries : Begin(s, q)
          \/ Resolve(s) \/ Upsert(s) \/ CacheResolve(s) \/ Invalidate(s) \/ Fails(s)
    \/ \E q \in Queries : AnswerExpires(q)
    \/ GetTree \/ FillTree \/ TreeExpires

Spec == Init /\ [][Next]_vars

-----------------------------------------------------------------------------
Rows == Cities \X Names

TypeOK ==
    /\ seed \in Seeds /\ seed \subseteq catalog /\ catalog \subseteq Rows
    /\ tree = None \/ tree \subseteq Rows
    /\ answers \in [Queries -> {None} \cup ((Cities \cup {None}) \X (Names \cup {None}))]
    /\ \A s \in Slots : calls[s].pc \in {"idle", "resolve", "upsert", "cache", "invalidate"}
    /\ reading = Idle \/ reading.rows \subseteq Rows
    /\ settled \in BOOLEAN

\* Whatever overlaps, the geocoder adds neighbourhoods only to cities whose
\* seed already tells neighbourhoods apart, and a cached answer never names a
\* neighbourhood that the catalog lacks or that lies in another city.
SeedDecides ==
    /\ \A city \in Cities :
          (\E name \in Names : <<city, name>> \in catalog \ seed)
             => Cardinality({name \in Names : <<city, name>> \in seed}) > 1
    /\ \A q \in Queries :
          answers[q] \notin {None, Unresolved} =>
             /\ answers[q][1] = q[1] /\ answers[q][2] \in {q[2], None}
             /\ answers[q][2] # None => answers[q] \in catalog

\* One creation that meets nothing else makes the cached tree the catalog
\* again, however creations and reads of the tree have overlapped before.
GeoTreeIsCurrent == settled /\ Quiet => tree \in {None, catalog}
GeoIsConsistent == SeedDecides /\ GeoTreeIsCurrent
=============================================================================
