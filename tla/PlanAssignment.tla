--------------------------- MODULE PlanAssignment ---------------------------
(***************************************************************************)
(* The plan of one subject: its assignment by an administrator, the         *)
(* change billing makes, the custom plan definitions, and the resolution    *)
(* of entitlements through the cache of one process.                        *)
(*                                                                         *)
(* The entitlements of a definition are told apart by its id and version.   *)
(* No assignment is a transaction: each write is a step.                    *)
(***************************************************************************)
EXTENDS Naturals, FiniteSets

CONSTANTS
    Catalog,        \* ids of the catalog plans; each is its own code
    Customs,        \* ids of custom definitions
    Slots,          \* administrators' requests in progress at once
    MaxVersion      \* bound: updates of a catalog plan, plus one

VARIABLES
    profile,        \* subscriptionPlan and planDefinitionId of the subject
    definitions,    \* PlanDefinition rows
    calls,          \* the requests in progress
    cache,          \* PlanEntitlementsCacheService: id -> version, 0 if absent
    reading,        \* the resolution in progress
    orderly         \* history: no assignment has met another change or broken off

vars == <<profile, definitions, calls, cache, reading, orderly>>

Ids == Catalog \cup Customs
Rows == DOMAIN definitions
Code(id) == IF id \in Catalog THEN id ELSE "CUSTOM"
Idle == [pc |-> "idle"]
Fallback == [pc |-> "answer", asked |-> 0, given |-> 0]
Quiet == \A s \in Slots : calls[s] = Idle

\* Bound: at most two of the requests and the resolution are under way.
Room == Cardinality({s \in Slots : calls[s] # Idle}) + (IF reading = Idle THEN 0 ELSE 1) < 2

Init ==
    /\ \E plan \in Catalog : profile = [code |-> plan, id |-> plan]
    /\ definitions = [id \in Catalog |-> [active |-> TRUE, linked |-> FALSE, version |-> 1]]
    /\ calls = [s \in Slots |-> Idle]
    /\ cache = [id \in Ids |-> 0]
    /\ reading = Idle
    /\ orderly = TRUE

-----------------------------------------------------------------------------
(* The administrator's requests                                            *)

Begin(s, call) ==
    /\ Room /\ calls[s] = Idle /\ calls' = [calls EXCEPT ![s] = call]
    /\ orderly' = (orderly /\ Quiet)
    /\ UNCHANGED <<profile, definitions, cache, reading>>

Goto(s, pc) == calls' = [calls EXCEPT ![s] = IF pc = "idle" THEN Idle ELSE [@ EXCEPT !.pc = pc]]

\* assignProfessionalPlan, assignCompanyPlan: the plan so far is read.
BeginCatalog(s, plan) ==
    Begin(s, [pc |-> "deactivate", kind |-> "catalog", to |-> plan, current |-> profile.id])
BeginCustom(s, id) ==
    /\ id \notin Rows
    /\ Begin(s, [pc |-> "create", kind |-> "custom", to |-> id, current |-> profile.id])

\* createProfessionalCustomPlan, createCompanyCustomPlan
BeginExtra(s, id) ==
    /\ id \notin Rows
    /\ Begin(s, [pc |-> "create", kind |-> "extra", to |-> id, current |-> id])

\* createCustomForProfessional, createCustomForCompany: the owner is unique.
Create(s) ==
    LET c == calls[s]
        refused == c.to \in Rows \/ \E id \in Rows : definitions[id].linked IN
    /\ c.pc = "create"
    /\ definitions' =
          IF refused THEN definitions
          ELSE [id \in Rows \cup {c.to} |->
                   IF id = c.to THEN [active |-> TRUE, linked |-> TRUE, version |-> 1]
                   ELSE definitions[id]]
    /\ Goto(s, IF refused THEN "idle" ELSE IF c.kind = "extra" THEN "update" ELSE "deactivate")
    /\ UNCHANGED <<profile, cache, reading, orderly>>

\* deactivateIfCustom; it is never activated again, so reading it first and
\* then writing it is one step.
Deactivate(s) ==
    LET c == calls[s] IN
    /\ c.pc = "deactivate"
    /\ definitions' = IF c.current \in Customs \cap Rows
                      THEN [definitions EXCEPT ![c.current].active = FALSE,
                                               ![c.current].linked = FALSE]
                      ELSE definitions
    /\ Goto(s, IF c.kind = "custom" THEN "update" ELSE "forget")
    /\ UNCHANGED <<profile, cache, reading, orderly>>

\* update of the profile or the company
Update(s) ==
    LET c == calls[s] IN
    /\ c.pc = "update"
    /\ profile' = [code |-> Code(c.to), id |-> c.to]
    /\ Goto(s, IF c.kind = "catalog" THEN "idle" ELSE "forget")
    /\ UNCHANGED <<definitions, cache, reading, orderly>>

\* planCache.invalidate, before the update of a catalog assignment and after
\* that of a custom one
Forget(s) ==
    LET c == calls[s] IN
    /\ c.pc = "forget"
    /\ cache' = [cache EXCEPT ![c.to] = 0, ![c.current] = 0]
    /\ Goto(s, IF c.kind = "catalog" THEN "update" ELSE "idle")
    /\ UNCHANGED <<profile, definitions, reading, orderly>>

\* updateCatalogPlan
BeginRevise(s, plan) ==
    Begin(s, [pc |-> "revise", kind |-> "revise", to |-> plan, current |-> plan])

Revise(s) ==
    LET c == calls[s] IN
    /\ c.pc = "revise" /\ definitions[c.to].version < MaxVersion
    /\ definitions' = [definitions EXCEPT ![c.to].version = @ + 1]
    /\ Goto(s, "forget")
    /\ UNCHANGED <<profile, cache, reading, orderly>>

Dies(s) ==
    /\ calls[s] # Idle /\ Goto(s, "idle")
    /\ orderly' = FALSE
    /\ UNCHANGED <<profile, definitions, cache, reading>>

\* syncProfilePlan of billing: a custom definition stays as it is.
SyncProfilePlan(plan) ==
    /\ profile' = [code |-> plan, id |-> plan]
    /\ orderly' = (orderly /\ Quiet)
    /\ UNCHANGED <<definitions, calls, cache, reading>>

-----------------------------------------------------------------------------
(* EntitlementsResolverService                                             *)

Reads(step) == reading' = step /\ UNCHANGED <<profile, definitions, calls, orderly>>

\* loadPlanDefinitionId
LoadPlan ==
    /\ Room /\ reading = Idle /\ Reads([pc |-> "definition", id |-> profile.id])
    /\ UNCHANGED cache

\* findById: a definition that is not active yields the defaults of FREE.
LoadDefinition ==
    /\ reading.pc = "definition"
    /\ Reads(IF definitions[reading.id].active
             THEN [pc |-> "cache", id |-> reading.id, version |-> definitions[reading.id].version]
             ELSE Fallback)
    /\ UNCHANGED cache

LookUp(hit) ==
    /\ reading.pc = "cache"
    /\ Reads([pc |-> "answer", asked |-> reading.version,
              given |-> IF hit THEN cache[reading.id] ELSE reading.version])
    /\ cache' = [cache EXCEPT ![reading.id] = IF hit THEN @ ELSE reading.version]

\* Mutant: an entry is good until it expires or is invalidated.
GetAny == LookUp(reading.pc = "cache" /\ cache[reading.id] # 0)

\* cache.get and, on a miss, cache.set: an entry of another version is none.
Get == LookUp(reading.pc = "cache" /\ cache[reading.id] = reading.version)

Answered == reading.pc = "answer" /\ Reads(Idle) /\ UNCHANGED cache

\* expiresAt passes, or the process starts again.
Expires(id) ==
    /\ cache[id] # 0 /\ cache' = [cache EXCEPT ![id] = 0]
    /\ UNCHANGED <<profile, definitions, calls, reading, orderly>>

Next ==
    \/ \E s \in Slots :
          \/ \E plan \in Catalog : BeginCatalog(s, plan) \/ BeginRevise(s, plan)
          \/ \E id \in Customs : BeginCustom(s, id) \/ BeginExtra(s, id)
          \/ Create(s) \/ Deactivate(s) \/ Update(s) \/ Forget(s) \/ Revise(s) \/ Dies(s)
    \/ \E plan \in Catalog : SyncProfilePlan(plan)
    \/ LoadPlan \/ LoadDefinition \/ Get \/ Answered
    \/ \E id \in Ids : Expires(id)

Spec == Init /\ [][Next]_vars

-----------------------------------------------------------------------------
Versions == 0..MaxVersion
Calls ==
    {Idle} \cup [pc : {"create", "deactivate", "update", "forget", "revise"},
                 kind : {"catalog", "custom", "extra", "revise"}, to : Ids, current : Ids]
Readings ==
    {Idle} \cup [pc : {"definition"}, id : Ids] \cup [pc : {"cache"}, id : Ids, version : Versions]
    \cup [pc : {"answer"}, asked : Versions, given : Versions]

TypeOK ==
    /\ profile \in [code : Catalog \cup {"CUSTOM"}, id : Ids]
    /\ Catalog \subseteq Rows /\ Rows \subseteq Ids
    /\ \A id \in Rows : definitions[id] \in [active : BOOLEAN, linked : BOOLEAN, version : Versions]
    /\ \A s \in Slots : calls[s] \in Calls
    /\ cache \in [Ids -> Versions] /\ reading \in Readings
    /\ orderly \in BOOLEAN

\* A subject has the plan it was assigned: its definition is active, so that
\* the defaults of FREE are not used in its place, and has the code of its
\* subscriptionPlan, unless assignments have overlapped or broken off.  And
\* whatever overlaps, no answer comes from a cached version other than the one
\* just read, although a slow resolution may fill the cache after an update
\* has emptied it.
AssignedPlanIsActive ==
    orderly /\ Quiet => /\ profile.id \in Rows /\ definitions[profile.id].active
                        /\ Code(profile.id) = profile.code
AnswerIsCurrent == reading.pc = "answer" => reading.given = reading.asked
PlanIsEffective == AssignedPlanIsActive /\ AnswerIsCurrent
=============================================================================
