-------------------------- MODULE PlanEntitlements --------------------------
(***************************************************************************)
(* What the JSON of a plan grants: the payload an administrator sends, the  *)
(* row it becomes, the rows of the first schema that are still there, and   *)
(* the limits enforced from what is read back.                              *)
(*                                                                         *)
(* A value of the JSON is Absent, Null, Junk (another type, a fraction, a   *)
(* negative number), a flag or a number.  PlanAssignment models who writes  *)
(* the row and the caches in front of it.                                   *)
(***************************************************************************)
EXTENDS Naturals

CONSTANTS
    Absent, Null, Junk, Yes, No,
    Numbers,        \* the numbers that are told apart
    Default,        \* each number of PLAN_ENTITLEMENTS_DEFAULTS
    Cap             \* portfolioConfig: items and photos at most, any plan

VARIABLES
    row,            \* the entitlements column of the definition
    sent,           \* the administrator's payload and the row it met, or Absent
    tried           \* the last operation that a limit decided, or Absent

vars == <<row, sent, tried>>

Groups == {"serviceAreas", "portfolio", "search", "urgency"}
Group ==
    [max |-> "serviceAreas", radiusMetersMax |-> "serviceAreas",
     itemsMax |-> "portfolio", photosPerItemMax |-> "portfolio",
     queryExpansionEnabled |-> "search",
     broadcastDelayMs |-> "urgency", broadcastTier |-> "urgency"]
Limits == DOMAIN Group
V1Limits == {"max", "radiusMetersMax", "broadcastDelayMs", "broadcastTier"}

Leaves == {Absent, Null, Junk, Yes, No} \cup Numbers
Shapes == {"record", "other", "absent"}

\* PLAN_ENTITLEMENTS_DEFAULTS
Defaults == [l \in Limits |-> IF l = "queryExpansionEnabled" THEN No ELSE Default]

NoV1 == [l \in V1Limits |-> Absent]
\* The canonical form of limits, as it is stored.
Canonical(limits) ==
    [object |-> TRUE, schemaVersion |-> 2, groups |-> [g \in Groups |-> "record"],
     v2 |-> limits, v1 |-> NoV1]

-----------------------------------------------------------------------------
(* plan-entitlements.schema.ts.  Absent stands for the error thrown.       *)

\* readNullableInt, readPositiveInt, readNonNegativeInt, readBoolean
Valid(limit, value) ==
    CASE limit = "max" -> value \in Numbers \cup {Null}
      [] limit = "queryExpansionEnabled" -> value \in {Yes, No}
      [] limit = "broadcastDelayMs" -> value \in Numbers
      [] OTHER -> value \in Numbers \ {0}

IsV1Shape(raw) ==
    \/ raw.v1["max"] # Absent
    \/ raw.v1["radiusMetersMax"] # Absent /\ raw.groups["serviceAreas"] = "absent"

FromV1(raw) ==
    IF \A l \in V1Limits : Valid(l, raw.v1[l])
    THEN [l \in Limits |-> IF l \in V1Limits THEN raw.v1[l] ELSE Defaults[l]]
    ELSE Absent

ParseV2(raw) ==
    IF \A l \in Limits : raw.groups[Group[l]] = "record" /\ Valid(l, raw.v2[l])
    THEN raw.v2 ELSE Absent

\* normalizeEntitlements: what is read from the database
Normalize(raw) ==
    CASE ~raw.object -> Absent
      [] raw.object /\ IsV1Shape(raw) -> FromV1(raw)
      [] OTHER -> ParseV2(raw)

\* Mutant: the payload may have the first schema too.
ParseEither(raw) == Normalize(raw)

\* parsePlanEntitlements: what an administrator may send
Parse(raw) ==
    IF raw.object /\ ~IsV1Shape(raw) /\ raw.schemaVersion \in {Absent, 2}
    THEN ParseV2(raw) ELSE Absent

\* mergePlanEntitlements: a limit that is there wins over its default.
Merge(raw) ==
    LET limits == Normalize(raw) IN
    IF limits = Absent THEN Absent
    ELSE [l \in Limits |-> IF limits[l] = Absent THEN Defaults[l] ELSE limits[l]]

-----------------------------------------------------------------------------
(* The inputs: a plan of either schema in which two values are anything.   *)

Varied(bases, where) == UNION {{[base EXCEPT ![l] = v] : v \in Leaves, l \in where} : base \in bases}
Plan == [l \in Limits |-> IF l = "queryExpansionEnabled" THEN Yes ELSE 1]
V1Plan == [l \in V1Limits |-> 1]

Reshaped(v, g, s, old) ==
    [Canonical(Plan) EXCEPT !.schemaVersion = v, !.groups[g] = s, !.v1 = old]

Payloads ==
    {Canonical(limits) : limits \in Varied(Varied({Plan}, Limits), Limits)}
    \cup {Reshaped(v, g, s, old) :
             v \in {Absent, 1, 2}, g \in Groups, s \in Shapes, old \in Varied({NoV1, V1Plan}, V1Limits)}
    \cup {[Canonical(Plan) EXCEPT !.object = FALSE]}

OldRows ==
    {[Canonical([l \in Limits |-> Absent]) EXCEPT
         !.schemaVersion = Absent, !.groups = [g \in Groups |-> "absent"], !.v1 = old] :
        old \in {o \in Varied({V1Plan}, V1Limits) : \A l \in V1Limits : Valid(l, o[l])}}

Init ==
    /\ row \in OldRows \cup {Canonical(Plan)}
    /\ sent = Absent /\ tried = Absent

-----------------------------------------------------------------------------
\* PlansAdminService.parseEntitlements; a payload that is refused writes nothing.
Send(raw) ==
    /\ sent' = [payload |-> raw, before |-> row]
    /\ row' = IF Parse(raw) = Absent THEN row ELSE Canonical(Merge(Canonical(Parse(raw))))
    /\ tried' = Absent

Least(a, b) == IF a < b THEN a ELSE b

\* Mutant: a limit of zero passes for none.
GrantsIfFalsy(capability, limits, amount) ==
    CASE capability = "serviceArea.create" -> limits.max \in {Null, 0} \/ amount < limits.max
      [] capability = "serviceArea.radius" -> amount <= limits.radiusMetersMax
      [] capability = "portfolio.item.create" -> amount < Least(limits.itemsMax, Cap)
      [] capability = "portfolio.photo.add" -> amount < Least(limits.photosPerItemMax, Cap)
      [] OTHER -> limits.queryExpansionEnabled = Yes

\* EntitlementsAssertService.assert and isSearchQueryExpansionEnabled
Grants(capability, limits, amount) ==
    CASE capability = "serviceArea.create" -> limits.max = Null \/ amount < limits.max
      [] capability = "serviceArea.radius" -> amount <= limits.radiusMetersMax
      [] capability = "portfolio.item.create" -> amount < Least(limits.itemsMax, Cap)
      [] capability = "portfolio.photo.add" -> amount < Least(limits.photosPerItemMax, Cap)
      [] OTHER -> limits.queryExpansionEnabled = Yes

Capabilities ==
    {"serviceArea.create", "serviceArea.radius", "portfolio.item.create",
     "portfolio.photo.add", "search.queryExpansion"}

Try(capability, amount) ==
    /\ Merge(row) # Absent
    /\ tried' = [capability |-> capability, amount |-> amount,
                 granted |-> Grants(capability, Merge(row), amount)]
    /\ sent' = Absent
    /\ UNCHANGED row

Next ==
    \/ sent = Absent /\ tried = Absent /\ \E raw \in Payloads : Send(raw)
    \/ tried = Absent /\ \E capability \in Capabilities, amount \in Numbers : Try(capability, amount)

Spec == Init /\ [][Next]_vars

-----------------------------------------------------------------------------
TypeOK ==
    /\ row.object \in BOOLEAN /\ row.schemaVersion \in {Absent, 2}
    /\ DOMAIN row.v2 = Limits /\ DOMAIN row.v1 = V1Limits
    /\ \A l \in Limits : row.v2[l] \in Leaves
    /\ tried # Absent => tried.capability \in Capabilities /\ tried.granted \in BOOLEAN

\* The plan as whoever wrote it would say: the number written for a limit, none
\* only where null is written, and the default where its schema has no such limit.
Written(limit) ==
    CASE row.groups[Group[limit]] = "record" -> row.v2[limit]
      [] row.groups[Group[limit]] # "record" /\ limit \in V1Limits -> row.v1[limit]
      [] OTHER -> Defaults[limit]

\* A payload of the second schema and nothing else, each value of its type.
Clean(payload) ==
    /\ payload.object /\ payload.schemaVersion \in {Absent, 2}
    /\ \A g \in Groups : payload.groups[g] = "record"
    /\ \A l \in V1Limits : payload.v1[l] = Absent
    /\ \A l \in Limits : Valid(l, payload.v2[l])

\* Whatever an administrator sends and whichever schema the row has, the row can
\* be read and every limit in force is the one written: a payload that is
\* accepted is kept value for value, one of the first schema or with a value
\* missing or of another type leaves the plan alone, and reading and storing the
\* plan again would change nothing.  Zero areas are no areas, and only null is
\* no limit.
LimitsAreAsWritten ==
    /\ Merge(row) # Absent
    /\ Merge(Canonical(Merge(row))) = Merge(row)
    /\ \A l \in Limits : Merge(row)[l] = Written(l)
    /\ sent # Absent =>
          /\ row \in {sent.before, Canonical(sent.payload.v2)}
          /\ Clean(sent.payload) => row = Canonical(sent.payload.v2)
    /\ tried # Absent /\ tried.granted /\ tried.capability = "serviceArea.create" =>
          Written("max") = Null \/ tried.amount + 1 <= Written("max")
    /\ tried # Absent /\ tried.granted /\ tried.capability = "portfolio.item.create" =>
          tried.amount + 1 <= Written("itemsMax")
=============================================================================
