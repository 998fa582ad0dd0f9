---------------------------- MODULE ServiceAreas ----------------------------
(***************************************************************************)
(* The service areas of one professional or company: creation under the     *)
(* plan's limit, the change of the primary area, and deletion.              *)
(*                                                                         *)
(* A transaction that makes an area primary first updates every row of the  *)
(* subject.  At READ COMMITTED it waits for rows another transaction holds  *)
(* and then updates their newest version, but it never sees rows inserted   *)
(* after it began: `seen' is that snapshot.  Labels, addresses, radius and  *)
(* coordinates are left out.                                                *)
(***************************************************************************)
EXTENDS Naturals, FiniteSets

CONSTANTS
    Slots,      \* requests in progress at once
    Areas,      \* ids of areas
    Limits      \* values of serviceAreas.max among the plans

VARIABLES
    limit,      \* serviceAreas.max of the subject's plan
    primary,    \* ServiceArea: id -> isPrimary
    calls,      \* the requests in progress
    peak,       \* history: the largest limit so far
    orderly     \* history: no creation has met another change of the primary area

vars == <<limit, primary, calls, peak, orderly>>

Rows == DOMAIN primary
Idle == [pc |-> "idle"]
Creating(s) == calls[s].pc \in {"decide", "unset", "insert"}
Moving(s) == calls[s].pc \in {"clear", "set"}

Init ==
    /\ limit \in Limits /\ peak = limit
    /\ primary = [a \in {} |-> FALSE]
    /\ calls = [s \in Slots |-> Idle]
    /\ orderly = TRUE

Begin(s, call, alone) ==
    /\ calls[s] = Idle /\ calls' = [calls EXCEPT ![s] = call]
    /\ orderly' = (orderly /\ alone)
    /\ UNCHANGED <<limit, primary, peak>>

Goto(s, call) == calls' = [calls EXCEPT ![s] = call] /\ UNCHANGED <<limit, peak, orderly>>

\* createForCurrentProfessional, createForCompany: assertCanAddServiceArea
BeginCreate(s) ==
    /\ Cardinality(Rows) < limit
    /\ Begin(s, [pc |-> "decide"], \A t \in Slots : ~Creating(t) /\ ~Moving(t))

\* isPrimary as given, or by default when there is no area yet
Decide(s, given) ==
    /\ calls[s].pc = "decide"
    /\ LET isPrimary == IF given = "omitted" THEN Rows = {} ELSE given = "yes" IN
       Goto(s, IF isPrimary THEN [pc |-> "unset"] ELSE [pc |-> "insert", primary |-> FALSE, seen |-> {}])
    /\ UNCHANGED primary

\* unsetPrimaryForProfessional, unsetPrimaryForCompany
Unset(s) ==
    /\ calls[s].pc = "unset"
    /\ Goto(s, [pc |-> "insert", primary |-> TRUE, seen |-> Rows])
    /\ UNCHANGED primary

\* createForProfessional, createForCompany of the repository: the commit
Insert(s, a) ==
    /\ calls[s].pc = "insert" /\ a \notin Rows
    /\ primary' = [b \in Rows \cup {a} |->
                      IF b = a THEN calls[s].primary ELSE primary[b] /\ b \notin calls[s].seen]
    /\ Goto(s, Idle)

\* applyUpdate without isPrimary: true; it clears nothing.
Demote(a) ==
    /\ a \in Rows
    /\ primary' = [primary EXCEPT ![a] = FALSE]
    /\ UNCHANGED <<limit, calls, peak, orderly>>

\* applyUpdate with isPrimary: true
BeginPromote(s, a) ==
    /\ a \in Rows
    /\ Begin(s, [pc |-> "clear", area |-> a], \A t \in Slots : ~Creating(t))

\* Mutant: update without clearPrimaryOnSubject
ClearNothing(s) ==
    /\ calls[s].pc = "clear"
    /\ Goto(s, [pc |-> "set", area |-> calls[s].area, seen |-> {}])
    /\ UNCHANGED primary

\* update: the rows of the subject
Clear(s) ==
    /\ calls[s].pc = "clear"
    /\ Goto(s, [pc |-> "set", area |-> calls[s].area, seen |-> Rows])
    /\ UNCHANGED primary

\* update: the row itself and the commit; a row that is gone undoes both.
Promote(s) ==
    /\ calls[s].pc = "set"
    /\ primary' = IF calls[s].area \notin Rows THEN primary
                  ELSE [b \in Rows |-> b = calls[s].area \/ (primary[b] /\ b \notin calls[s].seen)]
    /\ Goto(s, Idle)

\* deleteForCurrentProfessional, deleteForCompany: the row and the count
BeginDelete(s, a) ==
    /\ a \in Rows
    /\ primary[a] => Cardinality(Rows) > 1
    /\ Begin(s, [pc |-> "delete", area |-> a], TRUE)

Delete(s) ==
    /\ calls[s].pc = "delete"
    /\ primary' = [b \in Rows \ {calls[s].area} |-> primary[b]]
    /\ Goto(s, Idle)

\* A subscription or an administrator changes the plan; no area is removed.
PlanChanges(l) ==
    /\ l # limit /\ limit' = l /\ peak' = IF l > peak THEN l ELSE peak
    /\ UNCHANGED <<primary, calls, orderly>>

Next ==
    \/ \E s \in Slots :
          \/ BeginCreate(s) \/ \E given \in {"omitted", "yes", "no"} : Decide(s, given)
          \/ Unset(s) \/ Clear(s) \/ Promote(s) \/ Delete(s)
          \/ \E a \in Areas : Insert(s, a) \/ BeginPromote(s, a) \/ BeginDelete(s, a)
    \/ \E a \in Areas : Demote(a)
    \/ \E l \in Limits : PlanChanges(l)

Spec == Init /\ [][Next]_vars

-----------------------------------------------------------------------------
Calls ==
    {Idle} \cup [pc : {"decide", "unset"}]
    \cup [pc : {"insert"}, primary : BOOLEAN, seen : SUBSET Areas]
    \cup [pc : {"clear", "delete"}, area : Areas]
    \cup [pc : {"set"}, area : Areas, seen : SUBSET Areas]

TypeOK ==
    /\ limit \in Limits /\ peak \in Limits
    /\ Rows \subseteq Areas /\ \A a \in Rows : primary[a] \in BOOLEAN
    /\ \A s \in Slots : calls[s] \in Calls
    /\ orderly \in BOOLEAN

\* Unless a creation has overlapped another creation or a change of the
\* primary area, a subject has at most one primary area, however many changes
\* and deletions overlap, and no more areas than some plan of theirs allowed.
OnePrimaryArea ==
    orderly =>
        /\ \A a, b \in Rows : primary[a] /\ primary[b] => a = b
        /\ Cardinality(Rows) <= peak
=============================================================================
