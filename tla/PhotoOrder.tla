----------------------------- MODULE PhotoOrder -----------------------------
(***************************************************************************)
(* The positions of the photos of one portfolio item: addPhotoWithReorder   *)
(* and deletePhotoWithReorder, with the limit checked before an insertion.  *)
(*                                                                         *)
(* Both transactions run at READ COMMITTED: what they read first may be     *)
(* old when they write.  The write is one step, since the rows it shifts    *)
(* stay locked until the commit.  displayOrder is optional and free, so an  *)
(* owner may leave a gap; gaps and overlaps are recorded as history.        *)
(***************************************************************************)
EXTENDS Naturals, FiniteSets

CONSTANTS
    Slots,      \* requests in progress at once
    Photos,     \* file keys
    Limit,      \* min(maxPhotosPerItem, photosPerItemMax of the plan)
    MaxOrder,   \* the largest displayOrder a request may name
    MaxLast     \* bound: nothing is added behind this position

VARIABLES
    order,      \* PortfolioPhoto: file key -> displayOrder
    edits,      \* the requests in progress
    orderly,    \* history: no request has met another
    gap         \* history: a photo was put behind the end on purpose

vars == <<order, edits, orderly, gap>>

Rows == DOMAIN order
Orders == {order[p] : p \in Rows}
Append == 0             \* displayOrder omitted
Idle == [pc |-> "idle"]
Quiet == \A r \in Slots : edits[r] = Idle
Largest == IF Rows = {} THEN 0 ELSE CHOOSE n \in Orders : \A m \in Orders : m <= n

Init ==
    /\ order = [p \in {} |-> 0]
    /\ edits = [r \in Slots |-> Idle]
    /\ orderly = TRUE /\ gap = FALSE

Begin(r, request) ==
    /\ edits[r] = Idle
    /\ edits' = [edits EXCEPT ![r] = request]
    /\ orderly' = (orderly /\ Quiet)
    /\ UNCHANGED <<order, gap>>

Reply(r) == edits' = [edits EXCEPT ![r] = Idle]

\* addPhoto: the key is new and the count below the limit.
BeginAdd(r, p, at) ==
    /\ p \notin Rows
    /\ Cardinality(Rows) < Limit
    /\ Begin(r, [pc |-> "max", photo |-> p, at |-> at])

\* addPhotoWithReorder: the aggregate
ReadMax(r) ==
    /\ edits[r].pc = "max" /\ Largest < MaxLast
    /\ edits' = [edits EXCEPT ![r] = [pc |-> "insert", photo |-> edits[r].photo,
                                      at |-> edits[r].at, last |-> Largest]]
    /\ UNCHANGED <<order, orderly, gap>>

Target(e) == IF e.at = Append THEN e.last + 1 ELSE e.at
Shifts(e) == e.at # Append /\ e.at <= e.last

Inserted(e, shifted(_)) ==
    [p \in Rows \cup {e.photo} |->
        IF p = e.photo THEN Target(e)
        ELSE IF Shifts(e) /\ shifted(order[p]) THEN order[p] + 1 ELSE order[p]]

\* addPhotoWithReorder: shift and create; a key inserted meanwhile undoes both.
InsertWith(r, shifted(_)) ==
    LET e == edits[r] IN
    /\ e.pc = "insert"
    /\ order' = IF e.photo \in Rows THEN order ELSE Inserted(e, shifted)
    /\ gap' = (gap \/ (e.photo \notin Rows /\ Target(e) > e.last + 1))
    /\ Reply(r)
    /\ UNCHANGED orderly

\* Mutant: the photo at the position itself is not shifted.
InsertBehind(r) == InsertWith(r, LAMBDA n : n > Target(edits[r]))

Insert(r) == InsertWith(r, LAMBDA n : n >= Target(edits[r]))

\* deletePhotoWithReorder: findFirst
BeginDelete(r, p) ==
    /\ p \in Rows
    /\ Begin(r, [pc |-> "delete", photo |-> p, at |-> order[p]])

\* deletePhotoWithReorder: delete and compact; a row already gone ends it.
DeleteWith(r, closed(_)) ==
    LET e == edits[r] IN
    /\ e.pc = "delete"
    /\ order' = IF e.photo \notin Rows THEN order
                ELSE [p \in Rows \ {e.photo} |->
                         IF closed(order[p]) THEN order[p] - 1 ELSE order[p]]
    /\ Reply(r)
    /\ UNCHANGED <<orderly, gap>>

\* Mutant: a photo that has come to share the position moves too.
DeleteFrom(r) == DeleteWith(r, LAMBDA n : n >= edits[r].at)

Delete(r) == DeleteWith(r, LAMBDA n : n > edits[r].at)

Next ==
    \E r \in Slots :
        \/ \E p \in Photos :
              \/ BeginDelete(r, p)
              \/ \E at \in Append..MaxOrder : BeginAdd(r, p, at)
        \/ ReadMax(r) \/ Insert(r) \/ Delete(r)

Spec == Init /\ [][Next]_vars

-----------------------------------------------------------------------------
Positions == Append..MaxOrder
Requests ==
    {Idle}
    \cup [pc : {"max"}, photo : Photos, at : Positions]
    \cup [pc : {"insert"}, photo : Photos, at : Positions, last : Nat]
    \cup [pc : {"delete"}, photo : Photos, at : Nat]

TypeOK ==
    /\ Rows \subseteq Photos /\ \A p \in Rows : order[p] \in Nat \ {0}
    /\ \A r \in Slots : edits[r] \in Requests
    /\ orderly \in BOOLEAN /\ gap \in BOOLEAN

\* Photos added and deleted one after another keep positions of their own,
\* within the limit; they are numbered 1..N unless the owner has put a photo
\* behind the end.  Whatever overlaps, no position falls below 1 (TypeOK).
Distinct == \A p, q \in Rows : order[p] = order[q] => p = q
WithinLimit == Cardinality(Rows) <= Limit
Dense == ~gap => Orders = 1..Cardinality(Rows)
PhotosInOrder == orderly => Distinct /\ WithinLimit /\ Dense
=============================================================================
