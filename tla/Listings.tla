------------------------------ MODULE Listings ------------------------------
(***************************************************************************)
(* The paged lists of the portfolio, the jobs and the payouts, while their  *)
(* rows come, go and change between two pages.                              *)
(*                                                                         *)
(* A page is `skip' and `take' over a filter and an order, read on its own; *)
(* the total is a second query of the same request.  A client reads the     *)
(* pages one after the other until one is not full.  Rows are told apart by *)
(* the columns the filters and the orders use.                              *)
(***************************************************************************)
EXTENDS Naturals, FiniteSets

CONSTANTS
    MaxRows,        \* rows there can be; they are named in order of creation
    PageSize,
    MaxMoves        \* bound: changes to the rows while a client reads

VARIABLES
    list,       \* the list that is read
    older,      \* of each row, the rows older than it by the list's sort key
    state,      \* status of each row
    deleted,    \* rows with deletedAt
    page,       \* the page that is read
    asked,      \* the queries of the page still to run
    seen,       \* the rows that the pages have shown so far
    again,      \* of them, those that have been shown twice
    total,      \* the last total
    lasting,    \* history: rows that have been in the list all along
    changes,    \* history: what has happened since the reading began
    moves

Rows == 1..MaxRows
rows == <<older, state, deleted>>
reading == <<page, asked, seen, again, total>>
vars == <<list, rows, reading, lasting, changes, moves>>

Portfolio == {"listMyItems", "listPublished", "listModerationQueue"}
Jobs == {"listMine", "listAvailable", "listProfessionalMine"}
Payouts == {"listPendingManualPayouts"}
Lists == Portfolio \cup Jobs \cup Payouts

\* The lists answered with a total.
Counted == Portfolio \cup Payouts

-----------------------------------------------------------------------------
(* The filters.  The rows are those of one professional or client.         *)

MyItem(r) == r \notin deleted
PublishedItem(r) == r \notin deleted /\ state[r] = "PUBLISHED"
QueuedItem(r) == r \notin deleted /\ state[r] = "HIDDEN_PENDING_REVIEW"
ClientJob(r) == r \notin deleted
AvailableJob(r) == r \notin deleted /\ state[r] = "PENDING"
ProfessionalJob(r) == r \notin deleted
OwedPayout(r) == state[r] = "RELEASED, PENDING"

Where(r) ==
    \/ list = "listMyItems" /\ MyItem(r)
    \/ list = "listPublished" /\ PublishedItem(r)
    \/ list = "listModerationQueue" /\ QueuedItem(r)
    \/ list = "listMine" /\ ClientJob(r)
    \/ list = "listAvailable" /\ AvailableJob(r)
    \/ list = "listProfessionalMine" /\ ProfessionalJob(r)
    \/ list = "listPendingManualPayouts" /\ OwedPayout(r)

Exists(r) == state[r] # "none"
InView == {r \in Rows : Exists(r) /\ Where(r)}

\* The moderation queue is ordered by updatedAt, the payouts by releasedAt and
\* the others by createdAt; all but the payouts show the newest first.
ShownBefore(s, r) == IF list \in Payouts THEN s \in older[r] ELSE r \in older[s]

Place(r) == Cardinality({s \in InView : ShownBefore(s, r)})

Init ==
    /\ list \in Lists
    /\ older = [r \in Rows |-> {}] /\ state = [r \in Rows |-> "none"] /\ deleted = {}
    /\ page = 0 /\ asked = {} /\ seen = {} /\ again = {} /\ total = 0
    /\ lasting = {} /\ changes = {} /\ moves = 0

-----------------------------------------------------------------------------
(* The rows                                                                *)

\* What the change to the rows means for a reading in progress.
Noted(kinds) ==
    /\ UNCHANGED <<list, reading>>
    /\ page = 0 \/ moves < MaxMoves
    /\ moves' = IF page = 0 THEN 0 ELSE moves + 1
    /\ lasting' = lasting \cap InView'
    /\ changes' = IF page = 0 THEN {}
                  ELSE changes \cup kinds
                       \cup (IF InView' \ InView # {} THEN {"enter"} ELSE {})
                       \cup (IF InView \ InView' # {} THEN {"leave"} ELSE {})

Newest(r) ==
    [s \in Rows |-> IF s = r THEN {t \in Rows : Exists(t)} \ {r} ELSE older[s] \ {r}]

\* createItem, createJob, and the release of an escrow in manual mode
Create(r) ==
    /\ ~Exists(r) /\ \A s \in Rows : s < r => Exists(s)
    /\ older' = Newest(r)
    /\ state' = [state EXCEPT ![r] = IF list \in Portfolio THEN "DRAFT"
                                     ELSE IF list \in Jobs THEN "PENDING"
                                     ELSE "RELEASED, PENDING"]
    /\ UNCHANGED deleted
    /\ Noted({})

Moves ==
    {<<"DRAFT", "PUBLISHED">>, <<"PUBLISHED", "DRAFT">>,
     <<"PUBLISHED", "HIDDEN_PENDING_REVIEW">>, <<"HIDDEN_PENDING_REVIEW", "PUBLISHED">>,
     <<"PENDING", "ACCEPTED">>, <<"RELEASED, PENDING", "RELEASED, SUCCEEDED">>}

\* An update puts a row at the newest end of an order by updatedAt.
Touched(r) == IF list = "listModerationQueue" THEN Newest(r) ELSE older

Change(r, to) ==
    /\ <<state[r], to>> \in Moves /\ r \notin deleted
    /\ state' = [state EXCEPT ![r] = to] /\ older' = Touched(r)
    /\ UNCHANGED deleted
    /\ Noted({})

\* A text or a verdict that leaves the status alone, which only an order by
\* updatedAt notices.
Edit(r) ==
    /\ list = "listModerationQueue" /\ Exists(r) /\ r \notin deleted
    /\ older' = Touched(r)
    /\ UNCHANGED <<state, deleted>>
    /\ Noted(IF older' # older /\ r \in InView THEN {"move"} ELSE {})

Delete(r) ==
    /\ list \in Portfolio /\ Exists(r) /\ r \notin deleted
    /\ deleted' = deleted \cup {r} /\ older' = Touched(r)
    /\ UNCHANGED state
    /\ Noted({})

-----------------------------------------------------------------------------
(* The pages                                                               *)

Ask(p) == asked' = (IF list \in Counted THEN {"items", "total"} ELSE {"items"}) /\ page' = p

BeginReading ==
    /\ page = 0 /\ Ask(1)
    /\ lasting' = InView
    /\ UNCHANGED <<list, rows, seen, again, total, changes, moves>>

\* Mutant: pages are numbered from zero.
SkipFromZero(p) == p * PageSize

Skip(p) == (p - 1) * PageSize

\* findMany
Items ==
    LET items == {r \in InView : Skip(page) <= Place(r) /\ Place(r) < Skip(page) + PageSize} IN
    /\ "items" \in asked
    /\ seen' = seen \cup items
    /\ again' = again \cup (seen \cap items)
    /\ asked' = (asked \ {"items"}) \cup (IF Cardinality(items) < PageSize THEN {"last"} ELSE {})
    /\ UNCHANGED <<list, rows, page, total, lasting, changes, moves>>

\* count
Count ==
    /\ "total" \in asked /\ asked' = asked \ {"total"}
    /\ total' = Cardinality(InView)
    /\ UNCHANGED <<list, rows, page, seen, again, lasting, changes, moves>>

NextPage ==
    /\ page > 0 /\ asked = {}
    /\ Ask(page + 1)
    /\ UNCHANGED <<list, rows, seen, again, total, lasting, changes, moves>>

Done == asked = {"last"}

Next ==
    \/ \E r \in Rows :
          \/ Create(r) \/ Edit(r) \/ Delete(r)
          \/ \E move \in Moves : Change(r, move[2])
    \/ BeginReading \/ Items \/ Count \/ NextPage

Spec == Init /\ [][Next]_vars

-----------------------------------------------------------------------------
States ==
    {"none", "DRAFT", "PUBLISHED", "HIDDEN_PENDING_REVIEW", "PENDING", "ACCEPTED",
     "RELEASED, PENDING", "RELEASED, SUCCEEDED"}

\* The sort key, a time of milliseconds, is taken to tell all rows apart.
InOrder(S) ==
    /\ \A r \in S : older[r] \subseteq S \ {r}
    /\ \A r, s \in S : r # s => (r \in older[s] <=> s \notin older[r])
    /\ \A r, s \in S : r \in older[s] => older[r] \subseteq older[s]

TypeOK ==
    /\ list \in Lists
    /\ older \in [Rows -> SUBSET Rows] /\ InOrder({r \in Rows : Exists(r)})
    /\ state \in [Rows -> States] /\ \A r \in deleted : r \in Rows /\ Exists(r)
    /\ page \in Nat /\ asked \subseteq {"items", "total", "last"} /\ total \in 0..MaxRows
    /\ again \subseteq seen /\ \A r \in seen : r \in Rows /\ Exists(r)
    /\ lasting \subseteq InView /\ changes \subseteq {"enter", "leave", "move"}
    /\ moves \in 0..MaxMoves

\* Whoever reads a list to its end misses none of the rows that were there all
\* along unless a row has left the list or moved in it meanwhile, and sees none
\* twice unless a row has come in before the ones already shown or moved; a
\* reading that nothing has disturbed shows as many rows as the total says.
PagesAreWhole ==
    Done =>
        /\ changes \cap {"leave", "move"} = {} => lasting \subseteq seen
        /\ changes \cap {"enter", "move"} = {} \/ (list \in Payouts /\ changes = {"enter"})
              => again = {}
        /\ changes = {} /\ list \in Counted => total = Cardinality(seen)
=============================================================================
