---------------------------- MODULE PortfolioLink ----------------------------
(***************************************************************************)
(* What a portfolio item says of a professional: its category, and the job  *)
(* it is linked to, which a client's consent turns into a badge.            *)
(*                                                                         *)
(* A job is linked when the item is created, in the job's category; the     *)
(* category can be changed later, until the badge.  updateItem reads the    *)
(* item and writes it later, so an acceptance may fall in between: then the *)
(* trigger portfolio_item_freeze_after_verification decides.                *)
(*                                                                         *)
(* The client's answer and the reminder are PortfolioConsent's, publication *)
(* Portfolio's; here an item is published when its consent is asked.        *)
(***************************************************************************)
EXTENDS Naturals, FiniteSets

CONSTANTS
    None,
    Slots,          \* requests of the professional in progress at once
    Ids,            \* ids of items
    Trades,         \* categories
    Jobs,           \* the professional's jobs
    Limits          \* items per plan

VARIABLES
    active,         \* the categories not deleted
    limit,          \* min(maxItemsPerProfessional, itemsMax of the plan)
    trade,          \* Job.categoryId
    closed,         \* the jobs CLOSED
    released,       \* the jobs whose escrow is RELEASED
    items,          \* PortfolioItem rows
    consents,       \* the items with a PENDING consent
    calls,          \* the requests in progress
    agreed,         \* history: an item's link when its client accepted
    peak,           \* history: the largest limit so far
    orderly         \* history: no creation has met another request

vars ==
    <<active, limit, trade, closed, released, items, consents, calls, agreed, peak, orderly>>

Idle == [pc |-> "idle"]
Rows == DOMAIN items
Live == {i \in Rows : items[i].live}
Linked == {items[i].job : i \in Rows} \ {None}     \* deleted items included
Put(f, i, x) == [j \in DOMAIN f \cup {i} |-> IF j = i THEN x ELSE f[j]]

Init ==
    /\ active = Trades /\ limit \in Limits /\ peak = limit
    /\ trade \in [Jobs -> Trades] /\ closed = {} /\ released = {}
    /\ items = [i \in {} |-> None] /\ consents = {}
    /\ calls = [s \in Slots |-> Idle]
    /\ agreed = [i \in {} |-> None] /\ orderly = TRUE

Goto(s, call) == calls' = [calls EXCEPT ![s] = call]
Creating == \E s \in Slots : calls[s].pc = "create"

-----------------------------------------------------------------------------
\* assertJobIsValidForLink
JobIsValid(j, c) == j \in closed /\ trade[j] = c

\* assertPortfolioItemCreate
WithinPlan == Cardinality(Live) < limit

\* createItem: the checks
BeginCreate(s, c, j) ==
    /\ calls[s] = Idle
    /\ c \in active /\ (j # None => JobIsValid(j, c)) /\ WithinPlan
    /\ Goto(s, [pc |-> "create", category |-> c, job |-> j])
    /\ orderly' = (orderly /\ ~Creating)
    /\ UNCHANGED <<active, limit, trade, closed, released, items, consents, agreed, peak>>

\* PortfolioRepository.createItem: jobId is unique, deleted items included.
Create(s, i) ==
    /\ calls[s].pc = "create" /\ i \notin Rows /\ Goto(s, Idle)
    /\ items' = IF calls[s].job \in Linked THEN items
                ELSE Put(items, i, [category |-> calls[s].category, job |-> calls[s].job,
                                    verified |-> FALSE, live |-> TRUE])
    /\ UNCHANGED <<active, limit, trade, closed, released, consents, agreed, peak, orderly>>

\* updateItem: a category that differs is refused once there is a badge, and
\* has to exist.  Whether it is the job's is not looked at.
BeginRecategorize(s, i, c) ==
    /\ calls[s] = Idle /\ i \in Live
    /\ c # items[i].category => ~items[i].verified /\ c \in active
    /\ Goto(s, [pc |-> "update", item |-> i, category |-> c])
    /\ UNCHANGED <<active, limit, trade, closed, released, items, consents, agreed, peak, orderly>>

\* Mutant: the database lets the update through.
RecategorizeUnfrozen(s) ==
    /\ calls[s].pc = "update" /\ Goto(s, Idle)
    /\ items' = [items EXCEPT ![calls[s].item].category = calls[s].category]
    /\ UNCHANGED <<active, limit, trade, closed, released, consents, agreed, peak, orderly>>

\* PortfolioRepository.updateItem and the trigger
Recategorize(s) ==
    /\ calls[s].pc = "update" /\ Goto(s, Idle)
    /\ items' = IF items[calls[s].item].verified THEN items
                ELSE [items EXCEPT ![calls[s].item].category = calls[s].category]
    /\ UNCHANGED <<active, limit, trade, closed, released, consents, agreed, peak, orderly>>

\* softDeleteItem
SoftDelete(i) ==
    /\ i \in Live /\ items' = [items EXCEPT ![i].live = FALSE]
    /\ UNCHANGED <<active, limit, trade, closed, released, consents, calls, agreed, peak, orderly>>

\* requestVerification: of an item with a CLOSED job and no badge.
AskConsent(i) ==
    /\ i \in Live /\ ~items[i].verified /\ i \notin consents
    /\ items[i].job \in closed
    /\ consents' = consents \cup {i}
    /\ UNCHANGED <<active, limit, trade, closed, released, items, calls, agreed, peak, orderly>>

\* acceptPortfolioConsent: the item may be deleted by then.
Accept(i) ==
    /\ i \in consents /\ ~items[i].verified
    /\ consents' = consents \ {i}
    /\ items' = [items EXCEPT ![i].verified = TRUE]
    /\ agreed' = Put(agreed, i, [job |-> items[i].job, category |-> items[i].category])
    /\ UNCHANGED <<active, limit, trade, closed, released, calls, peak, orderly>>

-----------------------------------------------------------------------------
(* What other parts do                                                     *)

\* A job is closed and its escrow released in one transaction; one that is
\* closed again finds the escrow released.
Close(j) ==
    /\ j \notin closed /\ closed' = closed \cup {j}
    /\ released' = released \cup {j}
    /\ UNCHANGED <<active, limit, trade, items, consents, calls, agreed, peak, orderly>>

\* updateStatus writes by id: a start or a completion that read the job before
\* overwrites CLOSED.
Reopen(j) ==
    /\ j \in closed /\ closed' = closed \ {j}
    /\ UNCHANGED <<active, limit, trade, released, items, consents, calls, agreed, peak, orderly>>

\* An administrator deletes a category.
Retire(c) ==
    /\ c \in active /\ active' = active \ {c}
    /\ UNCHANGED <<limit, trade, closed, released, items, consents, calls, agreed, peak, orderly>>

\* The plan changes.
ChangePlan(n) ==
    /\ n # limit /\ limit' = n /\ peak' = (IF n > peak THEN n ELSE peak)
    /\ UNCHANGED <<active, trade, closed, released, items, consents, calls, agreed, orderly>>

Next ==
    \/ \E s \in Slots :
          \/ \E c \in Trades :
                \/ \E j \in Jobs \cup {None} : BeginCreate(s, c, j)
                \/ \E i \in Rows : BeginRecategorize(s, i, c)
          \/ \E i \in Ids : Create(s, i)
          \/ Recategorize(s)
    \/ \E i \in Rows : SoftDelete(i) \/ AskConsent(i) \/ Accept(i)
    \/ \E j \in Jobs : Close(j) \/ Reopen(j)
    \/ \E c \in Trades : Retire(c)
    \/ \E n \in Limits : ChangePlan(n)

Spec == Init /\ [][Next]_vars

-----------------------------------------------------------------------------
Links == Jobs \cup {None}
Item == [category : Trades, job : Links, verified : BOOLEAN, live : BOOLEAN]
Calls ==
    {Idle} \cup [pc : {"create"}, category : Trades, job : Links]
           \cup [pc : {"update"}, item : Ids, category : Trades]

TypeOK ==
    /\ active \subseteq Trades /\ limit \in Limits /\ peak \in Limits
    /\ trade \in [Jobs -> Trades] /\ {closed, released} \subseteq SUBSET Jobs
    /\ Rows \subseteq Ids /\ \A i \in Rows : items[i] \in Item
    /\ consents \subseteq Rows
    /\ \A s \in Slots : calls[s] \in Calls
    /\ DOMAIN agreed \subseteq Rows
    /\ orderly \in BOOLEAN

\* A badge stands for what the client agreed to: the link never changes after
\* the acceptance, whatever had been read before it, the job's money has been
\* released to the professional, and no job carries two badges.
LinkIsFrozen ==
    \A i \in Rows : items[i].verified =>
        /\ items[i].job = agreed[i].job /\ items[i].category = agreed[i].category
        /\ items[i].job \in released
        /\ \A k \in Rows \ {i} : items[k].job # items[i].job

\* portfolio-module.md: only a CLOSED job is linked to an item.
LinkedIsClosed == \A i \in Rows : items[i].job # None => items[i].job \in closed

\* Creations that do not meet never exceed the largest limit there has been.
QuotaHolds == orderly => Cardinality(Live) <= peak
=============================================================================
