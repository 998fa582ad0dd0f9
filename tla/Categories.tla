----------------------------- MODULE Categories -----------------------------
(***************************************************************************)
(* Trades and services, the tree cached in Redis, and the prompt that       *)
(* SearchQueryExpanderService builds from the live categories of one        *)
(* process.                                                                 *)
(*                                                                         *)
(* A change checks, writes, deletes the cached tree and emits               *)
(* categories.changed, whose handler reads the categories and replaces the  *)
(* prompt.  Names, slugs and supportsUrgency are left out; what the tree and *)
(* the prompt were built from is told apart by the number of changes made.  *)
(***************************************************************************)
EXTENDS Naturals, FiniteSets

CONSTANTS
    Ids,        \* categories
    None,
    Slots,      \* changes in progress at once
    MaxChanges  \* bound: changes written

VARIABLES
    rows,       \* Category: id -> type, parentId, deletedAt = null
    changes,    \* the changes written so far
    tree,       \* the cached tree: the changes it shows, or None
    prompt,     \* the prompt: the changes it shows
    calls,      \* the changes in progress, the reload of the prompt included
    reading,    \* the getTree in progress
    orderly,    \* history: nothing has overlapped so far
    settled     \* history: the last change has met nothing else and has not failed

vars == <<rows, changes, tree, prompt, calls, reading, orderly, settled>>

Idle == [pc |-> "idle"]
Live == {id \in DOMAIN rows : rows[id].live}
Under(s) == calls[s] # Idle
Quiet == reading = Idle /\ \A s \in Slots : ~Under(s)

\* Bound: at most two of the changes and getTree are under way.
Room == Cardinality({s \in Slots : Under(s)}) + (IF reading = Idle THEN 0 ELSE 1) < 2

Init ==
    /\ rows = [id \in {} |-> None]
    /\ changes = 0 /\ tree = None /\ prompt = 0
    /\ calls = [s \in Slots |-> Idle] /\ reading = Idle
    /\ orderly = TRUE /\ settled = TRUE

-----------------------------------------------------------------------------
(* CategoriesService                                                       *)

\* Mutant: the parent is not looked up.
RulesWithoutLookup(type, parent) == type = "TRADE" <=> parent = None

\* assertTypeParentRules
RulesHold(type, parent) ==
    IF type = "TRADE" THEN parent = None
    ELSE parent \in Live /\ rows[parent].type = "TRADE"

Begin(s, call) ==
    /\ Room /\ ~Under(s) /\ calls' = [calls EXCEPT ![s] = call]
    /\ orderly' = (orderly /\ Quiet) /\ settled' = Quiet
    /\ UNCHANGED <<rows, changes, tree, prompt, reading>>

\* create
BeginCreate(s, id, type, parent) ==
    /\ id \notin DOMAIN rows /\ RulesHold(type, parent)
    /\ Begin(s, [pc |-> "write", id |-> id, row |-> [type |-> type, parent |-> parent, live |-> TRUE],
                 sets |-> {"type", "parent", "live"}])

\* update: a type or parent that is not given is checked as it is and then
\* not written.
BeginUpdate(s, id, given, type, parent) ==
    /\ id \in Live
    /\ LET checked == [type |-> IF "type" \in given THEN type ELSE rows[id].type,
                       parent |-> IF "parent" \in given THEN parent ELSE rows[id].parent] IN
       /\ RulesHold(checked.type, checked.parent)
       /\ Begin(s, [pc |-> "write", id |-> id, sets |-> given,
                    row |-> [type |-> checked.type, parent |-> checked.parent, live |-> TRUE]])

\* remove; nothing looks for services of a trade.
BeginRemove(s, id) ==
    /\ id \in Live
    /\ Begin(s, [pc |-> "write", id |-> id, sets |-> {"live"}, row |-> [rows[id] EXCEPT !.live = FALSE]])

\* create, update, softDelete of the repository: by id, the given fields
Write(s) ==
    LET c == calls[s]
        old == IF c.id \in DOMAIN rows THEN rows[c.id] ELSE c.row
        Field(f) == IF f \in c.sets THEN c.row[f] ELSE old[f] IN
    /\ c.pc = "write" /\ changes < MaxChanges
    /\ changes' = changes + 1
    /\ rows' = [id \in DOMAIN rows \cup {c.id} |->
                   IF id # c.id THEN rows[id]
                   ELSE [type |-> Field("type"), parent |-> Field("parent"), live |-> Field("live")]]
    /\ calls' = [calls EXCEPT ![s] = [pc |-> "invalidate"]]
    /\ UNCHANGED <<tree, prompt, reading, orderly, settled>>

\* Mutant: the cached tree is left to its TTL.
InvalidateEvent(s) ==
    /\ calls[s].pc = "invalidate"
    /\ calls' = [calls EXCEPT ![s] = [pc |-> "reload"]]
    /\ UNCHANGED <<rows, changes, tree, prompt, reading, orderly, settled>>

\* invalidateTreeCache: the key and the event
Invalidate(s) ==
    /\ calls[s].pc = "invalidate"
    /\ tree' = None
    /\ calls' = [calls EXCEPT ![s] = [pc |-> "reload"]]
    /\ UNCHANGED <<rows, changes, prompt, reading, orderly, settled>>

\* The process dies, or Redis or the database fails; a failed reload is only
\* logged.
Fails(s) ==
    /\ Under(s) /\ calls' = [calls EXCEPT ![s] = Idle]
    /\ settled' = FALSE
    /\ UNCHANGED <<rows, changes, tree, prompt, reading, orderly>>

-----------------------------------------------------------------------------
(* SearchQueryExpanderService.reloadCategories                             *)

ReloadRead(s) ==
    /\ calls[s].pc = "reload"
    /\ calls' = [calls EXCEPT ![s] = [pc |-> "prompt", shows |-> changes]]
    /\ UNCHANGED <<rows, changes, tree, prompt, reading, orderly, settled>>

ReloadSet(s) ==
    /\ calls[s].pc = "prompt" /\ calls' = [calls EXCEPT ![s] = Idle]
    /\ prompt' = calls[s].shows
    /\ UNCHANGED <<rows, changes, tree, reading, orderly, settled>>

-----------------------------------------------------------------------------
(* getTree                                                                 *)

\* A miss reads every live row.
GetTree ==
    /\ Room /\ reading = Idle /\ tree = None
    /\ reading' = [pc |-> "fill", shows |-> changes]
    /\ settled' = (settled /\ Quiet)
    /\ UNCHANGED <<rows, changes, tree, prompt, calls, orderly>>

FillTree ==
    /\ reading # Idle /\ reading' = Idle
    /\ tree' = reading.shows
    /\ UNCHANGED <<rows, changes, prompt, calls, orderly, settled>>

TreeExpires ==
    /\ tree # None /\ tree' = None
    /\ UNCHANGED <<rows, changes, prompt, calls, reading, orderly, settled>>

Next ==
    \/ \E s \in Slots, id \in Ids :
          \/ \E type \in {"TRADE", "SERVICE"}, parent \in Ids \cup {None} :
                \/ BeginCreate(s, id, type, parent)
                \/ \E given \in SUBSET {"type", "parent"} : BeginUpdate(s, id, given, type, parent)
          \/ BeginRemove(s, id)
    \/ \E s \in Slots : Write(s) \/ Invalidate(s) \/ Fails(s) \/ ReloadRead(s) \/ ReloadSet(s)
    \/ GetTree \/ FillTree \/ TreeExpires

Spec == Init /\ [][Next]_vars

-----------------------------------------------------------------------------
Row == [type : {"TRADE", "SERVICE"}, parent : Ids \cup {None}, live : BOOLEAN]

TypeOK ==
    /\ DOMAIN rows \subseteq Ids /\ \A id \in DOMAIN rows : rows[id] \in Row
    /\ \A id \in DOMAIN rows : rows[id].parent \in DOMAIN rows \cup {None}
    /\ changes \in 0..MaxChanges /\ prompt \in 0..changes
    /\ tree \in 0..changes \cup {None}
    /\ \A s \in Slots : calls[s].pc \in {"idle", "write", "invalidate", "reload", "prompt"}
    /\ orderly \in BOOLEAN /\ settled \in BOOLEAN

\* Changes that follow one another leave every trade without a parent and
\* every service with one.  However changes and reads of the tree have
\* overlapped before, one change that meets nothing else makes the cached tree
\* and the prompt those of the categories again.
TradesHaveNoParent == \A id \in DOMAIN rows : rows[id].type = "TRADE" <=> rows[id].parent = None
TreeIsCurrent ==
    /\ orderly => TradesHaveNoParent
    /\ settled /\ Quiet => tree \in {None, changes} /\ prompt = changes
=============================================================================
