--------------------------- MODULE Services_proofs ---------------------------
(***************************************************************************)
(* Proofs about the parts of Services, for any requests, rows, plans and    *)
(* policies.  Each part has an inductive invariant of its own; at the end   *)
(* the suite's properties follow, since only the part in focus moves.       *)
(***************************************************************************)
EXTENDS Services, FiniteSetTheorems, SequenceTheorems, WellFoundedInduction, TLAPS

-----------------------------------------------------------------------------
(* Moderation                                                              *)

Steps ==
    {"idle", "get", "refill", "acquire", "recheck", "fire", "set", "set2", "release", "done"}

\* A request as it may be: what it carries to a cache is the provider's verdict
\* under its own policy, and it has an answer once it is done.
Inferred(c) ==
    /\ c \in [pc : Steps, policy : Policies \cup {None}, locked : BOOLEAN,
              result : {"ok", "flagged", "none", "skipped", "failed"}]
    /\ c.pc # "idle" => c.policy \in Policies
    /\ c.pc \in {"refill", "set", "set2"} => c.result = inferenceVerdict[c.policy]
    /\ c.pc \in {"release", "done"} =>
          c.result \in {"skipped", "failed", inferenceVerdict[c.policy]}
    /\ c.pc \in {"idle", "get", "acquire", "done"} => ~c.locked

Cached(cache) == cache \in [Policies -> {"ok", "flagged", "none"}]
                 /\ \A p \in Policies : cache[p] \in {"none", inferenceVerdict[p]}

InferenceInv ==
    /\ inferenceVerdict \in [Policies -> {"ok", "flagged"}]
    /\ Cached(inferenceL1) /\ Cached(inferenceL2)
    /\ inferenceLock \in Slots \cup {None}
    /\ inferenceFaults \in Nat
    /\ inferenceRequests \in [Slots -> [pc : Steps, policy : Policies \cup {None}, locked : BOOLEAN,
                                        result : {"ok", "flagged", "none", "skipped", "failed"}]]
    /\ \A r \in Slots : Inferred(inferenceRequests[r])
    /\ inferenceLock # None /\ inferenceFaults = 0 => inferenceRequests[inferenceLock].locked

LEMMA InferenceInit == Inference!Init => InferenceInv
<1> SUFFICES ASSUME Inference!Init PROVE InferenceInv
  OBVIOUS
<1>1. inferenceVerdict \in [Policies -> {"ok", "flagged"}]
  BY DEF Inference!Init, Inference!Verdicts
<1>2. Cached(inferenceL1) /\ Cached(inferenceL2)
  BY <1>1 DEF Inference!Init, Cached
<1>3. \A r \in Slots : Inferred(inferenceRequests[r])
  BY DEF Inference!Init, Inference!Idle, Inferred, Steps
<1> QED
  BY <1>1, <1>2, <1>3 DEF Inference!Init, InferenceInv, Inferred

\* One request moves on, the caches stay true, and the lock keeps to its
\* holder.
InferenceMoved(r) ==
    /\ inferenceRequests' = [inferenceRequests EXCEPT ![r] = inferenceRequests'[r]]
    /\ Inferred(inferenceRequests'[r])
    /\ inferenceVerdict' = inferenceVerdict
    /\ Cached(inferenceL1') /\ Cached(inferenceL2')
    /\ inferenceLock' \in {inferenceLock, None, r}
    /\ inferenceFaults' \in {inferenceFaults, inferenceFaults + 1}
    /\ inferenceFaults' = 0 /\ inferenceLock' = r /\ r # None => inferenceRequests'[r].locked

LEMMA InferenceMoves ==
    ASSUME InferenceInv, NEW r \in Slots, InferenceMoved(r)
    PROVE  InferenceInv'
<1> USE DEF InferenceMoved
<1>1. (\A s \in Slots : Inferred(inferenceRequests[s]))'
  BY DEF InferenceInv, Inferred
<1>3. (Cached(inferenceL1) /\ Cached(inferenceL2))'
  BY DEF Cached
<1>2. ASSUME inferenceLock' # None, inferenceFaults' = 0
      PROVE  inferenceRequests'[inferenceLock'].locked
  BY <1>2 DEF InferenceInv
<1> QED
  BY <1>1, <1>2, <1>3 DEF InferenceInv, Inferred

LEMMA InferenceStutters ==
    ASSUME InferenceInv, UNCHANGED inferenceVars
    PROVE  InferenceInv'
  BY DEF InferenceInv, Inferred, Cached, inferenceVars

\* One step per action: what a request carries is always the verdict that the
\* provider gives under the policy of the key it reads or writes.
LEMMA InferenceNext ==
    ASSUME InferenceInv, Inference!Next
    PROVE  InferenceInv'
<1> USE DEF Inference!Same, Inference!Fault, Inference!caches, Inference!Key
<1>0. inferenceFaults \in Nat
  BY DEF InferenceInv
<1>1. ASSUME NEW r \in Slots, NEW p \in Policies, Inference!Begin(r, p) \/ Inference!Skip(r, p)
      PROVE  InferenceInv'
  <2> DEFINE c == inferenceRequests'[r]
  <2>0. /\ inferenceRequests' = [inferenceRequests EXCEPT ![r] = c]
        /\ c \in {[pc |-> "get", policy |-> p, locked |-> FALSE, result |-> "none"],
                  [pc |-> "done", policy |-> p, locked |-> FALSE, result |-> "skipped"]}
    BY <1>1 DEF Inference!Begin, Inference!Skip, Inference!Idle, InferenceInv
  <2> HIDE DEF c
  <2>1. Inferred(c)
    <3>1. CASE c = [pc |-> "get", policy |-> p, locked |-> FALSE, result |-> "none"]
      BY <3>1 DEF Inferred, Steps
    <3>2. CASE c = [pc |-> "done", policy |-> p, locked |-> FALSE, result |-> "skipped"]
      BY <3>2 DEF Inferred, Steps
    <3> QED
      BY <2>0, <3>1, <3>2
  <2>2. inferenceFaults = 0 /\ inferenceLock = r => r = None
    BY <1>1 DEF Inference!Begin, Inference!Skip, Inference!Idle, InferenceInv, Inferred
  <2>10. InferenceMoved(r)
    BY <1>1, <2>0, <2>1, <2>2 DEF c, InferenceMoved, Inference!Begin, Inference!Skip, InferenceInv, Cached
  <2> QED
    BY <2>10, InferenceMoves
<1>2. ASSUME NEW r \in Slots,
             \/ Inference!GetL1(r) \/ Inference!GetL2(r) \/ Inference!Fire(r)
             \/ Inference!Fails(r)
      PROVE  InferenceInv'
  <2> DEFINE d == inferenceRequests'[r]
  <2>1. Inferred(inferenceRequests[r])
    BY DEF InferenceInv
  <2>2. inferenceRequests' = [inferenceRequests EXCEPT ![r] = d] /\ d.locked = inferenceRequests[r].locked
    BY <1>2 DEF Inference!GetL1, Inference!GetL2, Inference!Fire, Inference!Fails, Inference!Settle,
        Inference!Goto, InferenceInv
  <2>3. Inferred(d)
    <3>1. CASE Inference!GetL1(r)
      BY <2>1, <3>1 DEF Inference!GetL1, Inference!Settle, Inference!Found, InferenceInv, Inferred,
          Cached, Steps
    <3>2. CASE Inference!GetL2(r)
      BY <2>1, <3>2 DEF Inference!GetL2, Inference!Settle, Inference!Goto, InferenceInv, Inferred,
          Cached, Steps
    <3>3. CASE Inference!Fire(r)
      BY <2>1, <3>3 DEF Inference!Fire, Inference!Settle, InferenceInv, Inferred, Steps
    <3>4. CASE Inference!Fails(r)
      BY <2>1, <3>4 DEF Inference!Fails, Inference!Settle, Inference!Found, InferenceInv, Inferred,
          Steps
    <3> QED
      BY <1>2, <3>1, <3>2, <3>3, <3>4
  <2>4. UNCHANGED <<inferenceVerdict, inferenceL1, inferenceL2, inferenceLock>>
        /\ inferenceFaults' \in {inferenceFaults, inferenceFaults + 1}
    BY <1>2 DEF Inference!GetL1, Inference!GetL2, Inference!Fire, Inference!Fails
  <2> HIDE DEF d
  <2>10. InferenceMoved(r)
    BY <1>0, <2>2, <2>3, <2>4 DEF InferenceMoved, InferenceInv, Cached
  <2> QED
    BY <2>10, InferenceMoves
<1>3. ASSUME NEW r \in Slots, Inference!Refill(r) \/ Inference!SetL1(r) \/ Inference!SetL2(r)
      PROVE  InferenceInv'
  <2> DEFINE d == inferenceRequests'[r]
             p == inferenceRequests[r].policy
  <2>1. Inferred(inferenceRequests[r])
    BY DEF InferenceInv
  <2>2. inferenceRequests[r].pc \in {"refill", "set", "set2"}
    BY <1>3 DEF Inference!Refill, Inference!SetL1, Inference!SetL2
  <2>3. p \in Policies /\ inferenceRequests[r].result = inferenceVerdict[p]
    BY <2>1, <2>2 DEF Inferred
  <2>4. inferenceRequests' = [inferenceRequests EXCEPT ![r] = d] /\ d.locked = inferenceRequests[r].locked
    BY <1>3 DEF Inference!Refill, Inference!SetL1, Inference!SetL2, Inference!Goto, InferenceInv
  <2>5. Inferred(d)
    BY <1>3, <2>1, <2>2, <2>3 DEF Inference!Refill, Inference!SetL1, Inference!SetL2, Inference!Goto,
        Inference!Found, InferenceInv, Inferred, Steps
  <2>6. inferenceL1' \in {inferenceL1, [inferenceL1 EXCEPT ![p] = inferenceVerdict[p]]}
        /\ inferenceL2' \in {inferenceL2, [inferenceL2 EXCEPT ![p] = inferenceVerdict[p]]}
        /\ UNCHANGED <<inferenceVerdict, inferenceLock>>
        /\ inferenceFaults' \in {inferenceFaults, inferenceFaults + 1}
    BY <1>3, <2>3 DEF Inference!Refill, Inference!SetL1, Inference!SetL2
  <2>7. Cached(inferenceL1') /\ Cached(inferenceL2')
    BY <2>3, <2>6 DEF InferenceInv, Cached
  <2> HIDE DEF d, p
  <2>10. InferenceMoved(r)
    BY <1>0, <2>4, <2>5, <2>6, <2>7 DEF InferenceMoved, InferenceInv
  <2> QED
    BY <2>10, InferenceMoves
<1>4. ASSUME NEW r \in Slots, Inference!Acquire(r) \/ Inference!Release(r)
      PROVE  InferenceInv'
  <2> DEFINE d == inferenceRequests'[r]
  <2>1. Inferred(inferenceRequests[r])
    BY DEF InferenceInv
  <2>2. inferenceRequests' = [inferenceRequests EXCEPT ![r] = d]
    BY <1>4 DEF Inference!Acquire, Inference!Release, Inference!Goto, InferenceInv
  <2>3. Inferred(d)
    BY <1>4, <2>1 DEF Inference!Acquire, Inference!Release, Inference!Goto, InferenceInv, Inferred,
        Steps
  <2>4. inferenceFaults' = 0 /\ inferenceLock' = r /\ r # None => d.locked
    BY <1>0, <1>4, <2>1 DEF Inference!Acquire, Inference!Release, Inference!Goto, InferenceInv, Inferred
  <2>5. UNCHANGED <<inferenceVerdict, inferenceL1, inferenceL2>>
        /\ inferenceLock' \in {inferenceLock, None, r}
        /\ inferenceFaults' \in {inferenceFaults, inferenceFaults + 1}
    BY <1>4 DEF Inference!Acquire, Inference!Release
  <2> HIDE DEF d
  <2>10. InferenceMoved(r)
    BY <1>0, <2>2, <2>3, <2>4, <2>5 DEF InferenceMoved, InferenceInv, Cached
  <2> QED
    BY <2>10, InferenceMoves
<1>5. ASSUME NEW r \in Slots, Inference!Answer(r) \/ Inference!Dies(r)
      PROVE  InferenceInv'
  <2>1. Inferred(inferenceRequests[r]) /\ Inferred(Inference!Idle)
    BY DEF InferenceInv, Inferred, Inference!Idle, Steps
  <2>2. inferenceRequests' = [inferenceRequests EXCEPT ![r] = Inference!Idle]
    BY <1>5 DEF Inference!Answer, Inference!Dies
  <2>3. inferenceFaults' = 0 => inferenceFaults = 0 /\ inferenceRequests[r].pc = "done"
    BY <1>0, <1>5 DEF Inference!Answer, Inference!Dies
  <2>4. inferenceFaults' = 0 /\ inferenceLock = r => r = None
    BY <2>1, <2>3 DEF InferenceInv, Inferred
  <2>5. UNCHANGED <<inferenceVerdict, inferenceL1, inferenceL2, inferenceLock>>
        /\ inferenceFaults' \in {inferenceFaults, inferenceFaults + 1}
    BY <1>5 DEF Inference!Answer, Inference!Dies
  <2>10. InferenceMoved(r)
    BY <1>0, <2>1, <2>2, <2>4, <2>5 DEF InferenceMoved, InferenceInv, Cached
  <2> QED
    BY <2>10, InferenceMoves
<1>6. ASSUME Inference!LockExpires
      PROVE  InferenceInv'
  BY <1>6 DEF Inference!LockExpires, InferenceInv, Inferred, Cached
<1>7. ASSUME NEW p \in Policies, Inference!Expire(p)
      PROVE  InferenceInv'
  <2>1. (Cached(inferenceL1) /\ Cached(inferenceL2))'
    BY <1>7 DEF Inference!Expire, InferenceInv, Cached
  <2> QED
    BY <1>7, <2>1 DEF Inference!Expire, InferenceInv, Inferred
<1> QED
  BY <1>1, <1>2, <1>3, <1>4, <1>5, <1>6, <1>7 DEF Inference!Next

LEMMA InferenceFaithful == InferenceInv => Inference!VerdictIsFaithful
  BY DEF InferenceInv, Inferred, Inference!VerdictIsFaithful, Inference!Moderate

-----------------------------------------------------------------------------
(* PortfolioLink: the link of an item.                                     *)

LinkCreation == [pc : {"create"}, category : Trades, job : Link!Links]
LinkChange == [pc : {"update"}, item : Link!Rows, category : Trades]

LinkShape ==
    /\ linkReleased \subseteq LinkedJobs /\ linkClosed \subseteq linkReleased
    /\ linkItems \in [Link!Rows -> Link!Item]
    /\ linkConsents \subseteq Link!Rows
    /\ linkCalls \in [Slots -> {Link!Idle} \cup LinkCreation \cup LinkChange]

\* A job has one item at most, deleted items included.
LinkJobIsLinkedOnce ==
    \A i, k \in Link!Rows : i # k /\ linkItems[i].job # None => linkItems[k].job # linkItems[i].job

LinkConsentsAreOfReleased == \A i \in linkConsents : linkItems[i].job \in linkReleased

LinkBadgeIsAgreed ==
    \A i \in Link!Rows : linkItems[i].verified =>
        /\ i \in DOMAIN linkAgreed
        /\ linkItems[i].job = linkAgreed[i].job /\ linkItems[i].category = linkAgreed[i].category
        /\ linkItems[i].job \in linkReleased

LinkInv == LinkShape /\ LinkJobIsLinkedOnce /\ LinkConsentsAreOfReleased /\ LinkBadgeIsAgreed

LEMMA LinkInitInv == Link!Init => LinkInv
BY DEF Link!Init, LinkInv, LinkShape, LinkJobIsLinkedOnce, LinkConsentsAreOfReleased,
   LinkBadgeIsAgreed, Link!Rows, Link!Idle

LEMMA LinkCallShape ==
    ASSUME LinkShape, NEW s \in Slots
    PROVE  /\ linkCalls[s].pc = "create" => linkCalls[s] \in LinkCreation
           /\ linkCalls[s].pc = "update" => linkCalls[s] \in LinkChange
BY DEF LinkShape, Link!Idle, LinkCreation, LinkChange

\* The requests while no row goes.
LEMMA LinkCallsStay ==
    ASSUME LinkShape, NEW s \in Slots, NEW call, linkCalls' = [linkCalls EXCEPT ![s] = call],
           Link!Rows \subseteq Link!Rows', call \in {Link!Idle} \cup LinkCreation \cup LinkChange'
    PROVE  linkCalls' \in [Slots -> {Link!Idle} \cup LinkCreation \cup LinkChange']
<1>1. LinkChange \subseteq LinkChange'
  BY DEF LinkChange
<1>2. linkCalls \in [Slots -> {Link!Idle} \cup LinkCreation \cup LinkChange']
  BY <1>1 DEF LinkShape
<1> QED
  BY <1>2

-----------------------------------------------------------------------------
(* Steps that change no item.                                              *)

LEMMA LinkSameItems ==
    ASSUME LinkInv, UNCHANGED <<linkItems, linkAgreed>>, linkReleased \subseteq linkReleased',
           linkReleased' \subseteq LinkedJobs, linkClosed' \subseteq linkReleased',
           linkConsents' \subseteq Link!Rows, \A i \in linkConsents' : linkItems[i].job \in linkReleased',
           linkCalls' \in [Slots -> {Link!Idle} \cup LinkCreation \cup LinkChange]
    PROVE  LinkInv'
BY DEF LinkInv, LinkShape, LinkJobIsLinkedOnce, LinkConsentsAreOfReleased, LinkBadgeIsAgreed,
   Link!Rows, Link!Idle, LinkCreation,
       LinkChange, Link!Links, Link!Item

LEMMA LinkBeginInv ==
    ASSUME LinkInv, NEW s \in Slots, NEW c \in Trades,
           \/ \E j \in LinkedJobs \cup {None} : Link!BeginCreate(s, c, j)
           \/ \E i \in Link!Rows : Link!BeginRecategorize(s, i, c)
    PROVE  LinkInv'
<1>1. PICK call \in LinkCreation \cup LinkChange : linkCalls' = [linkCalls EXCEPT ![s] = call]
  BY DEF Link!BeginCreate, Link!BeginRecategorize, Link!Goto, LinkCreation, LinkChange, Link!Links
<1>2. UNCHANGED <<linkItems, linkAgreed, linkClosed, linkReleased, linkConsents>>
  BY DEF Link!BeginCreate, Link!BeginRecategorize
<1>3. linkCalls' \in [Slots -> {Link!Idle} \cup LinkCreation \cup LinkChange]
  BY <1>1 DEF LinkInv, LinkShape
<1> QED
  BY <1>2, <1>3, LinkSameItems DEF LinkInv, LinkShape, LinkConsentsAreOfReleased

LEMMA LinkOthersInv ==
    ASSUME LinkInv, \/ \E i \in Link!Rows : Link!AskConsent(i)
                    \/ \E j \in LinkedJobs : Link!Close(j) \/ Link!Reopen(j)
                    \/ \E c \in Trades : Link!Retire(c)
                    \/ \E n \in PlanLimits : Link!ChangePlan(n)
                    \/ UNCHANGED linkVars
    PROVE  LinkInv'
<1>1. /\ UNCHANGED <<linkItems, linkAgreed, linkCalls>> /\ linkReleased \subseteq linkReleased'
      /\ linkReleased' \subseteq LinkedJobs /\ linkClosed' \subseteq linkReleased'
  BY DEF Link!AskConsent, Link!Close, Link!Reopen, Link!Retire, Link!ChangePlan, linkVars, LinkInv, LinkShape
<1>2. linkConsents' \subseteq Link!Rows /\ \A i \in linkConsents' : linkItems[i].job \in linkReleased'
  BY DEF Link!AskConsent, Link!Close, Link!Reopen, Link!Retire, Link!ChangePlan, linkVars, LinkInv, LinkShape,
     LinkConsentsAreOfReleased, Link!Live
<1> QED
  BY <1>1, <1>2, LinkSameItems DEF LinkInv, LinkShape

-----------------------------------------------------------------------------
(* Steps that change an item.                                              *)

LEMMA LinkCreateInv == ASSUME LinkInv, NEW s \in Slots, NEW i, Link!Create(s, i) PROVE LinkInv'
<1> DEFINE row == [category |-> linkCalls[s].category, job |-> linkCalls[s].job,
                   verified |-> FALSE, live |-> TRUE]
<1>1. linkCalls[s] \in LinkCreation
  BY LinkCallShape DEF LinkInv, Link!Create
<1>2. row \in Link!Item /\ ~row.verified /\ row.job = linkCalls[s].job
  BY <1>1 DEF LinkCreation, Link!Item
<1>3. /\ UNCHANGED <<linkClosed, linkReleased, linkConsents, linkAgreed>>
      /\ linkCalls' = [linkCalls EXCEPT ![s] = Link!Idle]
      /\ i \notin Link!Rows
      /\ \/ linkCalls[s].job \in Link!Linked /\ UNCHANGED linkItems
         \/ linkCalls[s].job \notin Link!Linked /\ linkItems' = Link!Put(linkItems, i, row)
  BY DEF Link!Create, Link!Goto
<1> HIDE DEF row
<1>4. CASE UNCHANGED linkItems
  <2>1. linkCalls' \in [Slots -> {Link!Idle} \cup LinkCreation \cup LinkChange]
    BY <1>3 DEF LinkInv, LinkShape
  <2> QED
    BY <2>1, <1>3, <1>4, LinkSameItems DEF LinkInv, LinkShape, LinkConsentsAreOfReleased
<1>5. CASE linkCalls[s].job \notin Link!Linked /\ linkItems' = Link!Put(linkItems, i, row)
  <2>1. /\ Link!Rows' = Link!Rows \cup {i} /\ linkItems'[i] = row /\ \A k \in Link!Rows : linkItems'[k] = linkItems[k]
        /\ linkItems' \in [Link!Rows' -> Link!Item]
    BY <1>2, <1>3, <1>5 DEF Link!Put, Link!Rows, LinkInv, LinkShape
  <2>2. linkCalls' \in [Slots -> {Link!Idle} \cup LinkCreation \cup LinkChange']
    BY <1>3, <2>1, LinkCallsStay DEF LinkInv
  <2>3. LinkShape'
    BY <1>3, <2>1, <2>2 DEF LinkInv, LinkShape, LinkCreation, Link!Idle, Link!Item, Link!Links
  <2>4. \A k \in Link!Rows : linkItems[k].job # None => linkItems[k].job # row.job
    BY <1>2, <1>5 DEF Link!Linked
  <2>5. LinkJobIsLinkedOnce'
    BY <2>1, <2>4 DEF LinkInv, LinkJobIsLinkedOnce
  <2>6. LinkConsentsAreOfReleased' /\ LinkBadgeIsAgreed'
    BY <1>2, <1>3, <2>1 DEF LinkInv, LinkShape, LinkConsentsAreOfReleased, LinkBadgeIsAgreed
  <2> QED
    BY <2>3, <2>5, <2>6 DEF LinkInv
<1> QED
  BY <1>3, <1>4, <1>5

\* An item that keeps its job, and with a badge its category.
LEMMA LinkItemInv ==
    ASSUME LinkInv, NEW i \in Link!Rows, NEW row \in Link!Item,
           linkItems' = [linkItems EXCEPT ![i] = row],
           row.job = linkItems[i].job, row.verified <=> linkItems[i].verified,
           linkItems[i].verified => row.category = linkItems[i].category,
           UNCHANGED <<linkClosed, linkReleased, linkConsents, linkAgreed>>,
           linkCalls' \in [Slots -> {Link!Idle} \cup LinkCreation \cup LinkChange]
    PROVE  LinkInv'
<1>1. /\ Link!Rows' = Link!Rows /\ linkItems'[i] = row /\ \A k \in Link!Rows \ {i} : linkItems'[k] = linkItems[k]
      /\ linkItems' \in [Link!Rows' -> Link!Item]
  BY DEF LinkInv, LinkShape, Link!Rows
<1>2. LinkShape'
  BY <1>1 DEF LinkInv, LinkShape, LinkCreation, LinkChange, Link!Idle, Link!Item, Link!Links
<1>3. LinkJobIsLinkedOnce' /\ LinkConsentsAreOfReleased'
  BY <1>1 DEF LinkInv, LinkShape, LinkJobIsLinkedOnce, LinkConsentsAreOfReleased
<1>4. LinkBadgeIsAgreed'
  BY <1>1 DEF LinkInv, LinkBadgeIsAgreed
<1> QED
  BY <1>2, <1>3, <1>4 DEF LinkInv

LEMMA LinkRecategorizeInv == ASSUME LinkInv, NEW s \in Slots, Link!Recategorize(s) PROVE LinkInv'
<1> DEFINE i == linkCalls[s].item
           row == [linkItems[i] EXCEPT !.category = linkCalls[s].category]
<1>1. i \in Link!Rows /\ linkCalls[s].category \in Trades
  BY LinkCallShape DEF LinkInv, Link!Recategorize, LinkChange
<1>2. linkItems[i] \in Link!Item
  BY <1>1 DEF LinkInv, LinkShape
<1>3. row \in Link!Item /\ row.job = linkItems[i].job /\ (row.verified <=> linkItems[i].verified)
  BY <1>1, <1>2 DEF Link!Item
<1>4. /\ UNCHANGED <<linkClosed, linkReleased, linkConsents, linkAgreed>>
      /\ linkCalls' \in [Slots -> {Link!Idle} \cup LinkCreation \cup LinkChange]
  BY DEF Link!Recategorize, Link!Goto, LinkInv, LinkShape
<1>5. IF linkItems[i].verified THEN UNCHANGED linkItems ELSE linkItems' = [linkItems EXCEPT ![i] = row]
  BY DEF Link!Recategorize
<1> HIDE DEF i, row
<1>6. CASE UNCHANGED linkItems
  BY <1>4, <1>6, LinkSameItems DEF LinkInv, LinkShape, LinkConsentsAreOfReleased
<1>7. CASE ~linkItems[i].verified /\ linkItems' = [linkItems EXCEPT ![i] = row]
  BY <1>1, <1>3, <1>4, <1>7, LinkItemInv
<1> QED
  BY <1>5, <1>6, <1>7

LEMMA LinkDeleteInv == ASSUME LinkInv, NEW i \in Link!Rows, Link!SoftDelete(i) PROVE LinkInv'
<1> DEFINE row == [linkItems[i] EXCEPT !.live = FALSE]
<1>1. linkItems[i] \in Link!Item
  BY DEF LinkInv, LinkShape
<1>2. /\ row \in Link!Item /\ row.job = linkItems[i].job /\ (row.verified <=> linkItems[i].verified)
      /\ row.category = linkItems[i].category
  BY <1>1 DEF Link!Item
<1>3. /\ linkItems' = [linkItems EXCEPT ![i] = row]
      /\ UNCHANGED <<linkClosed, linkReleased, linkConsents, linkAgreed>>
      /\ linkCalls' \in [Slots -> {Link!Idle} \cup LinkCreation \cup LinkChange]
  BY DEF Link!SoftDelete, LinkInv, LinkShape
<1> HIDE DEF row
<1> QED
  BY <1>2, <1>3, LinkItemInv

\* The client agrees to the link as it stands, once.
LEMMA LinkAcceptInv == ASSUME LinkInv, NEW i \in Link!Rows, Link!Accept(i) PROVE LinkInv'
<1> DEFINE row == [linkItems[i] EXCEPT !.verified = TRUE]
           link == [job |-> linkItems[i].job, category |-> linkItems[i].category]
<1>1. linkItems[i] \in Link!Item /\ linkItems[i].job \in linkReleased
  BY DEF LinkInv, LinkShape, LinkConsentsAreOfReleased, Link!Accept
<1>2. row \in Link!Item /\ row.job = linkItems[i].job /\ row.category = linkItems[i].category
  BY <1>1 DEF Link!Item
<1>3. link.job = linkItems[i].job /\ link.category = linkItems[i].category
  OBVIOUS
<1>4. /\ linkItems' = [linkItems EXCEPT ![i] = row] /\ linkAgreed' = Link!Put(linkAgreed, i, link)
      /\ UNCHANGED <<linkClosed, linkReleased, linkCalls>> /\ linkConsents' \subseteq linkConsents
  BY DEF Link!Accept
<1> HIDE DEF row, link
<1>5. /\ Link!Rows' = Link!Rows /\ linkItems'[i] = row /\ \A k \in Link!Rows \ {i} : linkItems'[k] = linkItems[k]
      /\ linkItems' \in [Link!Rows' -> Link!Item]
  BY <1>2, <1>4 DEF LinkInv, LinkShape, Link!Rows
<1>6. /\ i \in DOMAIN linkAgreed' /\ linkAgreed'[i] = link
      /\ \A k \in DOMAIN linkAgreed \ {i} : k \in DOMAIN linkAgreed' /\ linkAgreed'[k] = linkAgreed[k]
  BY <1>4 DEF Link!Put
<1>7. LinkShape'
  BY <1>4, <1>5 DEF LinkInv, LinkShape, LinkCreation, LinkChange, Link!Idle, Link!Item, Link!Links
<1>8. LinkJobIsLinkedOnce' /\ LinkConsentsAreOfReleased'
  BY <1>2, <1>4, <1>5 DEF LinkInv, LinkShape, LinkJobIsLinkedOnce, LinkConsentsAreOfReleased
<1>9. LinkBadgeIsAgreed'
  <2> SUFFICES ASSUME NEW k \in Link!Rows', linkItems'[k].verified
               PROVE  /\ k \in DOMAIN linkAgreed' /\ linkItems'[k].job = linkAgreed'[k].job
                      /\ linkItems'[k].category = linkAgreed'[k].category
                      /\ linkItems'[k].job \in linkReleased'
    BY DEF LinkBadgeIsAgreed
  <2>1. CASE k = i
    BY <2>1, <1>1, <1>2, <1>3, <1>4, <1>5, <1>6
  <2>2. CASE k # i
    BY <2>2, <1>4, <1>5, <1>6 DEF LinkInv, LinkBadgeIsAgreed
  <2> QED
    BY <2>1, <2>2
<1> QED
  BY <1>7, <1>8, <1>9 DEF LinkInv

LEMMA LinkNextInv == ASSUME LinkInv, [Link!Next]_linkVars PROVE LinkInv'
<1>1. ASSUME NEW s \in Slots, NEW i \in TwoIds, Link!Create(s, i) PROVE LinkInv'
  BY <1>1, LinkCreateInv
<1>2. ASSUME NEW s \in Slots, NEW c \in Trades,
             \/ \E j \in LinkedJobs \cup {None} : Link!BeginCreate(s, c, j)
             \/ \E i \in Link!Rows : Link!BeginRecategorize(s, i, c)
      PROVE  LinkInv'
  BY <1>2, LinkBeginInv
<1>3. ASSUME NEW s \in Slots, Link!Recategorize(s) PROVE LinkInv'
  BY <1>3, LinkRecategorizeInv
<1>4. ASSUME NEW i \in Link!Rows, Link!SoftDelete(i) PROVE LinkInv'
  BY <1>4, LinkDeleteInv
<1>5. ASSUME NEW i \in Link!Rows, Link!Accept(i) PROVE LinkInv'
  BY <1>5, LinkAcceptInv
<1>6. ASSUME \/ \E i \in Link!Rows : Link!AskConsent(i)
             \/ \E j \in LinkedJobs : Link!Close(j) \/ Link!Reopen(j)
             \/ \E c \in Trades : Link!Retire(c)
             \/ \E n \in PlanLimits : Link!ChangePlan(n)
             \/ UNCHANGED linkVars
      PROVE  LinkInv'
  BY <1>6, LinkOthersInv
<1> QED
  BY <1>1, <1>2, <1>3, <1>4, <1>5, <1>6 DEF Link!Next

LEMMA LinkFrozen == LinkInv => Link!LinkIsFrozen
<1> SUFFICES ASSUME LinkInv PROVE Link!LinkIsFrozen
  OBVIOUS
<1> QED
  BY LinkAssumption DEF LinkInv, LinkShape, LinkJobIsLinkedOnce, LinkBadgeIsAgreed,
     Link!LinkIsFrozen

-----------------------------------------------------------------------------
(* The limit of the plan.                                                  *)

\* While the history is orderly a creation is alone and has left room for one.
LinkQuotaInv ==
    /\ linkLimit \in PlanLimits /\ linkPeak \in Nat /\ linkLimit <= linkPeak
    /\ IsFiniteSet(Link!Live)
    /\ linkOrderly =>
          /\ Cardinality(Link!Live) <= linkPeak
          /\ \A s \in Slots : linkCalls[s].pc = "create" =>
                /\ Cardinality(Link!Live) < linkPeak
                /\ \A d \in Slots \ {s} : linkCalls[d].pc # "create"

\* The instance's name for the cardinality of the standard module.
LEMMA LinkCardinality == \A S : Link!Cardinality(S) = Cardinality(S)
  BY DEF Link!Cardinality, Cardinality

LEMMA LinkQuotaInit == Link!Init => LinkQuotaInv
<1> SUFFICES ASSUME Link!Init PROVE LinkQuotaInv
    OBVIOUS
<1>1. Link!Live = {} /\ linkLimit \in PlanLimits /\ linkPeak = linkLimit /\ linkLimit \in Nat
  BY LinkAssumption DEF Link!Init, Link!Live, Link!Rows
<1>2. IsFiniteSet(Link!Live) /\ Cardinality(Link!Live) = 0
  BY <1>1, FS_EmptySet
<1>3. \A s \in Slots : linkCalls[s].pc # "create"
  BY DEF Link!Init, Link!Idle
<1> QED
  BY <1>1, <1>2, <1>3 DEF LinkQuotaInv

\* Nothing is added, no creation begins and the largest limit stays so.
LEMMA LinkQuotaKept ==
    ASSUME LinkQuotaInv, Link!Live' \subseteq Link!Live, linkLimit' \in PlanLimits,
           linkPeak' \in Nat, linkLimit' <= linkPeak',
           linkPeak <= linkPeak', linkOrderly' => linkOrderly,
           \A s \in Slots : linkCalls'[s].pc = "create" => linkCalls[s].pc = "create"
    PROVE  LinkQuotaInv'
<1>1. /\ IsFiniteSet(Link!Live') /\ Cardinality(Link!Live') <= Cardinality(Link!Live)
      /\ Cardinality(Link!Live') \in Nat /\ Cardinality(Link!Live) \in Nat
  BY FS_Subset, FS_CardinalityType DEF LinkQuotaInv
<1> QED
  BY <1>1 DEF LinkQuotaInv

LEMMA LinkQuotaBegins ==
    ASSUME LinkInv, LinkQuotaInv, NEW s \in Slots, NEW c \in Trades,
           NEW j \in LinkedJobs \cup {None},
           Link!BeginCreate(s, c, j)
    PROVE  LinkQuotaInv'
<1>1. /\ Link!Live' = Link!Live /\ UNCHANGED <<linkLimit, linkPeak>>
      /\ Cardinality(Link!Live) < linkLimit
      /\ linkOrderly' = (linkOrderly /\ ~Link!Creating)
  BY LinkCardinality DEF Link!BeginCreate, Link!Live, Link!Rows, Link!WithinPlan
<1>2. Cardinality(Link!Live) \in Nat /\ linkLimit \in Nat /\ linkPeak \in Nat /\ linkLimit <= linkPeak
  BY LinkAssumption, FS_CardinalityType DEF LinkQuotaInv
<1>3. \A d \in Slots \ {s} : linkCalls'[d] = linkCalls[d]
  BY DEF Link!BeginCreate, Link!Goto, LinkInv, LinkShape
<1>4. linkOrderly' => linkOrderly /\ \A d \in Slots : linkCalls[d].pc # "create"
  BY <1>1 DEF Link!Creating
<1> QED
  BY <1>1, <1>2, <1>3, <1>4 DEF LinkQuotaInv

LEMMA LinkQuotaCreates ==
    ASSUME LinkInv, LinkQuotaInv, NEW s \in Slots, NEW i, Link!Create(s, i)
    PROVE  LinkQuotaInv'
<1>1. /\ UNCHANGED <<linkLimit, linkPeak, linkOrderly>> /\ linkCalls[s].pc = "create"
      /\ linkCalls'[s].pc # "create" /\ \A d \in Slots \ {s} : linkCalls'[d] = linkCalls[d]
  BY DEF Link!Create, Link!Goto, Link!Idle, LinkInv, LinkShape
<1>2. Link!Live' \subseteq Link!Live \cup {i}
  BY DEF Link!Create, Link!Live, Link!Rows, Link!Put
<1>3. /\ IsFiniteSet(Link!Live \cup {i})
      /\ Cardinality(Link!Live \cup {i}) <= Cardinality(Link!Live) + 1
      /\ Cardinality(Link!Live) \in Nat
  <2>1. IsFiniteSet(Link!Live)
    BY DEF LinkQuotaInv
  <2>2. Cardinality(Link!Live) \in Nat
    BY <2>1, FS_CardinalityType
  <2>3. /\ IsFiniteSet(Link!Live \cup {i})
        /\ Cardinality(Link!Live \cup {i}) = IF i \in Link!Live THEN Cardinality(Link!Live) ELSE Cardinality(Link!Live) + 1
    BY <2>1, FS_AddElement
  <2> QED
    BY <2>2, <2>3
<1>4. /\ IsFiniteSet(Link!Live') /\ Cardinality(Link!Live') <= Cardinality(Link!Live \cup {i})
      /\ Cardinality(Link!Live') \in Nat /\ Cardinality(Link!Live \cup {i}) \in Nat
  BY <1>2, <1>3, FS_Subset, FS_CardinalityType
<1>5. linkOrderly => Cardinality(Link!Live) + 1 <= linkPeak /\ \A d \in Slots \ {s} : linkCalls[d].pc # "create"
  BY <1>1, <1>3 DEF LinkQuotaInv
<1>6. linkOrderly' => Cardinality(Link!Live') <= linkPeak'
  BY <1>1, <1>3, <1>4, <1>5 DEF LinkQuotaInv
<1> QED
  BY <1>1, <1>4, <1>5, <1>6 DEF LinkQuotaInv

LEMMA LinkQuotaOthers ==
    ASSUME LinkInv, LinkQuotaInv,
           \/ \E s \in Slots, c \in Trades, i \in Link!Rows : Link!BeginRecategorize(s, i, c)
           \/ \E s \in Slots : Link!Recategorize(s)
           \/ \E i \in Link!Rows : Link!SoftDelete(i) \/ Link!AskConsent(i) \/ Link!Accept(i)
           \/ \E j \in LinkedJobs : Link!Close(j) \/ Link!Reopen(j)
           \/ \E c \in Trades : Link!Retire(c)
           \/ UNCHANGED linkVars
    PROVE  LinkQuotaInv'
<1>1. UNCHANGED <<linkLimit, linkPeak, linkOrderly>>
  BY DEF Link!BeginRecategorize, Link!Recategorize, Link!SoftDelete, Link!AskConsent, Link!Accept,
     Link!Close, Link!Reopen, Link!Retire, linkVars
<1>2. \A s \in Slots : linkCalls'[s].pc = "create" => linkCalls[s].pc = "create"
  <2>1. \/ UNCHANGED linkCalls
        \/ \E s \in Slots, i \in Link!Rows, c \in Trades :
              linkCalls' = [linkCalls EXCEPT ![s] = [pc |-> "update", item |-> i, category |-> c]]
        \/ \E s \in Slots : linkCalls' = [linkCalls EXCEPT ![s] = [pc |-> "idle"]]
    BY DEF Link!BeginRecategorize, Link!Recategorize, Link!SoftDelete, Link!AskConsent,
       Link!Accept, Link!Close, Link!Reopen, Link!Retire, linkVars,
           Link!Goto, Link!Idle
  <2>2. linkCalls = [s \in Slots |-> linkCalls[s]]
    BY DEF LinkInv, LinkShape
  <2>3. ASSUME NEW s \in Slots, NEW x, linkCalls' = [linkCalls EXCEPT ![s] = x], x.pc # "create"
        PROVE  \A d \in Slots : linkCalls'[d].pc = "create" => linkCalls[d].pc = "create"
    BY <2>2, <2>3
  <2> QED
    BY <2>1, <2>3
<1>3. Link!Live' \subseteq Link!Live
  <2>1. linkItems \in [Link!Rows -> Link!Item]
    BY DEF LinkInv, LinkShape
  <2>2. \A s \in Slots : linkCalls[s].pc = "update" => linkCalls[s].item \in Link!Rows
    BY LinkCallShape DEF LinkInv, LinkChange
  <2> QED
    BY <2>1, <2>2 DEF Link!BeginRecategorize, Link!Recategorize, Link!SoftDelete, Link!AskConsent,
       Link!Accept, Link!Close, Link!Reopen,
                      Link!Retire, linkVars, Link!Live, Link!Rows, Link!Item
<1> QED
  BY <1>1, <1>2, <1>3, LinkQuotaKept DEF LinkQuotaInv

LEMMA LinkQuotaPlan ==
    ASSUME LinkQuotaInv, NEW n \in PlanLimits, Link!ChangePlan(n) PROVE LinkQuotaInv'
<1>1. n \in Nat /\ linkLimit' = n /\ linkPeak' = (IF n > linkPeak THEN n ELSE linkPeak) /\ linkPeak \in Nat
  BY LinkAssumption DEF Link!ChangePlan, LinkQuotaInv
<1>2. Link!Live' = Link!Live /\ UNCHANGED <<linkCalls, linkOrderly>>
  BY DEF Link!ChangePlan, Link!Live, Link!Rows
<1> QED
  BY <1>1, <1>2, LinkQuotaKept

LEMMA LinkQuotaNext == ASSUME LinkInv, LinkQuotaInv, [Link!Next]_linkVars PROVE LinkQuotaInv'
<1>1. ASSUME NEW s \in Slots, NEW c \in Trades, NEW j \in LinkedJobs \cup {None},
Link!BeginCreate(s, c, j)
      PROVE  LinkQuotaInv'
  BY <1>1, LinkQuotaBegins
<1>2. ASSUME NEW s \in Slots, NEW i \in TwoIds, Link!Create(s, i) PROVE LinkQuotaInv'
  BY <1>2, LinkQuotaCreates
<1>3. ASSUME NEW n \in PlanLimits, Link!ChangePlan(n) PROVE LinkQuotaInv'
  BY <1>3, LinkQuotaPlan
<1>4. ASSUME \/ \E s \in Slots, c \in Trades, i \in Link!Rows : Link!BeginRecategorize(s, i, c)
             \/ \E s \in Slots : Link!Recategorize(s)
             \/ \E i \in Link!Rows : Link!SoftDelete(i) \/ Link!AskConsent(i) \/ Link!Accept(i)
             \/ \E j \in LinkedJobs : Link!Close(j) \/ Link!Reopen(j)
             \/ \E c \in Trades : Link!Retire(c)
             \/ UNCHANGED linkVars
      PROVE  LinkQuotaInv'
  BY <1>4, LinkQuotaOthers
<1> QED
  BY <1>1, <1>2, <1>3, <1>4 DEF Link!Next

LEMMA LinkQuota == LinkQuotaInv => Link!QuotaHolds
  BY LinkCardinality DEF LinkQuotaInv, Link!QuotaHolds

-----------------------------------------------------------------------------
(* PayoutDestination: what is stored of a destination.                      *)

AnyText == [form : TextForms, length : Nat, digits : Nat, raw : BOOLEAN]

LEMMA TextsAreTexts == Destination!Texts \subseteq AnyText
<1>1. \A form \in TextForms, length \in Nat, digits \in Nat, raw \in BOOLEAN :
         Destination!Text(form, length, digits, raw) \in AnyText
  BY DEF Destination!Text, AnyText
<1>2. TextForms = {"blank", "email", "word", "number", "grouped", "phone", "masked"}
  BY DEF TextForms
<1>3. {5, 6, 20, 21} \subseteq Nat
  OBVIOUS
<1> DEFINE fixed == {Destination!Text("blank", 0, 0, TRUE), Destination!Text("email", 9, 0, FALSE),
                     Destination!Text("email", 9, 0, TRUE)}
           words == {Destination!Text("word", length, 0, raw) :
                        length \in {5, 6, 20, 21}, raw \in BOOLEAN}
           numbers == {Destination!Text("number", digits, digits, FALSE) :
                          digits \in {16, 21, 22}}
           phones == {Destination!Text("phone", digits + 1, digits, raw) :
                         digits \in {10, 11, 12, 13}, raw \in BOOLEAN}
<1>4. fixed \subseteq AnyText /\ {Destination!Text("grouped", 26, 22, TRUE)} \subseteq AnyText
  BY <1>1, <1>2
<1>5. words \subseteq AnyText
  BY <1>1, <1>2, <1>3
<1>6. numbers \subseteq AnyText
  <2>1. \A digits \in {16, 21, 22} : Destination!Text("number", digits, digits, FALSE) \in AnyText
    BY DEF Destination!Text, AnyText, TextForms
  <2> QED
    BY <2>1
<1>7. phones \subseteq AnyText
  <2>1. \A digits \in {10, 11, 12, 13}, raw \in BOOLEAN :
           Destination!Text("phone", digits + 1, digits, raw) \in AnyText
    BY DEF Destination!Text, AnyText, TextForms
  <2> QED
    BY <2>1
<1>8. Destination!Texts = fixed \cup words \cup numbers
                             \cup {Destination!Text("grouped", 26, 22, TRUE)} \cup phones
  BY DEF Destination!Texts
<1> HIDE DEF fixed, words, numbers, phones
<1> QED
  BY <1>4, <1>5, <1>6, <1>7, <1>8

\* What the validation accepts is an identifier or an alias, already in the form
\* it is stored in: reading it again changes nothing.
Settled(method, identifierType, transferIdentifier, mpAlias) ==
    \/ /\ method = "MERCADO_PAGO" /\ identifierType = "MP_CVU" /\ mpAlias = Null
       /\ Destination!NormalizeDigits(transferIdentifier) = transferIdentifier
       /\ Destination!IsKey(transferIdentifier)
    \/ /\ method = "MERCADO_PAGO" /\ identifierType = "MP_ALIAS" /\ transferIdentifier = Null
       /\ Destination!Trim(mpAlias) = mpAlias /\ Destination!IsAlias(mpAlias)
    \/ /\ method = "MERCADO_PAGO" /\ identifierType = "MP_EMAIL" /\ mpAlias = Null
       /\ Destination!Trim(transferIdentifier) = transferIdentifier
       /\ Destination!IsEmail(transferIdentifier)
    \/ /\ method = "MERCADO_PAGO" /\ identifierType = "MP_PHONE" /\ mpAlias = Null
       /\ Destination!Trim(transferIdentifier) = transferIdentifier
       /\ Destination!IsPhone(transferIdentifier)
    \/ /\ method = "BANK" /\ identifierType = "BANK_TRANSFER_KEY" /\ mpAlias = Null
       /\ Destination!NormalizeDigits(transferIdentifier) = transferIdentifier
       /\ Destination!IsKey(transferIdentifier)

LEMMA TrimSettles ==
    ASSUME NEW t \in Destination!Texts \cup {Null}
    PROVE  /\ Destination!Trim(t) \in AnyText \cup {Null}
           /\ Destination!Trim(Destination!Trim(t)) = Destination!Trim(t)
<1>1. CASE t = Null
  BY <1>1 DEF Destination!Trim
<1>2. CASE t # Null
  <2>1. t \in AnyText
    BY <1>2, TextsAreTexts
  <2> DEFINE u == [t EXCEPT !.raw = FALSE]
  <2>2. u \in AnyText /\ [u EXCEPT !.raw = FALSE] = u
    BY <2>1 DEF AnyText
  <2>3. u # Null
    BY <2>2, TextAssumption DEF AnyText
  <2> QED
    BY <1>2, <2>2, <2>3 DEF Destination!Trim
<1> QED
  BY <1>1, <1>2

LEMMA DigitsSettle ==
    ASSUME NEW t \in Destination!Texts \cup {Null}
    PROVE  /\ Destination!NormalizeDigits(t) \in AnyText \cup {Null}
           /\ Destination!NormalizeDigits(Destination!NormalizeDigits(t))
                = Destination!NormalizeDigits(t)
<1>1. CASE t = Null \/ t.digits = 0
  BY <1>1 DEF Destination!NormalizeDigits
<1>2. CASE t # Null /\ t.digits # 0
  <2>1. t.digits \in Nat
    BY <1>2, TextsAreTexts DEF AnyText
  <2> DEFINE u == Destination!Text("number", t.digits, t.digits, FALSE)
  <2>2. u \in AnyText /\ u.digits = t.digits
    BY <2>1 DEF AnyText, TextForms, Destination!Text
  <2>3. u # Null
    BY <2>2, TextAssumption DEF AnyText
  <2>4. Destination!NormalizeDigits(t) = u
    BY <1>2 DEF Destination!NormalizeDigits
  <2>5. Destination!NormalizeDigits(u) = u
    BY <1>2, <2>2, <2>3 DEF Destination!NormalizeDigits
  <2> QED
    BY <2>2, <2>4, <2>5
<1> QED
  BY <1>1, <1>2

LEMMA ValidSettles ==
    ASSUME NEW dto \in Destination!Requests, Destination!ValidatePayoutFields(dto) # Null
    PROVE  LET valid == Destination!ValidatePayoutFields(dto) IN
           /\ valid.transferIdentifier \in AnyText \cup {Null}
           /\ valid.mpAlias \in AnyText \cup {Null}
           /\ Settled(dto.method, dto.identifierType, valid.transferIdentifier, valid.mpAlias)
<1> DEFINE valid == Destination!ValidatePayoutFields(dto)
           digits == Destination!NormalizeDigits(dto.transferIdentifier)
           text == Destination!Trim(dto.transferIdentifier)
           alias == Destination!Trim(dto.mpAlias)
<1>1. /\ dto.transferIdentifier \in Destination!Texts \cup {Null}
      /\ dto.mpAlias \in Destination!Texts \cup {Null}
      /\ dto.method \in {"MERCADO_PAGO", "BANK"}
  BY DEF Destination!Requests, Destination!Methods
<1>2. /\ {digits, text, alias} \subseteq AnyText \cup {Null}
      /\ Destination!NormalizeDigits(digits) = digits
      /\ Destination!Trim(text) = text /\ Destination!Trim(alias) = alias
  BY <1>1, TrimSettles, DigitsSettle
<1>3. CASE dto.method = "BANK"
  <2>1. /\ valid = Destination!Identified(digits, Null) /\ Destination!IsKey(digits)
        /\ dto.identifierType = "BANK_TRANSFER_KEY"
    BY <1>3 DEF Destination!ValidatePayoutFields, Destination!ValidateBank
  <2> HIDE DEF valid, digits
  <2> QED
    BY <1>2, <1>3, <2>1 DEF Settled, Destination!Identified, valid
<1>4. CASE dto.method = "MERCADO_PAGO"
  <2>1. \/ /\ dto.identifierType = "MP_CVU" /\ Destination!IsKey(digits)
           /\ valid = Destination!Identified(digits, Null)
        \/ /\ dto.identifierType = "MP_ALIAS" /\ Destination!IsAlias(alias)
           /\ valid = Destination!Identified(Null, alias)
        \/ /\ dto.identifierType = "MP_EMAIL" /\ Destination!IsEmail(text)
           /\ valid = Destination!Identified(text, Null)
        \/ /\ dto.identifierType = "MP_PHONE" /\ Destination!IsPhone(text)
           /\ valid = Destination!Identified(text, Null)
    BY <1>4 DEF Destination!ValidatePayoutFields, Destination!ValidateMercadoPago
  <2> HIDE DEF valid, digits, text, alias
  <2>2. /\ valid.transferIdentifier \in AnyText \cup {Null}
        /\ valid.mpAlias \in AnyText \cup {Null}
        /\ Settled(dto.method, dto.identifierType, valid.transferIdentifier, valid.mpAlias)
    BY <1>2, <1>4, <2>1 DEF Settled, Destination!Identified
  <2> QED
    BY <2>2 DEF valid
<1> QED
  BY <1>1, <1>3, <1>4

DestinationRow(row) ==
    /\ row.transferIdentifier \in AnyText \cup {Null}
    /\ row.mpAlias \in AnyText \cup {Null}
    /\ Settled(row.method, row.identifierType, row.transferIdentifier, row.mpAlias)
    /\ IF row.method = "BANK"
       THEN row.bank # Null /\ row.accountHolderName # Null /\ row.accountHolderName >= 3
       ELSE row.bank = Null

\* The row is written once, and the first attempt hands it over as it is.
DestinationInv ==
    /\ moneyAccount # Null => DestinationRow(moneyAccount)
    /\ moneyTold # Null /\ moneyTold.by = "attempt" =>
          /\ moneyAccount # Null
          /\ moneyTold.destination = Destination!GatewayDestinationFromAccount(moneyAccount)

LEMMA DestinationNext ==
    ASSUME DestinationInv, [Destination!Next]_moneyVars
    PROVE  DestinationInv'
<1>1. ASSUME NEW dto \in Destination!Requests, Destination!Create(dto)
      PROVE  DestinationInv'
  <2> DEFINE valid == Destination!ValidatePayoutFields(dto)
             row == [method |-> dto.method, identifierType |-> dto.identifierType,
                     transferIdentifier |-> valid.transferIdentifier,
                     mpAlias |-> valid.mpAlias,
                     accountHolderName |-> IF dto.method = "BANK" THEN dto.accountHolderName
                                           ELSE Null,
                     bank |-> IF dto.method = "BANK" THEN dto.bank ELSE Null]
  <2>1. moneyAccount = Null /\ valid # Null /\ moneyAccount' = row /\ UNCHANGED moneyTold
    BY <1>1 DEF Destination!Create
  <2>2. /\ valid.transferIdentifier \in AnyText \cup {Null}
        /\ valid.mpAlias \in AnyText \cup {Null}
        /\ Settled(dto.method, dto.identifierType, valid.transferIdentifier, valid.mpAlias)
    BY <2>1, ValidSettles
  <2>3. dto.method = "BANK" =>
           dto.bank # Null /\ dto.accountHolderName # Null /\ dto.accountHolderName >= 3
    BY <2>1 DEF Destination!ValidatePayoutFields, Destination!ValidateBank
  <2> HIDE DEF valid
  <2>4. DestinationRow(row)
    BY <2>2, <2>3 DEF DestinationRow
  <2> HIDE DEF row
  <2> QED
    BY <2>1, <2>4 DEF DestinationInv
<1>2. CASE Destination!ExecutePayoutForJob
  BY <1>2 DEF DestinationInv, Destination!ExecutePayoutForJob
<1>3. CASE \/ Destination!CompletePayoutAttempt \/ Destination!RecoverStuckPayoutAttempt
           \/ Destination!ListPendingPayout \/ UNCHANGED moneyVars
  BY <1>3 DEF DestinationInv, Destination!CompletePayoutAttempt,
     Destination!RecoverStuckPayoutAttempt, Destination!ListPendingPayout, moneyVars
<1> QED
  BY <1>1, <1>2, <1>3 DEF Destination!Next

LEMMA DestinationWhole == DestinationInv => Destination!DestinationIsWhole
<1> SUFFICES ASSUME DestinationInv PROVE Destination!DestinationIsWhole
  OBVIOUS
<1>1. ASSUME moneyTold # Null, moneyTold.by = "attempt"
      PROVE  Destination!NamesAccount(moneyTold.destination)
  BY <1>1 DEF DestinationInv, Destination!NamesAccount, Destination!GatewayDestinationFromAccount
<1>2. ASSUME moneyAccount # Null
      PROVE  /\ (moneyAccount.transferIdentifier = Null) # (moneyAccount.mpAlias = Null)
             /\ moneyAccount.method = "BANK" <=> moneyAccount.identifierType = "BANK_TRANSFER_KEY"
             /\ moneyAccount.method = "BANK" <=> moneyAccount.bank # Null
  BY <1>2 DEF DestinationInv, DestinationRow, Settled, Destination!IsKey, Destination!IsAlias,
     Destination!IsEmail, Destination!IsPhone
<1>3. ASSUME moneyAccount # Null
      PROVE  Destination!ValidatePayoutFields(moneyAccount) =
                Destination!Identified(moneyAccount.transferIdentifier, moneyAccount.mpAlias)
  <2>1. DestinationRow(moneyAccount)
    BY <1>3 DEF DestinationInv
  <2> QED
    BY <2>1 DEF DestinationRow, Settled, Destination!ValidatePayoutFields,
       Destination!ValidateMercadoPago, Destination!ValidateBank
<1>4. ASSUME moneyAccount # Null
      PROVE  Destination!BuildDestinationSnapshot(moneyAccount).maskedIdentifier # Null
  <2>1. \A t \in AnyText : [t EXCEPT !.form = "masked"] \in AnyText
    BY DEF AnyText, TextForms
  <2>2. \A t \in AnyText : [t EXCEPT !.form = "masked"] # Null
    BY <2>1, TextAssumption DEF AnyText
  <2>3. DestinationRow(moneyAccount)
    BY <1>4 DEF DestinationInv
  <2>4. \/ moneyAccount.identifierType = "MP_ALIAS" /\ moneyAccount.mpAlias \in AnyText
        \/ moneyAccount.identifierType # "MP_ALIAS" /\ moneyAccount.transferIdentifier \in AnyText
    BY <2>3 DEF DestinationRow, Settled, Destination!IsKey, Destination!IsAlias,
       Destination!IsEmail, Destination!IsPhone
  <2>5. \A t \in AnyText : t # Null
    BY TextAssumption DEF AnyText
  <2>6. Destination!BuildDestinationSnapshot(moneyAccount).maskedIdentifier =
           Destination!Mask(moneyAccount.identifierType, moneyAccount.transferIdentifier,
                            moneyAccount.mpAlias)
    BY DEF Destination!BuildDestinationSnapshot
  <2>7. CASE moneyAccount.identifierType = "MP_ALIAS" /\ moneyAccount.mpAlias \in AnyText
    <3>1. moneyAccount.mpAlias # Null
      BY <2>5, <2>7
    <3>2. Destination!Mask(moneyAccount.identifierType, moneyAccount.transferIdentifier,
                           moneyAccount.mpAlias) = [moneyAccount.mpAlias EXCEPT !.form = "masked"]
      BY <2>7, <3>1 DEF Destination!Mask
    <3> QED
      BY <2>2, <2>6, <2>7, <3>2
  <2>8. CASE /\ moneyAccount.identifierType # "MP_ALIAS"
             /\ moneyAccount.transferIdentifier \in AnyText
    <3>1. Destination!Mask(moneyAccount.identifierType, moneyAccount.transferIdentifier,
                           moneyAccount.mpAlias)
             = [moneyAccount.transferIdentifier EXCEPT !.form = "masked"]
      BY <2>5, <2>8 DEF Destination!Mask
    <3> QED
      BY <2>2, <2>6, <2>8, <3>1
  <2> QED
    BY <2>4, <2>7, <2>8
<1> QED
  BY <1>1, <1>2, <1>3, <1>4 DEF Destination!DestinationIsWhole

-----------------------------------------------------------------------------
(* PlanAssignment: the plan a subject has.                                  *)

PlanCall == [pc : {"create", "deactivate", "update", "forget", "revise"},
             kind : {"catalog", "custom", "extra", "revise"},
             to : Plans!Ids, current : Plans!Ids]

\* The plan of the subject is active and has the code of its subscriptionPlan.
PlanGood ==
    /\ planProfile.id \in Plans!Rows /\ planDefinitions[planProfile.id].active
    /\ Plans!Code(planProfile.id) = planProfile.code

\* The plan that a request has made, or is about to give, can be used.
PlanReady(id) == id \in Plans!Rows /\ planDefinitions[id].active

\* How far a request has come, when it is alone.
PlanPhase(c) ==
    CASE c.kind = "catalog" -> c.to \in Catalog /\ c.pc \in {"deactivate", "forget", "update"}
      [] c.kind = "custom" ->
            \/ c.pc = "create" /\ PlanGood /\ c.current \in Plans!Rows
            \/ c.pc = "deactivate" /\ PlanReady(c.to) /\ c.current # c.to
            \/ c.pc = "update" /\ PlanReady(c.to)
            \/ c.pc = "forget" /\ PlanGood
      [] c.kind = "extra" ->
            \/ c.pc \in {"create", "forget"} /\ PlanGood
            \/ c.pc = "update" /\ PlanReady(c.to)
      [] c.kind = "revise" -> c.pc \in {"revise", "forget"} /\ PlanGood

PlanShape ==
    /\ planDefinitions \in [Plans!Rows -> [active : BOOLEAN, linked : BOOLEAN, version : Nat]]
    /\ \A id \in Catalog : PlanReady(id)
    /\ planProfile.id \in Plans!Ids
    /\ planCalls \in [Slots -> PlanCall \cup {Plans!Idle}]
    /\ planOrderly \in BOOLEAN

\* While the history is orderly a request is alone, and where it leaves off the
\* subject's plan is as it should be once nobody is at it.
PlanInv ==
    /\ PlanShape
    /\ planOrderly => \A s \in Slots : planCalls[s] # Plans!Idle =>
          /\ PlanPhase(planCalls[s])
          /\ \A d \in Slots \ {s} : planCalls[d] = Plans!Idle
    /\ planOrderly /\ Plans!Quiet => PlanGood
    /\ Plans!AnswerIsCurrent

LEMMA PlanInit == Plans!Init => PlanInv
<1> SUFFICES ASSUME Plans!Init PROVE PlanInv
  OBVIOUS
<1>1. PICK plan \in Catalog : planProfile = [code |-> plan, id |-> plan]
  BY DEF Plans!Init
<1>2. /\ planDefinitions = [id \in Catalog |-> [active |-> TRUE, linked |-> FALSE, version |-> 1]]
      /\ planCalls = [s \in Slots |-> Plans!Idle] /\ planReading = Plans!Idle /\ planOrderly = TRUE
  BY DEF Plans!Init
<1>3. Plans!Rows = Catalog /\ \A id \in Catalog : PlanReady(id)
  BY <1>2 DEF Plans!Rows, PlanReady
<1>4. PlanShape
  BY <1>1, <1>2, <1>3 DEF PlanShape, Plans!Ids, PlanReady
<1>5. PlanGood
  BY <1>1, <1>3 DEF PlanGood, PlanReady, Plans!Code
<1>6. Plans!AnswerIsCurrent
  BY <1>2 DEF Plans!AnswerIsCurrent, Plans!Idle
<1> QED
  BY <1>2, <1>4, <1>5, <1>6 DEF PlanInv

\* What every step of a request has to leave.
PlanMoved(s) ==
    /\ planCalls' = [planCalls EXCEPT ![s] = planCalls'[s]]
    /\ PlanShape'
    /\ planOrderly' =>
          /\ \A d \in Slots \ {s} : planCalls[d] = Plans!Idle
          /\ IF planCalls'[s] = Plans!Idle THEN PlanGood' ELSE PlanPhase(planCalls[s])'
    /\ UNCHANGED planReading

LEMMA PlanMoves ==
    ASSUME PlanInv, NEW s \in Slots, PlanMoved(s)
    PROVE  PlanInv'
<1>1. \A d \in Slots \ {s} : planCalls'[d] = planCalls[d]
  BY DEF PlanMoved, PlanInv, PlanShape
<1>2. Plans!AnswerIsCurrent'
  BY DEF PlanMoved, PlanInv, Plans!AnswerIsCurrent
<1>3. ASSUME planOrderly', NEW d \in Slots, planCalls'[d] # Plans!Idle
      PROVE  d = s
  BY <1>1, <1>3 DEF PlanMoved
<1>4. planOrderly' /\ Plans!Quiet' => PlanGood'
  BY DEF PlanMoved, Plans!Quiet
<1>5. ASSUME planOrderly', NEW d \in Slots, planCalls'[d] # Plans!Idle
      PROVE  PlanPhase(planCalls[d])' /\ \A e \in Slots \ {d} : planCalls'[e] = Plans!Idle
  BY <1>1, <1>3, <1>5 DEF PlanMoved
<1> QED
  BY <1>2, <1>4, <1>5 DEF PlanMoved, PlanInv

LEMMA PlanBegins ==
    ASSUME PlanInv, NEW s \in Slots, NEW call \in PlanCall, Plans!Begin(s, call),
           PlanGood => PlanPhase(call)
    PROVE  PlanInv'
<1>1. /\ planCalls[s] = Plans!Idle /\ planCalls' = [planCalls EXCEPT ![s] = call]
      /\ planOrderly' = (planOrderly /\ Plans!Quiet)
      /\ UNCHANGED <<planProfile, planDefinitions, planReading>>
  BY DEF Plans!Begin
<1>2. planCalls'[s] = call /\ call # Plans!Idle
  BY <1>1 DEF PlanInv, PlanShape, PlanCall, Plans!Idle
<1>3. PlanShape'
  BY <1>1 DEF PlanInv, PlanShape, PlanReady, Plans!Rows
<1>4. planOrderly' => PlanPhase(call) /\ \A d \in Slots : planCalls[d] = Plans!Idle
  BY <1>1 DEF PlanInv, Plans!Quiet
<1>5. PlanPhase(call) => PlanPhase(planCalls[s])'
  BY <1>1, <1>2 DEF PlanPhase, PlanGood, PlanReady, Plans!Rows
<1>6. PlanMoved(s)
  BY <1>1, <1>2, <1>3, <1>4, <1>5 DEF PlanMoved
<1> QED
  BY <1>6, PlanMoves

LEMMA PlanBegin ==
    ASSUME PlanInv, NEW s \in Slots,
           \/ \E plan \in Catalog : Plans!BeginCatalog(s, plan) \/ Plans!BeginRevise(s, plan)
           \/ \E id \in Customs : Plans!BeginCustom(s, id) \/ Plans!BeginExtra(s, id)
    PROVE  PlanInv'
<1>1. planProfile.id \in Plans!Ids /\ Catalog \subseteq Plans!Ids /\ Customs \subseteq Plans!Ids
  BY DEF PlanInv, PlanShape, Plans!Ids
<1>2. ASSUME NEW plan \in Catalog, Plans!BeginCatalog(s, plan) PROVE PlanInv'
  <2> DEFINE call == [pc |-> "deactivate", kind |-> "catalog", to |-> plan,
                      current |-> planProfile.id]
  <2>1. call \in PlanCall /\ PlanPhase(call)
    BY <1>1 DEF PlanCall, PlanPhase
  <2> QED
    BY <1>2, <2>1, PlanBegins DEF Plans!BeginCatalog
<1>3. ASSUME NEW plan \in Catalog, Plans!BeginRevise(s, plan) PROVE PlanInv'
  <2> DEFINE call == [pc |-> "revise", kind |-> "revise", to |-> plan, current |-> plan]
  <2>1. call \in PlanCall /\ (PlanGood => PlanPhase(call))
    BY <1>1 DEF PlanCall, PlanPhase
  <2> QED
    BY <1>3, <2>1, PlanBegins DEF Plans!BeginRevise
<1>4. ASSUME NEW id \in Customs, Plans!BeginCustom(s, id) PROVE PlanInv'
  <2> DEFINE call == [pc |-> "create", kind |-> "custom", to |-> id, current |-> planProfile.id]
  <2>1. call \in PlanCall /\ (PlanGood => PlanPhase(call))
    BY <1>1 DEF PlanCall, PlanPhase, PlanGood
  <2> QED
    BY <1>4, <2>1, PlanBegins DEF Plans!BeginCustom
<1>5. ASSUME NEW id \in Customs, Plans!BeginExtra(s, id) PROVE PlanInv'
  <2> DEFINE call == [pc |-> "create", kind |-> "extra", to |-> id, current |-> id]
  <2>1. call \in PlanCall /\ (PlanGood => PlanPhase(call))
    BY <1>1 DEF PlanCall, PlanPhase
  <2> QED
    BY <1>5, <2>1, PlanBegins DEF Plans!BeginExtra
<1> QED
  BY <1>2, <1>3, <1>4, <1>5

\* A request goes on: it has become c, of the same kind and about the same plans.
LEMMA PlanGoes ==
    ASSUME PlanInv, NEW s \in Slots, NEW pc, Plans!Goto(s, pc), planCalls[s].pc # "idle",
           pc \in {"idle", "create", "deactivate", "update", "forget", "revise"}
    PROVE  /\ planCalls[s] \in PlanCall /\ planCalls[s] # Plans!Idle
           /\ planCalls' = [planCalls EXCEPT ![s] = planCalls'[s]]
           /\ planCalls' \in [Slots -> PlanCall \cup {Plans!Idle}]
           /\ IF pc = "idle" THEN planCalls'[s] = Plans!Idle
              ELSE /\ planCalls'[s] # Plans!Idle /\ planCalls'[s].pc = pc
                   /\ planCalls'[s].kind = planCalls[s].kind /\ planCalls'[s].to = planCalls[s].to
                   /\ planCalls'[s].current = planCalls[s].current
           /\ planOrderly =>
                 PlanPhase(planCalls[s]) /\ \A d \in Slots \ {s} : planCalls[d] = Plans!Idle
<1>1. planCalls \in [Slots -> PlanCall \cup {Plans!Idle}]
  BY DEF PlanInv, PlanShape
<1>2. planCalls[s] \in PlanCall /\ planCalls[s] # Plans!Idle
  BY <1>1 DEF Plans!Idle
<1> DEFINE c == [planCalls[s] EXCEPT !.pc = pc]
<1>3. CASE pc = "idle"
  BY <1>1, <1>2, <1>3 DEF Plans!Goto, PlanInv
<1>4. CASE pc # "idle"
  <2>1. /\ c \in PlanCall /\ c.pc = pc /\ c.kind = planCalls[s].kind /\ c.to = planCalls[s].to
        /\ c.current = planCalls[s].current
    BY <1>2, <1>4 DEF PlanCall
  <2>2. c # Plans!Idle
    BY <1>4, <2>1 DEF Plans!Idle
  <2>3. planCalls' = [planCalls EXCEPT ![s] = c]
    BY <1>4 DEF Plans!Goto
  <2> HIDE DEF c
  <2> QED
    BY <1>1, <1>2, <1>4, <2>1, <2>2, <2>3 DEF PlanInv
<1> QED
  BY <1>3, <1>4

\* A custom definition is created for an owner that has none.
LEMMA PlanCreate == ASSUME PlanInv, NEW s \in Slots, Plans!Create(s) PROVE PlanInv'
<1> DEFINE c == planCalls[s]
           d == planCalls'[s]
           fresh == [active |-> TRUE, linked |-> TRUE, version |-> 1]
<1>1. /\ c.pc = "create" /\ UNCHANGED <<planProfile, planReading, planOrderly>>
  BY DEF Plans!Create
<1>2. PICK pc \in {"idle", "update", "deactivate"} :
         /\ Plans!Goto(s, pc)
         /\ \/ pc = "idle" /\ UNCHANGED planDefinitions
            \/ /\ pc = IF c.kind = "extra" THEN "update" ELSE "deactivate"
               /\ c.to \notin Plans!Rows
               /\ planDefinitions' = [id \in Plans!Rows \cup {c.to} |->
                                         IF id = c.to THEN fresh ELSE planDefinitions[id]]
  BY DEF Plans!Create
<1>3. /\ c \in PlanCall /\ planCalls' = [planCalls EXCEPT ![s] = d]
      /\ planCalls' \in [Slots -> PlanCall \cup {Plans!Idle}]
      /\ IF pc = "idle" THEN d = Plans!Idle
         ELSE d # Plans!Idle /\ d.pc = pc /\ d.kind = c.kind /\ d.to = c.to /\ d.current = c.current
      /\ planOrderly => PlanPhase(c) /\ \A e \in Slots \ {s} : planCalls[e] = Plans!Idle
  <2>1. /\ planCalls[s].pc # "idle" /\ Plans!Goto(s, pc)
        /\ pc \in {"idle", "create", "deactivate", "update", "forget", "revise"}
    BY <1>1, <1>2
  <2> QED
    BY <2>1, PlanGoes
<1>4. /\ Plans!Rows \subseteq Plans!Rows' /\ \A id \in Plans!Rows :
            planDefinitions'[id] = planDefinitions[id]
      /\ planDefinitions' \in [Plans!Rows' -> [active : BOOLEAN, linked : BOOLEAN, version : Nat]]
      /\ pc # "idle" => c.to \in Plans!Rows' /\ planDefinitions'[c.to].active
  <2>1. planDefinitions \in
           [Plans!Rows -> [active : BOOLEAN, linked : BOOLEAN, version : Nat]]
    BY DEF PlanInv, PlanShape
  <2>2. fresh \in [active : BOOLEAN, linked : BOOLEAN, version : Nat] /\ fresh.active
    OBVIOUS
  <2>3. CASE pc = "idle"
    BY <1>2, <2>1, <2>3 DEF Plans!Rows
  <2>4. CASE pc # "idle"
    <3> HIDE DEF fresh
    <3>1. /\ c.to \notin Plans!Rows
          /\ planDefinitions' = [id \in Plans!Rows \cup {c.to} |->
                                    IF id = c.to THEN fresh ELSE planDefinitions[id]]
      BY <1>2, <2>4
    <3>2. Plans!Rows' = Plans!Rows \cup {c.to}
      BY <3>1 DEF Plans!Rows
    <3> HIDE DEF c
    <3> QED
      BY <2>1, <2>2, <3>1, <3>2
  <2> QED
    BY <2>3, <2>4
<1>5. PlanShape'
  BY <1>1, <1>3, <1>4 DEF PlanInv, PlanShape, PlanReady
<1>6. planOrderly => PlanGood /\ PlanGood' /\ (c.kind = "custom" => c.current \in Plans!Rows)
                     /\ c.kind \in {"custom", "extra"}
  BY <1>1, <1>3, <1>4 DEF PlanPhase, PlanGood, PlanCall, Plans!Code
<1>7. planOrderly /\ pc # "idle" => PlanPhase(planCalls[s])'
  BY <1>2, <1>3, <1>4, <1>6 DEF PlanPhase, PlanReady
<1> QED
  BY <1>1, <1>3, <1>5, <1>6, <1>7, PlanMoves DEF PlanMoved

\* The custom definition so far is deactivated: never a plan of the catalog, nor
\* the definition the subject is about to have.
LEMMA PlanDeactivate == ASSUME PlanInv, NEW s \in Slots, Plans!Deactivate(s) PROVE PlanInv'
<1> DEFINE c == planCalls[s]
           d == planCalls'[s]
           pc == IF c.kind = "custom" THEN "update" ELSE "forget"
<1>1. /\ c.pc = "deactivate" /\ UNCHANGED <<planProfile, planReading, planOrderly>>
      /\ Plans!Goto(s, pc) /\ pc \in {"update", "forget"}
  BY DEF Plans!Deactivate
<1>2. /\ c \in PlanCall /\ planCalls' = [planCalls EXCEPT ![s] = d]
      /\ planCalls' \in [Slots -> PlanCall \cup {Plans!Idle}]
      /\ d # Plans!Idle /\ d.pc = pc /\ d.kind = c.kind /\ d.to = c.to /\ d.current = c.current
      /\ planOrderly => PlanPhase(c) /\ \A e \in Slots \ {s} : planCalls[e] = Plans!Idle
  BY <1>1, PlanGoes
<1>3. /\ Plans!Rows' = Plans!Rows
      /\ planDefinitions' \in [Plans!Rows -> [active : BOOLEAN, linked : BOOLEAN, version : Nat]]
      /\ \A id \in Plans!Rows : id # c.current \/ id \in Catalog =>
            planDefinitions'[id] = planDefinitions[id]
  BY PlanAssumption DEF Plans!Deactivate, PlanInv, PlanShape, Plans!Rows
<1>4. PlanShape'
  BY <1>1, <1>2, <1>3 DEF PlanInv, PlanShape, PlanReady
<1>5. planOrderly => PlanPhase(planCalls[s])'
  BY <1>1, <1>2, <1>3 DEF PlanPhase, PlanReady, PlanCall
<1> QED
  BY <1>1, <1>2, <1>4, <1>5, PlanMoves DEF PlanMoved

\* The subject gets the plan: it can be used by now.
LEMMA PlanUpdate == ASSUME PlanInv, NEW s \in Slots, Plans!Update(s) PROVE PlanInv'
<1> DEFINE c == planCalls[s]
           d == planCalls'[s]
           pc == IF c.kind = "catalog" THEN "idle" ELSE "forget"
<1>1. /\ c.pc = "update" /\ UNCHANGED <<planDefinitions, planReading, planOrderly>>
      /\ Plans!Goto(s, pc) /\ pc \in {"idle", "forget"}
      /\ planProfile' = [code |-> Plans!Code(c.to), id |-> c.to]
  BY DEF Plans!Update
<1>2. /\ c \in PlanCall /\ planCalls' = [planCalls EXCEPT ![s] = d]
      /\ planCalls' \in [Slots -> PlanCall \cup {Plans!Idle}]
      /\ IF pc = "idle" THEN d = Plans!Idle
         ELSE d # Plans!Idle /\ d.pc = pc /\ d.kind = c.kind /\ d.to = c.to /\ d.current = c.current
      /\ planOrderly => PlanPhase(c) /\ \A e \in Slots \ {s} : planCalls[e] = Plans!Idle
  BY <1>1, PlanGoes
<1>3. planOrderly => PlanReady(c.to) /\ c.kind \in {"catalog", "custom", "extra"}
  BY <1>1, <1>2 DEF PlanPhase, PlanInv, PlanShape, PlanCall
<1>4. PlanShape'
  BY <1>1, <1>2 DEF PlanInv, PlanShape, PlanReady, Plans!Rows, PlanCall
<1>5. planOrderly => PlanGood'
  BY <1>1, <1>3 DEF PlanGood, PlanReady, Plans!Rows, Plans!Code
<1>6. planOrderly /\ pc # "idle" => PlanPhase(planCalls[s])'
  BY <1>2, <1>3, <1>5 DEF PlanPhase
<1> QED
  BY <1>1, <1>2, <1>4, <1>5, <1>6, PlanMoves DEF PlanMoved

\* Emptying the cache, a new version and a request that dies leave the plan and
\* its definition as they are.
LEMMA PlanForget == ASSUME PlanInv, NEW s \in Slots, Plans!Forget(s) PROVE PlanInv'
<1> DEFINE c == planCalls[s]
           d == planCalls'[s]
           pc == IF c.kind = "catalog" THEN "update" ELSE "idle"
<1>1. /\ c.pc = "forget" /\ UNCHANGED <<planProfile, planDefinitions, planReading, planOrderly>>
      /\ Plans!Goto(s, pc) /\ pc \in {"idle", "update"}
  BY DEF Plans!Forget
<1>2. /\ c \in PlanCall /\ planCalls' = [planCalls EXCEPT ![s] = d]
      /\ planCalls' \in [Slots -> PlanCall \cup {Plans!Idle}]
      /\ IF pc = "idle" THEN d = Plans!Idle
         ELSE d # Plans!Idle /\ d.pc = pc /\ d.kind = c.kind /\ d.to = c.to /\ d.current = c.current
      /\ planOrderly => PlanPhase(c) /\ \A e \in Slots \ {s} : planCalls[e] = Plans!Idle
  BY <1>1, PlanGoes
<1>3. PlanShape'
  BY <1>1, <1>2 DEF PlanInv, PlanShape, PlanReady, Plans!Rows
<1>4. planOrderly /\ pc = "idle" => PlanGood'
  BY <1>1, <1>2 DEF PlanPhase, PlanCall, PlanGood, Plans!Rows
<1>5. planOrderly /\ pc # "idle" => PlanPhase(planCalls[s])'
  BY <1>2 DEF PlanPhase
<1> QED
  BY <1>1, <1>2, <1>3, <1>4, <1>5, PlanMoves DEF PlanMoved

LEMMA PlanRevise == ASSUME PlanInv, NEW s \in Slots, Plans!Revise(s) PROVE PlanInv'
<1> DEFINE c == planCalls[s]
           d == planCalls'[s]
<1>1. /\ c.pc = "revise" /\ UNCHANGED <<planProfile, planReading, planOrderly>>
      /\ Plans!Goto(s, "forget")
      /\ planDefinitions' = [planDefinitions EXCEPT ![c.to].version = @ + 1]
  BY DEF Plans!Revise
<1>2. /\ c \in PlanCall /\ planCalls' = [planCalls EXCEPT ![s] = d]
      /\ planCalls' \in [Slots -> PlanCall \cup {Plans!Idle}]
      /\ d # Plans!Idle /\ d.pc = "forget" /\ d.kind = c.kind
      /\ planOrderly => PlanPhase(c) /\ \A e \in Slots \ {s} : planCalls[e] = Plans!Idle
  BY <1>1, PlanGoes
<1>3. /\ Plans!Rows' = Plans!Rows
      /\ planDefinitions' \in [Plans!Rows -> [active : BOOLEAN, linked : BOOLEAN, version : Nat]]
      /\ \A id \in Plans!Rows : planDefinitions'[id].active = planDefinitions[id].active
  <2> DEFINE row == [planDefinitions[c.to] EXCEPT !.version = @ + 1]
  <2>1. planDefinitions' = [planDefinitions EXCEPT ![c.to] = row]
    BY <1>1
  <2>2. c.to \in Plans!Rows =>
           /\ row \in [active : BOOLEAN, linked : BOOLEAN, version : Nat]
           /\ row.active = planDefinitions[c.to].active
    BY DEF PlanInv, PlanShape
  <2> HIDE DEF row
  <2> QED
    BY <2>1, <2>2 DEF PlanInv, PlanShape, Plans!Rows
<1>4. PlanShape'
  BY <1>1, <1>2, <1>3 DEF PlanInv, PlanShape, PlanReady
<1>5. planOrderly => PlanGood' /\ c.kind = "revise"
  BY <1>1, <1>2, <1>3 DEF PlanPhase, PlanGood, PlanCall, Plans!Code
<1>6. planOrderly => PlanPhase(planCalls[s])'
  BY <1>2, <1>5 DEF PlanPhase
<1> QED
  BY <1>1, <1>2, <1>4, <1>6, PlanMoves DEF PlanMoved

LEMMA PlanDies == ASSUME PlanInv, NEW s \in Slots, Plans!Dies(s) PROVE PlanInv'
<1>1. /\ planOrderly' = FALSE /\ UNCHANGED <<planProfile, planDefinitions, planReading>>
      /\ planCalls' = [planCalls EXCEPT ![s] = Plans!Idle]
  BY DEF Plans!Dies, Plans!Goto
<1>2. PlanShape'
  BY <1>1 DEF PlanInv, PlanShape, PlanReady, Plans!Rows
<1> QED
  BY <1>1, <1>2 DEF PlanInv, Plans!AnswerIsCurrent

\* Billing writes a plan of the catalog while nobody else is at it.
LEMMA PlanSync == ASSUME PlanInv, NEW plan \in Catalog, Plans!SyncProfilePlan(plan) PROVE PlanInv'
<1>1. /\ planProfile' = [code |-> plan, id |-> plan]
      /\ planOrderly' = (planOrderly /\ Plans!Quiet)
      /\ UNCHANGED <<planDefinitions, planCalls, planReading>>
  BY DEF Plans!SyncProfilePlan
<1>2. PlanShape' /\ PlanGood'
  BY <1>1 DEF PlanInv, PlanShape, PlanGood, PlanReady, Plans!Rows, Plans!Ids, Plans!Code
<1>3. planOrderly' => \A s \in Slots : planCalls'[s] = Plans!Idle
  BY <1>1 DEF Plans!Quiet
<1> QED
  BY <1>1, <1>2, <1>3 DEF PlanInv, Plans!AnswerIsCurrent

\* A resolution, and the age of the cache, touch no plan; and an entry of the
\* cache answers only under its own version.
LEMMA PlanReads ==
    ASSUME PlanInv,
           \/ Plans!LoadPlan \/ Plans!LoadDefinition \/ Plans!Get \/ Plans!Answered
           \/ \E id \in Plans!Ids : Plans!Expires(id)
           \/ UNCHANGED planVars
    PROVE  PlanInv'
<1>1. UNCHANGED <<planProfile, planDefinitions, planCalls, planOrderly>>
  BY DEF Plans!LoadPlan, Plans!LoadDefinition, Plans!Get, Plans!LookUp, Plans!Answered,
     Plans!Reads, Plans!Expires, planVars
<1>2. Plans!AnswerIsCurrent'
  BY DEF Plans!LoadPlan, Plans!LoadDefinition, Plans!Get, Plans!LookUp, Plans!Answered,
     Plans!Reads, Plans!Expires, planVars, Plans!Idle, Plans!Fallback, PlanInv,
     Plans!AnswerIsCurrent
<1>3. PlanShape' /\ (PlanGood' <=> PlanGood) /\ (Plans!Quiet' <=> Plans!Quiet)
  BY <1>1 DEF PlanInv, PlanShape, PlanGood, PlanReady, Plans!Rows, Plans!Quiet
<1>4. \A s \in Slots : PlanPhase(planCalls[s])' <=> PlanPhase(planCalls[s])
  BY <1>1, <1>3 DEF PlanPhase, PlanReady, Plans!Rows
<1> QED
  BY <1>1, <1>2, <1>3, <1>4 DEF PlanInv

LEMMA PlanNext == ASSUME PlanInv, [Plans!Next]_planVars PROVE PlanInv'
<1>1. ASSUME NEW s \in Slots,
             \/ \E plan \in Catalog : Plans!BeginCatalog(s, plan) \/ Plans!BeginRevise(s, plan)
             \/ \E id \in Customs : Plans!BeginCustom(s, id) \/ Plans!BeginExtra(s, id)
             \/ Plans!Create(s) \/ Plans!Deactivate(s) \/ Plans!Update(s) \/ Plans!Forget(s)
             \/ Plans!Revise(s) \/ Plans!Dies(s)
      PROVE  PlanInv'
  BY <1>1, PlanBegin, PlanCreate, PlanDeactivate, PlanUpdate, PlanForget, PlanRevise, PlanDies
<1>2. ASSUME NEW plan \in Catalog, Plans!SyncProfilePlan(plan) PROVE PlanInv'
  BY <1>2, PlanSync
<1> QED
  BY <1>1, <1>2, PlanReads DEF Plans!Next

-----------------------------------------------------------------------------
(* PlanEntitlements: the limits in force.                                   *)

LEMMA LimitNames ==
    /\ Entitlements!Limits = {"max", "radiusMetersMax", "itemsMax", "photosPerItemMax",
                              "queryExpansionEnabled", "broadcastDelayMs", "broadcastTier"}
    /\ Entitlements!V1Limits \subseteq Entitlements!Limits
    /\ \A l \in Entitlements!Limits : Entitlements!Group[l] \in Entitlements!Groups
  BY DEF Entitlements!Limits, Entitlements!Group, Entitlements!Groups, Entitlements!V1Limits

AnyLimits == [Entitlements!Limits -> Entitlements!Leaves]
ValidLimits == {f \in AnyLimits : \A l \in Entitlements!Limits : Entitlements!Valid(l, f[l])}

\* A value that is valid is there; and what stands in for one is valid.
LEMMA ValidIsThere ==
    ASSUME NEW l \in Entitlements!Limits, NEW v, Entitlements!Valid(l, v)
    PROVE  v # Absent /\ v \in Entitlements!Leaves
  BY LimitNames, EntitlementAssumption DEF Entitlements!Valid, Entitlements!Leaves

LEMMA DefaultsAreValid ==
    Entitlements!Defaults \in ValidLimits /\ Entitlements!Plan \in ValidLimits
<1>1. \A l \in Entitlements!Limits :
         /\ Entitlements!Valid(l, Entitlements!Defaults[l])
         /\ Entitlements!Valid(l, Entitlements!Plan[l])
  BY LimitNames, EntitlementAssumption DEF Entitlements!Valid, Entitlements!Defaults,
     Entitlements!Plan
<1>2. Entitlements!Defaults \in AnyLimits /\ Entitlements!Plan \in AnyLimits
  BY <1>1, ValidIsThere DEF Entitlements!Defaults, Entitlements!Plan, AnyLimits
<1> QED
  BY <1>1, <1>2 DEF ValidLimits

\* A canonical plan is read back as it was stored.
LEMMA CanonicalReads ==
    ASSUME NEW limits \in AnyLimits
    PROVE  LET r == Entitlements!Canonical(limits) IN
           /\ r.v2 = limits /\ r.object /\ ~Entitlements!IsV1Shape(r)
           /\ \A g \in Entitlements!Groups : r.groups[g] = "record"
           /\ r.v1 = Entitlements!NoV1 /\ r.schemaVersion = 2
  BY DEF Entitlements!Canonical, Entitlements!IsV1Shape, Entitlements!NoV1, Entitlements!V1Limits

LEMMA CanonicalMerges ==
    ASSUME NEW limits \in ValidLimits
    PROVE  /\ Entitlements!Merge(Entitlements!Canonical(limits)) = limits
           /\ limits # Absent
<1> DEFINE r == Entitlements!Canonical(limits)
<1>1. limits \in AnyLimits /\ limits # Absent
  BY EntitlementAssumption DEF ValidLimits, AnyLimits
<1>2. /\ r.v2 = limits /\ r.object /\ ~Entitlements!IsV1Shape(r)
      /\ \A g \in Entitlements!Groups : r.groups[g] = "record"
  BY <1>1, CanonicalReads
<1>3. \A l \in Entitlements!Limits :
         /\ r.groups[Entitlements!Group[l]] = "record" /\ Entitlements!Valid(l, r.v2[l])
         /\ limits[l] # Absent
  BY <1>2, LimitNames, ValidIsThere DEF ValidLimits
<1>4. Entitlements!ParseV2(r) = limits
  BY <1>2, <1>3 DEF Entitlements!ParseV2
<1>5. Entitlements!Normalize(r) = limits
  BY <1>2, <1>4 DEF Entitlements!Normalize
<1>6. limits = [l \in Entitlements!Limits |->
                   IF limits[l] = Absent THEN Entitlements!Defaults[l] ELSE limits[l]]
  BY <1>1, <1>3 DEF AnyLimits
<1> QED
  BY <1>1, <1>5, <1>6 DEF Entitlements!Merge

LEMMA VariedType ==
    ASSUME NEW names, NEW bases, bases \subseteq [names -> Entitlements!Leaves]
    PROVE  Entitlements!Varied(bases, names) \subseteq [names -> Entitlements!Leaves]
<1>1. ASSUME NEW f \in Entitlements!Varied(bases, names)
      PROVE  f \in [names -> Entitlements!Leaves]
  <2>1. PICK base \in bases, l \in names, v \in Entitlements!Leaves : f = [base EXCEPT ![l] = v]
    BY DEF Entitlements!Varied
  <2> QED
    BY <2>1
<1> QED
  BY <1>1

LEMMA PayloadShape ==
    ASSUME NEW raw \in Entitlements!Payloads
    PROVE  raw.v2 \in AnyLimits
<1>1. Entitlements!Plan \in AnyLimits
  BY DefaultsAreValid DEF ValidLimits
<1>2. \A limits \in AnyLimits : Entitlements!Canonical(limits).v2 = limits
  BY CanonicalReads
<1>3. Entitlements!Varied(Entitlements!Varied({Entitlements!Plan}, Entitlements!Limits),
                          Entitlements!Limits) \subseteq AnyLimits
  <2>1. Entitlements!Varied({Entitlements!Plan}, Entitlements!Limits) \subseteq AnyLimits
    BY <1>1, VariedType DEF AnyLimits
  <2> QED
    BY <2>1, VariedType DEF AnyLimits
<1>4. CASE \E limits \in Entitlements!Varied(
                Entitlements!Varied({Entitlements!Plan}, Entitlements!Limits),
                Entitlements!Limits) : raw = Entitlements!Canonical(limits)
  BY <1>2, <1>3, <1>4
<1> DEFINE base == Entitlements!Canonical(Entitlements!Plan)
<1>5. CASE \E v \in {Absent, 1, 2}, g \in Entitlements!Groups, s \in Entitlements!Shapes,
              old \in Entitlements!Varied({Entitlements!NoV1, Entitlements!V1Plan},
                                         Entitlements!V1Limits) :
              raw = Entitlements!Reshaped(v, g, s, old)
  <2>1. raw.v2 = base.v2
    BY <1>5 DEF Entitlements!Reshaped, Entitlements!Canonical
  <2> QED
    BY <1>1, <1>2, <2>1
<1>6. CASE raw = [base EXCEPT !.object = FALSE]
  <2>1. raw.v2 = base.v2
    BY <1>6 DEF Entitlements!Canonical
  <2> QED
    BY <1>1, <1>2, <2>1
<1> HIDE DEF base
<1> QED
  BY <1>4, <1>5, <1>6 DEF Entitlements!Payloads, base

\* A row of the first schema, every value of its type.
OldRow(r) ==
    /\ r.object /\ r.schemaVersion = Absent /\ r.v2 \in AnyLimits
    /\ r.v1 \in [Entitlements!V1Limits -> Entitlements!Leaves]
    /\ \A l \in Entitlements!V1Limits : Entitlements!Valid(l, r.v1[l])
    /\ \A g \in Entitlements!Groups : r.groups[g] = "absent"

GrantRow(r) ==
    \/ \E limits \in ValidLimits : r = Entitlements!Canonical(limits)
    \/ OldRow(r)

LEMMA OldRowsAreOld == ASSUME NEW r \in Entitlements!OldRows PROVE OldRow(r)
<1> DEFINE base == Entitlements!Canonical([l \in Entitlements!Limits |-> Absent])
           empty == [g \in Entitlements!Groups |-> "absent"]
<1>1. PICK old \in Entitlements!Varied({Entitlements!V1Plan}, Entitlements!V1Limits) :
         /\ \A l \in Entitlements!V1Limits : Entitlements!Valid(l, old[l])
         /\ r = [base EXCEPT !.schemaVersion = Absent, !.groups = empty, !.v1 = old]
  BY DEF Entitlements!OldRows
<1>2. old \in [Entitlements!V1Limits -> Entitlements!Leaves]
  <2>1. {Entitlements!V1Plan} \subseteq [Entitlements!V1Limits -> Entitlements!Leaves]
    BY EntitlementAssumption DEF Entitlements!V1Plan, Entitlements!Leaves
  <2> QED
    BY <2>1, VariedType
<1>3. /\ r.object /\ r.v1 = old /\ r.groups = empty /\ r.schemaVersion = Absent
      /\ r.v2 = [l \in Entitlements!Limits |-> Absent]
  BY <1>1 DEF Entitlements!Canonical
<1>4. r.v2 \in AnyLimits
  BY <1>3 DEF AnyLimits, Entitlements!Leaves
<1> QED
  BY <1>1, <1>2, <1>3, <1>4 DEF OldRow

\* Either schema can be read, and every limit in force is the one written.
LEMMA RowsAreWritten ==
    ASSUME GrantRow(grantRow)
    PROVE  /\ Entitlements!Merge(grantRow) \in ValidLimits
           /\ \A l \in Entitlements!Limits :
                 Entitlements!Merge(grantRow)[l] = Entitlements!Written(l)
<1>1. ASSUME NEW limits \in ValidLimits, grantRow = Entitlements!Canonical(limits)
      PROVE  /\ Entitlements!Merge(grantRow) \in ValidLimits
             /\ \A l \in Entitlements!Limits :
                   Entitlements!Merge(grantRow)[l] = Entitlements!Written(l)
  <2>1. Entitlements!Merge(grantRow) = limits
    BY <1>1, CanonicalMerges
  <2>2. limits \in AnyLimits
    BY DEF ValidLimits
  <2>3. /\ grantRow.v2 = limits
        /\ \A l \in Entitlements!Limits : grantRow.groups[Entitlements!Group[l]] = "record"
    BY <1>1, <2>2, CanonicalReads, LimitNames
  <2> QED
    BY <2>1, <2>3 DEF Entitlements!Written
<1>2. ASSUME OldRow(grantRow)
      PROVE  /\ Entitlements!Merge(grantRow) \in ValidLimits
             /\ \A l \in Entitlements!Limits :
                   Entitlements!Merge(grantRow)[l] = Entitlements!Written(l)
  <2> DEFINE limits == [l \in Entitlements!Limits |->
                           IF l \in Entitlements!V1Limits THEN grantRow.v1[l]
                           ELSE Entitlements!Defaults[l]]
  <2>1. limits \in ValidLimits
    <3>1. \A l \in Entitlements!Limits : Entitlements!Valid(l, limits[l])
      BY <1>2, DefaultsAreValid DEF OldRow, ValidLimits
    <3>2. limits \in AnyLimits
      BY <3>1, ValidIsThere DEF AnyLimits
    <3> QED
      BY <3>1, <3>2 DEF ValidLimits
  <2>2. grantRow.v1["max"] # Absent
    BY <1>2, LimitNames, ValidIsThere DEF OldRow, Entitlements!V1Limits
  <2>3. Entitlements!Normalize(grantRow) = limits
    BY <1>2, <2>2 DEF OldRow, Entitlements!Normalize, Entitlements!IsV1Shape, Entitlements!FromV1
  <2>4. limits # Absent /\ \A l \in Entitlements!Limits : limits[l] # Absent
    BY <2>1, ValidIsThere, CanonicalMerges DEF ValidLimits
  <2>5. \A l \in Entitlements!Limits : limits[l] = Entitlements!Written(l)
    BY <1>2, LimitNames DEF OldRow, Entitlements!Written
  <2> HIDE DEF limits
  <2>6. Entitlements!Merge(grantRow) = limits
    BY <2>1, <2>3, <2>4 DEF Entitlements!Merge, ValidLimits, AnyLimits
  <2> QED
    BY <2>1, <2>5, <2>6
<1> QED
  BY <1>1, <1>2 DEF GrantRow

GrantInv ==
    /\ GrantRow(grantRow)
    /\ grantSent # Absent =>
          /\ grantRow \in {grantSent.before, Entitlements!Canonical(grantSent.payload.v2)}
          /\ Entitlements!Clean(grantSent.payload) =>
                grantRow = Entitlements!Canonical(grantSent.payload.v2)
    /\ grantTried # Absent =>
          /\ grantTried.capability \in Entitlements!Capabilities /\ grantTried.amount \in Numbers
          /\ grantTried.granted = Entitlements!Grants(grantTried.capability,
                                      Entitlements!Merge(grantRow), grantTried.amount)

LEMMA GrantInit == Entitlements!Init => GrantInv
<1> SUFFICES ASSUME Entitlements!Init PROVE GrantInv
  OBVIOUS
<1>1. GrantRow(grantRow)
  BY OldRowsAreOld, DefaultsAreValid DEF Entitlements!Init, GrantRow
<1> QED
  BY <1>1 DEF Entitlements!Init, GrantInv

\* An accepted payload is of the second schema and is stored value for value.
LEMMA GrantSend ==
    ASSUME GrantInv, NEW raw \in Entitlements!Payloads, Entitlements!Send(raw)
    PROVE  GrantInv'
<1>1. /\ grantSent' = [payload |-> raw, before |-> grantRow] /\ grantTried' = Absent
      /\ grantRow' = IF Entitlements!Parse(raw) = Absent THEN grantRow
                     ELSE Entitlements!Canonical(Entitlements!Merge(
                             Entitlements!Canonical(Entitlements!Parse(raw))))
  BY DEF Entitlements!Send
<1>2. raw.v2 \in AnyLimits /\ raw.v2 # Absent
  BY PayloadShape, EntitlementAssumption DEF AnyLimits
<1>3. ASSUME Entitlements!Parse(raw) # Absent
      PROVE  raw.v2 \in ValidLimits /\ grantRow' = Entitlements!Canonical(raw.v2)
  <2>1. Entitlements!Parse(raw) = raw.v2 /\ raw.v2 \in ValidLimits
    BY <1>2, <1>3 DEF Entitlements!Parse, Entitlements!ParseV2, ValidLimits
  <2> QED
    BY <1>1, <1>3, <2>1, CanonicalMerges
<1>4. ASSUME Entitlements!Clean(raw) PROVE Entitlements!Parse(raw) # Absent
  <2>1. raw.object /\ raw.schemaVersion \in {Absent, 2} /\ ~Entitlements!IsV1Shape(raw)
    BY <1>4 DEF Entitlements!Clean, Entitlements!IsV1Shape, Entitlements!V1Limits
  <2>2. Entitlements!ParseV2(raw) = raw.v2
    BY <1>4, LimitNames DEF Entitlements!Clean, Entitlements!ParseV2
  <2> QED
    BY <1>2, <2>1, <2>2 DEF Entitlements!Parse
<1>5. GrantRow(grantRow)'
  <2>1. CASE Entitlements!Parse(raw) = Absent
    BY <1>1, <2>1 DEF GrantInv
  <2>2. CASE Entitlements!Parse(raw) # Absent
    BY <1>3, <2>2 DEF GrantRow
  <2> QED
    BY <2>1, <2>2
<1>6. grantSent'.payload = raw /\ grantSent'.before = grantRow
  BY <1>1
<1> QED
  BY <1>1, <1>3, <1>4, <1>5, <1>6 DEF GrantInv

LEMMA GrantNext == ASSUME GrantInv, [Entitlements!Next]_grantVars PROVE GrantInv'
<1>1. ASSUME NEW raw \in Entitlements!Payloads, Entitlements!Send(raw) PROVE GrantInv'
  BY <1>1, GrantSend
<1>2. ASSUME NEW capability \in Entitlements!Capabilities, NEW amount \in Numbers,
             Entitlements!Try(capability, amount)
      PROVE  GrantInv'
  <2>1. /\ grantTried' = [capability |-> capability, amount |-> amount,
                          granted |-> Entitlements!Grants(capability,
                                         Entitlements!Merge(grantRow), amount)]
        /\ grantSent' = Absent /\ grantRow' = grantRow
    BY <1>2 DEF Entitlements!Try
  <2>2. /\ grantTried'.capability = capability /\ grantTried'.amount = amount
        /\ grantTried'.granted = Entitlements!Grants(capability, Entitlements!Merge(grantRow), amount)
    BY <2>1
  <2>3. Entitlements!Merge(grantRow)' = Entitlements!Merge(grantRow)
    BY <2>1
  <2> QED
    BY <1>2, <2>1, <2>2, <2>3 DEF GrantInv
<1>3. CASE UNCHANGED grantVars
  BY <1>3 DEF grantVars, GrantInv, GrantRow, OldRow
<1> QED
  BY <1>1, <1>2, <1>3 DEF Entitlements!Next

LEMMA GrantsAreWritten == GrantInv => Entitlements!LimitsAreAsWritten
<1> SUFFICES ASSUME GrantInv PROVE Entitlements!LimitsAreAsWritten
  OBVIOUS
<1> DEFINE limits == Entitlements!Merge(grantRow)
<1>1. limits \in ValidLimits /\ \A l \in Entitlements!Limits : limits[l] = Entitlements!Written(l)
  BY RowsAreWritten DEF GrantInv
<1>2. limits # Absent /\ Entitlements!Merge(Entitlements!Canonical(limits)) = limits
  BY <1>1, CanonicalMerges
<1>3. /\ limits["max"] = Entitlements!Written("max")
      /\ limits["itemsMax"] = Entitlements!Written("itemsMax")
      /\ limits["max"] \in Numbers \cup {Null} /\ limits["itemsMax"] \in Numbers
  BY <1>1, LimitNames DEF ValidLimits, Entitlements!Valid
<1> HIDE DEF limits
<1>4. ASSUME grantTried # Absent, grantTried.granted,
             grantTried.capability = "serviceArea.create"
      PROVE  Entitlements!Written("max") = Null
             \/ grantTried.amount + 1 <= Entitlements!Written("max")
  <2>1. grantTried.amount \in Nat
        /\ Entitlements!Grants("serviceArea.create", limits, grantTried.amount)
    BY <1>4, EntitlementAssumption DEF GrantInv, limits
  <2> QED
    BY <1>3, <2>1, EntitlementAssumption DEF Entitlements!Grants
<1>5. ASSUME grantTried # Absent, grantTried.granted,
             grantTried.capability = "portfolio.item.create"
      PROVE  grantTried.amount + 1 <= Entitlements!Written("itemsMax")
  <2>1. grantTried.amount \in Nat
        /\ Entitlements!Grants("portfolio.item.create", limits, grantTried.amount)
    BY <1>5, EntitlementAssumption DEF GrantInv, limits
  <2> QED
    BY <1>3, <2>1, EntitlementAssumption DEF Entitlements!Grants, Entitlements!Least
<1> QED
  BY <1>1, <1>2, <1>4, <1>5 DEF GrantInv, Entitlements!LimitsAreAsWritten, limits

-----------------------------------------------------------------------------
(* Registration                                                            *)

RegisterCalls ==
    [pc : {"idle"}]
    \cup [pc : {"company"}, user : Users, rut : Ruts]
    \cup [pc : {"profile"}, user : Users, rut : Ruts \cup {NoRut}, promotes : BOOLEAN]
    \cup [pc : {"employee"}, user : Users, admin : Users]
    \cup [pc : {"invalidate"}, user : Users]

RegisterShape ==
    /\ registerRole \in [Users -> Register!Role]
    /\ registerCompany \in [DOMAIN registerCompany -> Ruts]
    /\ registerProfile \in [DOMAIN registerProfile -> Ruts \cup {NoRut}]
    /\ registerEmployer \in [DOMAIN registerEmployer -> Users]
    /\ DOMAIN registerCompany \subseteq Users /\ DOMAIN registerProfile \subseteq Users
    /\ DOMAIN registerEmployer \subseteq Users
    /\ registerCalls \in [Slots -> RegisterCalls]
    /\ registerCache \in [Users -> Register!Role \cup {"none"}]
    /\ registerLookups \in [Users -> Register!Role \cup {"none"}]
    /\ registerOrderly \in BOOLEAN

\* What a request has checked still holds: its user owns nothing yet, and its
\* number is nobody's.
RegisterChecked(c) ==
    /\ c.pc \in {"company", "profile", "employee"} => registerRole[c.user] = "CLIENT"
    /\ c.pc \in {"company", "profile"} =>
          c.rut \notin Register!RutsOf(registerCompany) \cup Register!RutsOf(registerProfile)
    /\ c.pc = "profile" => c.promotes

\* While the history is orderly one request or one lookup is under way.
RegisterAlone ==
    /\ \A s \in Slots : registerCalls[s] # Register!Idle =>
          /\ RegisterChecked(registerCalls[s])
          /\ \A t \in Slots \ {s} : registerCalls[t] = Register!Idle
          /\ \A u \in Users : registerLookups[u] = "none"
    /\ \A u \in Users : registerLookups[u] # "none" =>
          /\ registerLookups[u] = registerRole[u]
          /\ \A s \in Slots : registerCalls[s] = Register!Idle
          /\ \A v \in Users \ {u} : registerLookups[v] = "none"

\* A stale entry of the cache is about to be forgotten.
RegisterCached ==
    \A u \in Users :
        \/ registerCache[u] \in {"none", registerRole[u]}
        \/ \E s \in Slots : registerCalls[s].pc = "invalidate" /\ registerCalls[s].user = u

RegisterOwned == Register!OneSubjectPerRut /\ Register!RoleSaysWhatIsOwned

RegisterInv ==
    RegisterShape /\ (registerOrderly => RegisterOwned /\ RegisterAlone /\ RegisterCached)

LEMMA RegisterFields ==
    ASSUME NEW c \in RegisterCalls
    PROVE  /\ c = Register!Idle <=> c.pc = "idle"
           /\ c.pc \in {"idle", "company", "profile", "employee", "invalidate"}
           /\ c.pc # "idle" => c.user \in Users
           /\ c.pc = "company" => c.rut \in Ruts
           /\ c.pc = "profile" => c.rut \in Ruts \cup {NoRut} /\ c.promotes \in BOOLEAN
           /\ c.pc = "employee" => c.admin \in Users
BY DEF RegisterCalls, Register!Idle

LEMMA RegisterInit == Register!Init => RegisterInv
<1> SUFFICES ASSUME Register!Init PROVE RegisterInv
  OBVIOUS
<1>1. RegisterShape
  BY DEF Register!Init, RegisterShape, RegisterCalls, Register!Idle, Register!Empty, Register!Role
<1>2. Register!OneSubjectPerRut
  BY DEF Register!Init, Register!OneSubjectPerRut, Register!Empty, Register!RutsOf
<1>3. Register!RoleSaysWhatIsOwned
  BY DEF Register!Init, Register!RoleSaysWhatIsOwned, Register!Empty
<1>4. RegisterAlone /\ RegisterCached
  BY DEF Register!Init, RegisterAlone, RegisterCached
<1> QED
  BY <1>1, <1>2, <1>3, <1>4 DEF RegisterInv, RegisterOwned

\* A new row.
LEMMA RegisterWith ==
    ASSUME NEW f, NEW u, NEW x
    PROVE  /\ DOMAIN Register!With(f, u, x) = DOMAIN f \cup {u}
           /\ Register!With(f, u, x)[u] = x
           /\ \A v \in DOMAIN f \ {u} : Register!With(f, u, x)[v] = f[v]
BY DEF Register!With

\* The rows alone: a transaction that adds a row for a client keeps one subject
\* per number and the roles.
LEMMA RegisterAdds ==
    ASSUME RegisterShape, RegisterOwned, NEW u \in Users, registerRole[u] = "CLIENT",
           NEW x \in Ruts \cup {NoRut},
           x \notin Register!RutsOf(registerCompany) \cup Register!RutsOf(registerProfile),
           \/ /\ registerCompany' = Register!With(registerCompany, u, x) /\ x \in Ruts
              /\ registerRole' = [registerRole EXCEPT ![u] = "COMPANY_ADMIN"]
              /\ UNCHANGED <<registerProfile, registerEmployer>>
           \/ /\ registerProfile' = Register!With(registerProfile, u, x)
              /\ registerRole' = [registerRole EXCEPT ![u] = "INDEPENDENT_PRO"]
              /\ UNCHANGED <<registerCompany, registerEmployer>>
    PROVE  RegisterOwned'
<1>1. /\ u \notin DOMAIN registerCompany /\ u \notin DOMAIN registerProfile
      /\ u \notin DOMAIN registerEmployer
  BY DEF RegisterOwned, Register!RoleSaysWhatIsOwned
<1>2. Register!RoleSaysWhatIsOwned'
  <2>1. /\ registerRole \in [Users -> Register!Role]
        /\ Register!RoleSaysWhatIsOwned
    BY DEF RegisterShape, RegisterOwned
  <2>2. ASSUME registerCompany' = Register!With(registerCompany, u, x),
               registerRole' = [registerRole EXCEPT ![u] = "COMPANY_ADMIN"],
               UNCHANGED <<registerProfile, registerEmployer>>
        PROVE  Register!RoleSaysWhatIsOwned'
    <3>1. DOMAIN registerCompany' = DOMAIN registerCompany \cup {u}
      BY <2>2, RegisterWith
    <3> QED
      BY <1>1, <2>1, <2>2, <3>1 DEF Register!RoleSaysWhatIsOwned
  <2>3. ASSUME registerProfile' = Register!With(registerProfile, u, x),
               registerRole' = [registerRole EXCEPT ![u] = "INDEPENDENT_PRO"],
               UNCHANGED <<registerCompany, registerEmployer>>
        PROVE  Register!RoleSaysWhatIsOwned'
    <3>1. DOMAIN registerProfile' = DOMAIN registerProfile \cup {u}
      BY <2>3, RegisterWith
    <3> QED
      BY <1>1, <2>1, <2>3, <3>1 DEF Register!RoleSaysWhatIsOwned
  <2> QED
    BY <2>2, <2>3
<1>3. ASSUME NEW f, f \in [DOMAIN f -> Ruts \cup {NoRut}], u \notin DOMAIN f,
             x \notin Register!RutsOf(f),
             \A v, w \in DOMAIN f : f[v] = f[w] /\ f[v] # NoRut => v = w
      PROVE  /\ Register!RutsOf(Register!With(f, u, x)) \subseteq Register!RutsOf(f) \cup ({x} \ {NoRut})
             /\ \A v, w \in DOMAIN Register!With(f, u, x) :
                   Register!With(f, u, x)[v] = Register!With(f, u, x)[w]
                     /\ Register!With(f, u, x)[v] # NoRut => v = w
  <2> DEFINE g == Register!With(f, u, x)
  <2>1. /\ DOMAIN g = DOMAIN f \cup {u} /\ g[u] = x /\ \A v \in DOMAIN f \ {u} : g[v] = f[v]
    BY DEF Register!With
  <2> HIDE DEF g
  <2>2. Register!RutsOf(g) \subseteq Register!RutsOf(f) \cup ({x} \ {NoRut})
    BY <2>1 DEF Register!RutsOf
  <2>3. \A v \in DOMAIN f : f[v] # NoRut => f[v] # x
    BY <1>3 DEF Register!RutsOf
  <2>4. \A v, w \in DOMAIN g : g[v] = g[w] /\ g[v] # NoRut => v = w
    BY <1>3, <2>1, <2>3
  <2> QED
    BY <2>2, <2>4 DEF g
<1>4. /\ registerCompany \in [DOMAIN registerCompany -> Ruts \cup {NoRut}]
      /\ registerProfile \in [DOMAIN registerProfile -> Ruts \cup {NoRut}]
      /\ Register!RutsOf(registerCompany) \cap Register!RutsOf(registerProfile) = {}
      /\ \A v, w \in DOMAIN registerCompany :
            registerCompany[v] = registerCompany[w] /\ registerCompany[v] # NoRut => v = w
      /\ \A v, w \in DOMAIN registerProfile :
            registerProfile[v] = registerProfile[w] /\ registerProfile[v] # NoRut => v = w
  BY DEF RegisterShape, RegisterOwned, Register!OneSubjectPerRut
<1>5. Register!OneSubjectPerRut'
  <2>1. CASE registerCompany' = Register!With(registerCompany, u, x) /\ registerProfile' = registerProfile
    <3>1. /\ Register!RutsOf(registerCompany') \subseteq Register!RutsOf(registerCompany) \cup {x}
          /\ \A v, w \in DOMAIN registerCompany' :
                registerCompany'[v] = registerCompany'[w] /\ registerCompany'[v] # NoRut => v = w
      BY <1>1, <1>3, <1>4, <2>1
    <3> QED
      BY <1>4, <2>1, <3>1 DEF Register!OneSubjectPerRut
  <2>2. CASE registerProfile' = Register!With(registerProfile, u, x) /\ registerCompany' = registerCompany
    <3>1. /\ Register!RutsOf(registerProfile') \subseteq Register!RutsOf(registerProfile) \cup {x}
          /\ \A v, w \in DOMAIN registerProfile' :
                registerProfile'[v] = registerProfile'[w] /\ registerProfile'[v] # NoRut => v = w
      BY <1>1, <1>3, <1>4, <2>2
    <3> QED
      BY <1>4, <2>2, <3>1 DEF Register!OneSubjectPerRut
  <2> QED
    BY <2>1, <2>2
<1> QED
  BY <1>2, <1>5 DEF RegisterOwned

LEMMA RegisterBegins ==
    ASSUME RegisterInv, NEW s \in Slots, NEW call \in RegisterCalls, call # Register!Idle,
           Register!Begin(s, call), RegisterOwned => RegisterChecked(call)
    PROVE  RegisterInv'
<1>1. /\ registerCalls[s] = Register!Idle /\ registerCalls' = [registerCalls EXCEPT ![s] = call]
      /\ registerOrderly' = (registerOrderly /\ Register!Quiet)
      /\ UNCHANGED <<registerRole, registerCompany, registerProfile, registerEmployer,
                     registerCache, registerLookups>>
  BY DEF Register!Begin, Register!rows
<1>2. /\ registerCalls' \in [Slots -> RegisterCalls] /\ registerCalls'[s] = call
      /\ \A t \in Slots \ {s} : registerCalls'[t] = registerCalls[t]
  BY <1>1 DEF RegisterInv, RegisterShape
<1>3. RegisterShape'
  BY <1>1, <1>2 DEF RegisterInv, RegisterShape
<1>4. ASSUME registerOrderly' PROVE (RegisterOwned /\ RegisterAlone /\ RegisterCached)'
  <2>1. /\ RegisterOwned /\ RegisterCached /\ RegisterChecked(call)
        /\ \A t \in Slots : registerCalls[t] = Register!Idle
        /\ \A u \in Users : registerLookups[u] = "none"
    BY <1>1, <1>4 DEF RegisterInv, Register!Quiet
  <2>2. RegisterOwned'
    BY <1>1, <2>1 DEF RegisterOwned, Register!OneSubjectPerRut, Register!RoleSaysWhatIsOwned,
                      Register!RutsOf
  <2>3. RegisterChecked(call)'
    BY <1>1, <2>1 DEF RegisterChecked, Register!RutsOf
  <2>4. RegisterAlone'
    BY <1>1, <1>2, <2>1, <2>3 DEF RegisterAlone, RegisterChecked, Register!RutsOf
  <2>5. RegisterCached'
    BY <1>1, <1>2, <2>1 DEF RegisterCached, Register!Idle
  <2> QED
    BY <2>2, <2>4, <2>5
<1> QED
  BY <1>3, <1>4 DEF RegisterInv

\* createCompany, createProfessionalProfile, createEmployee: the checks
LEMMA RegisterChecks ==
    ASSUME RegisterInv, NEW s \in Slots, NEW u \in Users,
           \/ \E rut \in Ruts : Register!BeginCompany(s, u, rut)
           \/ \E rut \in Ruts \cup {NoRut} : Register!BeginProfile(s, u, rut)
           \/ \E admin \in Users : Register!BeginEmployee(s, admin, u)
    PROVE  RegisterInv'
<1>1. ASSUME NEW rut \in Ruts, Register!BeginCompany(s, u, rut) PROVE RegisterInv'
  <2> DEFINE call == [pc |-> "company", user |-> u, rut |-> rut]
  <2>1. call \in RegisterCalls /\ call # Register!Idle /\ Register!Begin(s, call)
    BY <1>1 DEF Register!BeginCompany, RegisterCalls, Register!Idle
  <2>2. RegisterChecked(call)
    BY <1>1 DEF Register!BeginCompany, Register!RutAvailable, RegisterChecked
  <2> HIDE DEF call
  <2> QED
    BY <2>1, <2>2, RegisterBegins
<1>2. ASSUME NEW rut \in Ruts \cup {NoRut}, Register!BeginProfile(s, u, rut) PROVE RegisterInv'
  <2> DEFINE promotes == registerRole[u] = "CLIENT"
             call == [pc |-> "profile", user |-> u, rut |-> rut, promotes |-> promotes]
  <2>0. promotes \in BOOLEAN
    OBVIOUS
  <2>1. Register!Begin(s, call)
    BY <1>2 DEF Register!BeginProfile
  <2>2. /\ u \notin DOMAIN registerProfile
        /\ registerRole[u] \in {"CLIENT", "INDEPENDENT_PRO"}
        /\ rut \notin Register!RutsOf(registerCompany) \cup Register!RutsOf(registerProfile)
    BY <1>2 DEF Register!BeginProfile, Register!RutAvailable
  <2>3. RegisterOwned => registerRole[u] = "CLIENT" /\ promotes
    BY <2>2 DEF RegisterOwned, Register!RoleSaysWhatIsOwned
  <2> HIDE DEF promotes
  <2>4. call \in RegisterCalls /\ call # Register!Idle
    BY <2>0 DEF RegisterCalls, Register!Idle
  <2>5. RegisterOwned => RegisterChecked(call)
    BY <2>2, <2>3 DEF RegisterChecked
  <2> HIDE DEF call
  <2> QED
    BY <2>1, <2>4, <2>5, RegisterBegins
<1>3. ASSUME NEW admin \in Users, Register!BeginEmployee(s, admin, u) PROVE RegisterInv'
  <2> DEFINE call == [pc |-> "employee", user |-> u, admin |-> admin]
  <2>1. call \in RegisterCalls /\ call # Register!Idle /\ Register!Begin(s, call)
    BY <1>3 DEF Register!BeginEmployee, RegisterCalls, Register!Idle
  <2>2. RegisterChecked(call)
    BY <1>3 DEF Register!BeginEmployee, RegisterChecked
  <2> HIDE DEF call
  <2> QED
    BY <2>1, <2>2, RegisterBegins
<1> QED
  BY <1>1, <1>2, <1>3

\* The transaction is over: the row is there and the cached role still stale.
RegisterWrote(s, u, role) ==
    /\ registerCalls' = [registerCalls EXCEPT ![s] = [pc |-> "invalidate", user |-> u]]
    /\ registerRole' = [registerRole EXCEPT ![u] = role]
    /\ UNCHANGED <<registerCache, registerLookups, registerOrderly>>

LEMMA RegisterWritten ==
    ASSUME RegisterInv, RegisterShape', RegisterOwned', registerOrderly, NEW s \in Slots,
           registerCalls[s].pc \in {"company", "profile", "employee"},
           NEW role, RegisterWrote(s, registerCalls[s].user, role)
    PROVE  RegisterInv'
<1> DEFINE u == registerCalls[s].user
<1>1. /\ registerCalls[s] # Register!Idle /\ u \in Users
      /\ registerRole \in [Users -> Register!Role] /\ registerCalls \in [Slots -> RegisterCalls]
  BY RegisterFields DEF RegisterInv, RegisterShape
<1>2. /\ \A t \in Slots \ {s} : registerCalls[t] = Register!Idle
      /\ \A v \in Users : registerLookups[v] = "none"
      /\ RegisterCached
  BY <1>1 DEF RegisterInv, RegisterAlone
<1>3. \A v \in Users : registerCache[v] \in {"none", registerRole[v]}
  <2>1. \A t \in Slots : registerCalls[t].pc # "invalidate"
    BY <1>2 DEF Register!Idle
  <2> QED
    BY <1>2, <2>1 DEF RegisterCached
<1> HIDE DEF u
<1>4. /\ registerCalls'[s].pc = "invalidate" /\ registerCalls'[s].user = u
      /\ \A t \in Slots \ {s} : registerCalls'[t] = Register!Idle
      /\ \A v \in Users \ {u} : registerRole'[v] = registerRole[v]
      /\ UNCHANGED <<registerCache, registerLookups, registerOrderly>>
  BY <1>1, <1>2 DEF RegisterWrote, u
<1>5. RegisterAlone'
  BY <1>2, <1>4 DEF RegisterAlone, RegisterChecked
<1>6. RegisterCached'
  BY <1>1, <1>3, <1>4 DEF RegisterCached
<1> QED
  BY <1>5, <1>6 DEF RegisterInv

\* createCompanyWithAudit
LEMMA RegisterCompany == ASSUME RegisterInv, NEW s \in Slots, Register!CreateCompany(s) PROVE RegisterInv'
<1> DEFINE c == registerCalls[s]
           refused == c.user \in DOMAIN registerCompany \/ c.rut \in Register!RutsOf(registerCompany)
           next == IF ~refused THEN [pc |-> "invalidate", user |-> c.user] ELSE Register!Idle
<1>1. /\ c.pc = "company" /\ registerCalls' = [registerCalls EXCEPT ![s] = next]
      /\ registerCompany' = IF refused THEN registerCompany ELSE Register!With(registerCompany, c.user, c.rut)
      /\ registerRole' = IF refused THEN registerRole
                         ELSE [registerRole EXCEPT ![c.user] = "COMPANY_ADMIN"]
      /\ UNCHANGED <<registerProfile, registerEmployer, registerCache, registerLookups, registerOrderly>>
  BY DEF Register!CreateCompany, Register!Written
<1>2. /\ c \in RegisterCalls /\ c.user \in Users /\ c.rut \in Ruts /\ c # Register!Idle
  BY <1>1, RegisterFields DEF RegisterInv, RegisterShape
<1>3. next \in RegisterCalls
  BY <1>2 DEF RegisterCalls, Register!Idle
<1>4. /\ registerCompany' \in [DOMAIN registerCompany' -> Ruts]
      /\ DOMAIN registerCompany' \subseteq Users
  <2>1. CASE refused
    BY <1>1, <2>1 DEF RegisterInv, RegisterShape
  <2>2. CASE ~refused
    <3>1. registerCompany \in [DOMAIN registerCompany -> Ruts] /\ c.rut \in Ruts
      BY <1>2 DEF RegisterInv, RegisterShape
    <3>2. Register!With(registerCompany, c.user, c.rut) \in
            [DOMAIN registerCompany \cup {c.user} -> Ruts]
      BY <3>1 DEF Register!With
    <3> QED
      BY <1>1, <1>2, <2>2, <3>2 DEF RegisterInv, RegisterShape
  <2> QED
    BY <2>1, <2>2
<1> HIDE DEF next
<1>5. RegisterShape'
  BY <1>1, <1>2, <1>3, <1>4 DEF RegisterInv, RegisterShape, Register!Role
<1>6. ASSUME registerOrderly PROVE RegisterInv'
  <2>1. RegisterOwned /\ RegisterShape /\ RegisterChecked(c)
    BY <1>2, <1>6 DEF RegisterInv, RegisterAlone
  <2>2. /\ registerRole[c.user] = "CLIENT"
        /\ c.rut \notin Register!RutsOf(registerCompany) \cup Register!RutsOf(registerProfile)
        /\ ~refused
    BY <1>1, <1>2, <2>1 DEF RegisterChecked, RegisterOwned, Register!RoleSaysWhatIsOwned
  <2>3. /\ registerCompany' = Register!With(registerCompany, c.user, c.rut)
        /\ registerRole' = [registerRole EXCEPT ![c.user] = "COMPANY_ADMIN"]
        /\ UNCHANGED <<registerProfile, registerEmployer>>
        /\ RegisterWrote(s, c.user, "COMPANY_ADMIN")
    BY <1>1, <2>2 DEF next, RegisterWrote
  <2> HIDE DEF refused
  <2>4. RegisterOwned'
    BY <1>2, <2>1, <2>2, <2>3, RegisterAdds
  <2> QED
    BY <1>1, <1>5, <1>6, <2>3, <2>4, RegisterWritten
<1> QED
  BY <1>1, <1>5, <1>6 DEF RegisterInv

\* createProfessionalProfileWithPostgis
LEMMA RegisterProfile == ASSUME RegisterInv, NEW s \in Slots, Register!CreateProfile(s) PROVE RegisterInv'
<1> DEFINE c == registerCalls[s]
           refused == c.user \in DOMAIN registerProfile \/ c.rut \in Register!RutsOf(registerProfile)
           next == IF ~refused /\ c.promotes THEN [pc |-> "invalidate", user |-> c.user]
                   ELSE Register!Idle
<1>1. /\ c.pc = "profile" /\ registerCalls' = [registerCalls EXCEPT ![s] = next]
      /\ registerProfile' = IF refused THEN registerProfile ELSE Register!With(registerProfile, c.user, c.rut)
      /\ registerRole' = IF ~refused /\ c.promotes
                         THEN [registerRole EXCEPT ![c.user] = "INDEPENDENT_PRO"]
                         ELSE registerRole
      /\ UNCHANGED <<registerCompany, registerEmployer, registerCache, registerLookups, registerOrderly>>
  BY DEF Register!CreateProfile, Register!Written
<1>2. /\ c \in RegisterCalls /\ c.user \in Users /\ c.rut \in Ruts \cup {NoRut} /\ c # Register!Idle
  BY <1>1, RegisterFields DEF RegisterInv, RegisterShape
<1>3. next \in RegisterCalls
  BY <1>2 DEF RegisterCalls, Register!Idle
<1>4. /\ registerProfile' \in [DOMAIN registerProfile' -> Ruts \cup {NoRut}]
      /\ DOMAIN registerProfile' \subseteq Users
  <2>1. CASE refused
    BY <1>1, <2>1 DEF RegisterInv, RegisterShape
  <2>2. CASE ~refused
    <3>1. registerProfile \in [DOMAIN registerProfile -> Ruts \cup {NoRut}] /\ c.rut \in Ruts \cup {NoRut}
      BY <1>2 DEF RegisterInv, RegisterShape
    <3>2. Register!With(registerProfile, c.user, c.rut) \in
            [DOMAIN registerProfile \cup {c.user} -> Ruts \cup {NoRut}]
      BY <3>1 DEF Register!With
    <3> QED
      BY <1>1, <1>2, <2>2, <3>2 DEF RegisterInv, RegisterShape
  <2> QED
    BY <2>1, <2>2
<1> HIDE DEF next
<1>5. RegisterShape'
  BY <1>1, <1>2, <1>3, <1>4 DEF RegisterInv, RegisterShape, Register!Role
<1>6. ASSUME registerOrderly PROVE RegisterInv'
  <2>1. RegisterOwned /\ RegisterShape /\ RegisterChecked(c)
    BY <1>2, <1>6 DEF RegisterInv, RegisterAlone
  <2>2. /\ registerRole[c.user] = "CLIENT"
        /\ c.rut \notin Register!RutsOf(registerCompany) \cup Register!RutsOf(registerProfile)
        /\ ~refused /\ c.promotes
    BY <1>1, <1>2, <2>1 DEF RegisterChecked, RegisterOwned, Register!RoleSaysWhatIsOwned
  <2>3. /\ registerProfile' = Register!With(registerProfile, c.user, c.rut)
        /\ registerRole' = [registerRole EXCEPT ![c.user] = "INDEPENDENT_PRO"]
        /\ UNCHANGED <<registerCompany, registerEmployer>>
        /\ RegisterWrote(s, c.user, "INDEPENDENT_PRO")
    BY <1>1, <2>2 DEF next, RegisterWrote
  <2> HIDE DEF refused
  <2>4. RegisterOwned'
    BY <1>2, <2>1, <2>2, <2>3, RegisterAdds
  <2> QED
    BY <1>1, <1>5, <1>6, <2>3, <2>4, RegisterWritten
<1> QED
  BY <1>1, <1>5, <1>6 DEF RegisterInv

\* linkUserAsCompanyEmployee
LEMMA RegisterEmployee == ASSUME RegisterInv, NEW s \in Slots, Register!LinkEmployee(s) PROVE RegisterInv'
<1> DEFINE c == registerCalls[s]
<1>1. /\ c.pc = "employee" /\ registerEmployer' = Register!With(registerEmployer, c.user, c.admin)
      /\ RegisterWrote(s, c.user, "COMPANY_EMPLOYEE")
      /\ UNCHANGED <<registerCompany, registerProfile>>
  BY DEF Register!LinkEmployee, Register!Written, RegisterWrote
<1>2. /\ c \in RegisterCalls /\ c.user \in Users /\ c.admin \in Users /\ c # Register!Idle
  BY <1>1, RegisterFields DEF RegisterInv, RegisterShape
<1>3. /\ registerEmployer' \in [DOMAIN registerEmployer' -> Users]
      /\ DOMAIN registerEmployer' = DOMAIN registerEmployer \cup {c.user}
  <2>1. registerEmployer \in [DOMAIN registerEmployer -> Users]
    BY DEF RegisterInv, RegisterShape
  <2>2. Register!With(registerEmployer, c.user, c.admin) \in
          [DOMAIN registerEmployer \cup {c.user} -> Users]
    BY <1>2, <2>1 DEF Register!With
  <2> QED
    BY <1>1, <2>2
<1>4. [pc |-> "invalidate", user |-> c.user] \in RegisterCalls
  BY <1>2 DEF RegisterCalls
<1>5. RegisterShape'
  BY <1>1, <1>2, <1>3, <1>4 DEF RegisterInv, RegisterShape, RegisterWrote, Register!Role
<1>6. ASSUME registerOrderly PROVE RegisterInv'
  <2>1. /\ RegisterOwned /\ registerRole[c.user] = "CLIENT"
        /\ registerRole \in [Users -> Register!Role]
    BY <1>1, <1>2, <1>6 DEF RegisterInv, RegisterAlone, RegisterChecked, RegisterShape
  <2>2. /\ \A v \in Users : registerRole'[v] = IF v = c.user THEN "COMPANY_EMPLOYEE" ELSE registerRole[v]
    BY <1>1, <1>2, <2>1 DEF RegisterWrote
  <2>3. Register!RoleSaysWhatIsOwned'
    BY <1>1, <1>2, <1>3, <2>1, <2>2 DEF RegisterOwned, Register!RoleSaysWhatIsOwned
  <2>4. Register!OneSubjectPerRut'
    BY <1>1, <2>1 DEF RegisterOwned, Register!OneSubjectPerRut, Register!RutsOf
  <2> QED
    BY <1>1, <1>5, <1>6, <2>3, <2>4, RegisterWritten DEF RegisterOwned
<1> QED
  BY <1>1, <1>5, <1>6 DEF RegisterInv, RegisterWrote

\* invalidateRoleCache
LEMMA RegisterForgets == ASSUME RegisterInv, NEW s \in Slots, Register!Invalidate(s) PROVE RegisterInv'
<1> DEFINE u == registerCalls[s].user
<1>1. /\ registerCalls[s].pc = "invalidate"
      /\ registerCalls' = [registerCalls EXCEPT ![s] = Register!Idle]
      /\ registerCache' = [registerCache EXCEPT ![u] = "none"]
      /\ UNCHANGED <<registerRole, registerCompany, registerProfile, registerEmployer,
                     registerLookups, registerOrderly>>
  BY DEF Register!Invalidate, Register!rows
<1>2. u \in Users /\ registerCalls[s] # Register!Idle /\ Register!Idle \in RegisterCalls
  BY <1>1, RegisterFields DEF RegisterInv, RegisterShape, Register!Idle, RegisterCalls
<1>3. RegisterShape'
  BY <1>1, <1>2 DEF RegisterInv, RegisterShape
<1>4. ASSUME registerOrderly PROVE (RegisterOwned /\ RegisterAlone /\ RegisterCached)'
  <2>1. /\ RegisterOwned /\ RegisterCached
        /\ \A t \in Slots \ {s} : registerCalls[t] = Register!Idle
        /\ \A v \in Users : registerLookups[v] = "none"
        /\ registerCalls \in [Slots -> RegisterCalls]
        /\ registerCache \in [Users -> Register!Role \cup {"none"}]
    BY <1>2, <1>4 DEF RegisterInv, RegisterAlone, RegisterShape
  <2>2. \A t \in Slots : registerCalls'[t] = Register!Idle
    BY <1>1, <2>1
  <2>3. RegisterOwned'
    BY <1>1, <2>1 DEF RegisterOwned, Register!OneSubjectPerRut, Register!RoleSaysWhatIsOwned,
                      Register!RutsOf
  <2>4. RegisterAlone'
    BY <1>1, <2>1, <2>2 DEF RegisterAlone
  <2>5. \A v \in Users \ {u} : registerCache[v] \in {"none", registerRole[v]}
    <3>1. \A t \in Slots : registerCalls[t].pc = "invalidate" => t = s
      BY <2>1 DEF Register!Idle
    <3> QED
      BY <2>1, <3>1 DEF RegisterCached
  <2>6. RegisterCached'
    BY <1>1, <1>2, <2>1, <2>5 DEF RegisterCached
  <2> QED
    BY <2>3, <2>4, <2>6
<1> QED
  BY <1>1, <1>3, <1>4 DEF RegisterInv

\* The process dies.
LEMMA RegisterDies == ASSUME RegisterInv, Register!Dies PROVE RegisterInv'
<1>1. /\ registerCalls' = [s \in Slots |-> Register!Idle]
      /\ registerLookups' = [u \in Users |-> "none"] /\ registerCache' = [u \in Users |-> "none"]
      /\ UNCHANGED <<registerRole, registerCompany, registerProfile, registerEmployer,
                     registerOrderly>>
  BY DEF Register!Dies, Register!rows
<1>2. Register!Idle \in RegisterCalls
  BY DEF Register!Idle, RegisterCalls
<1>3. RegisterShape'
  BY <1>1, <1>2 DEF RegisterInv, RegisterShape
<1>4. RegisterAlone' /\ RegisterCached'
  BY <1>1 DEF RegisterAlone, RegisterCached
<1>5. RegisterOwned => RegisterOwned'
  BY <1>1 DEF RegisterOwned, Register!OneSubjectPerRut, Register!RoleSaysWhatIsOwned,
              Register!RutsOf
<1> QED
  BY <1>1, <1>3, <1>4, <1>5 DEF RegisterInv

\* resolveRole
LEMMA RegisterLookup ==
    ASSUME RegisterInv, NEW u \in Users, Register!Lookup(u) \/ Register!Store(u) \/ Register!Expires(u)
    PROVE  RegisterInv'
<1>1. UNCHANGED <<registerRole, registerCompany, registerProfile, registerEmployer, registerCalls>>
  BY DEF Register!Lookup, Register!Store, Register!Expires, Register!rows
<1>2. RegisterShape'
  BY <1>1 DEF RegisterInv, RegisterShape, Register!Lookup, Register!Store, Register!Expires
<1>3. RegisterOwned => RegisterOwned'
  BY <1>1 DEF RegisterOwned, Register!OneSubjectPerRut, Register!RoleSaysWhatIsOwned,
              Register!RutsOf
<1>4. ASSUME registerOrderly' PROVE registerOrderly /\ RegisterAlone' /\ RegisterCached'
  <2>0. registerOrderly /\ RegisterAlone /\ RegisterCached /\ RegisterShape
    BY <1>4 DEF RegisterInv, Register!Lookup, Register!Store, Register!Expires
  <2>1. CASE Register!Lookup(u)
    <3>1. /\ \A s \in Slots : registerCalls[s] = Register!Idle
          /\ \A v \in Users : registerLookups[v] = "none"
          /\ registerLookups' = [registerLookups EXCEPT ![u] = registerRole[u]]
          /\ UNCHANGED registerCache
      BY <1>4, <2>1 DEF Register!Lookup, Register!Quiet
    <3>2. RegisterAlone'
      BY <1>1, <2>0, <3>1 DEF RegisterAlone, RegisterShape
    <3> QED
      BY <1>1, <2>0, <3>1, <3>2 DEF RegisterCached
  <2>2. CASE Register!Store(u)
    <3>1. /\ registerLookups[u] # "none" /\ registerLookups' = [registerLookups EXCEPT ![u] = "none"]
          /\ registerCache' = [registerCache EXCEPT ![u] = registerLookups[u]]
          /\ registerLookups[u] = registerRole[u]
          /\ \A s \in Slots : registerCalls[s] = Register!Idle
          /\ \A v \in Users \ {u} : registerLookups[v] = "none"
      BY <2>0, <2>2 DEF Register!Store, RegisterAlone
    <3>2. RegisterAlone'
      BY <1>1, <2>0, <3>1 DEF RegisterAlone, RegisterShape
    <3> QED
      BY <1>1, <2>0, <3>1, <3>2 DEF RegisterCached, RegisterShape
  <2>3. CASE Register!Expires(u)
    <3>1. registerCache' = [registerCache EXCEPT ![u] = "none"] /\ UNCHANGED registerLookups
      BY <2>3 DEF Register!Expires
    <3>2. RegisterAlone'
      BY <1>1, <2>0, <3>1 DEF RegisterAlone, RegisterChecked, Register!RutsOf
    <3> QED
      BY <1>1, <2>0, <3>1, <3>2 DEF RegisterCached, RegisterShape
  <2> QED
    BY <2>0, <2>1, <2>2, <2>3
<1> QED
  BY <1>2, <1>3, <1>4 DEF RegisterInv

LEMMA RegisterNext == ASSUME RegisterInv, [Register!Next]_registerVars PROVE RegisterInv'
<1>1. CASE UNCHANGED registerVars
  <2>1. RegisterShape'
    BY <1>1 DEF registerVars, RegisterInv, RegisterShape
  <2>2. RegisterOwned => RegisterOwned'
    BY <1>1 DEF registerVars, RegisterOwned, Register!OneSubjectPerRut,
                Register!RoleSaysWhatIsOwned, Register!RutsOf
  <2>3. RegisterAlone /\ RegisterCached => RegisterAlone' /\ RegisterCached'
    BY <1>1 DEF registerVars, RegisterAlone, RegisterChecked, RegisterCached, Register!RutsOf
  <2> QED
    BY <1>1, <2>1, <2>2, <2>3 DEF registerVars, RegisterInv
<1>2. CASE Register!Next
  BY <1>2, RegisterChecks, RegisterCompany, RegisterProfile, RegisterEmployee, RegisterForgets,
     RegisterDies, RegisterLookup DEF Register!Next
<1> QED
  BY <1>1, <1>2

LEMMA RegisterOnce == RegisterInv => Register!TypeOK /\ Register!RegisteredOnce
<1> SUFFICES ASSUME RegisterInv PROVE Register!TypeOK /\ Register!RegisteredOnce
  OBVIOUS
<1>1. Register!TypeOK
  BY DEF RegisterInv, RegisterShape, Register!TypeOK
<1>2. registerOrderly => Register!CacheIsFresh
  <2> SUFFICES ASSUME registerOrderly, Register!Quiet PROVE Register!CacheIsFresh
    BY DEF Register!CacheIsFresh
  <2>1. \A s \in Slots : registerCalls[s].pc # "invalidate"
    BY DEF Register!Quiet, Register!Idle
  <2> QED
    BY <2>1 DEF RegisterInv, RegisterCached, Register!CacheIsFresh
<1> QED
  BY <1>1, <1>2 DEF RegisterInv, RegisterOwned, Register!RegisteredOnce

-----------------------------------------------------------------------------
(* Payout accounts                                                         *)

AccountCalls ==
    [pc : {"idle"}]
    \cup [pc : {"create"}, primary : BOOLEAN, replaces : BOOLEAN]
    \cup [pc : {"clear", "deactivate"}, account : RowIds]
    \cup [pc : {"set"}, account : RowIds, seen : SUBSET RowIds]

AccountShape ==
    /\ payoutSubjectType \in {"PROFESSIONAL", "COMPANY"}
    /\ payoutAccounts \in [DOMAIN payoutAccounts -> [primary : BOOLEAN, active : BOOLEAN]]
    /\ DOMAIN payoutAccounts \subseteq RowIds
    /\ payoutCalls \in [Slots -> AccountCalls]
    /\ payoutOrderly \in BOOLEAN

PrimaryIsOne == \A a, b \in Accounts!Primary : a = b

\* What is true of the rows while a request is at its step: between a clearing
\* and its commit there may be two primary accounts, but the clearing has seen
\* them all.
AccountPending(c) ==
    /\ c.pc \notin {"clear", "set"} => PrimaryIsOne
    /\ c.pc = "create" => (c.replaces <=> c.primary /\ Accounts!Primary # {})
    /\ c.pc = "set" => Accounts!Primary \subseteq c.seen

\* One request at a time, and every request at rest or at such a step.
AccountAlone ==
    /\ \A s, t \in Slots : payoutCalls[s] # Accounts!Idle /\ payoutCalls[t] # Accounts!Idle => s = t
    /\ \A s \in Slots : payoutCalls[s] # Accounts!Idle => AccountPending(payoutCalls[s])
    /\ Accounts!Quiet => PrimaryIsOne

AccountInv == AccountShape /\ (payoutOrderly => AccountAlone)

LEMMA AccountFields ==
    ASSUME NEW c \in AccountCalls
    PROVE  /\ c = Accounts!Idle <=> c.pc = "idle"
           /\ c.pc \in {"idle", "create", "clear", "deactivate", "set"}
           /\ c.pc = "create" => c.primary \in BOOLEAN /\ c.replaces \in BOOLEAN
           /\ c.pc \in {"clear", "deactivate", "set"} => c.account \in RowIds
           /\ c.pc = "set" => c.seen \in SUBSET RowIds
BY DEF AccountCalls, Accounts!Idle

LEMMA AccountInit == Accounts!Init => AccountInv
<1> SUFFICES ASSUME Accounts!Init PROVE AccountInv
  OBVIOUS
<1>1. AccountShape
  BY DEF Accounts!Init, AccountShape, AccountCalls, Accounts!Idle
<1>2. AccountAlone
  BY DEF Accounts!Init, AccountAlone, PrimaryIsOne, Accounts!Primary, Accounts!Rows
<1> QED
  BY <1>1, <1>2 DEF AccountInv

\* A request begins: the history stays orderly only if nothing is under way.
LEMMA AccountBegins ==
    ASSUME AccountInv, NEW s \in Slots, NEW c \in AccountCalls, c.pc # "idle",
           payoutOrderly /\ Accounts!Quiet => AccountPending(c),
           Accounts!Begin(s, c)
    PROVE  AccountInv'
<1>1. /\ payoutCalls' = [payoutCalls EXCEPT ![s] = c]
      /\ payoutOrderly' = (payoutOrderly /\ Accounts!Quiet)
      /\ UNCHANGED <<payoutSubjectType, payoutAccounts>>
  BY DEF Accounts!Begin
<1>2. AccountShape'
  BY <1>1 DEF AccountInv, AccountShape
<1>3. ASSUME payoutOrderly' PROVE AccountAlone'
  <2>1. payoutOrderly /\ Accounts!Quiet /\ AccountPending(c)
    BY <1>1, <1>3 DEF AccountInv, AccountShape
  <2>2. \A t \in Slots \ {s} : payoutCalls'[t] = Accounts!Idle
    BY <1>1, <2>1 DEF Accounts!Quiet, AccountInv, AccountShape
  <2>3. payoutCalls'[s] = c /\ AccountPending(c)'
    BY <1>1, <2>1 DEF AccountInv, AccountShape, AccountPending, PrimaryIsOne, Accounts!Primary,
                      Accounts!Rows
  <2>4. ~Accounts!Quiet'
    BY <2>3, AccountFields DEF Accounts!Quiet
  <2> QED
    BY <2>2, <2>3, <2>4 DEF AccountAlone, AccountPending
<1> QED
  BY <1>2, <1>3 DEF AccountInv

LEMMA AccountsBegin ==
    ASSUME AccountInv, NEW s \in Slots,
           \/ \E given \in {"omitted", "yes", "no"} :
                 \/ Accounts!CreateForCurrentProfessional(s, given)
                 \/ Accounts!CreateForCompany(s, given)
           \/ \E a \in RowIds :
                 \/ Accounts!BeginDeactivate(s, a)
                 \/ Accounts!SetPrimaryForCurrentProfessional(s, a)
                 \/ Accounts!SetPrimaryForCompany(s, a)
    PROVE  AccountInv'
<1>0. payoutOrderly /\ Accounts!Quiet => PrimaryIsOne
  BY DEF AccountInv, AccountAlone
<1>1. ASSUME NEW given \in {"omitted", "yes", "no"}, Accounts!BeginCreate(s, Accounts!Chosen(given))
      PROVE  AccountInv'
  <2> DEFINE chosen == Accounts!Chosen(given)
             c == [pc |-> "create", primary |-> chosen,
                   replaces |-> chosen /\ Accounts!Primary # {}]
  <2>1. chosen \in BOOLEAN
    BY DEF Accounts!Chosen
  <2>2. c \in AccountCalls /\ c.pc # "idle" /\ (payoutOrderly /\ Accounts!Quiet => AccountPending(c))
    BY <1>0, <2>1 DEF AccountCalls, AccountPending
  <2>3. Accounts!Begin(s, c)
    BY <1>1 DEF Accounts!BeginCreate
  <2> QED
    BY <2>2, <2>3, AccountBegins
<1>2. ASSUME NEW a \in RowIds, NEW pc \in {"clear", "deactivate"},
             Accounts!Begin(s, [pc |-> pc, account |-> a])
      PROVE  AccountInv'
  <2> DEFINE c == [pc |-> pc, account |-> a]
  <2>1. c \in AccountCalls /\ c.pc # "idle" /\ (payoutOrderly /\ Accounts!Quiet => AccountPending(c))
    BY <1>0 DEF AccountCalls, AccountPending
  <2> QED
    BY <1>2, <2>1, AccountBegins
<1> QED
  BY <1>1, <1>2 DEF Accounts!CreateForCurrentProfessional, Accounts!CreateForCompany,
     Accounts!BeginDeactivate, Accounts!SetPrimaryForCurrentProfessional,
     Accounts!SetPrimaryForCompany, Accounts!BeginSetPrimary

\* A request moves on, or the process dies with it: nothing else is under way
\* if the history is orderly.
AccountWorks(s, next) ==
    /\ payoutCalls[s] # Accounts!Idle /\ next \in AccountCalls
    /\ payoutCalls' = [payoutCalls EXCEPT ![s] = next]
    /\ UNCHANGED <<payoutSubjectType, payoutOrderly>>

LEMMA AccountStep ==
    ASSUME AccountInv, NEW s \in Slots, NEW next, AccountWorks(s, next),
           payoutAccounts' \in [DOMAIN payoutAccounts' -> [primary : BOOLEAN, active : BOOLEAN]],
           DOMAIN payoutAccounts' \subseteq RowIds,
           AccountPending(payoutCalls[s]) => AccountPending(payoutCalls[s])'
    PROVE  AccountInv'
<1>1. AccountShape'
  BY DEF AccountWorks, AccountInv, AccountShape
<1>2. ASSUME payoutOrderly' PROVE AccountAlone'
  <2>1. AccountAlone /\ AccountPending(payoutCalls[s])
    BY <1>2 DEF AccountWorks, AccountInv, AccountAlone
  <2>2. \A t \in Slots \ {s} : payoutCalls'[t] = Accounts!Idle
    BY <2>1 DEF AccountWorks, AccountInv, AccountShape, AccountAlone
  <2>3. AccountPending(payoutCalls[s])'
    BY <2>1
  <2>4. Accounts!Quiet' => PrimaryIsOne'
    BY <2>3 DEF Accounts!Quiet, AccountPending, Accounts!Idle
  <2> QED
    BY <2>2, <2>3, <2>4 DEF AccountAlone, AccountPending
<1> QED
  BY <1>1, <1>2 DEF AccountInv

LEMMA AccountCreate ==
    ASSUME AccountInv, NEW s \in Slots, NEW a \in RowIds, Accounts!Create(s, a)
    PROVE  AccountInv'
<1> DEFINE c == payoutCalls[s]
           next == IF c.replaces THEN [pc |-> "clear", account |-> a] ELSE Accounts!Idle
<1>1. /\ c.pc = "create" /\ a \notin Accounts!Rows
      /\ payoutAccounts' = [b \in Accounts!Rows \cup {a} |->
             IF b = a THEN [primary |-> c.primary, active |-> TRUE] ELSE payoutAccounts[b]]
      /\ payoutCalls' = [payoutCalls EXCEPT ![s] = next]
      /\ UNCHANGED <<payoutSubjectType, payoutOrderly>>
  BY DEF Accounts!Create, Accounts!Goto
<1>2. c \in AccountCalls /\ c # Accounts!Idle /\ c.primary \in BOOLEAN /\ c.replaces \in BOOLEAN
  BY <1>1, AccountFields DEF AccountInv, AccountShape
<1>3. AccountWorks(s, next)
  BY <1>1, <1>2 DEF AccountWorks, AccountCalls, Accounts!Idle
<1>4. /\ payoutAccounts' \in [DOMAIN payoutAccounts' -> [primary : BOOLEAN, active : BOOLEAN]]
      /\ DOMAIN payoutAccounts' \subseteq RowIds
  BY <1>1, <1>2 DEF AccountInv, AccountShape, Accounts!Rows
<1>6. payoutCalls'[s] = next
  BY <1>1 DEF AccountInv, AccountShape
<1>5. ASSUME AccountPending(payoutCalls[s]) PROVE AccountPending(payoutCalls[s])'
  <2>1. Accounts!Primary' = Accounts!Primary \cup (IF c.primary THEN {a} ELSE {})
    BY <1>1, <1>2 DEF Accounts!Primary, Accounts!Rows
  <2>2. CASE c.replaces
    BY <1>6, <2>2 DEF AccountPending
  <2>3. CASE ~c.replaces
    <3>1. PrimaryIsOne'
      BY <1>1, <1>5, <2>1, <2>3 DEF AccountPending, PrimaryIsOne
    <3> QED
      BY <1>6, <2>3, <3>1 DEF AccountPending, Accounts!Idle
  <2> QED
    BY <1>2, <2>2, <2>3
<1> HIDE DEF next
<1> QED
  BY <1>3, <1>4, <1>5, AccountStep

LEMMA AccountClear ==
    ASSUME AccountInv, NEW s \in Slots, Accounts!Clear(s)
    PROVE  AccountInv'
<1> DEFINE c == payoutCalls[s]
           next == [pc |-> "set", account |-> c.account, seen |-> Accounts!Primary]
<1>1. /\ c.pc = "clear" /\ payoutAccounts' = payoutAccounts
      /\ payoutCalls' = [payoutCalls EXCEPT ![s] = next]
      /\ UNCHANGED <<payoutSubjectType, payoutOrderly>>
  BY DEF Accounts!Clear, Accounts!Goto
<1>2. c \in AccountCalls /\ c # Accounts!Idle /\ c.account \in RowIds
  BY <1>1, AccountFields DEF AccountInv, AccountShape
<1>3. Accounts!Primary \in SUBSET RowIds
  BY DEF AccountInv, AccountShape, Accounts!Primary, Accounts!Rows
<1>4. AccountWorks(s, next)
  BY <1>1, <1>2, <1>3 DEF AccountWorks, AccountCalls
<1>6. payoutCalls'[s] = next
  BY <1>1 DEF AccountInv, AccountShape
<1>5. AccountPending(payoutCalls[s])'
  BY <1>1, <1>6 DEF AccountPending, Accounts!Primary, Accounts!Rows
<1> HIDE DEF next
<1> QED
  BY <1>1, <1>4, <1>5, AccountStep DEF AccountInv, AccountShape

LEMMA AccountSet ==
    ASSUME AccountInv, NEW s \in Slots, Accounts!SetPrimary(s)
    PROVE  AccountInv'
<1> DEFINE c == payoutCalls[s]
<1>1. /\ c.pc = "set"
      /\ payoutAccounts' = [a \in Accounts!Rows |-> [payoutAccounts[a] EXCEPT !.primary =
             a = c.account \/ (payoutAccounts[a].primary /\ a \notin c.seen)]]
      /\ payoutCalls' = [payoutCalls EXCEPT ![s] = Accounts!Idle]
      /\ UNCHANGED <<payoutSubjectType, payoutOrderly>>
  BY DEF Accounts!SetPrimary, Accounts!Goto
<1>2. c \in AccountCalls /\ c # Accounts!Idle
  BY <1>1, AccountFields DEF AccountInv, AccountShape
<1>3. AccountWorks(s, Accounts!Idle)
  BY <1>1, <1>2 DEF AccountWorks, AccountCalls, Accounts!Idle
<1>4. /\ payoutAccounts' \in [DOMAIN payoutAccounts' -> [primary : BOOLEAN, active : BOOLEAN]]
      /\ DOMAIN payoutAccounts' \subseteq RowIds
  <2>1. \A a \in Accounts!Rows : payoutAccounts[a] \in [primary : BOOLEAN, active : BOOLEAN]
    BY DEF AccountInv, AccountShape, Accounts!Rows
  <2>2. \A a \in Accounts!Rows : payoutAccounts'[a] \in [primary : BOOLEAN, active : BOOLEAN]
    BY <1>1, <2>1
  <2> QED
    BY <1>1, <2>2 DEF AccountInv, AccountShape, Accounts!Rows
<1>6. payoutCalls'[s] = Accounts!Idle
  BY <1>1 DEF AccountInv, AccountShape
<1>5. ASSUME AccountPending(payoutCalls[s]) PROVE AccountPending(payoutCalls[s])'
  <2>1. Accounts!Primary \subseteq c.seen
    BY <1>1, <1>5 DEF AccountPending
  <2>2. \A a \in Accounts!Rows : payoutAccounts[a] \in [primary : BOOLEAN, active : BOOLEAN]
    BY DEF AccountInv, AccountShape, Accounts!Rows
  <2>3. \A a \in Accounts!Rows : payoutAccounts'[a].primary =>
           a = c.account \/ (payoutAccounts[a].primary /\ a \notin c.seen)
    BY <1>1, <2>2
  <2>4. DOMAIN payoutAccounts' = Accounts!Rows
    BY <1>1
  <2>5. PrimaryIsOne'
    BY <2>1, <2>3, <2>4 DEF PrimaryIsOne, Accounts!Primary, Accounts!Rows
  <2> QED
    BY <1>6, <2>5 DEF AccountPending, Accounts!Idle
<1> QED
  BY <1>3, <1>4, <1>5, AccountStep

\* Whether accounts are active says nothing about which is primary.
AccountToggles ==
    /\ Accounts!Primary' = Accounts!Primary
    /\ payoutAccounts' \in [DOMAIN payoutAccounts' -> [primary : BOOLEAN, active : BOOLEAN]]
    /\ DOMAIN payoutAccounts' \subseteq RowIds

LEMMA AccountToggle ==
    ASSUME AccountInv, NEW a \in RowIds, NEW active \in BOOLEAN,
           payoutAccounts' = [payoutAccounts EXCEPT ![a].active = active]
    PROVE  AccountToggles
<1>1. DOMAIN payoutAccounts' = DOMAIN payoutAccounts
  OBVIOUS
<1>2. \A b \in DOMAIN payoutAccounts :
         /\ payoutAccounts'[b] \in [primary : BOOLEAN, active : BOOLEAN]
         /\ payoutAccounts'[b].primary = payoutAccounts[b].primary
  BY DEF AccountInv, AccountShape
<1>3. payoutAccounts' \in [DOMAIN payoutAccounts' -> [primary : BOOLEAN, active : BOOLEAN]]
  BY <1>1, <1>2 DEF AccountInv, AccountShape
<1> QED
  BY <1>1, <1>2, <1>3 DEF AccountToggles, Accounts!Primary, Accounts!Rows, AccountInv, AccountShape

LEMMA AccountUpdate ==
    ASSUME AccountInv, NEW a \in RowIds, NEW active \in BOOLEAN, Accounts!Update(a, active)
    PROVE  AccountInv'
<1>1. AccountToggles /\ UNCHANGED <<payoutSubjectType, payoutCalls, payoutOrderly>>
  BY AccountToggle DEF Accounts!Update
<1>2. AccountShape'
  BY <1>1 DEF AccountToggles, AccountInv, AccountShape
<1>3. AccountAlone => AccountAlone'
  BY <1>1 DEF AccountToggles, AccountAlone, AccountPending, PrimaryIsOne, Accounts!Quiet
<1> QED
  BY <1>1, <1>2, <1>3 DEF AccountInv

LEMMA AccountDeactivate ==
    ASSUME AccountInv, NEW s \in Slots, Accounts!Deactivate(s)
    PROVE  AccountInv'
<1> DEFINE c == payoutCalls[s]
<1>1. /\ c.pc = "deactivate"
      /\ payoutAccounts' = [payoutAccounts EXCEPT ![c.account].active = FALSE]
      /\ payoutCalls' = [payoutCalls EXCEPT ![s] = Accounts!Idle]
      /\ UNCHANGED <<payoutSubjectType, payoutOrderly>>
  BY DEF Accounts!Deactivate, Accounts!Goto
<1>2. c \in AccountCalls /\ c # Accounts!Idle /\ c.account \in RowIds
  BY <1>1, AccountFields DEF AccountInv, AccountShape
<1>3. AccountToggles
  BY <1>1, <1>2, AccountToggle
<1>4. AccountWorks(s, Accounts!Idle)
  BY <1>1, <1>2 DEF AccountWorks, AccountCalls, Accounts!Idle
<1>6. payoutCalls'[s] = Accounts!Idle
  BY <1>1 DEF AccountInv, AccountShape
<1>5. AccountPending(payoutCalls[s]) => AccountPending(payoutCalls[s])'
  BY <1>1, <1>3, <1>6 DEF AccountPending, AccountToggles, PrimaryIsOne, Accounts!Idle
<1> QED
  BY <1>3, <1>4, <1>5, AccountStep DEF AccountToggles

LEMMA AccountDies ==
    ASSUME AccountInv, NEW s \in Slots, Accounts!Dies(s)
    PROVE  AccountInv'
<1>1. ~payoutOrderly' /\ payoutOrderly' \in BOOLEAN
  BY DEF Accounts!Dies
<1>2. AccountShape'
  BY <1>1 DEF Accounts!Dies, AccountInv, AccountShape, AccountCalls, Accounts!Idle
<1> QED
  BY <1>1, <1>2 DEF AccountInv

LEMMA AccountNext == ASSUME AccountInv, [Accounts!Next]_payoutVars PROVE AccountInv'
<1>1. CASE UNCHANGED payoutVars
  <2>1. AccountShape'
    BY <1>1 DEF payoutVars, AccountInv, AccountShape
  <2>2. AccountAlone => AccountAlone'
    BY <1>1 DEF payoutVars, AccountAlone, AccountPending, PrimaryIsOne, Accounts!Quiet,
                Accounts!Primary, Accounts!Rows
  <2> QED
    BY <1>1, <2>1, <2>2 DEF payoutVars, AccountInv
<1>2. CASE Accounts!Next
  BY <1>2, AccountsBegin, AccountCreate, AccountClear, AccountSet, AccountUpdate,
     AccountDeactivate, AccountDies DEF Accounts!Next
<1> QED
  BY <1>1, <1>2

LEMMA AccountCardinality == \A S : Accounts!Cardinality(S) = Cardinality(S)
  BY DEF Accounts!Cardinality, Cardinality

\* A set none of whose members differ has at most one.
LEMMA AtMostOne ==
    ASSUME NEW S, \A a, b \in S : a = b
    PROVE  Cardinality(S) \in Nat /\ Cardinality(S) <= 1 /\ (Cardinality(S) = 1 <=> S # {})
<1>1. CASE S = {}
  BY <1>1, FS_EmptySet
<1>2. CASE S # {}
  <2>1. PICK a : S = {a}
    BY <1>2
  <2> QED
    <3>1. Cardinality({a}) = 1
      BY FS_Singleton
    <3> QED
      BY <1>2, <2>1, <3>1
<1> QED
  BY <1>1, <1>2

LEMMA AccountOne == AccountInv => Accounts!TypeOK /\ Accounts!OnePrimary
<1> SUFFICES ASSUME AccountInv PROVE Accounts!TypeOK /\ Accounts!OnePrimary
  OBVIOUS
<1>1. Accounts!TypeOK
  <2>1. \A a \in DOMAIN payoutAccounts : payoutAccounts[a] \in [primary : BOOLEAN, active : BOOLEAN]
    BY DEF AccountInv, AccountShape
  <2>2. AccountCalls = Accounts!Calls
    BY DEF AccountCalls, Accounts!Calls, Accounts!Idle
  <2> QED
    BY <2>1, <2>2 DEF AccountInv, AccountShape, Accounts!TypeOK, Accounts!Rows
<1>2. ASSUME payoutOrderly, Accounts!Quiet
      PROVE  /\ Cardinality(Accounts!Primary) <= 1
             /\ Accounts!CanAcceptJob <=> \E a \in Accounts!Primary : payoutAccounts[a].active
  <2>1. PrimaryIsOne
    BY <1>2 DEF AccountInv, AccountAlone
  <2>2. Cardinality(Accounts!Primary) <= 1
    BY <2>1, AtMostOne DEF PrimaryIsOne
  <2> DEFINE both == Accounts!Active \cap Accounts!Primary
  <2>3. Cardinality(both) = 1 <=> both # {}
    <3>1. \A a, b \in both : a = b
      BY <2>1 DEF PrimaryIsOne
    <3> HIDE DEF both
    <3> QED
      BY <3>1, AtMostOne
  <2>4. both # {} <=> \E a \in Accounts!Primary : payoutAccounts[a].active
    BY DEF Accounts!Active, Accounts!Primary
  <2>5. Accounts!Resolved({}) = both
    BY DEF Accounts!Resolved
  <2>6. both # {} => Accounts!Active # {}
    OBVIOUS
  <2> HIDE DEF both
  <2>7. Accounts!CanAcceptJob <=> Accounts!Active # {} /\ Cardinality(both) = 1 /\ both # {}
    BY <2>5, AccountCardinality DEF Accounts!CanAcceptJob, both
  <2> QED
    BY <2>2, <2>3, <2>4, <2>6, <2>7
<1> QED
  BY <1>1, <1>2, AccountCardinality DEF Accounts!OnePrimary

-----------------------------------------------------------------------------
(* Service areas                                                           *)

AreaCalls ==
    [pc : {"idle"}] \cup [pc : {"decide", "unset"}]
    \cup [pc : {"insert"}, primary : BOOLEAN, seen : SUBSET RowIds]
    \cup [pc : {"clear", "delete"}, area : RowIds]
    \cup [pc : {"set"}, area : RowIds, seen : SUBSET RowIds]

AreaShape ==
    /\ areaLimit \in PlanLimits /\ areaPeak \in PlanLimits /\ areaLimit <= areaPeak
    /\ areaPrimary \in [DOMAIN areaPrimary -> BOOLEAN]
    /\ DOMAIN areaPrimary \subseteq RowIds /\ IsFiniteSet(DOMAIN areaPrimary)
    /\ areaCalls \in [Slots -> AreaCalls]
    /\ areaOrderly \in BOOLEAN

\* One area is primary, and the number of areas is within a limit there was.
AreaGood ==
    /\ \A a, b \in DOMAIN areaPrimary : areaPrimary[a] /\ areaPrimary[b] => a = b
    /\ Cardinality(DOMAIN areaPrimary) <= areaPeak

\* A creation under way: there is room for it, no other creation and no change
\* of the primary area is under way, and its snapshot has every row there is.
\* A change of the primary area has them all too, for none is inserted.
AreaPending(s) ==
    /\ Areas!Creating(s) =>
          /\ Cardinality(DOMAIN areaPrimary) < areaPeak
          /\ \A t \in Slots \ {s} : ~Areas!Creating(t) /\ ~Areas!Moving(t)
    /\ areaCalls[s].pc = "insert" /\ areaCalls[s].primary => DOMAIN areaPrimary \subseteq areaCalls[s].seen
    /\ areaCalls[s].pc = "set" => DOMAIN areaPrimary \subseteq areaCalls[s].seen

AreaInv == AreaShape /\ (areaOrderly => AreaGood /\ \A s \in Slots : AreaPending(s))

LEMMA AreaFields ==
    ASSUME NEW c \in AreaCalls
    PROVE  /\ c = Areas!Idle <=> c.pc = "idle"
           /\ c.pc \in {"idle", "decide", "unset", "insert", "clear", "delete", "set"}
           /\ c.pc = "insert" => c.primary \in BOOLEAN /\ c.seen \in SUBSET RowIds
           /\ c.pc \in {"clear", "delete", "set"} => c.area \in RowIds
           /\ c.pc = "set" => c.seen \in SUBSET RowIds
BY DEF AreaCalls, Areas!Idle

LEMMA AreaCardinality == \A S : Areas!Cardinality(S) = Cardinality(S)
  BY DEF Areas!Cardinality, Cardinality

LEMMA AreaLimits == areaLimit \in PlanLimits /\ areaPeak \in PlanLimits
                    => areaLimit \in Nat /\ areaPeak \in Nat
  BY LinkAssumption

LEMMA AreaInit == Areas!Init => AreaInv
<1> SUFFICES ASSUME Areas!Init PROVE AreaInv
  OBVIOUS
<1>1. DOMAIN areaPrimary = {}
  BY DEF Areas!Init
<1>2. /\ areaLimit \in Nat /\ areaPeak = areaLimit /\ areaLimit \in PlanLimits
      /\ Cardinality(DOMAIN areaPrimary) = 0 /\ IsFiniteSet(DOMAIN areaPrimary)
  BY <1>1, FS_EmptySet, LinkAssumption DEF Areas!Init
<1>3. AreaShape
  BY <1>1, <1>2 DEF Areas!Init, AreaShape, AreaCalls, Areas!Idle
<1>4. AreaGood /\ \A s \in Slots : AreaPending(s)
  BY <1>1, <1>2 DEF Areas!Init, AreaGood, AreaPending, Areas!Creating, Areas!Idle
<1> QED
  BY <1>3, <1>4 DEF AreaInv

\* Fewer areas, or fewer primary ones.
AreaShrinks ==
    /\ areaPrimary' \in [DOMAIN areaPrimary' -> BOOLEAN]
    /\ DOMAIN areaPrimary' \subseteq DOMAIN areaPrimary
    /\ \A a \in DOMAIN areaPrimary' : areaPrimary'[a] => areaPrimary[a]

\* What the rows are counted to be, and how many the shrinking leaves.
LEMMA AreaFewer ==
    ASSUME AreaShape, AreaShrinks
    PROVE  /\ IsFiniteSet(DOMAIN areaPrimary')
           /\ Cardinality(DOMAIN areaPrimary') \in Nat
           /\ Cardinality(DOMAIN areaPrimary) \in Nat
           /\ Cardinality(DOMAIN areaPrimary') <= Cardinality(DOMAIN areaPrimary)
<1>1. IsFiniteSet(DOMAIN areaPrimary) /\ DOMAIN areaPrimary' \subseteq DOMAIN areaPrimary
  BY DEF AreaShape, AreaShrinks
<1> QED
  BY <1>1, FS_Subset, FS_CardinalityType

\* A request begins: it adds nothing and takes nothing away.
LEMMA AreaBegins ==
    ASSUME AreaInv, NEW s \in Slots, NEW c \in AreaCalls, c.pc \in {"decide", "clear", "delete"},
           NEW alone \in BOOLEAN, Areas!Begin(s, c, alone),
           c.pc = "decide" =>
              /\ Cardinality(DOMAIN areaPrimary) < areaLimit
              /\ alone => \A t \in Slots : ~Areas!Creating(t) /\ ~Areas!Moving(t),
           c.pc = "clear" => (alone => \A t \in Slots : ~Areas!Creating(t))
    PROVE  AreaInv'
<1>1. /\ areaCalls' = [areaCalls EXCEPT ![s] = c] /\ areaCalls[s] = Areas!Idle
      /\ areaOrderly' = (areaOrderly /\ alone)
      /\ UNCHANGED <<areaLimit, areaPrimary, areaPeak>>
  BY DEF Areas!Begin
<1>2. AreaShape'
  BY <1>1 DEF AreaInv, AreaShape
<1>3. ASSUME areaOrderly' PROVE AreaGood' /\ \A t \in Slots : AreaPending(t)'
  <2>1. AreaGood /\ alone /\ \A t \in Slots : AreaPending(t)
    BY <1>1, <1>3 DEF AreaInv, AreaShape
  <2>2. areaCalls'[s] = c /\ \A t \in Slots \ {s} : areaCalls'[t] = areaCalls[t]
    BY <1>1 DEF AreaInv, AreaShape
  <2>3. /\ areaLimit \in Nat /\ areaPeak \in Nat /\ areaLimit <= areaPeak
        /\ Cardinality(DOMAIN areaPrimary) \in Nat
    BY AreaLimits, FS_CardinalityType DEF AreaInv, AreaShape
  <2>4. AreaPending(s)'
    <3>1. CASE c.pc = "decide"
      BY <1>1, <2>1, <2>2, <2>3, <3>1 DEF AreaPending, Areas!Creating, Areas!Moving
    <3>2. CASE c.pc # "decide"
      BY <1>1, <2>2, <3>2 DEF AreaPending, Areas!Creating, Areas!Moving
    <3> QED
      BY <3>1, <3>2
  <2>5. ASSUME NEW t \in Slots \ {s} PROVE AreaPending(t)'
    <3>1. Areas!Creating(t) => c.pc = "delete"
      BY <1>1, <2>1
    <3>2. ~(Areas!Creating(s) \/ Areas!Moving(s))' \/ c.pc # "delete"
      BY <2>2 DEF Areas!Creating, Areas!Moving
    <3>3. AreaPending(t)
      BY <2>1
    <3> QED
      BY <1>1, <2>2, <3>1, <3>2, <3>3 DEF AreaPending, Areas!Creating, Areas!Moving
  <2> QED
    BY <1>1, <2>1, <2>4, <2>5 DEF AreaGood
<1> QED
  BY <1>2, <1>3 DEF AreaInv

LEMMA AreasBegin ==
    ASSUME AreaInv, NEW s \in Slots,
           \/ Areas!BeginCreate(s)
           \/ \E a \in RowIds : Areas!BeginPromote(s, a) \/ Areas!BeginDelete(s, a)
    PROVE  AreaInv'
<1>1. ASSUME Areas!BeginCreate(s) PROVE AreaInv'
  <2> DEFINE alone == \A t \in Slots : ~Areas!Creating(t) /\ ~Areas!Moving(t)
             c == [pc |-> "decide"]
  <2>1. Cardinality(DOMAIN areaPrimary) < areaLimit /\ Areas!Begin(s, c, alone)
    BY <1>1, AreaCardinality DEF Areas!BeginCreate, Areas!Rows
  <2>2. c \in AreaCalls /\ c.pc = "decide" /\ alone \in BOOLEAN
    BY DEF AreaCalls
  <2>3. alone => \A t \in Slots : ~Areas!Creating(t) /\ ~Areas!Moving(t)
    OBVIOUS
  <2> HIDE DEF alone, c
  <2> QED
    BY <2>1, <2>2, <2>3, AreaBegins
<1>2. ASSUME NEW a \in RowIds, Areas!BeginPromote(s, a) PROVE AreaInv'
  <2> DEFINE alone == \A t \in Slots : ~Areas!Creating(t)
             c == [pc |-> "clear", area |-> a]
  <2>1. Areas!Begin(s, c, alone)
    BY <1>2 DEF Areas!BeginPromote
  <2>2. c \in AreaCalls /\ c.pc = "clear" /\ alone \in BOOLEAN
    BY DEF AreaCalls
  <2>3. alone => \A t \in Slots : ~Areas!Creating(t)
    OBVIOUS
  <2> HIDE DEF alone, c
  <2> QED
    BY <2>1, <2>2, <2>3, AreaBegins
<1>3. ASSUME NEW a \in RowIds, Areas!BeginDelete(s, a) PROVE AreaInv'
  <2> DEFINE c == [pc |-> "delete", area |-> a]
  <2>1. Areas!Begin(s, c, TRUE)
    BY <1>3 DEF Areas!BeginDelete
  <2>2. c \in AreaCalls /\ c.pc = "delete"
    BY DEF AreaCalls
  <2> HIDE DEF c
  <2> QED
    BY <2>1, <2>2, AreaBegins
<1> QED
  BY <1>1, <1>2, <1>3

\* A request moves on, and the rows stay, or shrink: a creation is one still,
\* a change of the primary area is one still, or it is over.
AreaWorks(s, next) ==
    /\ next \in AreaCalls
    /\ areaCalls' = [areaCalls EXCEPT ![s] = next]
    /\ UNCHANGED <<areaLimit, areaPeak, areaOrderly>>
    /\ next.pc \in {"decide", "unset", "insert"} => Areas!Creating(s)
    /\ next.pc \in {"clear", "set"} => Areas!Moving(s)

LEMMA AreaStep ==
    ASSUME AreaInv, NEW s \in Slots, NEW next, AreaWorks(s, next), AreaShrinks,
           areaOrderly /\ AreaPending(s) =>
              /\ next.pc = "insert" /\ next.primary => DOMAIN areaPrimary \subseteq next.seen
              /\ next.pc = "set" => DOMAIN areaPrimary \subseteq next.seen
    PROVE  AreaInv'
<1>1. AreaShape'
  BY AreaFewer DEF AreaWorks, AreaShrinks, AreaInv, AreaShape
<1>2. ASSUME areaOrderly' PROVE AreaGood' /\ \A t \in Slots : AreaPending(t)'
  <2>1. AreaGood /\ areaOrderly /\ \A t \in Slots : AreaPending(t)
    BY <1>2 DEF AreaWorks, AreaInv
  <2>2. areaCalls'[s] = next /\ \A t \in Slots \ {s} : areaCalls'[t] = areaCalls[t]
    BY DEF AreaWorks, AreaInv, AreaShape
  <2>3. /\ areaPeak \in Nat /\ areaPeak' = areaPeak
        /\ Cardinality(DOMAIN areaPrimary') \in Nat
        /\ Cardinality(DOMAIN areaPrimary) \in Nat
        /\ Cardinality(DOMAIN areaPrimary') <= Cardinality(DOMAIN areaPrimary)
    BY AreaLimits, AreaFewer DEF AreaInv, AreaShape, AreaWorks
  <2>4. \A t \in Slots : /\ Areas!Creating(t)' => Areas!Creating(t)
                         /\ Areas!Moving(t)' => Areas!Moving(t)
    BY <2>2 DEF AreaWorks, Areas!Creating, Areas!Moving
  <2>5. AreaGood'
    BY <2>1, <2>3 DEF AreaGood, AreaShrinks
  <2>6. ASSUME NEW t \in Slots, Areas!Creating(t)'
        PROVE  /\ Cardinality(DOMAIN areaPrimary') < areaPeak'
               /\ \A r \in Slots \ {t} : ~Areas!Creating(r)' /\ ~Areas!Moving(r)'
    <3>1. /\ Cardinality(DOMAIN areaPrimary) < areaPeak
          /\ \A r \in Slots \ {t} : ~Areas!Creating(r) /\ ~Areas!Moving(r)
      BY <2>1, <2>4, <2>6 DEF AreaPending
    <3> QED
      BY <2>3, <2>4, <3>1
  <2>7. ASSUME NEW t \in Slots
        PROVE  /\ areaCalls'[t].pc = "insert" /\ areaCalls'[t].primary
                     => DOMAIN areaPrimary' \subseteq areaCalls'[t].seen
               /\ areaCalls'[t].pc = "set" => DOMAIN areaPrimary' \subseteq areaCalls'[t].seen
    BY <2>1, <2>2 DEF AreaPending, AreaShrinks
  <2> QED
    BY <2>5, <2>6, <2>7 DEF AreaPending
<1> QED
  BY <1>1, <1>2 DEF AreaInv

LEMMA AreaStays ==
    ASSUME AreaShape, areaPrimary' = areaPrimary PROVE AreaShrinks
  BY DEF AreaShape, AreaShrinks

\* decide, unsetPrimary, and the clearing of the old primary area
LEMMA AreaReads ==
    ASSUME AreaInv, NEW s \in Slots,
           \/ \E given \in {"omitted", "yes", "no"} : Areas!Decide(s, given)
           \/ Areas!Unset(s) \/ Areas!Clear(s)
    PROVE  AreaInv'
<1>1. areaCalls[s] \in AreaCalls /\ areaPrimary' = areaPrimary /\ AreaShrinks
  BY AreaStays DEF AreaInv, AreaShape, Areas!Decide, Areas!Unset, Areas!Clear
<1>2. Areas!Rows = DOMAIN areaPrimary /\ Areas!Rows \in SUBSET RowIds
  BY DEF Areas!Rows, AreaInv, AreaShape
<1>3. ASSUME NEW given \in {"omitted", "yes", "no"}, Areas!Decide(s, given) PROVE AreaInv'
  <2> DEFINE next == areaCalls'[s]
  <2>1. /\ areaCalls[s].pc = "decide"
        /\ next \in {[pc |-> "unset"], [pc |-> "insert", primary |-> FALSE, seen |-> {}]}
        /\ areaCalls' = [areaCalls EXCEPT ![s] = next]
        /\ UNCHANGED <<areaLimit, areaPeak, areaOrderly>>
    BY <1>3 DEF Areas!Decide, Areas!Goto, AreaInv, AreaShape
  <2>2. PICK d \in {[pc |-> "unset"], [pc |-> "insert", primary |-> FALSE, seen |-> {}]} : d = next
    BY <2>1
  <2>3. d \in AreaCalls
    <3>1. [pc |-> "unset"] \in AreaCalls
      BY DEF AreaCalls
    <3>2. [pc |-> "insert", primary |-> FALSE, seen |-> {}] \in AreaCalls
      <4>1. {} \in SUBSET RowIds
        OBVIOUS
      <4> QED
        BY <4>1 DEF AreaCalls
    <3> QED
      BY <2>2, <3>1, <3>2
  <2>4. AreaWorks(s, d)
    BY <2>1, <2>2, <2>3 DEF AreaWorks, Areas!Creating
  <2> QED
    BY <1>1, <2>4, AreaStep
<1>4. ASSUME Areas!Unset(s) PROVE AreaInv'
  <2> DEFINE next == [pc |-> "insert", primary |-> TRUE, seen |-> Areas!Rows]
  <2>1. /\ areaCalls[s].pc = "unset" /\ areaCalls' = [areaCalls EXCEPT ![s] = next]
        /\ UNCHANGED <<areaLimit, areaPeak, areaOrderly>>
    BY <1>4 DEF Areas!Unset, Areas!Goto
  <2>2. next \in AreaCalls
    BY <1>2 DEF AreaCalls
  <2>3. next.pc = "insert" /\ DOMAIN areaPrimary \subseteq next.seen
    BY <1>2
  <2> HIDE DEF next
  <2>4. AreaWorks(s, next)
    BY <2>1, <2>2, <2>3 DEF AreaWorks, Areas!Creating
  <2> QED
    BY <1>1, <2>3, <2>4, AreaStep
<1>5. ASSUME Areas!Clear(s) PROVE AreaInv'
  <2> DEFINE next == [pc |-> "set", area |-> areaCalls[s].area, seen |-> Areas!Rows]
  <2>1. /\ areaCalls[s].pc = "clear" /\ areaCalls' = [areaCalls EXCEPT ![s] = next]
        /\ UNCHANGED <<areaLimit, areaPeak, areaOrderly>>
    BY <1>5 DEF Areas!Clear, Areas!Goto
  <2>2. next \in AreaCalls
    BY <1>1, <1>2, <2>1, AreaFields DEF AreaCalls
  <2>3. next.pc = "set" /\ DOMAIN areaPrimary \subseteq next.seen
    BY <1>2
  <2> HIDE DEF next
  <2>4. AreaWorks(s, next)
    BY <2>1, <2>2, <2>3 DEF AreaWorks, Areas!Moving
  <2> QED
    BY <1>1, <2>3, <2>4, AreaStep
<1> QED
  BY <1>3, <1>4, <1>5

\* The one step that adds a row, when no snapshot lacks it.
LEMMA AreaInsert ==
    ASSUME AreaInv, NEW s \in Slots, NEW a \in RowIds, Areas!Insert(s, a)
    PROVE  AreaInv'
<1> DEFINE c == areaCalls[s]
           rows == DOMAIN areaPrimary
<1>1. /\ c.pc = "insert" /\ a \notin rows
      /\ areaPrimary' = [b \in rows \cup {a} |->
             IF b = a THEN c.primary ELSE areaPrimary[b] /\ b \notin c.seen]
      /\ areaCalls' = [areaCalls EXCEPT ![s] = Areas!Idle]
      /\ UNCHANGED <<areaLimit, areaPeak, areaOrderly>>
  BY DEF Areas!Insert, Areas!Goto, Areas!Rows
<1>2. c.primary \in BOOLEAN /\ \A b \in rows : areaPrimary[b] \in BOOLEAN
  BY <1>1, AreaFields DEF AreaInv, AreaShape
<1>3. /\ DOMAIN areaPrimary' = rows \cup {a}
      /\ areaPrimary'[a] = c.primary
      /\ \A b \in rows : areaPrimary'[b] = (areaPrimary[b] /\ b \notin c.seen)
  BY <1>1
<1>4. areaPrimary' \in [rows \cup {a} -> BOOLEAN]
  BY <1>1, <1>2
<1>5. /\ IsFiniteSet(rows \cup {a}) /\ Cardinality(rows) \in Nat
      /\ Cardinality(rows \cup {a}) = Cardinality(rows) + 1
  BY <1>1, FS_AddElement, FS_CardinalityType DEF AreaInv, AreaShape
<1>6. Areas!Idle \in AreaCalls /\ Areas!Idle.pc = "idle"
  BY DEF AreaCalls, Areas!Idle
<1>7. AreaShape'
  BY <1>1, <1>3, <1>4, <1>5, <1>6 DEF AreaInv, AreaShape
<1>8. ASSUME areaOrderly' PROVE AreaGood' /\ \A t \in Slots : AreaPending(t)'
  <2>1. AreaGood /\ AreaPending(s) /\ Areas!Creating(s)
    BY <1>1, <1>8 DEF AreaInv, Areas!Creating
  <2>2. /\ Cardinality(rows) < areaPeak /\ areaPeak \in Nat /\ areaPeak' = areaPeak
        /\ \A t \in Slots \ {s} : ~Areas!Creating(t) /\ ~Areas!Moving(t)
        /\ c.primary => rows \subseteq c.seen
    BY <1>1, <2>1, AreaLimits DEF AreaPending, AreaInv, AreaShape
  <2>3. AreaGood'
    <3>1. Cardinality(DOMAIN areaPrimary') <= areaPeak'
      BY <1>3, <1>5, <2>2
    <3>2. ASSUME NEW x \in rows \cup {a}, NEW y \in rows \cup {a},
                 areaPrimary'[x], areaPrimary'[y]
          PROVE  x = y
      BY <1>1, <1>2, <1>3, <2>1, <2>2, <3>2 DEF AreaGood
    <3> QED
      BY <1>3, <3>1, <3>2 DEF AreaGood
  <2>4. \A t \in Slots : areaCalls'[t].pc \notin {"decide", "unset", "insert", "set"}
    BY <1>1, <1>6, <2>2 DEF Areas!Creating, Areas!Moving, AreaInv, AreaShape
  <2> QED
    BY <2>3, <2>4 DEF AreaPending, Areas!Creating
<1> QED
  BY <1>7, <1>8 DEF AreaInv

LEMMA AreaDemote ==
    ASSUME AreaInv, NEW a \in RowIds, Areas!Demote(a) PROVE AreaInv'
<1>1. /\ areaPrimary' = [areaPrimary EXCEPT ![a] = FALSE]
      /\ UNCHANGED <<areaLimit, areaCalls, areaPeak, areaOrderly>>
  BY DEF Areas!Demote
<1>2. /\ DOMAIN areaPrimary' = DOMAIN areaPrimary
      /\ areaPrimary' \in [DOMAIN areaPrimary' -> BOOLEAN]
      /\ \A b \in DOMAIN areaPrimary : areaPrimary'[b] => areaPrimary[b]
  BY <1>1 DEF AreaInv, AreaShape
<1>3. AreaShape'
  BY <1>1, <1>2 DEF AreaInv, AreaShape
<1>4. AreaGood => AreaGood'
  BY <1>1, <1>2 DEF AreaGood
<1>5. \A s \in Slots : AreaPending(s) => AreaPending(s)'
  BY <1>1, <1>2 DEF AreaPending, Areas!Creating, Areas!Moving
<1> QED
  BY <1>1, <1>3, <1>4, <1>5 DEF AreaInv

LEMMA AreaDelete ==
    ASSUME AreaInv, NEW s \in Slots, Areas!Delete(s) PROVE AreaInv'
<1>1. /\ areaPrimary' = [b \in DOMAIN areaPrimary \ {areaCalls[s].area} |-> areaPrimary[b]]
      /\ areaCalls' = [areaCalls EXCEPT ![s] = Areas!Idle]
      /\ UNCHANGED <<areaLimit, areaPeak, areaOrderly>>
  BY DEF Areas!Delete, Areas!Goto, Areas!Rows
<1>2. AreaShrinks
  BY <1>1 DEF AreaShrinks, AreaInv, AreaShape
<1>3. AreaWorks(s, Areas!Idle)
  BY <1>1 DEF AreaWorks, AreaCalls, Areas!Idle
<1>4. Areas!Idle.pc = "idle"
  BY DEF Areas!Idle
<1> QED
  BY <1>2, <1>3, <1>4, AreaStep

\* The commit of a change of the primary area: it has seen every row.
LEMMA AreaPromote ==
    ASSUME AreaInv, NEW s \in Slots, Areas!Promote(s) PROVE AreaInv'
<1> DEFINE c == areaCalls[s]
           rows == DOMAIN areaPrimary
<1>1. /\ c.pc = "set"
      /\ areaPrimary' = IF c.area \notin rows THEN areaPrimary
                        ELSE [b \in rows |-> b = c.area \/ (areaPrimary[b] /\ b \notin c.seen)]
      /\ areaCalls' = [areaCalls EXCEPT ![s] = Areas!Idle]
      /\ UNCHANGED <<areaLimit, areaPeak, areaOrderly>>
  BY DEF Areas!Promote, Areas!Goto, Areas!Rows
<1>2. AreaWorks(s, Areas!Idle) /\ Areas!Idle.pc = "idle"
  BY <1>1 DEF AreaWorks, AreaCalls, Areas!Idle
<1>3. CASE c.area \notin rows
  <2>1. AreaShrinks
    BY <1>1, <1>3, AreaStays DEF AreaInv
  <2> QED
    BY <1>2, <2>1, AreaStep
<1>4. CASE c.area \in rows
  <2>1. /\ DOMAIN areaPrimary' = rows
        /\ areaPrimary' \in [rows -> BOOLEAN]
        /\ \A b \in rows : areaPrimary'[b] => b = c.area \/ (areaPrimary[b] /\ b \notin c.seen)
    BY <1>1, <1>4
  <2>2. AreaShape'
    BY <1>1, <1>2, <2>1 DEF AreaWorks, AreaInv, AreaShape
  <2>3. ASSUME areaOrderly' PROVE AreaGood' /\ \A t \in Slots : AreaPending(t)'
    <3>1. AreaGood /\ \A t \in Slots : AreaPending(t)
      BY <1>1, <2>3 DEF AreaInv
    <3>2. rows \subseteq c.seen
      BY <1>1, <3>1 DEF AreaPending
    <3>3. AreaGood'
      BY <1>1, <2>1, <3>1, <3>2 DEF AreaGood
    <3>4. \A t \in Slots : areaCalls'[t] \in {areaCalls[t], Areas!Idle}
      BY <1>1 DEF AreaInv, AreaShape
    <3>5. \A t \in Slots : AreaPending(t)'
      BY <1>1, <1>2, <2>1, <3>1, <3>4 DEF AreaPending, Areas!Creating, Areas!Moving
    <3> QED
      BY <3>3, <3>5
  <2> QED
    BY <2>2, <2>3 DEF AreaInv
<1> QED
  BY <1>3, <1>4

LEMMA AreaPlan ==
    ASSUME AreaInv, NEW l \in PlanLimits, Areas!PlanChanges(l) PROVE AreaInv'
<1>1. /\ areaLimit' = l /\ areaPeak' = IF l > areaPeak THEN l ELSE areaPeak
      /\ UNCHANGED <<areaPrimary, areaCalls, areaOrderly>>
  BY DEF Areas!PlanChanges
<1>2. /\ l \in Nat /\ areaPeak \in Nat /\ Cardinality(DOMAIN areaPrimary) \in Nat
  BY AreaLimits, LinkAssumption, FS_CardinalityType DEF AreaInv, AreaShape
<1>3. areaPeak' \in PlanLimits /\ areaPeak' \in Nat /\ areaPeak' >= areaPeak /\ areaPeak' >= l
  BY <1>1, <1>2 DEF AreaInv, AreaShape
<1>4. AreaShape'
  BY <1>1, <1>2, <1>3 DEF AreaInv, AreaShape
<1>5. AreaGood => AreaGood'
  BY <1>1, <1>2, <1>3 DEF AreaGood
<1>6. \A s \in Slots : AreaPending(s) => AreaPending(s)'
  BY <1>1, <1>2, <1>3 DEF AreaPending, Areas!Creating, Areas!Moving
<1> QED
  BY <1>1, <1>4, <1>5, <1>6 DEF AreaInv

LEMMA AreaNext == ASSUME AreaInv, [Areas!Next]_areaVars PROVE AreaInv'
<1>1. CASE UNCHANGED areaVars
  <2>1. AreaShape'
    BY <1>1 DEF areaVars, AreaInv, AreaShape
  <2>2. AreaGood => AreaGood'
    BY <1>1 DEF areaVars, AreaGood
  <2>3. \A s \in Slots : AreaPending(s) => AreaPending(s)'
    BY <1>1 DEF areaVars, AreaPending, Areas!Creating, Areas!Moving
  <2> QED
    BY <1>1, <2>1, <2>2, <2>3 DEF areaVars, AreaInv
<1>2. CASE Areas!Next
  BY <1>2, AreasBegin, AreaReads, AreaInsert, AreaDemote, AreaDelete, AreaPromote, AreaPlan
     DEF Areas!Next
<1> QED
  BY <1>1, <1>2

LEMMA AreaOne == AreaInv => Areas!TypeOK /\ Areas!OnePrimaryArea
<1> SUFFICES ASSUME AreaInv PROVE Areas!TypeOK /\ Areas!OnePrimaryArea
  OBVIOUS
<1>1. Areas!TypeOK
  <2>1. \A a \in DOMAIN areaPrimary : areaPrimary[a] \in BOOLEAN
    BY DEF AreaInv, AreaShape
  <2>2. AreaCalls = Areas!Calls
    BY DEF AreaCalls, Areas!Calls, Areas!Idle
  <2> QED
    BY <2>1, <2>2 DEF AreaInv, AreaShape, Areas!TypeOK, Areas!Rows
<1> QED
  BY <1>1, AreaCardinality DEF AreaInv, AreaGood, Areas!OnePrimaryArea, Areas!Rows

-----------------------------------------------------------------------------
(* Exchange rates                                                          *)

LEMMA LeastNumber ==
    ASSUME NEW S \in SUBSET Nat, S # {}
    PROVE  \E n \in S : \A m \in S : n <= m
<1> DEFINE R == {p \in Nat \X Nat : p[1] < p[2]}
<1>1. IsWellFoundedOn(R, Nat)
  BY NatLessThanWellFounded DEF OpToRel
<1>2. \E n \in S : \A m \in S : ~(<<m, n>> \in R)
  BY <1>1, WFMin
<1>3. \A m, n \in Nat : m < n => <<m, n>> \in R
  OBVIOUS
<1> HIDE DEF R
<1>4. PICK n \in S : \A m \in S : ~(<<m, n>> \in R)
  BY <1>2
<1>5. \A m \in S : m \in Nat /\ n \in Nat /\ ~(m < n)
  BY <1>3, <1>4
<1> QED
  BY <1>5

\* The least bound of a set of days is one of them.
LEMMA LatestDay ==
    ASSUME NEW S \in SUBSET Rates!Days, S # {}
    PROVE  LET latest == CHOOSE d \in S : \A e \in S : e <= d IN
           latest \in S /\ \A e \in S : e <= latest
<1> DEFINE Bounds == {n \in Nat : \A d \in S : d <= n}
<1>1. \A d \in S : d \in Nat \ {0} /\ d <= MaxDay
  BY BoundAssumption DEF Rates!Days
<1>2. MaxDay \in Bounds
  BY <1>1, BoundAssumption
<1>3. PICK n \in Bounds : \A m \in Bounds : n <= m
  BY <1>2, LeastNumber
<1>4. n \in S
  <2> SUFFICES ASSUME n \notin S PROVE FALSE
    OBVIOUS
  <2>1. \A d \in S : d \in Nat /\ d < n
    BY <1>1, <1>3
  <2>2. n - 1 \in Nat /\ \A d \in S : d <= n - 1
    BY <2>1, <1>1, <1>3
  <2>3. n - 1 \in Bounds
    BY <2>2
  <2> QED
    BY <1>3, <2>3
<1>5. \E d \in S : \A e \in S : e <= d
  BY <1>3, <1>4
<1> QED
  BY <1>5

RateSyncs ==
    [pc : {"idle"}] \cup [pc : {"fetch"}, day : Rates!Days]
    \cup [pc : {"upsert"}, day : Rates!Days, edition : Rates!Editions]

RateCheckouts ==
    [pc : {"idle"}] \cup [pc : {"convert"}, asked : Rates!Days]
    \cup [pc : {"priced"}, asked : Rates!Days, day : Rates!Days]

RateShape ==
    /\ rateBehindUtc \in BOOLEAN /\ rateToday \in Rates!Days
    /\ rateBcu \in [Rates!Days -> Rates!Editions] /\ rateRates \in [Rates!Days -> Rates!Editions]
    /\ rateFetched = rateRates
    /\ rateSyncs \in [Slots -> RateSyncs]
    /\ rateCheckout \in RateCheckouts
    /\ rateOrderly \in BOOLEAN

\* What the sync of a day carries is an edition that the BCU has had, and no
\* older than the stored one if no sync has met it.
RateSync(s) ==
    rateSyncs[s].pc = "upsert" =>
        /\ rateSyncs[s].edition # 0 /\ rateSyncs[s].edition <= rateBcu[rateSyncs[s].day]
        /\ rateOrderly => rateSyncs[s].edition >= rateRates[rateSyncs[s].day]

\* A checkout under way has a row to be priced at.
RatePrice ==
    /\ rateCheckout.pc = "convert" => \E d \in Rates!Rows : d >= rateCheckout.asked
    /\ rateCheckout.pc = "priced" => rateCheckout.day >= rateCheckout.asked

RateAlone ==
    \A s, t \in Slots : rateSyncs[s] # Rates!Idle /\ rateSyncs[t] # Rates!Idle => s = t

RateInv ==
    /\ RateShape /\ RatePrice
    /\ \A d \in Rates!Days : rateRates[d] <= rateBcu[d]
    /\ \A s \in Slots : RateSync(s)
    /\ rateOrderly => RateAlone

LEMMA RateFields ==
    /\ \A c \in RateSyncs : /\ c = Rates!Idle <=> c.pc = "idle"
                            /\ c.pc \in {"idle", "fetch", "upsert"}
                            /\ c.pc # "idle" => c.day \in Rates!Days
                            /\ c.pc = "upsert" => c.edition \in Rates!Editions
    /\ \A c \in RateCheckouts : /\ c.pc \in {"idle", "convert", "priced"}
                                /\ c.pc # "idle" => c.asked \in Rates!Days
                                /\ c.pc = "priced" => c.day \in Rates!Days
BY DEF RateSyncs, RateCheckouts, Rates!Idle

LEMMA RateNumbers ==
    /\ \A d \in Rates!Days : d \in Nat /\ d # 0 /\ d <= MaxDay
    /\ \A e \in Rates!Editions : e \in Nat /\ e <= MaxEdition
    /\ 1 \in Rates!Days /\ 0 \in Rates!Editions
BY BoundAssumption DEF Rates!Days, Rates!Editions

LEMMA RateInit == Rates!Init => RateInv
<1> SUFFICES ASSUME Rates!Init PROVE RateInv
  OBVIOUS
<1>1. RateShape
  BY RateNumbers DEF Rates!Init, RateShape, RateSyncs, RateCheckouts, Rates!Idle
<1>2. RatePrice /\ RateAlone /\ \A s \in Slots : RateSync(s)
  BY DEF Rates!Init, RatePrice, RateAlone, RateSync, Rates!Idle
<1>3. \A d \in Rates!Days : rateRates[d] <= rateBcu[d]
  BY DEF Rates!Init
<1> QED
  BY <1>1, <1>2, <1>3 DEF RateInv

\* A sync begins, or asks the BCU, or fails.
LEMMA RateSyncMoves ==
    ASSUME RateInv, NEW s \in Slots,
           Rates!BeginSync(s) \/ Rates!Fetch(s) \/ Rates!FetchFails(s)
    PROVE  RateInv'
<1> DEFINE c == rateSyncs[s]
           d == rateSyncs[s].day
           next == rateSyncs'[s]
<1>1. /\ UNCHANGED <<rateBehindUtc, rateToday, rateBcu, rateRates, rateCheckout, rateFetched>>
      /\ c \in RateSyncs /\ rateOrderly \in BOOLEAN
  BY DEF Rates!BeginSync, Rates!Fetch, Rates!FetchFails, RateInv, RateShape
<1>2. /\ rateSyncs' = [rateSyncs EXCEPT ![s] = next] /\ next \in RateSyncs
      /\ next.pc = "upsert" =>
            next.edition # 0 /\ next.edition = rateBcu[next.day] /\ next.day \in Rates!Days
      /\ \/ c = Rates!Idle /\ rateOrderly' = (rateOrderly /\ \A r \in Slots : rateSyncs[r] = Rates!Idle)
         \/ c # Rates!Idle /\ rateOrderly' = rateOrderly
  <2>1. CASE Rates!BeginSync(s)
    BY <2>1 DEF Rates!BeginSync, Rates!Goto, RateSyncs, RateInv, RateShape
  <2>2. CASE Rates!Fetch(s)
    <3>1. c # Rates!Idle /\ d \in Rates!Days /\ rateBcu[d] \in Rates!Editions
      BY <1>1, <2>2, RateFields DEF Rates!Fetch, RateInv, RateShape
    <3>2. /\ next = IF rateBcu[d] = 0 THEN Rates!Idle
                    ELSE [pc |-> "upsert", day |-> d, edition |-> rateBcu[d]]
          /\ rateSyncs' = [rateSyncs EXCEPT ![s] = next] /\ rateOrderly' = rateOrderly
      BY <2>2 DEF Rates!Fetch, Rates!Goto, RateInv, RateShape
    <3> QED
      BY <3>1, <3>2 DEF RateSyncs, Rates!Idle
  <2>3. CASE Rates!FetchFails(s)
    <3>1. c # Rates!Idle
      BY <1>1, <2>3, RateFields DEF Rates!FetchFails
    <3> QED
      BY <2>3, <3>1 DEF Rates!FetchFails, Rates!Goto, RateSyncs, Rates!Idle, RateInv, RateShape
  <2> QED
    BY <2>1, <2>2, <2>3
<1>3. RateShape'
  BY <1>1, <1>2 DEF RateInv, RateShape
<1>4. RatePrice'
  BY <1>1 DEF RateInv, RatePrice, Rates!Rows
<1>5. rateOrderly' => rateOrderly /\ RateAlone'
  BY <1>1, <1>2 DEF RateInv, RateShape, RateAlone
<1>6. ASSUME NEW t \in Slots PROVE RateSync(t)'
  <2>1. CASE t = s
    <3>1. \A e \in Rates!Days : rateRates[e] <= rateBcu[e] /\ rateBcu[e] \in Nat /\ rateRates[e] \in Nat
      BY RateNumbers DEF RateInv, RateShape
    <3> QED
      BY <1>1, <1>2, <2>1, <3>1 DEF RateSync
  <2>2. CASE t # s
    BY <1>1, <1>2, <1>5, <2>2 DEF RateInv, RateShape, RateSync
  <2> QED
    BY <2>1, <2>2
<1> QED
  BY <1>1, <1>3, <1>4, <1>5, <1>6 DEF RateInv

LEMMA RateUpsert ==
    ASSUME RateInv, NEW s \in Slots, Rates!Upsert(s) PROVE RateInv'
<1> DEFINE c == rateSyncs[s]
<1>1. /\ c.pc = "upsert"
      /\ rateRates' = [rateRates EXCEPT ![c.day] = c.edition]
      /\ rateFetched' = [rateFetched EXCEPT ![c.day] = c.edition]
      /\ rateSyncs' = [rateSyncs EXCEPT ![s] = Rates!Idle]
      /\ UNCHANGED <<rateBehindUtc, rateToday, rateBcu, rateCheckout, rateOrderly>>
  BY DEF Rates!Upsert, Rates!Write, Rates!Goto
<1>2. c \in RateSyncs /\ c.day \in Rates!Days /\ c.edition \in Rates!Editions /\ c # Rates!Idle
  BY <1>1, RateFields DEF RateInv, RateShape
<1>3. c.edition # 0 /\ c.edition <= rateBcu[c.day]
  BY <1>1 DEF RateInv, RateSync
<1>4. /\ rateRates'[c.day] = c.edition
      /\ \A d \in Rates!Days \ {c.day} : rateRates'[d] = rateRates[d]
      /\ rateSyncs'[s] = Rates!Idle
      /\ \A t \in Slots \ {s} : rateSyncs'[t] = rateSyncs[t]
  BY <1>1, <1>2 DEF RateInv, RateShape
<1>5. RateShape'
  BY <1>1, <1>2 DEF RateInv, RateShape, RateSyncs, Rates!Idle
<1>6. RatePrice'
  <2>1. Rates!Rows \subseteq Rates!Rows'
    BY <1>2, <1>3, <1>4 DEF Rates!Rows
  <2> QED
    BY <1>1, <2>1 DEF RateInv, RatePrice
<1>7. \A d \in Rates!Days : rateRates'[d] <= rateBcu'[d]
  BY <1>1, <1>3, <1>4 DEF RateInv
<1>8. ASSUME NEW t \in Slots PROVE RateSync(t)'
  <2>1. CASE t = s
    BY <1>4, <2>1 DEF RateSync, Rates!Idle
  <2>2. CASE t # s
    <3>1. rateSyncs[t].pc = "upsert" => ~rateOrderly
      BY <1>2, <2>2, RateFields DEF RateInv, RateShape, RateAlone
    <3> QED
      BY <1>1, <1>4, <2>2, <3>1 DEF RateInv, RateSync
  <2> QED
    BY <2>1, <2>2
<1>9. rateOrderly' => RateAlone'
  BY <1>1, <1>4 DEF RateInv, RateAlone
<1> QED
  BY <1>5, <1>6, <1>7, <1>8, <1>9 DEF RateInv

LEMMA RateLatest ==
    ASSUME RateInv, Rates!Rows # {}
    PROVE  /\ Rates!Latest \in Rates!Rows /\ Rates!Latest \in Rates!Days
           /\ \A d \in Rates!Rows : d <= Rates!Latest
<1>1. Rates!Rows \in SUBSET Rates!Days
  BY DEF Rates!Rows
<1> QED
  BY <1>1, LatestDay DEF Rates!Latest

LEMMA RateCheckout ==
    ASSUME RateInv, Rates!BeginCheckout \/ Rates!Convert PROVE RateInv'
<1>1. /\ UNCHANGED <<rateBehindUtc, rateToday, rateBcu, rateRates, rateSyncs, rateFetched, rateOrderly>>
      /\ rateToday \in Rates!Days
  BY DEF Rates!BeginCheckout, Rates!Convert, RateInv, RateShape
<1>2. rateCheckout' \in RateCheckouts /\ RatePrice'
  <2>1. CASE Rates!BeginCheckout
    <3>1. Rates!Latest \in Rates!Rows /\ Rates!Latest \in Nat /\ rateToday \in Nat
      BY <1>1, <2>1, RateLatest, RateNumbers DEF Rates!BeginCheckout
    <3>2. Rates!Latest >= rateToday
      BY <2>1, <3>1 DEF Rates!BeginCheckout, Rates!Stale, Rates!ZoneDay
    <3> QED
      BY <1>1, <2>1, <3>1, <3>2 DEF Rates!BeginCheckout, RateCheckouts, RatePrice, Rates!Rows
  <2>2. CASE Rates!Convert
    <3>1. PICK d \in Rates!Rows : d >= rateCheckout.asked
      BY <2>2 DEF Rates!Convert, RateInv, RatePrice
    <3>2. rateCheckout.asked \in Rates!Days
      BY <2>2, RateFields DEF Rates!Convert, RateInv, RateShape
    <3>3. Rates!Latest \in Rates!Days /\ d <= Rates!Latest /\ d \in Rates!Days
      BY <3>1, RateLatest DEF Rates!Rows
    <3>4. Rates!Latest >= rateCheckout.asked
      BY <3>1, <3>2, <3>3, RateNumbers
    <3> QED
      BY <2>2, <3>2, <3>3, <3>4 DEF Rates!Convert, RateCheckouts, RatePrice
  <2> QED
    BY <2>1, <2>2
<1>3. RateShape'
  BY <1>1, <1>2 DEF RateInv, RateShape
<1>4. \A t \in Slots : RateSync(t)'
  BY <1>1 DEF RateInv, RateSync
<1>5. RateAlone => RateAlone'
  BY <1>1 DEF RateAlone
<1> QED
  BY <1>1, <1>2, <1>3, <1>4, <1>5 DEF RateInv

LEMMA RatePasses ==
    ASSUME RateInv, (\E d \in Rates!Days : Rates!Publish(d)) \/ Rates!Midnight PROVE RateInv'
<1>1. UNCHANGED <<rateBehindUtc, rateRates, rateSyncs, rateCheckout, rateFetched, rateOrderly>>
  BY DEF Rates!Publish, Rates!Midnight
<1>2. /\ rateToday' \in Rates!Days /\ rateBcu' \in [Rates!Days -> Rates!Editions]
      /\ \A d \in Rates!Days : rateBcu[d] <= rateBcu'[d]
  <2>1. \A d \in Rates!Days : rateBcu[d] \in Rates!Editions /\ rateBcu[d] \in Nat
    BY RateNumbers DEF RateInv, RateShape
  <2>2. ASSUME NEW d \in Rates!Days, Rates!Publish(d)
        PROVE  /\ rateToday' \in Rates!Days /\ rateBcu' \in [Rates!Days -> Rates!Editions]
               /\ \A e \in Rates!Days : rateBcu[e] <= rateBcu'[e]
    <3>1. /\ rateBcu' = [rateBcu EXCEPT ![d] = rateBcu[d] + 1] /\ rateBcu[d] < MaxEdition
          /\ rateToday' = rateToday
      BY <2>2 DEF Rates!Publish
    <3>2. rateBcu[d] + 1 \in Rates!Editions
      BY <2>1, <3>1, BoundAssumption DEF Rates!Editions
    <3> QED
      BY <2>1, <3>1, <3>2 DEF RateInv, RateShape
  <2>3. CASE Rates!Midnight
    <3>1. rateToday + 1 \in Rates!Days
      BY <2>3, BoundAssumption DEF Rates!Midnight, Rates!Days, RateInv, RateShape
    <3> QED
      BY <2>1, <2>3, <3>1 DEF Rates!Midnight, RateInv, RateShape
  <2> QED
    BY <2>2, <2>3
<1>3. RateShape'
  BY <1>1, <1>2 DEF RateInv, RateShape
<1>4. RatePrice' /\ (RateAlone => RateAlone')
  BY <1>1 DEF RateInv, RatePrice, RateAlone, Rates!Rows
<1>5. \A d \in Rates!Days : /\ rateRates[d] \in Nat /\ rateBcu[d] \in Nat /\ rateBcu'[d] \in Nat
                            /\ rateRates'[d] <= rateBcu'[d]
  BY <1>1, <1>2, RateNumbers DEF RateInv, RateShape
<1>6. ASSUME NEW t \in Slots PROVE RateSync(t)'
  <2> SUFFICES ASSUME rateSyncs[t].pc = "upsert" PROVE RateSync(t)'
    BY <1>1 DEF RateSync
  <2>1. rateSyncs[t].day \in Rates!Days /\ rateSyncs[t].edition \in Nat
    BY RateFields, RateNumbers DEF RateInv, RateShape
  <2> QED
    BY <1>1, <1>2, <1>5, <2>1 DEF RateInv, RateSync
<1> QED
  BY <1>1, <1>3, <1>4, <1>5, <1>6 DEF RateInv

LEMMA RateNext == ASSUME RateInv, [Rates!Next]_rateVars PROVE RateInv'
<1>1. CASE UNCHANGED rateVars
  <2>1. RateShape' /\ RatePrice' /\ (RateAlone => RateAlone') /\ (\A t \in Slots : RateSync(t)')
    BY <1>1 DEF rateVars, RateInv, RateShape, RatePrice, RateAlone, RateSync, Rates!Rows
  <2> QED
    BY <1>1, <2>1 DEF rateVars, RateInv
<1>2. CASE Rates!Next
  BY <1>2, RateSyncMoves, RateUpsert, RateCheckout, RatePasses DEF Rates!Next
<1> QED
  BY <1>1, <1>2

LEMMA RateIsNewest == RateInv => Rates!TypeOK /\ Rates!RateIsLatest
<1> SUFFICES ASSUME RateInv PROVE Rates!TypeOK /\ Rates!RateIsLatest
  OBVIOUS
<1>1. Rates!TypeOK
  <2>1. /\ RateSyncs = {Rates!Idle} \cup [pc : {"fetch"}, day : Rates!Days]
                       \cup [pc : {"upsert"}, day : Rates!Days, edition : Rates!Editions]
        /\ RateCheckouts = {Rates!Idle} \cup [pc : {"convert"}, asked : Rates!Days]
                           \cup [pc : {"priced"}, asked : Rates!Days, day : Rates!Days]
    BY DEF RateSyncs, RateCheckouts, Rates!Idle
  <2> QED
    BY <2>1 DEF RateInv, RateShape, Rates!TypeOK
<1>2. Rates!RateIsLatest
  BY DEF RateInv, RateShape, RatePrice, RateSync, Rates!RateIsLatest, Rates!Rows
<1> QED
  BY <1>1, <1>2

-----------------------------------------------------------------------------
(* Categories                                                              *)

CategoryFields == {"type", "parent", "live"}

CategoryCalls ==
    [pc : {"idle", "invalidate", "reload"}]
    \cup [pc : {"write"}, id : TwoIds, sets : SUBSET CategoryFields, row : Tree!Row]
    \cup [pc : {"prompt"}, shows : Nat]

CategoryReads == [pc : {"idle"}] \cup [pc : {"fill"}, shows : Nat]

\* A parent that a change names has a row, live or not, and what a reload or a
\* read has seen is no later than the last change.
CategoryShape ==
    /\ categoryRows \in [DOMAIN categoryRows -> Tree!Row] /\ DOMAIN categoryRows \subseteq TwoIds
    /\ \A id \in DOMAIN categoryRows : categoryRows[id].parent \in DOMAIN categoryRows \cup {None}
    /\ categoryChanges \in 0..MaxChanges /\ categoryPrompt \in 0..categoryChanges
    /\ categoryTree \in 0..categoryChanges \cup {None}
    /\ categoryCalls \in [Slots -> CategoryCalls]
    /\ \A s \in Slots :
          /\ categoryCalls[s].pc = "write" =>
                categoryCalls[s].row.parent \in DOMAIN categoryRows \cup {None}
          /\ categoryCalls[s].pc = "prompt" => categoryCalls[s].shows \in 0..categoryChanges
    /\ categoryReading \in CategoryReads
    /\ categoryReading.pc = "fill" => categoryReading.shows \in 0..categoryChanges
    /\ categoryOrderly \in BOOLEAN /\ categorySettled \in BOOLEAN

CategoryAlone ==
    \A s, t \in Slots : Tree!Under(s) /\ Tree!Under(t) => s = t

\* A category keeps the rule if a change that is written leaves it as it was
\* checked: the row a change would write, on the row there is now.
CategoryOld(c) == IF c.id \in DOMAIN categoryRows THEN categoryRows[c.id] ELSE c.row
CategoryWritten(c, f) == IF f \in c.sets THEN c.row[f] ELSE CategoryOld(c)[f]
CategoryChecked(c) ==
    CategoryWritten(c, "type") = "TRADE" <=> CategoryWritten(c, "parent") = None

CategoryOrder ==
    /\ Tree!TradesHaveNoParent /\ CategoryAlone
    /\ \A s \in Slots : categoryCalls[s].pc = "write" => CategoryChecked(categoryCalls[s])

\* While nothing meets the last change, the tree and the prompt follow it.
CategoryFollows(s) ==
    /\ categoryCalls[s].pc = "reload" => categoryTree = None
    /\ categoryCalls[s].pc = "prompt" => categoryTree = None /\ categoryCalls[s].shows = categoryChanges

CategorySettled ==
    /\ CategoryAlone
    /\ categoryReading # Tree!Idle => \A s \in Slots : ~Tree!Under(s)
    /\ \A s \in Slots : CategoryFollows(s)
    /\ (\A s \in Slots : ~Tree!Under(s)) =>
          categoryTree \in {None, categoryChanges} /\ categoryPrompt = categoryChanges
    /\ categoryReading # Tree!Idle => categoryReading.shows = categoryChanges

CategoryInv ==
    CategoryShape /\ (categoryOrderly => CategoryOrder) /\ (categorySettled => CategorySettled)

LEMMA CategoryCallFields ==
    /\ \A c \in CategoryCalls :
          /\ c = Tree!Idle <=> c.pc = "idle"
          /\ c.pc \in {"idle", "write", "invalidate", "reload", "prompt"}
          /\ c.pc = "write" => c.id \in TwoIds /\ c.row \in Tree!Row /\ c.sets \in SUBSET CategoryFields
          /\ c.pc = "prompt" => c.shows \in Nat
    /\ \A c \in CategoryReads : /\ c = Tree!Idle <=> c.pc = "idle"
                                /\ c.pc \in {"idle", "fill"}
                                /\ c.pc = "fill" => c.shows \in Nat
BY DEF CategoryCalls, CategoryReads, Tree!Idle

LEMMA CategoryInit == Tree!Init => CategoryInv
<1> SUFFICES ASSUME Tree!Init PROVE CategoryInv
  OBVIOUS
<1>1. DOMAIN categoryRows = {} /\ \A s \in Slots : categoryCalls[s] = Tree!Idle
  BY DEF Tree!Init
<1>2. CategoryShape
  BY <1>1, BoundAssumption DEF Tree!Init, CategoryShape, CategoryCalls, CategoryReads, Tree!Idle
<1>3. CategoryOrder
  BY <1>1 DEF CategoryOrder, CategoryAlone, Tree!TradesHaveNoParent, Tree!Under, Tree!Idle
<1>4. CategorySettled
  BY <1>1 DEF Tree!Init, CategorySettled, CategoryFollows, CategoryAlone, Tree!Under, Tree!Idle
<1> QED
  BY <1>2, <1>3, <1>4 DEF CategoryInv

\* A change that has passed its checks begins.
LEMMA CategoryBegins ==
    ASSUME CategoryInv, NEW s \in Slots, NEW c \in CategoryCalls, c.pc = "write",
           c.row.parent \in DOMAIN categoryRows \cup {None},
           categoryOrderly => CategoryChecked(c),
           Tree!Begin(s, c)
    PROVE  CategoryInv'
<1>1. /\ categoryCalls' = [categoryCalls EXCEPT ![s] = c] /\ ~Tree!Under(s)
      /\ categoryOrderly' = (categoryOrderly /\ Tree!Quiet) /\ categorySettled' = Tree!Quiet
      /\ UNCHANGED <<categoryRows, categoryChanges, categoryTree, categoryPrompt, categoryReading>>
  BY DEF Tree!Begin
<1>2. categoryCalls'[s] = c /\ \A t \in Slots \ {s} : categoryCalls'[t] = categoryCalls[t]
  BY <1>1 DEF CategoryInv, CategoryShape
<1>3. Tree!Quiet \in BOOLEAN
  BY DEF Tree!Quiet
<1>4. CategoryShape'
  BY <1>1, <1>2, <1>3 DEF CategoryInv, CategoryShape
<1>5. c # Tree!Idle
  BY CategoryCallFields
<1>6. ASSUME Tree!Quiet
      PROVE  /\ CategoryAlone' /\ categoryReading' = Tree!Idle
             /\ \A t \in Slots \ {s} : categoryCalls'[t] = Tree!Idle
  BY <1>1, <1>2, <1>6 DEF Tree!Quiet, Tree!Under, CategoryAlone
<1>7. ASSUME categoryOrderly' PROVE CategoryOrder'
  <2>1. CategoryOrder /\ CategoryChecked(c) /\ Tree!Quiet
    BY <1>1, <1>7 DEF CategoryInv, CategoryShape
  <2>2. CategoryChecked(c)'
    BY <1>1, <2>1 DEF CategoryChecked, CategoryWritten, CategoryOld
  <2>3. Tree!TradesHaveNoParent'
    BY <1>1, <2>1 DEF CategoryOrder, Tree!TradesHaveNoParent
  <2>4. \A t \in Slots : (categoryCalls[t].pc = "write" => CategoryChecked(categoryCalls[t]))'
    BY <1>2, <1>6, <2>1, <2>2 DEF CategoryChecked, CategoryWritten, CategoryOld, Tree!Idle
  <2> QED
    BY <1>6, <2>1, <2>3, <2>4 DEF CategoryOrder
<1>8. ASSUME categorySettled' PROVE CategorySettled'
  <2>1. Tree!Quiet
    BY <1>1, <1>8
  <2> QED
    BY <1>2, <1>5, <1>6, <2>1 DEF CategorySettled, CategoryFollows, Tree!Under, Tree!Idle
<1> QED
  BY <1>4, <1>7, <1>8 DEF CategoryInv

LEMMA CategoriesBegin ==
    ASSUME CategoryInv, NEW s \in Slots, NEW id \in TwoIds,
           \/ \E type \in {"TRADE", "SERVICE"}, parent \in TwoIds \cup {None} :
                 \/ Tree!BeginCreate(s, id, type, parent)
                 \/ \E given \in SUBSET {"type", "parent"} :
                       Tree!BeginUpdate(s, id, given, type, parent)
           \/ Tree!BeginRemove(s, id)
    PROVE  CategoryInv'
<1>0. /\ \A i \in DOMAIN categoryRows : /\ categoryRows[i] \in Tree!Row
                                        /\ categoryRows[i].parent \in DOMAIN categoryRows \cup {None}
      /\ Tree!Live \subseteq DOMAIN categoryRows
      /\ None \notin Tree!Live
  BY BoundAssumption DEF CategoryInv, CategoryShape, Tree!Live
<1>1. ASSUME NEW type \in {"TRADE", "SERVICE"}, NEW parent \in TwoIds \cup {None},
             Tree!RulesHold(type, parent)
      PROVE  (type = "TRADE" <=> parent = None) /\ parent \in DOMAIN categoryRows \cup {None}
  BY <1>0, <1>1 DEF Tree!RulesHold
<1>2. ASSUME NEW type \in {"TRADE", "SERVICE"}, NEW parent \in TwoIds \cup {None},
             Tree!BeginCreate(s, id, type, parent)
      PROVE  CategoryInv'
  <2> DEFINE row == [type |-> type, parent |-> parent, live |-> TRUE]
             c == [pc |-> "write", id |-> id, row |-> row, sets |-> {"type", "parent", "live"}]
  <2>1. Tree!Begin(s, c) /\ Tree!RulesHold(type, parent)
    BY <1>2 DEF Tree!BeginCreate
  <2>2. row \in Tree!Row /\ (row.type = "TRADE" <=> row.parent = None)
        /\ row.parent \in DOMAIN categoryRows \cup {None}
    BY <1>1, <2>1 DEF Tree!Row
  <2>3. c \in CategoryCalls /\ c.pc = "write" /\ c.row.parent \in DOMAIN categoryRows \cup {None}
    BY <2>2 DEF CategoryCalls, CategoryFields
  <2>4. CategoryChecked(c)
    BY <2>2 DEF CategoryChecked, CategoryWritten
  <2> HIDE DEF c
  <2> QED
    BY <2>1, <2>3, <2>4, CategoryBegins
<1>3. ASSUME NEW type \in {"TRADE", "SERVICE"}, NEW parent \in TwoIds \cup {None},
             NEW given \in SUBSET {"type", "parent"},
             Tree!BeginUpdate(s, id, given, type, parent)
      PROVE  CategoryInv'
  <2> DEFINE t == IF "type" \in given THEN type ELSE categoryRows[id].type
             p == IF "parent" \in given THEN parent ELSE categoryRows[id].parent
             row == [type |-> t, parent |-> p, live |-> TRUE]
             c == [pc |-> "write", id |-> id, sets |-> given, row |-> row]
  <2>1. Tree!Begin(s, c) /\ Tree!RulesHold(t, p) /\ id \in Tree!Live
    BY <1>3 DEF Tree!BeginUpdate
  <2>2. /\ categoryRows[id].type \in {"TRADE", "SERVICE"} /\ t \in {"TRADE", "SERVICE"}
        /\ categoryRows[id].parent \in TwoIds \cup {None} /\ p \in TwoIds \cup {None}
    BY <1>0, <2>1 DEF Tree!Row
  <2>3. (t = "TRADE" <=> p = None) /\ p \in DOMAIN categoryRows \cup {None}
    BY <1>1, <2>1, <2>2
  <2>4. c \in CategoryCalls /\ c.pc = "write" /\ c.row.parent \in DOMAIN categoryRows \cup {None}
    BY <2>2, <2>3 DEF CategoryCalls, CategoryFields, Tree!Row
  <2>5. CategoryWritten(c, "type") = t /\ CategoryWritten(c, "parent") = p
    <3>1. CategoryOld(c) = categoryRows[id]
      BY <1>0, <2>1 DEF CategoryOld
    <3> QED
      BY <3>1 DEF CategoryWritten
  <2>6. CategoryChecked(c)
    BY <2>3, <2>5 DEF CategoryChecked
  <2> HIDE DEF c
  <2> QED
    BY <2>1, <2>4, <2>6, CategoryBegins
<1>4. ASSUME Tree!BeginRemove(s, id) PROVE CategoryInv'
  <2> DEFINE row == [categoryRows[id] EXCEPT !.live = FALSE]
             c == [pc |-> "write", id |-> id, sets |-> {"live"}, row |-> row]
  <2>1. Tree!Begin(s, c) /\ id \in DOMAIN categoryRows /\ categoryRows[id] \in Tree!Row
        /\ categoryRows[id].parent \in DOMAIN categoryRows \cup {None}
    BY <1>0, <1>4 DEF Tree!BeginRemove
  <2>2. row \in Tree!Row /\ row.parent = categoryRows[id].parent
    BY <2>1 DEF Tree!Row
  <2>3. c \in CategoryCalls /\ c.pc = "write" /\ c.row.parent \in DOMAIN categoryRows \cup {None}
    BY <2>1, <2>2 DEF CategoryCalls, CategoryFields
  <2>4. ASSUME categoryOrderly PROVE CategoryChecked(c)
    <3>1. CategoryOld(c) = categoryRows[id]
      BY <2>1 DEF CategoryOld
    <3>2. categoryRows[id].type = "TRADE" <=> categoryRows[id].parent = None
      BY <2>1, <2>4 DEF CategoryInv, CategoryOrder, Tree!TradesHaveNoParent
    <3> QED
      BY <3>1, <3>2 DEF CategoryChecked, CategoryWritten
  <2> HIDE DEF c
  <2> QED
    BY <2>1, <2>3, <2>4, CategoryBegins
<1> QED
  BY <1>2, <1>3, <1>4

\* A change writes its row: what it has checked may be stale by now, but a row
\* that had a parent to name keeps having it.
LEMMA CategoryWrite ==
    ASSUME CategoryInv, NEW s \in Slots, Tree!Write(s) PROVE CategoryInv'
<1> DEFINE c == categoryCalls[s]
           new == [type |-> CategoryWritten(c, "type"), parent |-> CategoryWritten(c, "parent"),
                   live |-> CategoryWritten(c, "live")]
<1>1. /\ c.pc = "write" /\ categoryChanges < MaxChanges /\ categoryChanges' = categoryChanges + 1
      /\ categoryRows' = [id \in DOMAIN categoryRows \cup {c.id} |->
             IF id # c.id THEN categoryRows[id] ELSE new]
      /\ categoryCalls' = [categoryCalls EXCEPT ![s] = [pc |-> "invalidate"]]
      /\ UNCHANGED <<categoryTree, categoryPrompt, categoryReading, categoryOrderly, categorySettled>>
  BY DEF Tree!Write, CategoryWritten, CategoryOld
<1>2. c \in CategoryCalls /\ c # Tree!Idle /\ c.id \in TwoIds /\ c.row \in Tree!Row
  BY <1>1, CategoryCallFields DEF CategoryInv, CategoryShape
<1>3. /\ categoryRows'[c.id] = new /\ DOMAIN categoryRows' = DOMAIN categoryRows \cup {c.id}
      /\ \A id \in DOMAIN categoryRows \ {c.id} : categoryRows'[id] = categoryRows[id]
  BY <1>1
<1>4. /\ categoryCalls'[s] = [pc |-> "invalidate"] /\ [pc |-> "invalidate"] \in CategoryCalls
      /\ \A t \in Slots \ {s} : categoryCalls'[t] = categoryCalls[t]
  BY <1>1 DEF CategoryInv, CategoryShape, CategoryCalls
<1>5. new \in Tree!Row /\ new.parent \in DOMAIN categoryRows \cup {None}
  <2>1. CategoryOld(c) \in Tree!Row /\ CategoryOld(c).parent \in DOMAIN categoryRows \cup {None}
    BY <1>1, <1>2 DEF CategoryOld, CategoryInv, CategoryShape
  <2>2. c.row.parent \in DOMAIN categoryRows \cup {None}
    BY <1>1 DEF CategoryInv, CategoryShape
  <2> QED
    BY <1>2, <2>1, <2>2 DEF CategoryWritten, Tree!Row
<1>6. /\ categoryChanges' \in 0..MaxChanges /\ categoryChanges \in Nat
      /\ 0..categoryChanges \subseteq 0..categoryChanges'
  BY <1>1, BoundAssumption DEF CategoryInv, CategoryShape
<1>7. CategoryShape'
  <2>1. categoryRows' \in [DOMAIN categoryRows' -> Tree!Row] /\ DOMAIN categoryRows' \subseteq TwoIds
    BY <1>1, <1>2, <1>5 DEF CategoryInv, CategoryShape
  <2>2. \A id \in DOMAIN categoryRows' : categoryRows'[id].parent \in DOMAIN categoryRows' \cup {None}
    BY <1>3, <1>5 DEF CategoryInv, CategoryShape
  <2>3. categoryCalls' \in [Slots -> CategoryCalls]
    BY <1>1, <1>4 DEF CategoryInv, CategoryShape
  <2>4. ASSUME NEW t \in Slots
        PROVE  /\ categoryCalls'[t].pc = "write" =>
                     categoryCalls'[t].row.parent \in DOMAIN categoryRows' \cup {None}
               /\ categoryCalls'[t].pc = "prompt" => categoryCalls'[t].shows \in 0..categoryChanges'
    BY <1>3, <1>4, <1>6 DEF CategoryInv, CategoryShape
  <2> QED
    BY <1>1, <1>6, <2>1, <2>2, <2>3, <2>4 DEF CategoryInv, CategoryShape
<1>8. CategoryAlone => \A t \in Slots \ {s} : categoryCalls'[t] = Tree!Idle
  BY <1>2, <1>4 DEF CategoryAlone, Tree!Under
<1>9. CategoryAlone => CategoryAlone'
  BY <1>8 DEF CategoryAlone, Tree!Under
<1>10. CategoryOrder => CategoryOrder'
  <2> SUFFICES ASSUME CategoryOrder PROVE CategoryOrder'
    OBVIOUS
  <2>1. new.type = "TRADE" <=> new.parent = None
    BY <1>1 DEF CategoryOrder, CategoryChecked
  <2>2. Tree!TradesHaveNoParent'
    BY <1>3, <2>1 DEF CategoryOrder, Tree!TradesHaveNoParent
  <2>3. \A t \in Slots : categoryCalls'[t].pc # "write"
    BY <1>4, <1>8 DEF CategoryOrder, Tree!Idle
  <2> QED
    BY <1>9, <2>2, <2>3 DEF CategoryOrder
<1>11. CategorySettled => CategorySettled'
  <2> SUFFICES ASSUME CategorySettled PROVE CategorySettled'
    OBVIOUS
  <2>1. categoryReading' = Tree!Idle
    BY <1>1, <1>2 DEF CategorySettled, Tree!Under
  <2>2. Tree!Under(s)'
    BY <1>4 DEF Tree!Under, Tree!Idle
  <2>3. \A t \in Slots : CategoryFollows(t)'
    BY <1>4, <1>8 DEF CategorySettled, CategoryFollows, Tree!Idle
  <2> QED
    BY <1>9, <2>1, <2>2, <2>3 DEF CategorySettled
<1> QED
  BY <1>1, <1>7, <1>10, <1>11 DEF CategoryInv

\* A change moves on to its next step, or dies, and writes no row.
LEMMA CategoryMoves ==
    ASSUME CategoryInv, NEW s \in Slots,
           \/ Tree!Invalidate(s) \/ Tree!ReloadRead(s) \/ Tree!ReloadSet(s) \/ Tree!Fails(s)
    PROVE  CategoryInv'
<1> DEFINE c == categoryCalls[s]
           next == categoryCalls'[s]
<1>1. /\ UNCHANGED <<categoryRows, categoryChanges, categoryReading, categoryOrderly>>
      /\ categoryCalls' = [categoryCalls EXCEPT ![s] = next]
      /\ \A t \in Slots \ {s} : categoryCalls'[t] = categoryCalls[t]
      /\ c \in CategoryCalls
  BY DEF Tree!Invalidate, Tree!ReloadRead, Tree!ReloadSet, Tree!Fails, CategoryInv, CategoryShape
<1>2. categoryChanges \in Nat /\ categoryChanges \in 0..categoryChanges
  BY DEF CategoryInv, CategoryShape
<1>3. /\ c # Tree!Idle /\ next \in CategoryCalls /\ next.pc # "write"
      /\ next.pc = "prompt" => next.shows \in 0..categoryChanges'
      /\ categoryPrompt' \in 0..categoryChanges /\ categoryTree' \in 0..categoryChanges \cup {None}
      /\ categorySettled' \in BOOLEAN
  <2>1. CASE Tree!Invalidate(s)
    <3>1. c # Tree!Idle
      BY <2>1 DEF Tree!Invalidate, Tree!Idle
    <3> QED
      BY <2>1, <3>1 DEF Tree!Invalidate, CategoryInv, CategoryShape, CategoryCalls
  <2>2. CASE Tree!ReloadRead(s)
    <3>1. c # Tree!Idle /\ next = [pc |-> "prompt", shows |-> categoryChanges]
      BY <2>2 DEF Tree!ReloadRead, Tree!Idle, CategoryInv, CategoryShape
    <3> QED
      BY <1>2, <2>2, <3>1 DEF Tree!ReloadRead, CategoryInv, CategoryShape, CategoryCalls
  <2>3. CASE Tree!ReloadSet(s)
    <3>1. c # Tree!Idle /\ next = Tree!Idle /\ c.shows \in 0..categoryChanges
      BY <2>3 DEF Tree!ReloadSet, Tree!Idle, CategoryInv, CategoryShape
    <3> QED
      BY <2>3, <3>1 DEF Tree!ReloadSet, Tree!Idle, CategoryInv, CategoryShape, CategoryCalls
  <2>4. CASE Tree!Fails(s)
    <3>1. c # Tree!Idle /\ next = Tree!Idle
      BY <2>4 DEF Tree!Fails, Tree!Under, CategoryInv, CategoryShape
    <3> QED
      BY <2>4, <3>1 DEF Tree!Fails, Tree!Idle, CategoryInv, CategoryShape, CategoryCalls
  <2> QED
    BY <2>1, <2>2, <2>3, <2>4
<1>4. CategoryShape'
  <2>1. categoryCalls' \in [Slots -> CategoryCalls]
    BY <1>1, <1>3 DEF CategoryInv, CategoryShape
  <2>2. ASSUME NEW t \in Slots
        PROVE  /\ categoryCalls'[t].pc = "write" =>
                     categoryCalls'[t].row.parent \in DOMAIN categoryRows' \cup {None}
               /\ categoryCalls'[t].pc = "prompt" => categoryCalls'[t].shows \in 0..categoryChanges'
    BY <1>1, <1>3 DEF CategoryInv, CategoryShape
  <2> QED
    BY <1>1, <1>3, <2>1, <2>2 DEF CategoryInv, CategoryShape
<1>5. CategoryAlone => CategoryAlone' /\ \A t \in Slots \ {s} : categoryCalls'[t] = Tree!Idle
  BY <1>1, <1>3 DEF CategoryAlone, Tree!Under
<1>6. CategoryOrder => CategoryOrder'
  <2> SUFFICES ASSUME CategoryOrder PROVE CategoryOrder'
    OBVIOUS
  <2>1. Tree!TradesHaveNoParent'
    BY <1>1 DEF CategoryOrder, Tree!TradesHaveNoParent
  <2>2. \A t \in Slots : categoryCalls'[t].pc # "write"
    BY <1>3, <1>5 DEF CategoryOrder, Tree!Idle
  <2> QED
    BY <1>5, <2>1, <2>2 DEF CategoryOrder
<1>7. ASSUME categorySettled' PROVE CategorySettled'
  <2>1. ~Tree!Fails(s) /\ categorySettled' = categorySettled
    BY <1>7 DEF Tree!Fails, Tree!Invalidate, Tree!ReloadRead, Tree!ReloadSet
  <2>2. CategorySettled
    BY <1>7, <2>1 DEF CategoryInv
  <2>3. categoryReading' = Tree!Idle
    BY <1>1, <1>3, <2>2 DEF CategorySettled, Tree!Under
  <2>4. \A t \in Slots \ {s} : categoryCalls'[t] = Tree!Idle
    BY <1>5, <2>2 DEF CategorySettled
  <2>5. CASE Tree!Invalidate(s)
    <3>1. next = [pc |-> "reload"] /\ categoryTree' = None
      BY <2>5 DEF Tree!Invalidate, CategoryInv, CategoryShape
    <3>2. Tree!Under(s)'
      BY <3>1 DEF Tree!Under, Tree!Idle
    <3>3. \A t \in Slots : CategoryFollows(t)'
      BY <2>4, <3>1 DEF CategoryFollows, Tree!Idle
    <3> QED
      BY <1>5, <2>2, <2>3, <3>2, <3>3 DEF CategorySettled
  <2>6. CASE Tree!ReloadRead(s)
    <3>1. next = [pc |-> "prompt", shows |-> categoryChanges] /\ categoryTree' = categoryTree
      BY <2>6 DEF Tree!ReloadRead, CategoryInv, CategoryShape
    <3>2. categoryTree = None
      BY <2>2, <2>6 DEF CategorySettled, CategoryFollows, Tree!ReloadRead
    <3>3. Tree!Under(s)'
      BY <3>1 DEF Tree!Under, Tree!Idle
    <3>4. \A t \in Slots : CategoryFollows(t)'
      BY <1>1, <2>4, <3>1, <3>2 DEF CategoryFollows, Tree!Idle
    <3> QED
      BY <1>5, <2>2, <2>3, <3>3, <3>4 DEF CategorySettled
  <2>7. CASE Tree!ReloadSet(s)
    <3>1. next = Tree!Idle /\ categoryTree' = categoryTree /\ categoryPrompt' = c.shows
      BY <2>7 DEF Tree!ReloadSet, CategoryInv, CategoryShape
    <3>2. categoryTree = None /\ c.shows = categoryChanges
      BY <2>2, <2>7 DEF CategorySettled, CategoryFollows, Tree!ReloadSet
    <3>3. \A t \in Slots : CategoryFollows(t)'
      BY <2>4, <3>1 DEF CategoryFollows, Tree!Idle
    <3> QED
      BY <1>1, <1>5, <2>2, <2>3, <3>1, <3>2, <3>3 DEF CategorySettled
  <2> QED
    BY <2>1, <2>5, <2>6, <2>7
<1> QED
  BY <1>1, <1>4, <1>6, <1>7 DEF CategoryInv

\* The cached tree is filled, or expires.
LEMMA CategoryTree ==
    ASSUME CategoryInv, Tree!GetTree \/ Tree!FillTree \/ Tree!TreeExpires
    PROVE  CategoryInv'
<1>1. UNCHANGED <<categoryRows, categoryChanges, categoryPrompt, categoryCalls, categoryOrderly>>
  BY DEF Tree!GetTree, Tree!FillTree, Tree!TreeExpires
<1>2. categoryChanges \in Nat /\ categoryChanges \in 0..categoryChanges
  BY DEF CategoryInv, CategoryShape
<1>3. /\ categoryTree' \in 0..categoryChanges \cup {None} /\ categoryReading' \in CategoryReads
      /\ categoryReading'.pc = "fill" => categoryReading'.shows \in 0..categoryChanges
      /\ categorySettled' \in BOOLEAN /\ (categorySettled' => categorySettled)
  <2>1. CASE Tree!GetTree
    <3>1. /\ categoryReading' = [pc |-> "fill", shows |-> categoryChanges] /\ categoryTree' = categoryTree
          /\ categorySettled' = (categorySettled /\ Tree!Quiet)
      BY <2>1 DEF Tree!GetTree
    <3> QED
      BY <1>2, <3>1 DEF CategoryReads, CategoryInv, CategoryShape
  <2>2. CASE Tree!FillTree
    <3>1. /\ categoryReading # Tree!Idle /\ categoryReading' = Tree!Idle
          /\ categoryTree' = categoryReading.shows /\ categorySettled' = categorySettled
      BY <2>2 DEF Tree!FillTree
    <3>2. categoryReading.pc = "fill"
      BY <3>1, CategoryCallFields DEF CategoryInv, CategoryShape
    <3> QED
      BY <3>1, <3>2 DEF CategoryReads, CategoryInv, CategoryShape, Tree!Idle
  <2>3. CASE Tree!TreeExpires
    BY <2>3 DEF Tree!TreeExpires, CategoryInv, CategoryShape
  <2> QED
    BY <2>1, <2>2, <2>3
<1>4. CategoryShape'
  BY <1>1, <1>3 DEF CategoryInv, CategoryShape
<1>5. CategoryOrder => CategoryOrder'
  BY <1>1 DEF CategoryOrder, CategoryAlone, Tree!Under, Tree!TradesHaveNoParent, CategoryChecked,
              CategoryWritten, CategoryOld
<1>6. ASSUME categorySettled' PROVE CategorySettled'
  <2>1. CategorySettled
    BY <1>3, <1>6 DEF CategoryInv
  <2>2. CategoryAlone'
    BY <1>1, <2>1 DEF CategorySettled, CategoryAlone, Tree!Under
  <2>3. CASE Tree!GetTree
    <3>1. /\ categoryReading' = [pc |-> "fill", shows |-> categoryChanges] /\ categoryTree' = categoryTree
          /\ categoryTree = None /\ Tree!Quiet
      BY <1>6, <2>3 DEF Tree!GetTree
    <3>2. \A t \in Slots : ~Tree!Under(t)'
      BY <1>1, <3>1 DEF Tree!Quiet, Tree!Under
    <3> QED
      BY <1>1, <2>1, <2>2, <3>1, <3>2 DEF CategorySettled, CategoryFollows, Tree!Under, Tree!Idle
  <2>4. CASE Tree!FillTree
    <3>1. categoryReading # Tree!Idle /\ categoryReading' = Tree!Idle
          /\ categoryTree' = categoryReading.shows
      BY <2>4 DEF Tree!FillTree
    <3>2. /\ categoryReading.shows = categoryChanges /\ \A t \in Slots : ~Tree!Under(t)
          /\ categoryPrompt = categoryChanges
      BY <2>1, <3>1 DEF CategorySettled
    <3> QED
      BY <1>1, <2>2, <3>1, <3>2 DEF CategorySettled, CategoryFollows, Tree!Under, Tree!Idle
  <2>5. CASE Tree!TreeExpires
    BY <1>1, <2>1, <2>2, <2>5 DEF Tree!TreeExpires, CategorySettled, CategoryFollows, Tree!Under
  <2> QED
    BY <2>3, <2>4, <2>5
<1> QED
  BY <1>1, <1>4, <1>5, <1>6 DEF CategoryInv

LEMMA CategoryNext == ASSUME CategoryInv, [Tree!Next]_categoryVars PROVE CategoryInv'
<1>1. CASE UNCHANGED categoryVars
  <2>1. CategoryShape'
    BY <1>1 DEF categoryVars, CategoryInv, CategoryShape
  <2>2. CategoryOrder => CategoryOrder'
    BY <1>1 DEF categoryVars, CategoryOrder, CategoryAlone, Tree!Under, Tree!TradesHaveNoParent,
                CategoryChecked, CategoryWritten, CategoryOld
  <2>3. CategorySettled => CategorySettled'
    BY <1>1 DEF categoryVars, CategorySettled, CategoryAlone, Tree!Under, CategoryFollows
  <2> QED
    BY <1>1, <2>1, <2>2, <2>3 DEF categoryVars, CategoryInv
<1>2. CASE Tree!Next
  BY <1>2, CategoriesBegin, CategoryWrite, CategoryMoves, CategoryTree DEF Tree!Next
<1> QED
  BY <1>1, <1>2

LEMMA CategoryIsCurrent == CategoryInv => Tree!TypeOK /\ Tree!TreeIsCurrent
<1> SUFFICES ASSUME CategoryInv PROVE Tree!TypeOK /\ Tree!TreeIsCurrent
  OBVIOUS
<1>1. Tree!TypeOK
  <2>1. \A s \in Slots : categoryCalls[s].pc \in {"idle", "write", "invalidate", "reload", "prompt"}
    BY CategoryCallFields DEF CategoryInv, CategoryShape
  <2>2. \A id \in DOMAIN categoryRows : categoryRows[id] \in Tree!Row
    BY DEF CategoryInv, CategoryShape
  <2> QED
    BY <2>1, <2>2 DEF CategoryInv, CategoryShape, Tree!TypeOK
<1>2. Tree!TreeIsCurrent
  BY DEF CategoryInv, CategoryOrder, CategorySettled, Tree!TreeIsCurrent, Tree!Quiet
<1> QED
  BY <1>1, <1>2

-----------------------------------------------------------------------------
(* The catalog of places                                                   *)

GeoAnswers == {None} \cup ((Cities \cup {None}) \X (Names \cup {None}))

GeoCalls ==
    [pc : {"idle", "invalidate"}]
    \cup [pc : {"resolve"}, query : Geo!Queries]
    \cup [pc : {"upsert"}, query : Cities \X Names]
    \cup [pc : {"cache"}, query : Geo!Queries, created : BOOLEAN, result : GeoAnswers]

GeoReads == [pc : {"idle"}] \cup [pc : {"fill"}, rows : SUBSET Geo!Rows]

GeoShape ==
    /\ geoSeed \in Seeds /\ geoSeed \subseteq geoCatalog /\ geoCatalog \subseteq Geo!Rows
    /\ geoTree = None \/ geoTree \in SUBSET Geo!Rows
    /\ geoAnswers \in [Geo!Queries -> GeoAnswers]
    /\ geoCalls \in [Slots -> GeoCalls]
    /\ geoReading \in GeoReads
    /\ geoSettled \in BOOLEAN

\* What is answered to a query: its city, and its neighbourhood or none, which
\* is in the catalog.
GeoAnswered(q, a) ==
    /\ a[1] = q[1] /\ a[2] \in {q[2], None}
    /\ a[2] # None => a \in geoCatalog

Told(city) == Cardinality({name \in Names : <<city, name>> \in geoSeed}) > 1

GeoGood ==
    /\ \A city \in Cities, name \in Names : <<city, name>> \in geoCatalog \ geoSeed => Told(city)
    /\ \A q \in Geo!Queries : geoAnswers[q] \notin {None, Geo!Unresolved} => GeoAnswered(q, geoAnswers[q])
    /\ \A s \in Slots :
          /\ geoCalls[s].pc = "upsert" => Told(geoCalls[s].query[1])
          /\ geoCalls[s].pc = "cache" /\ geoCalls[s].result # Geo!Unresolved =>
                GeoAnswered(geoCalls[s].query, geoCalls[s].result)

GeoUnder(s) == geoCalls[s] # Geo!Idle

\* A creation that is still to forget the cached tree.
GeoForgets(s) ==
    \/ geoCalls[s].pc = "cache" /\ geoCalls[s].created
    \/ geoCalls[s].pc = "invalidate"

GeoSettled ==
    /\ \A s, t \in Slots : GeoUnder(s) /\ GeoUnder(t) => s = t
    /\ geoReading # Geo!Idle =>
          (\A s \in Slots : ~GeoUnder(s)) /\ geoReading.rows = geoCatalog
    /\ (\A s \in Slots : ~GeoForgets(s)) => geoTree \in {None, geoCatalog}

GeoInv == GeoShape /\ GeoGood /\ (geoSettled => GeoSettled)

LEMMA GeoFields ==
    /\ \A c \in GeoCalls :
          /\ c = Geo!Idle <=> c.pc = "idle"
          /\ c.pc \in {"idle", "resolve", "upsert", "cache", "invalidate"}
          /\ c.pc \in {"resolve", "cache"} => c.query \in Geo!Queries
          /\ c.pc = "upsert" => c.query \in Cities \X Names
          /\ c.pc = "cache" => c.created \in BOOLEAN /\ c.result \in GeoAnswers
    /\ \A c \in GeoReads : /\ c = Geo!Idle <=> c.pc = "idle"
                           /\ c.pc \in {"idle", "fill"}
                           /\ c.pc = "fill" => c.rows \in SUBSET Geo!Rows
BY DEF GeoCalls, GeoReads, Geo!Idle

LEMMA GeoCardinality == \A S : Geo!Cardinality(S) = Cardinality(S)
  BY DEF Geo!Cardinality, Cardinality

LEMMA OneMember ==
    ASSUME NEW S, IsFiniteSet(S), Cardinality(S) = 1, NEW x \in S
    PROVE  S = {x}
<1>1. IsFiniteSet(S \ {x}) /\ Cardinality(S \ {x}) = Cardinality(S) - 1
  BY FS_RemoveElement
<1>2. Cardinality(S \ {x}) = 0
  BY <1>1
<1> QED
  BY <1>1, <1>2, FS_EmptySet

LEMMA GeoInit == Geo!Init => GeoInv
<1> SUFFICES ASSUME Geo!Init PROVE GeoInv
  OBVIOUS
<1>1. geoCatalog = geoSeed /\ \A s \in Slots : geoCalls[s] = Geo!Idle
  BY DEF Geo!Init
<1>2. \A S \in Seeds : S \subseteq Geo!Rows
  BY DEF Seeds, Geo!Rows, Cities, Names
<1>3. GeoShape
  BY <1>1, <1>2 DEF Geo!Init, GeoShape, GeoCalls, GeoReads, GeoAnswers, Geo!Idle
<1>4. GeoGood
  BY <1>1 DEF Geo!Init, GeoGood, Geo!Idle
<1>5. GeoSettled
  BY <1>1 DEF Geo!Init, GeoSettled, GeoUnder, GeoForgets, Geo!Idle
<1> QED
  BY <1>3, <1>4, <1>5 DEF GeoInv

\* A request goes to its next step; the catalog stays.
GeoGoes(s, next) ==
    /\ next \in GeoCalls
    /\ geoCalls' = [geoCalls EXCEPT ![s] = next]
    /\ UNCHANGED <<geoSeed, geoCatalog, geoReading>>
    /\ next.pc = "upsert" => Told(next.query[1])
    /\ next.pc = "cache" /\ next.result # Geo!Unresolved => GeoAnswered(next.query, next.result)

LEMMA GeoStep ==
    ASSUME GeoInv, NEW s \in Slots, NEW next, GeoGoes(s, next),
           geoAnswers' \in [Geo!Queries -> GeoAnswers],
           \A q \in Geo!Queries : geoAnswers'[q] \notin {None, Geo!Unresolved} =>
               GeoAnswered(q, geoAnswers'[q]),
           geoTree' \in {None, geoTree}, geoSettled' \in BOOLEAN,
           geoSettled' => geoSettled /\ (GeoUnder(s) \/ Geo!Quiet),
           GeoForgets(s) => geoTree' = None \/ GeoForgets(s)'
    PROVE  GeoInv'
<1>1. geoCalls'[s] = next /\ \A t \in Slots \ {s} : geoCalls'[t] = geoCalls[t]
  BY DEF GeoGoes, GeoInv, GeoShape
<1>2. GeoShape'
  BY DEF GeoGoes, GeoInv, GeoShape
<1>3. GeoGood'
  <2>1. \A q, a : GeoAnswered(q, a)' <=> GeoAnswered(q, a)
    BY DEF GeoGoes, GeoAnswered
  <2>2. \A city : Told(city)' <=> Told(city)
    BY DEF GeoGoes, Told
  <2>3. \A q \in Geo!Queries : geoAnswers'[q] \notin {None, Geo!Unresolved} => GeoAnswered(q, geoAnswers[q])'
    BY DEF GeoGoes, GeoAnswered
  <2>4. ASSUME NEW t \in Slots
        PROVE  /\ geoCalls'[t].pc = "upsert" => Told(geoCalls'[t].query[1])
               /\ geoCalls'[t].pc = "cache" /\ geoCalls'[t].result # Geo!Unresolved =>
                     GeoAnswered(geoCalls'[t].query, geoCalls'[t].result)
    BY <1>1 DEF GeoInv, GeoGood, GeoGoes
  <2>5. \A t \in Slots :
           /\ geoCalls'[t].pc = "upsert" => Told(geoCalls[t].query[1])'
           /\ geoCalls'[t].pc = "cache" /\ geoCalls'[t].result # Geo!Unresolved =>
                 GeoAnswered(geoCalls[t].query, geoCalls[t].result)'
    BY <2>4 DEF GeoGoes, GeoAnswered, Told
  <2>6. \A city \in Cities, name \in Names :
           <<city, name>> \in geoCatalog' \ geoSeed' => Told(city)'
    BY <2>2 DEF GeoInv, GeoGood, GeoGoes
  <2> QED
    BY <2>3, <2>5, <2>6 DEF GeoGood
<1>4. ASSUME geoSettled' PROVE GeoSettled'
  <2>1. GeoSettled /\ (GeoUnder(s) \/ Geo!Quiet)
    BY <1>4 DEF GeoInv
  <2>2. geoReading = Geo!Idle /\ \A t \in Slots \ {s} : geoCalls[t] = Geo!Idle
    BY <2>1 DEF GeoSettled, GeoUnder, Geo!Quiet
  <2>3. geoReading' = Geo!Idle /\ \A t \in Slots \ {s} : geoCalls'[t] = Geo!Idle
    BY <1>1, <2>2 DEF GeoGoes
  <2>4. geoTree \in {None, geoCatalog} \/ GeoForgets(s)
    BY <2>1, <2>2 DEF GeoSettled, GeoForgets, Geo!Idle
  <2>5. geoTree' \in {None, geoCatalog'} \/ GeoForgets(s)'
    BY <2>4 DEF GeoGoes
  <2> QED
    BY <2>3, <2>5 DEF GeoSettled, GeoUnder
<1> QED
  BY <1>2, <1>3, <1>4 DEF GeoInv

LEMMA GeoAnswersStay ==
    ASSUME GeoInv
    PROVE  /\ geoAnswers \in [Geo!Queries -> GeoAnswers]
           /\ \A q \in Geo!Queries : geoAnswers[q] \notin {None, Geo!Unresolved} =>
                  GeoAnswered(q, geoAnswers[q])
  BY DEF GeoInv, GeoShape, GeoGood

LEMMA GeoBegins ==
    ASSUME GeoInv, NEW s \in Slots, NEW q \in Geo!Queries, Geo!Begin(s, q)
    PROVE  GeoInv'
<1> DEFINE next == [pc |-> "resolve", query |-> q]
<1>1. /\ geoCalls[s] = Geo!Idle /\ geoCalls' = [geoCalls EXCEPT ![s] = next]
      /\ geoSettled' = (geoSettled /\ Geo!Quiet)
      /\ UNCHANGED <<geoSeed, geoCatalog, geoTree, geoAnswers, geoReading>>
  BY DEF Geo!Begin, Geo!Goto
<1>2. GeoGoes(s, next)
  BY <1>1 DEF GeoGoes, GeoCalls
<1>3. ~GeoForgets(s)
  BY <1>1 DEF GeoForgets, Geo!Idle
<1>4. geoSettled' \in BOOLEAN /\ (geoSettled' => geoSettled /\ Geo!Quiet)
  BY <1>1 DEF GeoInv, GeoShape
<1>5. geoTree' \in {None, geoTree} /\ geoAnswers' = geoAnswers
  BY <1>1
<1> HIDE DEF next
<1> QED
  BY <1>2, <1>3, <1>4, <1>5, GeoAnswersStay, GeoStep

\* A neighbourhood is to be added only where the seed tells more than one, or
\* where one has been added already.
LEMMA GeoTold ==
    ASSUME GeoInv, NEW city \in Cities, Geo!CanUpsert(city)
    PROVE  Told(city)
<1>1. CASE \E name \in Names : <<city, name>> \in geoCatalog \ geoSeed
  BY <1>1 DEF GeoInv, GeoGood
<1>2. CASE ~\E name \in Names : <<city, name>> \in geoCatalog \ geoSeed
  <2>1. Geo!OfCity(city) = {name \in Names : <<city, name>> \in geoSeed}
    BY <1>2 DEF Geo!OfCity, GeoInv, GeoShape
  <2> QED
    BY <2>1, GeoCardinality DEF Geo!CanUpsert, Told
<1> QED
  BY <1>1, <1>2

LEMMA GeoQuery ==
    ASSUME NEW q \in Geo!Queries
    PROVE  /\ q = <<q[1], q[2]>> /\ q \in GeoAnswers /\ <<q[1], None>> \in GeoAnswers
           /\ q[2] # None => q \in Cities \X Names /\ q[1] \in Cities
BY DEF Geo!Queries, GeoAnswers, Geo!Unresolved

LEMMA GeoResolves ==
    ASSUME GeoInv, NEW s \in Slots, Geo!Resolve(s)
    PROVE  GeoInv'
<1> DEFINE q == geoCalls[s].query
           known == q[2] = None \/ q[2] \in Geo!OfCity(q[1])
           result == IF known THEN q ELSE <<q[1], None>>
           next == IF ~known /\ Geo!CanUpsert(q[1]) THEN [pc |-> "upsert", query |-> q]
                   ELSE [pc |-> "cache", query |-> q, created |-> FALSE, result |-> result]
<1>1. /\ geoCalls[s].pc = "resolve" /\ geoCalls' = [geoCalls EXCEPT ![s] = next]
      /\ UNCHANGED <<geoSeed, geoCatalog, geoTree, geoAnswers, geoReading, geoSettled>>
  BY DEF Geo!Resolve, Geo!Goto
<1>2. geoCalls[s] \in GeoCalls /\ q \in Geo!Queries /\ GeoUnder(s) /\ ~GeoForgets(s)
  BY <1>1, GeoFields DEF GeoInv, GeoShape, GeoUnder, GeoForgets
<1>3. result \in GeoAnswers /\ GeoAnswered(q, result)
  <2>1. CASE known
    <3>1. q[2] # None => q \in geoCatalog
      BY <1>2, <2>1, GeoQuery DEF Geo!OfCity
    <3> QED
      BY <1>2, <2>1, <3>1, GeoQuery DEF GeoAnswered
  <2>2. CASE ~known
    BY <1>2, <2>2, GeoQuery DEF GeoAnswered
  <2> QED
    BY <2>1, <2>2
<1>4. ASSUME ~known, Geo!CanUpsert(q[1]) PROVE q \in Cities \X Names /\ Told(q[1])
  BY <1>2, <1>4, GeoQuery, GeoTold
<1>5. GeoGoes(s, next)
  <2>1. CASE ~known /\ Geo!CanUpsert(q[1])
    <3>1. next = [pc |-> "upsert", query |-> q] /\ q \in Cities \X Names /\ Told(q[1])
      BY <1>4, <2>1
    <3> HIDE DEF q, known, result
    <3> QED
      BY <1>1, <3>1 DEF GeoGoes, GeoCalls
  <2>2. CASE ~(~known /\ Geo!CanUpsert(q[1]))
    <3>1. next = [pc |-> "cache", query |-> q, created |-> FALSE, result |-> result]
      BY <2>2
    <3> HIDE DEF q, known, result
    <3> QED
      BY <1>1, <1>2, <1>3, <3>1 DEF GeoGoes, GeoCalls
  <2> QED
    BY <2>1, <2>2
<1>6. geoSettled' \in BOOLEAN /\ geoTree' \in {None, geoTree} /\ geoAnswers' = geoAnswers
  BY <1>1 DEF GeoInv, GeoShape
<1>7. geoSettled' => geoSettled
  BY <1>1
<1> HIDE DEF next
<1> QED
  BY <1>2, <1>5, <1>6, <1>7, GeoAnswersStay, GeoStep

\* The creation: the one step that changes the catalog.
LEMMA GeoUpserts ==
    ASSUME GeoInv, NEW s \in Slots, Geo!Upsert(s)
    PROVE  GeoInv'
<1> DEFINE q == geoCalls[s].query
           next == [pc |-> "cache", query |-> q, result |-> q, created |-> TRUE]
           under == {t \in Slots : geoCalls[t] # Geo!Idle}
<1>1. /\ geoCalls[s].pc = "upsert" /\ geoCatalog' = geoCatalog \cup {q}
      /\ geoCalls' = [geoCalls EXCEPT ![s] = next]
      /\ geoSettled' = (Geo!Cardinality(under) = 1 /\ geoReading = Geo!Idle)
      /\ UNCHANGED <<geoSeed, geoTree, geoAnswers, geoReading>>
  BY DEF Geo!Upsert, Geo!Goto
<1>2. geoCalls[s] \in GeoCalls /\ q \in Cities \X Names /\ GeoUnder(s) /\ Told(q[1])
  BY <1>1, GeoFields DEF GeoInv, GeoShape, GeoUnder, GeoGood
<1>3. q \in Geo!Queries /\ q \in GeoAnswers /\ q \in Geo!Rows /\ q = <<q[1], q[2]>>
  BY <1>2 DEF Geo!Queries, GeoAnswers, Geo!Rows
<1>4. next \in GeoCalls
  BY <1>3 DEF GeoCalls
<1>5. geoCalls'[s] = next /\ \A t \in Slots \ {s} : geoCalls'[t] = geoCalls[t]
  BY <1>1 DEF GeoInv, GeoShape
<1>6. GeoShape'
  <2>1. geoSettled' \in BOOLEAN
    BY <1>1
  <2>2. geoCalls' \in [Slots -> GeoCalls]
    BY <1>1, <1>4 DEF GeoInv, GeoShape
  <2> HIDE DEF next
  <2> QED
    BY <1>1, <1>3, <2>1, <2>2 DEF GeoInv, GeoShape
<1>7. GeoGood'
  <2>1. \A x, a : GeoAnswered(x, a) => GeoAnswered(x, a)'
    BY <1>1 DEF GeoAnswered
  <2>2. \A city : Told(city)' <=> Told(city)
    BY <1>1 DEF Told
  <2>3. ASSUME NEW city \in Cities, NEW name \in Names, <<city, name>> \in geoCatalog' \ geoSeed'
        PROVE  Told(city)'
    <3>1. CASE <<city, name>> = q
      BY <1>2, <2>2, <3>1
    <3>2. CASE <<city, name>> # q
      BY <1>1, <2>2, <2>3, <3>2 DEF GeoInv, GeoGood
    <3> QED
      BY <3>1, <3>2
  <2>4. ASSUME NEW x \in Geo!Queries, geoAnswers'[x] \notin {None, Geo!Unresolved}
        PROVE  GeoAnswered(x, geoAnswers[x])'
    <3>1. GeoAnswered(x, geoAnswers[x])
      BY <1>1, <2>4 DEF GeoInv, GeoGood
    <3> QED
      BY <1>1, <3>1 DEF GeoAnswered
  <2>5. ASSUME NEW t \in Slots
        PROVE  /\ geoCalls'[t].pc = "upsert" => Told(geoCalls[t].query[1])'
               /\ geoCalls'[t].pc = "cache" /\ geoCalls'[t].result # Geo!Unresolved =>
                     GeoAnswered(geoCalls[t].query, geoCalls[t].result)'
    <3>1. CASE t = s
      BY <1>1, <1>5, <3>1 DEF GeoAnswered
    <3>2. CASE t # s
      BY <1>1, <1>5, <3>2 DEF GeoInv, GeoGood, GeoAnswered, Told
    <3> QED
      BY <3>1, <3>2
  <2> QED
    BY <2>3, <2>4, <2>5 DEF GeoGood
<1>8. ASSUME geoSettled' PROVE GeoSettled'
  <2>1. under = {s}
    <3>1. IsFiniteSet(under) /\ s \in under /\ Cardinality(under) = 1
      BY <1>1, <1>2, <1>8, GeoCardinality, FS_Subset, BoundAssumption DEF GeoUnder
    <3> HIDE DEF under
    <3> QED
      BY <3>1, OneMember
  <2>2. \A t \in Slots \ {s} : geoCalls'[t] = Geo!Idle
    BY <1>5, <2>1
  <2>3. geoReading' = Geo!Idle
    BY <1>1, <1>8
  <2>4. GeoForgets(s)'
    BY <1>5 DEF GeoForgets
  <2> QED
    BY <2>2, <2>3, <2>4 DEF GeoSettled, GeoUnder
<1> QED
  BY <1>6, <1>7, <1>8 DEF GeoInv

LEMMA GeoCaches ==
    ASSUME GeoInv, NEW s \in Slots, Geo!CacheResolve(s)
    PROVE  GeoInv'
<1> DEFINE c == geoCalls[s]
           next == IF c.created THEN [pc |-> "invalidate"] ELSE Geo!Idle
<1>1. /\ c.pc = "cache"
      /\ geoAnswers' \in {geoAnswers, [geoAnswers EXCEPT ![c.query] = c.result]}
      /\ geoCalls' = [geoCalls EXCEPT ![s] = next]
      /\ UNCHANGED <<geoSeed, geoCatalog, geoTree, geoReading, geoSettled>>
  BY DEF Geo!CacheResolve, Geo!Goto
<1>2. /\ c \in GeoCalls /\ c.query \in Geo!Queries /\ c.created \in BOOLEAN /\ c.result \in GeoAnswers
      /\ GeoUnder(s) /\ (c.result # Geo!Unresolved => GeoAnswered(c.query, c.result))
  BY <1>1, GeoFields DEF GeoInv, GeoShape, GeoUnder, GeoGood
<1>3. next \in GeoCalls /\ next.pc \in {"idle", "invalidate"}
  BY DEF GeoCalls, Geo!Idle
<1>4. GeoGoes(s, next)
  BY <1>1, <1>3 DEF GeoGoes
<1>5. geoAnswers' \in [Geo!Queries -> GeoAnswers]
  BY <1>1, <1>2 DEF GeoInv, GeoShape
<1>6. ASSUME NEW q \in Geo!Queries, geoAnswers'[q] \notin {None, Geo!Unresolved}
      PROVE  GeoAnswered(q, geoAnswers'[q])
  <2>1. geoAnswers'[q] = geoAnswers[q] \/ (q = c.query /\ geoAnswers'[q] = c.result)
    BY <1>1 DEF GeoInv, GeoShape
  <2> QED
    BY <1>2, <1>6, <2>1 DEF GeoInv, GeoGood
<1>7. GeoForgets(s) => GeoForgets(s)'
  BY <1>1 DEF GeoForgets, GeoInv, GeoShape
<1>8. geoSettled' \in BOOLEAN /\ geoTree' \in {None, geoTree} /\ (geoSettled' => geoSettled)
  BY <1>1 DEF GeoInv, GeoShape
<1> HIDE DEF next
<1> QED
  BY <1>2, <1>4, <1>5, <1>6, <1>7, <1>8, GeoStep

LEMMA GeoEnds ==
    ASSUME GeoInv, NEW s \in Slots, Geo!Invalidate(s) \/ Geo!Fails(s)
    PROVE  GeoInv'
<1>1. /\ geoCalls' = [geoCalls EXCEPT ![s] = Geo!Idle]
      /\ UNCHANGED <<geoSeed, geoCatalog, geoAnswers, geoReading>>
      /\ GeoUnder(s) /\ geoTree' \in {None, geoTree} /\ geoSettled' \in BOOLEAN
  <2>1. CASE Geo!Invalidate(s)
    BY <2>1 DEF Geo!Invalidate, Geo!Goto, Geo!Idle, GeoUnder, GeoInv, GeoShape
  <2>2. CASE Geo!Fails(s)
    BY <2>2 DEF Geo!Fails, Geo!Goto, GeoUnder
  <2> QED
    BY <2>1, <2>2
<1>2. GeoGoes(s, Geo!Idle)
  BY <1>1 DEF GeoGoes, GeoCalls, Geo!Idle
<1>3. CASE Geo!Invalidate(s)
  <2>1. geoTree' = None /\ geoSettled' = geoSettled
    BY <1>3 DEF Geo!Invalidate
  <2> QED
    BY <1>1, <1>2, <2>1, GeoAnswersStay, GeoStep
<1>4. CASE Geo!Fails(s)
  <2>1. ~geoSettled' /\ geoTree' = geoTree
    BY <1>4 DEF Geo!Fails
  <2>2. \A t \in Slots : geoCalls'[t] \in {geoCalls[t], Geo!Idle}
    BY <1>1 DEF GeoInv, GeoShape
  <2>3. GeoShape'
    BY <1>1, <1>2, <2>1 DEF GeoGoes, GeoInv, GeoShape
  <2>4. GeoGood'
    <3>1. \A t \in Slots : geoCalls'[t].pc \in {"upsert", "cache"} => geoCalls'[t] = geoCalls[t]
      BY <2>2 DEF Geo!Idle
    <3> QED
      BY <1>1, <3>1 DEF GeoInv, GeoGood, GeoAnswered, Told
  <2> QED
    BY <2>1, <2>3, <2>4 DEF GeoInv
<1> QED
  BY <1>3, <1>4

\* Time passes for the caches, and the tree is read and filled.
LEMMA GeoTrees ==
    ASSUME GeoInv,
           (\E q \in Geo!Queries : Geo!AnswerExpires(q))
           \/ Geo!GetTree \/ Geo!FillTree \/ Geo!TreeExpires
    PROVE  GeoInv'
<1>1. UNCHANGED <<geoSeed, geoCatalog, geoCalls>>
  BY DEF Geo!AnswerExpires, Geo!GetTree, Geo!FillTree, Geo!TreeExpires
<1>2. /\ geoAnswers' \in [Geo!Queries -> GeoAnswers]
      /\ \A q \in Geo!Queries : geoAnswers'[q] \in {None, geoAnswers[q]}
  BY DEF Geo!AnswerExpires, Geo!GetTree, Geo!FillTree, Geo!TreeExpires, GeoInv, GeoShape, GeoAnswers
<1>3. geoReading # Geo!Idle => geoReading.rows \in SUBSET Geo!Rows
  BY GeoFields DEF GeoInv, GeoShape
<1>4. GeoShape'
  <2>1. ASSUME NEW q \in Geo!Queries, Geo!AnswerExpires(q) PROVE GeoShape'
    BY <1>1, <1>2, <2>1 DEF Geo!AnswerExpires, GeoInv, GeoShape
  <2>2. CASE Geo!GetTree
    <3>1. geoReading' \in GeoReads /\ geoSettled' \in BOOLEAN /\ geoTree' = geoTree
      BY <2>2 DEF Geo!GetTree, GeoReads, GeoInv, GeoShape
    <3> QED
      BY <1>1, <1>2, <3>1 DEF GeoInv, GeoShape
  <2>3. CASE Geo!FillTree
    BY <1>1, <1>2, <1>3, <2>3 DEF Geo!FillTree, GeoReads, Geo!Idle, GeoInv, GeoShape
  <2>4. CASE Geo!TreeExpires
    BY <1>1, <1>2, <2>4 DEF Geo!TreeExpires, GeoInv, GeoShape
  <2> QED
    BY <2>1, <2>2, <2>3, <2>4
<1>5. GeoGood'
  <2>1. \A q \in Geo!Queries :
           geoAnswers'[q] \notin {None, Geo!Unresolved} => GeoAnswered(q, geoAnswers[q])'
    <3> SUFFICES ASSUME NEW q \in Geo!Queries, geoAnswers'[q] \notin {None, Geo!Unresolved}
                 PROVE  GeoAnswered(q, geoAnswers[q])'
      OBVIOUS
    <3>1. geoAnswers'[q] = geoAnswers[q] /\ GeoAnswered(q, geoAnswers[q])
      BY <1>2 DEF GeoInv, GeoGood
    <3> QED
      BY <1>1, <3>1 DEF GeoAnswered
  <2> QED
    BY <1>1, <2>1 DEF GeoInv, GeoGood, GeoAnswered, Told
<1>6. ASSUME geoSettled' PROVE GeoSettled'
  <2>1. GeoSettled
    BY <1>6 DEF Geo!AnswerExpires, Geo!GetTree, Geo!FillTree, Geo!TreeExpires, GeoInv, GeoShape
  <2>2. \A s \in Slots : (GeoUnder(s)' <=> GeoUnder(s)) /\ (GeoForgets(s)' <=> GeoForgets(s))
    BY <1>1 DEF GeoUnder, GeoForgets
  <2>3. ASSUME NEW q \in Geo!Queries, Geo!AnswerExpires(q) PROVE GeoSettled'
    BY <1>1, <2>1, <2>2, <2>3 DEF Geo!AnswerExpires, GeoSettled
  <2>4. CASE Geo!GetTree
    <3>1. Geo!Quiet /\ geoReading' = [pc |-> "fill", rows |-> geoCatalog] /\ geoTree' = None
      BY <1>6, <2>4 DEF Geo!GetTree
    <3> QED
      BY <1>1, <2>1, <2>2, <3>1 DEF GeoSettled, Geo!Quiet, GeoUnder
  <2>5. CASE Geo!FillTree
    BY <1>1, <2>1, <2>2, <2>5 DEF Geo!FillTree, GeoSettled
  <2>6. CASE Geo!TreeExpires
    BY <1>1, <2>1, <2>2, <2>6 DEF Geo!TreeExpires, GeoSettled
  <2> QED
    BY <2>3, <2>4, <2>5, <2>6
<1> QED
  BY <1>4, <1>5, <1>6 DEF GeoInv

LEMMA GeoNext == ASSUME GeoInv, [Geo!Next]_geoVars PROVE GeoInv'
<1>1. CASE UNCHANGED geoVars
  <2>1. GeoShape'
    BY <1>1 DEF geoVars, GeoInv, GeoShape
  <2>2. GeoGood'
    BY <1>1 DEF geoVars, GeoInv, GeoGood, GeoAnswered, Told
  <2>3. GeoSettled => GeoSettled'
    BY <1>1 DEF geoVars, GeoSettled, GeoUnder, GeoForgets
  <2> QED
    BY <1>1, <2>1, <2>2, <2>3 DEF geoVars, GeoInv
<1>2. CASE Geo!Next
  BY <1>2, GeoBegins, GeoResolves, GeoUpserts, GeoCaches, GeoEnds, GeoTrees DEF Geo!Next
<1> QED
  BY <1>1, <1>2

LEMMA GeoIsConsistent == GeoInv => Geo!TypeOK /\ Geo!GeoIsConsistent
<1> SUFFICES ASSUME GeoInv PROVE Geo!TypeOK /\ Geo!GeoIsConsistent
  OBVIOUS
<1>1. Geo!TypeOK
  <2>1. \A s \in Slots : geoCalls[s].pc \in {"idle", "resolve", "upsert", "cache", "invalidate"}
    BY GeoFields DEF GeoInv, GeoShape
  <2>2. geoReading = Geo!Idle \/ geoReading.rows \subseteq Geo!Rows
    BY GeoFields DEF GeoInv, GeoShape
  <2> QED
    BY <2>1, <2>2 DEF GeoInv, GeoShape, GeoAnswers, Geo!TypeOK
<1>2. Geo!SeedDecides
  BY GeoCardinality DEF GeoInv, GeoGood, GeoAnswered, Told, Geo!SeedDecides
<1>3. Geo!GeoTreeIsCurrent
  BY DEF GeoInv, GeoSettled, GeoForgets, Geo!GeoTreeIsCurrent, Geo!Quiet, Geo!Idle
<1> QED
  BY <1>1, <1>2, <1>3 DEF Geo!GeoIsConsistent

-----------------------------------------------------------------------------
(* From an address or a pin to a place                                     *)

\* What a response names lies where it says, and an address or a preferred pin
\* is where the geocoder puts it.
PlaceAnswered ==
    /\ placeAnswer.resolved \in BOOLEAN /\ placeAnswer.point \in {None, "pin", "geocoder"}
    /\ placeAnswer.geo.stateId \in TwoStates \cup {None}
    /\ placeAnswer.geo.cityId \in StateCities \cup {None}
    /\ Places!Nested(placeAnswer.geo)
    /\ placeAnswer.resolved /\ (placeRequest.via # "pin" \/ placeRequest.prefer) =>
          placeAnswer.geo.stateId = Places!Geocoded(placeRequest, placePlaces).state

PlaceStored ==
    /\ placeLocation.stateId \in TwoStates /\ placeLocation.cityId \in StateCities
    /\ placeRequest.pin # None => placeLocation.point = "pin"
    /\ placeGiven = Places!NoIds
          \/ (None \notin {placeGiven.stateId, placeGiven.cityId, placeGiven.neighborhoodId}
              /\ Places!Nested(placeGiven))
       => Places!Nested(placeLocation)

PlaceInv ==
    /\ placeRequest \in Places!Requests \cup {None}
    /\ placeRequest = None => placeAnswer = None /\ placeGiven = None /\ placeLocation = None
    /\ placeAnswer # None => PlaceAnswered
    /\ placeGiven # None => placeGiven \in Places!Given
    /\ placeLocation # None => PlaceStored

LEMMA PlaceInit == Places!Init => PlaceInv
  BY DEF Places!Init, PlaceInv

LEMMA PlaceRequest ==
    ASSUME NEW req \in Places!Requests
    PROVE  /\ req.via \in {"placeId", "addressLine", "pin"} /\ req.pin \in Places!Pins
           /\ req.prefer \in BOOLEAN
           /\ req.stateId \in TwoStates \cup {None} /\ req.cityId \in StateCities \cup {None}
BY DEF Places!Requests

LEMMA PlaceCities == \A c \in StateCities : c = <<c[1], c[2]>> /\ c[1] \in TwoStates
  BY DEF StateCities, TwoStates

\* The state is the hint's where hints are used, else the reply's, if it is one
\* of the catalog.
LEMMA PlaceState ==
    ASSUME NEW req \in Places!Requests, NEW result
    PROVE  /\ Places!State(req, result) \in TwoStates \cup {None}
           /\ ~Places!UseHints(req) =>
                  Places!State(req, result) \in {result.state, None}
           /\ Places!UseHints(req) /\ req.cityId # None =>
                  Places!State(req, result) = req.cityId[1]
<1>1. req.stateId \in TwoStates \cup {None} /\ req.cityId \in StateCities \cup {None}
  BY PlaceRequest
<1>2. CASE Places!UseHints(req) /\ req.cityId # None
  <2>1. Places!State(req, result) = req.cityId[1]
    BY <1>2 DEF Places!State
  <2> QED
    BY <1>1, <1>2, <2>1, PlaceCities
<1>3. CASE Places!UseHints(req) /\ req.cityId = None /\ req.stateId # None
  <2>1. Places!State(req, result) = req.stateId
    BY <1>3 DEF Places!State
  <2> QED
    BY <1>1, <1>3, <2>1
<1>4. CASE ~(Places!UseHints(req) /\ (req.cityId # None \/ req.stateId # None))
  <2>1. Places!State(req, result) = IF result.state \in TwoStates THEN result.state ELSE None
    BY <1>4 DEF Places!State
  <2> QED
    BY <1>4, <2>1
<1> QED
  BY <1>2, <1>3, <1>4

LEMMA PlaceNested ==
    ASSUME NEW req \in Places!Requests, NEW result
    PROVE  LET city == Places!City(req, result) IN
           /\ city \in StateCities \cup {None}
           /\ Places!Nested([stateId |-> Places!State(req, result), cityId |-> city,
                             neighborhoodId |-> Places!Hood(city, result)])
<1> DEFINE state == Places!State(req, result)
           city == Places!City(req, result)
           hood == Places!Hood(city, result)
<1>1. city \in StateCities \cup {None} /\ (city # None => state = city[1])
  <2>1. CASE Places!UseHints(req) /\ req.cityId # None
    BY <2>1, PlaceRequest, PlaceState DEF Places!City
  <2>2. CASE ~(Places!UseHints(req) /\ req.cityId # None)
    <3>1. city = IF <<state, Places!CityName(result)>> \in StateCities
                 THEN <<state, Places!CityName(result)>> ELSE None
      BY <2>2 DEF Places!City
    <3> QED
      BY <3>1
  <2> QED
    BY <2>1, <2>2
<1>2. hood # None => city = hood[1]
  BY DEF Places!Hood
<1> HIDE DEF state, city, hood
<1>3. Places!Nested([stateId |-> state, cityId |-> city, neighborhoodId |-> hood])
  BY <1>1, <1>2 DEF Places!Nested
<1> QED
  BY <1>1, <1>3 DEF state, city, hood

\* The response, in whichever of its forms.
LEMMA PlaceResponds ==
    ASSUME NEW req \in Places!Requests, NEW reply
    PROVE  LET a == Places!Response(req, reply) IN
           /\ a.resolved \in BOOLEAN /\ a.point \in {None, "pin", "geocoder"}
           /\ a.geo.stateId \in TwoStates \cup {None} /\ a.geo.cityId \in StateCities \cup {None}
           /\ Places!Nested(a.geo)
           /\ a.resolved /\ (req.via # "pin" \/ req.prefer) =>
                 a.geo.stateId = Places!Geocoded(req, reply).state
<1> DEFINE a == Places!Response(req, reply)
           result == Places!Geocoded(req, reply)
           state == Places!State(req, result)
           city == Places!City(req, result)
           point == Places!Point(req, result)
           geo == [stateId |-> state, cityId |-> city, neighborhoodId |-> Places!Hood(city, result)]
<1>1. point \in {None, "pin", "geocoder"}
  BY DEF Places!Point
<1>2. \A why, p : /\ Places!Refused(why, p).resolved = FALSE /\ Places!Refused(why, p).point = p
                  /\ Places!Refused(why, p).geo = Places!NoGeo
  BY DEF Places!Refused
<1>3. /\ Places!NoGeo.stateId = None /\ Places!NoGeo.cityId = None
      /\ Places!Nested(Places!NoGeo)
  BY DEF Places!NoGeo, Places!Nested
<1>4. \/ \E why : a = Places!Refused(why, None) \/ a = Places!Refused(why, point)
      \/ state # None /\ a = [resolved |-> TRUE, reason |-> None, point |-> point, geo |-> geo]
  <2>1. CASE req.pin = "outside"
    BY <2>1 DEF Places!Response, Places!OutsideUruguay
  <2>2. CASE req.pin # "outside" /\ result = None
    BY <2>2 DEF Places!Response
  <2>3. CASE req.pin # "outside" /\ result # None
    <3>1. a = IF ~result.inside THEN Places!OutsideUruguay
              ELSE IF state = None THEN Places!Refused("INCOMPLETE_COMPONENTS", point)
              ELSE [resolved |-> TRUE, reason |-> None, point |-> point, geo |-> geo]
      BY <2>3 DEF Places!Response
    <3> QED
      BY <3>1 DEF Places!OutsideUruguay
  <2> QED
    BY <2>1, <2>2, <2>3
<1>5. CASE \E why : a = Places!Refused(why, None) \/ a = Places!Refused(why, point)
  <2>1. a.resolved = FALSE /\ a.point \in {None, "pin", "geocoder"} /\ a.geo = Places!NoGeo
    <3> HIDE DEF a, point
    <3> QED
      BY <1>1, <1>2, <1>5
  <2> HIDE DEF a
  <2> QED
    BY <1>3, <2>1 DEF a
<1>6. CASE state # None /\ a = [resolved |-> TRUE, reason |-> None, point |-> point, geo |-> geo]
  <2>1. /\ state \in TwoStates \cup {None} /\ (~Places!UseHints(req) => state = result.state)
        /\ city \in StateCities \cup {None} /\ Places!Nested(geo)
    BY <1>6, PlaceState, PlaceNested
  <2>2. req.via # "pin" \/ req.prefer => ~Places!UseHints(req)
    BY DEF Places!UseHints
  <2>3. a.resolved = TRUE /\ a.point = point /\ a.geo = geo /\ geo.stateId = state /\ geo.cityId = city
    <3> HIDE DEF state, city, point, result
    <3> QED
      BY <1>6
  <2> HIDE DEF a, geo, state, city, point, result
  <2> QED
    BY <1>1, <2>1, <2>2, <2>3 DEF a, result
<1> QED
  BY <1>4, <1>5, <1>6

LEMMA PlaceResolves ==
    ASSUME PlaceInv, placeRequest = None, NEW req \in Places!Requests, NEW reply,
           Places!Resolve(req, reply)
    PROVE  PlaceInv'
<1>1. /\ placeRequest' = req /\ placePlaces' = reply /\ placeAnswer' = Places!Response(req, reply)
      /\ placeGiven' = None /\ placeLocation' = None
  BY DEF Places!Resolve, PlaceInv
<1>2. PlaceAnswered'
  BY <1>1, PlaceResponds DEF PlaceAnswered
<1>3. req # None
  BY RequestAssumption
<1> QED
  BY <1>1, <1>2, <1>3 DEF PlaceInv

\* Ids of the client win one by one: with none of them the answer is stored,
\* with all of them what the client says.
LEMMA PlaceStores ==
    ASSUME PlaceInv, placeAnswer # None, NEW ids \in Places!Given, Places!Onboard(ids)
    PROVE  PlaceInv'
<1> DEFINE geo == placeAnswer.geo
           stateId == Places!Or(ids.stateId, geo.stateId)
           cityId == Places!Or(ids.cityId, geo.cityId)
           hoodId == Places!Or(ids.neighborhoodId, geo.neighborhoodId)
           point == IF placeRequest.pin # None THEN "pin" ELSE placeAnswer.point
           stored == [stateId |-> stateId, cityId |-> cityId, point |-> point,
                      neighborhoodId |-> hoodId]
<1>1. /\ UNCHANGED <<placeRequest, placePlaces, placeAnswer>> /\ placeGiven' = ids
      /\ placeLocation' = IF point = None \/ stateId = None \/ cityId = None THEN None ELSE stored
  BY DEF Places!Onboard
<1>2. placeRequest \in Places!Requests /\ PlaceAnswered
  BY DEF PlaceInv
<1>3. /\ ids.stateId \in TwoStates \cup {None} /\ ids.cityId \in StateCities \cup {None}
  BY DEF Places!Given
<1>4. ASSUME placeLocation' # None PROVE PlaceStored'
  <2>1. placeLocation' = stored /\ stateId # None /\ cityId # None
    BY <1>1, <1>4
  <2>2. stateId \in TwoStates /\ cityId \in StateCities
    BY <1>2, <1>3, <2>1 DEF PlaceAnswered, Places!Or
  <2>3. /\ placeLocation'.stateId = stateId /\ placeLocation'.cityId = cityId
        /\ placeLocation'.point = point /\ placeLocation'.neighborhoodId = hoodId
    <3> HIDE DEF stateId, cityId, point, hoodId
    <3> QED
      BY <2>1
  <2>4. ASSUME ids = Places!NoIds PROVE Places!Nested(placeLocation)'
    <3>1. stateId = geo.stateId /\ cityId = geo.cityId /\ hoodId = geo.neighborhoodId
      BY <2>4 DEF Places!NoIds, Places!Or
    <3>2. Places!Nested(geo)
      BY <1>2 DEF PlaceAnswered
    <3> HIDE DEF stateId, cityId, point, hoodId, geo
    <3> QED
      BY <2>3, <3>1, <3>2 DEF Places!Nested
  <2>5. ASSUME None \notin {ids.stateId, ids.cityId, ids.neighborhoodId}, Places!Nested(ids)
        PROVE  Places!Nested(placeLocation)'
    <3>1. stateId = ids.stateId /\ cityId = ids.cityId /\ hoodId = ids.neighborhoodId
      BY <2>5 DEF Places!Or
    <3> HIDE DEF stateId, cityId, point, hoodId, geo
    <3> QED
      BY <2>3, <2>5, <3>1 DEF Places!Nested
  <2>6. placeRequest'.pin # None => placeLocation'.point = "pin"
    BY <1>1, <2>3
  <2> HIDE DEF stateId, cityId, point, hoodId, geo, stored
  <2> QED
    BY <1>1, <2>2, <2>3, <2>4, <2>5, <2>6 DEF PlaceStored, Places!Nested
<1>5. PlaceAnswered'
  BY <1>1, <1>2 DEF PlaceAnswered
<1>6. placeRequest # None
  BY <1>2, RequestAssumption
<1> QED
  BY <1>1, <1>2, <1>4, <1>5, <1>6 DEF PlaceInv

LEMMA PlaceNext == ASSUME PlaceInv, [Places!Next]_placeVars PROVE PlaceInv'
<1>1. CASE UNCHANGED placeVars
  BY <1>1 DEF placeVars, PlaceInv, PlaceAnswered, PlaceStored
<1>2. CASE Places!Next
  BY <1>2, PlaceResolves, PlaceStores DEF Places!Next
<1> QED
  BY <1>1, <1>2

LEMMA PlaceIsNested == PlaceInv => Places!TypeOK /\ Places!LocationIsNested
<1> SUFFICES ASSUME PlaceInv PROVE Places!TypeOK /\ Places!LocationIsNested
  OBVIOUS
<1>1. Places!TypeOK
  BY PlaceRequest DEF PlaceInv, PlaceAnswered, PlaceStored, Places!TypeOK, Places!Given
<1>2. Places!LocationIsNested
  BY DEF PlaceInv, PlaceAnswered, PlaceStored, Places!LocationIsNested
<1> QED
  BY <1>1, <1>2

-----------------------------------------------------------------------------
(* Orders: a finite set whose elements come one before the other, by the    *)
(* set of those that come before each.                                      *)

IsRanking(S, before) ==
    /\ \A r \in S : before[r] \subseteq S \ {r}
    /\ \A r, s \in S : r # s => r \in before[s] \/ s \in before[r]
    /\ \A r, s \in S : r \in before[s] => before[r] \subseteq before[s]

\* Whoever comes first has fewer before it, and all have their places.
LEMMA RankLess ==
    ASSUME NEW S, IsFiniteSet(S), NEW before, IsRanking(S, before), NEW r \in S
    PROVE  /\ IsFiniteSet(before[r]) /\ Cardinality(before[r]) \in 0..(Cardinality(S) - 1)
           /\ Cardinality(S) \in Nat /\ Cardinality(S) > 0
           /\ \A s \in S : r \in before[s] => Cardinality(before[r]) < Cardinality(before[s])
<1>1. /\ IsFiniteSet(S \ {r}) /\ Cardinality(S \ {r}) = Cardinality(S) - 1
      /\ Cardinality(S) \in Nat /\ Cardinality(S \ {r}) \in Nat
  BY FS_RemoveElement, FS_CardinalityType
<1>2. before[r] \subseteq S \ {r}
  BY DEF IsRanking
<1>3. /\ IsFiniteSet(before[r]) /\ Cardinality(before[r]) <= Cardinality(S \ {r})
      /\ Cardinality(before[r]) \in Nat
  BY <1>1, <1>2, FS_Subset, FS_CardinalityType
<1>4. ASSUME NEW s \in S, r \in before[s]
      PROVE  Cardinality(before[r]) < Cardinality(before[s])
  <2>1. before[r] \subseteq before[s] /\ before[r] # before[s]
    BY <1>2, <1>4 DEF IsRanking
  <2>2. IsFiniteSet(before[s])
    BY FS_Subset DEF IsRanking
  <2>3. Cardinality(before[s]) \in Nat
    BY <2>2, FS_CardinalityType
  <2>4. /\ Cardinality(before[r]) <= Cardinality(before[s])
        /\ Cardinality(before[r]) # Cardinality(before[s])
    BY <2>1, <2>2, FS_Subset
  <2> QED
    BY <1>3, <2>3, <2>4
<1> QED
  BY <1>1, <1>3, <1>4

LEMMA RankUnique ==
    ASSUME NEW S, IsFiniteSet(S), NEW before, IsRanking(S, before),
           NEW r \in S, NEW s \in S, Cardinality(before[r]) = Cardinality(before[s])
    PROVE  r = s
<1>1. CASE r \in before[s]
  BY <1>1, RankLess
<1>2. CASE s \in before[r]
  BY <1>2, RankLess
<1> QED
  BY <1>1, <1>2 DEF IsRanking

LEMMA RankOnto ==
    ASSUME NEW S, IsFiniteSet(S), NEW before, IsRanking(S, before),
           NEW k \in Nat, k < Cardinality(S)
    PROVE  \E r \in S : Cardinality(before[r]) = k
<1> DEFINE n == Cardinality(S)
           place == [r \in S |-> Cardinality(before[r])]
<1>1. n \in Nat /\ n > 0
  BY FS_CardinalityType
<1>2. place \in [S -> 0..(n - 1)]
  BY RankLess
<1>3. place \in Injection(S, 0..(n - 1))
  BY <1>2, RankUnique DEF Injection, IsInjective
<1>4. IsFiniteSet(0..(n - 1)) /\ Cardinality(0..(n - 1)) = n
  <2>1. 0 \in Int /\ n - 1 \in Int
    BY <1>1
  <2>2. /\ IsFiniteSet(0..(n - 1))
        /\ Cardinality(0..(n - 1)) = IF 0 > n - 1 THEN 0 ELSE (n - 1) - 0 + 1
    BY <2>1, FS_Interval
  <2> QED
    BY <1>1, <2>2
<1>5. place \in Surjection(S, 0..(n - 1))
  BY <1>3, <1>4, FS_Injection
<1>6. k \in 0..(n - 1)
  BY <1>1
<1>7. \E r \in S : place[r] = k
  BY <1>5, <1>6, Zenon DEF Surjection
<1> QED
  BY <1>7

\* Places from a to b, both taken or b the first one free, hold b - a elements.
LEMMA RankSegment ==
    ASSUME NEW S, IsFiniteSet(S), NEW before, IsRanking(S, before),
           NEW a \in Nat, NEW b \in Nat, a <= b, b <= Cardinality(S),
           NEW segment, segment = {r \in S : a <= Cardinality(before[r]) /\ Cardinality(before[r]) < b}
    PROVE  IsFiniteSet(segment) /\ Cardinality(segment) = b - a
<1> DEFINE place == [r \in segment |-> Cardinality(before[r])]
<1>1. IsFiniteSet(segment)
  BY FS_Subset
<1>2. Cardinality(S) \in Nat
  BY FS_CardinalityType
<1>3. place \in [segment -> a..(b - 1)]
  BY RankLess
<1>4. place \in Injection(segment, a..(b - 1))
  BY <1>3, RankUnique DEF Injection, IsInjective
<1>5. \A k \in a..(b - 1) : \E r \in segment : place[r] = k
  <2> SUFFICES ASSUME NEW k \in a..(b - 1)
               PROVE  \E r \in segment : place[r] = k
    OBVIOUS
  <2>1. k \in Nat /\ k < Cardinality(S)
    BY <1>2
  <2>2. PICK r \in S : Cardinality(before[r]) = k
    BY <2>1, RankOnto
  <2> QED
    BY <2>2
<1>6. place \in Surjection(segment, a..(b - 1))
  BY <1>3, <1>5 DEF Surjection
<1>7. IsFiniteSet(a..(b - 1)) /\ Cardinality(a..(b - 1)) = b - a
  <2>1. a \in Int /\ b - 1 \in Int
    OBVIOUS
  <2>2. /\ IsFiniteSet(a..(b - 1))
        /\ Cardinality(a..(b - 1)) = IF a > b - 1 THEN 0 ELSE (b - 1) - a + 1
    BY <2>1, FS_Interval
  <2> QED
    BY <2>2
<1>8. Cardinality(a..(b - 1)) = Cardinality(segment)
  BY <1>1, <1>4, <1>6, FS_Surjection
<1> QED
  BY <1>1, <1>7, <1>8

-----------------------------------------------------------------------------
(* Listings: what the pages of a list have shown.                          *)

LEMMA ListCardinality == \A S : Lists!Cardinality(S) = Cardinality(S)
  BY DEF Lists!Cardinality, Cardinality

ListRows == {r \in Lists!Rows : Lists!Exists(r)}
ListBefore(r) == {s \in Lists!InView : Lists!ShownBefore(s, r)}

\* The places that have been read so far.
ListRead ==
    IF listPage = 0 THEN 0
    ELSE IF "items" \in listAsked THEN Lists!Skip(listPage)
    ELSE Lists!Skip(listPage) + PageSize

\* The rows, and what is told of them.
ListTyped ==
    /\ listList \in Lists!Lists
    /\ listOlder \in [Lists!Rows -> SUBSET Lists!Rows] /\ Lists!InOrder(ListRows)
    /\ listState \in [Lists!Rows -> Lists!States] /\ listDeleted \subseteq ListRows

ListReadingTyped ==
    /\ listPage \in Nat /\ listAsked \subseteq {"items", "total", "last"} /\ listTotal \in 0..MaxRows
    /\ listAgain \subseteq listSeen /\ listSeen \subseteq ListRows
    /\ listLasting \subseteq Lists!InView /\ listChanges \subseteq {"enter", "leave", "move"}
    /\ listMoves \in 0..MaxMoves

\* No row goes to a place already read.
ListNoneComesBefore ==
    \/ listChanges \cap {"enter", "move"} = {}
    \/ listList \in Lists!Payouts /\ listChanges = {"enter"}

\* What lasts has been shown or is still ahead; what has been shown is behind;
\* and undisturbed the list is what it was at the beginning.
ListInv ==
    /\ ListTyped /\ ListReadingTyped
    /\ listPage = 0 => listSeen = {} /\ listChanges = {} /\ listAsked = {}
    /\ listChanges \cap {"leave", "move"} = {} =>
          /\ \A r \in listLasting : r \in listSeen \/ Lists!Place(r) >= ListRead
          /\ "last" \in listAsked => listLasting \subseteq listSeen
    /\ ListNoneComesBefore =>
          /\ listAgain = {}
          /\ \A r \in Lists!InView \cap listSeen : Lists!Place(r) < ListRead
    /\ listChanges = {} /\ listPage > 0 =>
          /\ listLasting = Lists!InView /\ listSeen \subseteq Lists!InView
          /\ listList \in Lists!Counted /\ "total" \notin listAsked =>
                listTotal = Cardinality(Lists!InView)

LEMMA ListType == ListInv => Lists!TypeOK
  BY DEF ListInv, ListTyped, ListReadingTyped, Lists!TypeOK, ListRows

LEMMA ListIsWhole == ListInv => Lists!PagesAreWhole
<1> SUFFICES ASSUME ListInv, Lists!Done PROVE Lists!PagesAreWhole
  BY DEF Lists!PagesAreWhole
<1>1. listPage > 0
  BY DEF ListInv, ListReadingTyped, Lists!Done
<1>2. ASSUME listChanges \cap {"leave", "move"} = {} PROVE listLasting \subseteq listSeen
  BY <1>2 DEF ListInv, Lists!Done
<1>3. ASSUME ListNoneComesBefore PROVE listAgain = {}
  BY <1>3 DEF ListInv
<1>4. ASSUME listChanges = {}, listList \in Lists!Counted
      PROVE  listTotal = Lists!Cardinality(listSeen)
  <2>1. listLasting = Lists!InView /\ listSeen \subseteq Lists!InView
    BY <1>1, <1>4 DEF ListInv
  <2>2. listTotal = Cardinality(Lists!InView)
    BY <1>1, <1>4 DEF ListInv, Lists!Done
  <2> QED
    BY <2>1, <2>2, <1>2, <1>4, ListCardinality
<1> QED
  BY <1>2, <1>3, <1>4 DEF Lists!PagesAreWhole, ListNoneComesBefore

LEMMA ListInit == Lists!Init => ListInv
<1> SUFFICES ASSUME Lists!Init PROVE ListInv
  OBVIOUS
<1>1. ListRows = {}
  BY DEF Lists!Init, ListRows, Lists!Exists
<1>2. Lists!InView = {}
  BY <1>1 DEF ListRows, Lists!InView
<1>3. ListTyped
  BY <1>1 DEF Lists!Init, ListTyped, Lists!InOrder, Lists!States
<1>4. ListReadingTyped
  BY PageAssumption DEF Lists!Init, ListReadingTyped
<1> QED
  BY <1>2, <1>3, <1>4 DEF Lists!Init, ListInv

\* The rows of a list come one before the other.
ListRanked ==
    /\ IsFiniteSet(Lists!InView) /\ Cardinality(Lists!InView) \in 0..MaxRows
    /\ IsRanking(Lists!InView, [r \in Lists!InView |-> ListBefore(r)])
    /\ \A r \in Lists!InView :
          /\ Lists!Place(r) = Cardinality([s \in Lists!InView |-> ListBefore(s)][r])
          /\ Lists!Place(r) \in Nat

LEMMA ListRanking == ListTyped => ListRanked
<1> SUFFICES ASSUME ListTyped PROVE ListRanked
  OBVIOUS
<1> DEFINE before == [r \in Lists!InView |-> ListBefore(r)]
<1>1. Lists!InView \subseteq ListRows /\ Lists!InView \subseteq Lists!Rows
  BY DEF Lists!InView, ListRows
<1>2. IsFiniteSet(Lists!Rows) /\ Cardinality(Lists!Rows) = MaxRows
  <2>1. /\ IsFiniteSet(1..MaxRows)
        /\ Cardinality(1..MaxRows) = IF 1 > MaxRows THEN 0 ELSE MaxRows - 1 + 1
    BY PageAssumption, FS_Interval
  <2> QED
    BY <2>1, PageAssumption DEF Lists!Rows
<1>3. IsFiniteSet(Lists!InView) /\ Cardinality(Lists!InView) \in 0..MaxRows
  BY <1>1, <1>2, FS_Subset, FS_CardinalityType, PageAssumption
<1>4. \A r \in Lists!InView : before[r] = ListBefore(r)
  OBVIOUS
<1>5. \A r \in Lists!InView : ListBefore(r) \subseteq Lists!InView \ {r}
  BY <1>1 DEF ListTyped, Lists!InOrder, ListBefore, Lists!ShownBefore
<1>6. \A r, s \in Lists!InView : r # s => r \in ListBefore(s) \/ s \in ListBefore(r)
  BY <1>1 DEF ListTyped, Lists!InOrder, ListBefore, Lists!ShownBefore
<1>7. \A r, s \in Lists!InView : r \in ListBefore(s) => ListBefore(r) \subseteq ListBefore(s)
  BY <1>1 DEF ListTyped, Lists!InOrder, ListBefore, Lists!ShownBefore
<1>8. IsRanking(Lists!InView, before)
  BY <1>4, <1>5, <1>6, <1>7 DEF IsRanking
<1>9. \A r \in Lists!InView : Lists!Place(r) = Cardinality(before[r])
  BY <1>4, ListCardinality DEF Lists!Place, ListBefore
<1>10. \A r \in Lists!InView : Lists!Place(r) \in Nat
  BY <1>3, <1>8, <1>9, RankLess
<1> QED
  BY <1>3, <1>8, <1>9, <1>10 DEF ListRanked

LEMMA ListRankingNext == ListTyped' => ListRanked'
  BY ListRanking, PTL

\* A change to the rows keeps them in order, leaves the order of those that stay
\* as it is unless it says so, and puts what joins the payouts behind the rest.
ListMoved ==
    /\ ListTyped' /\ ListRows \subseteq ListRows'
    /\ listPage # 0 /\ "move" \notin listChanges' =>
          \A r, s \in Lists!InView \cap Lists!InView' :
              Lists!ShownBefore(s, r)' <=> Lists!ShownBefore(s, r)
    /\ listList \in Lists!Payouts =>
          /\ (Lists!InView' \ Lists!InView) \cap listSeen = {}
          /\ \A r \in Lists!InView', s \in Lists!InView' \ Lists!InView :
                ~Lists!ShownBefore(s, r)'

LEMMA ListMoves ==
    ASSUME ListInv, ListMoved, NEW kinds \in SUBSET {"move"}, Lists!Noted(kinds)
    PROVE  ListInv'
<1>1. /\ listList' = listList /\ listPage' = listPage /\ listAsked' = listAsked
      /\ listSeen' = listSeen /\ listAgain' = listAgain /\ listTotal' = listTotal
      /\ listLasting' = listLasting \cap Lists!InView'
      /\ ListTyped /\ ListReadingTyped /\ ListTyped'
  BY DEF Lists!Noted, Lists!reading, ListInv, ListMoved
<1>2. /\ listPage = 0 => listChanges' = {}
      /\ listPage # 0 =>
            /\ listChanges \subseteq listChanges' /\ kinds \subseteq listChanges'
            /\ Lists!InView' \ Lists!InView # {} => "enter" \in listChanges'
            /\ Lists!InView \ Lists!InView' # {} => "leave" \in listChanges'
      /\ listChanges' \subseteq {"enter", "leave", "move"}
  BY DEF Lists!Noted, ListInv, ListReadingTyped
<1>3. ListRead' = ListRead /\ ListRead \in Nat
  <2>1. listPage # 0 => Lists!Skip(listPage) \in Nat
    BY <1>1, PageAssumption DEF ListReadingTyped, Lists!Skip
  <2> QED
    BY <1>1, <2>1, PageAssumption DEF ListRead, Lists!Skip
<1>4. ListReadingTyped'
  <2>1. listMoves' \in 0..MaxMoves
    BY <1>1, PageAssumption DEF Lists!Noted, ListReadingTyped
  <2> QED
    BY <1>1, <1>2, <2>1 DEF ListReadingTyped, ListMoved
<1>5. ASSUME NEW r \in Lists!InView \cap Lists!InView', "move" \notin listChanges', listPage # 0
      PROVE  /\ Lists!Place(r) \in Nat /\ Lists!Place(r)' \in Nat
             /\ "leave" \notin listChanges' => Lists!Place(r) <= Lists!Place(r)'
             /\ "enter" \notin listChanges' \/ listList \in Lists!Payouts =>
                   Lists!Place(r)' <= Lists!Place(r)
  <2> DEFINE A == {s \in Lists!InView : Lists!ShownBefore(s, r)}
             B == {s \in Lists!InView' : Lists!ShownBefore(s, r)'}
  <2>1. /\ IsFiniteSet(Lists!InView) /\ IsFiniteSet(Lists!InView')
        /\ Lists!Place(r) \in Nat /\ Lists!Place(r)' \in Nat
    BY <1>1, <1>5, ListRanking, ListRankingNext DEF ListRanked
  <2>2. /\ Lists!Place(r) = Cardinality(A) /\ Lists!Place(r)' = Cardinality(B)
    BY ListCardinality DEF Lists!Place
  <2>3. IsFiniteSet(A) /\ IsFiniteSet(B)
    BY <2>1, FS_Subset
  <2>4. \A s \in Lists!InView \cap Lists!InView' :
            Lists!ShownBefore(s, r)' <=> Lists!ShownBefore(s, r)
    BY <1>5 DEF ListMoved
  <2>5. ASSUME "leave" \notin listChanges' PROVE Lists!Place(r) <= Lists!Place(r)'
    <3>1. A \subseteq B
      BY <1>2, <1>5, <2>4, <2>5
    <3> QED
      BY <2>2, <2>3, <3>1, FS_Subset
  <2>6. ASSUME "enter" \notin listChanges' \/ listList \in Lists!Payouts
        PROVE  Lists!Place(r)' <= Lists!Place(r)
    <3>1. B \subseteq A
      BY <1>2, <1>5, <2>4, <2>6 DEF ListMoved
    <3> QED
      BY <2>2, <2>3, <3>1, FS_Subset
  <2> QED
    BY <2>1, <2>5, <2>6
<1>6. ASSUME listPage # 0, listChanges' \cap {"leave", "move"} = {}
      PROVE  /\ \A r \in listLasting' : r \in listSeen' \/ Lists!Place(r)' >= ListRead'
             /\ "last" \in listAsked' => listLasting' \subseteq listSeen'
  <2>1. listChanges \cap {"leave", "move"} = {} /\ "move" \notin listChanges' /\ "leave" \notin listChanges'
    BY <1>2, <1>6
  <2>2. \A r \in listLasting : r \in listSeen \/ Lists!Place(r) >= ListRead
    BY <2>1 DEF ListInv
  <2>3. ASSUME NEW r \in listLasting', r \notin listSeen' PROVE Lists!Place(r)' >= ListRead'
    <3>1. r \in Lists!InView \cap Lists!InView' /\ r \in listLasting /\ r \notin listSeen
      BY <1>1, <2>3 DEF ListReadingTyped
    <3>2. /\ Lists!Place(r) \in Nat /\ Lists!Place(r)' \in Nat
          /\ Lists!Place(r) <= Lists!Place(r)'
      BY <1>5, <1>6, <2>1, <3>1
    <3> QED
      BY <1>3, <2>2, <3>1, <3>2
  <2> QED
    BY <1>1, <2>1, <2>3 DEF ListInv
<1>7. ASSUME listPage # 0, ListNoneComesBefore'
      PROVE  /\ listAgain' = {}
             /\ \A r \in Lists!InView' \cap listSeen' : Lists!Place(r)' < ListRead'
  <2>1. ListNoneComesBefore /\ "move" \notin listChanges'
    BY <1>1, <1>2, <1>7 DEF ListNoneComesBefore
  <2>2. "enter" \notin listChanges' \/ listList \in Lists!Payouts
    BY <1>1, <1>7 DEF ListNoneComesBefore
  <2>3. ASSUME NEW r \in Lists!InView' \cap listSeen' PROVE Lists!Place(r)' < ListRead'
    <3>1. r \in Lists!InView \cap Lists!InView' /\ r \in listSeen
      BY <1>1, <1>2, <1>7, <2>2, <2>3 DEF ListMoved
    <3>2. /\ Lists!Place(r) \in Nat /\ Lists!Place(r)' \in Nat
          /\ Lists!Place(r)' <= Lists!Place(r)
      BY <1>5, <1>7, <2>1, <2>2, <3>1
    <3>3. Lists!Place(r) < ListRead
      BY <2>1, <3>1 DEF ListInv
    <3> QED
      BY <1>3, <3>2, <3>3
  <2> QED
    BY <1>1, <2>1, <2>3 DEF ListInv
<1>8. ASSUME listChanges' = {}, listPage' > 0
      PROVE  /\ listLasting' = Lists!InView' /\ listSeen' \subseteq Lists!InView'
             /\ listList' \in Lists!Counted /\ "total" \notin listAsked' =>
                   listTotal' = Cardinality(Lists!InView')
  <2>1. listPage # 0 /\ listPage > 0 /\ listChanges = {} /\ Lists!InView' = Lists!InView
    BY <1>1, <1>2, <1>8 DEF ListReadingTyped
  <2> QED
    BY <1>1, <2>1 DEF ListInv
<1>9. ASSUME listPage = 0
      PROVE  /\ \A r \in listLasting' : Lists!Place(r)' >= ListRead'
             /\ listSeen' = {} /\ listAgain' = {} /\ listAsked' = {}
  <2>1. ListRead' = 0
    BY <1>1, <1>9 DEF ListRead
  <2>2. \A r \in Lists!InView' : Lists!Place(r)' \in Nat
    BY <1>1, ListRankingNext DEF ListRanked
  <2> QED
    BY <1>1, <1>9, <2>1, <2>2 DEF ListInv, ListReadingTyped
<1>10. listChanges' \cap {"leave", "move"} = {} =>
          /\ \A r \in listLasting' : r \in listSeen' \/ Lists!Place(r)' >= ListRead'
          /\ "last" \in listAsked' => listLasting' \subseteq listSeen'
  BY <1>6, <1>9
<1>11. ListNoneComesBefore' =>
          /\ listAgain' = {}
          /\ \A r \in Lists!InView' \cap listSeen' : Lists!Place(r)' < ListRead'
  BY <1>7, <1>9
<1>12. listPage' = 0 => listSeen' = {} /\ listChanges' = {} /\ listAsked' = {}
  BY <1>1, <1>2, <1>9
<1> QED
  BY <1>1, <1>4, <1>8, <1>10, <1>11, <1>12 DEF ListInv

\* The newest row is older than none, and the others stay as they are.
LEMMA ListNewest ==
    ASSUME ListTyped, NEW r \in Lists!Rows, listOlder' = Lists!Newest(r),
           ListRows' = ListRows \cup {r}
    PROVE  /\ listOlder' \in [Lists!Rows -> SUBSET Lists!Rows]
           /\ Lists!InOrder(ListRows)'
           /\ \A s, t \in Lists!Rows :
                 /\ s # r /\ t # r => (s \in listOlder'[t] <=> s \in listOlder[t])
                 /\ r \notin listOlder'[s]
<1>1. /\ listOlder' \in [Lists!Rows -> SUBSET Lists!Rows]
      /\ listOlder'[r] = ListRows \ {r}
      /\ \A s \in Lists!Rows \ {r} : listOlder'[s] = listOlder[s] \ {r}
  BY DEF ListTyped, Lists!Newest, ListRows
<1>2. ListRows \subseteq Lists!Rows /\ r \in Lists!Rows
  BY DEF ListRows
<1>3. \A s, t \in Lists!Rows :
          /\ s # r /\ t # r => (s \in listOlder'[t] <=> s \in listOlder[t])
          /\ r \notin listOlder'[s]
  BY <1>1
<1>4. \A s \in ListRows' : listOlder'[s] \subseteq ListRows' \ {s}
  BY <1>1, <1>2 DEF ListTyped, Lists!InOrder
<1>5. \A s, t \in ListRows' : s # t => (s \in listOlder'[t] <=> t \notin listOlder'[s])
  BY <1>1, <1>2 DEF ListTyped, Lists!InOrder
<1>6. \A s, t \in ListRows' : s \in listOlder'[t] => listOlder'[s] \subseteq listOlder'[t]
  BY <1>1, <1>2 DEF ListTyped, Lists!InOrder
<1> QED
  BY <1>1, <1>3, <1>4, <1>5, <1>6 DEF Lists!InOrder

\* What the view holds of a row only depends on its status and deletedAt.
LEMMA ListView ==
    ASSUME NEW r \in Lists!Rows, listList' = listList, listState'[r] = listState[r],
           r \in listDeleted' <=> r \in listDeleted
    PROVE  r \in Lists!InView' <=> r \in Lists!InView
  BY DEF Lists!InView, Lists!Exists, Lists!Where, Lists!MyItem, Lists!PublishedItem,
         Lists!QueuedItem, Lists!ClientJob, Lists!AvailableJob, Lists!ProfessionalJob,
         Lists!OwedPayout

LEMMA ListStates ==
    \A from, to : <<from, to>> \in Lists!Moves =>
        from # "none" /\ to \in Lists!States \ {from, "none", "RELEASED, PENDING"}
  BY DEF Lists!States, Lists!Moves

LEMMA ListCreate ==
    ASSUME ListInv, NEW r \in Lists!Rows, Lists!Create(r)
    PROVE  ListMoved
<1>1. ListTyped /\ ListReadingTyped /\ listList' = listList /\ ~Lists!Exists(r) /\ r \notin ListRows
  BY DEF ListInv, Lists!Create, Lists!Noted, ListRows
<1>2. /\ listState' \in [Lists!Rows -> Lists!States] /\ listState'[r] # "none"
      /\ \A s \in Lists!Rows \ {r} : listState'[s] = listState[s]
      /\ listDeleted' = listDeleted
  BY <1>1 DEF Lists!Create, ListTyped, Lists!States
<1>3. ListRows' = ListRows \cup {r}
  BY <1>2 DEF ListRows, Lists!Exists
<1>4. listOlder' = Lists!Newest(r)
  BY DEF Lists!Create
<1>5. ListTyped'
  BY <1>1, <1>2, <1>3, <1>4, ListNewest DEF ListTyped
<1>6. r \notin Lists!InView /\ Lists!InView \subseteq Lists!Rows /\ Lists!InView' \subseteq Lists!Rows
  BY <1>1 DEF Lists!InView
<1>7. \A s, t \in Lists!InView \cap Lists!InView' :
          Lists!ShownBefore(s, t)' <=> Lists!ShownBefore(s, t)
  BY <1>1, <1>3, <1>4, <1>6, ListNewest DEF Lists!ShownBefore
<1>8. Lists!InView' \ Lists!InView \subseteq {r}
  BY <1>1, <1>2, <1>6, ListView
<1>9. listList \in Lists!Payouts => \A s \in Lists!InView' : ~Lists!ShownBefore(r, s)'
  BY <1>1, <1>3, <1>4, <1>6, ListNewest DEF Lists!ShownBefore
<1> QED
  BY <1>1, <1>3, <1>5, <1>7, <1>8, <1>9 DEF ListMoved, ListReadingTyped

\* A row that is put at the newest end, or left where it is.
LEMMA ListTouch ==
    ASSUME ListTyped, NEW r \in ListRows, listOlder' = Lists!Touched(r), ListRows' = ListRows,
           listList' = listList
    PROVE  /\ listOlder' \in [Lists!Rows -> SUBSET Lists!Rows]
           /\ Lists!InOrder(ListRows)'
           /\ \A s, t \in Lists!Rows :
                 listOlder' = listOlder \/ (s # r /\ t # r) =>
                    (Lists!ShownBefore(s, t)' <=> Lists!ShownBefore(s, t))
<1>1. CASE listOlder' = listOlder
  BY <1>1 DEF ListTyped, Lists!InOrder, Lists!ShownBefore
<1>2. CASE listOlder' = Lists!Newest(r)
  <2>1. r \in Lists!Rows /\ ListRows' = ListRows \cup {r}
    BY DEF ListRows
  <2> QED
    BY <1>2, <2>1, ListNewest DEF Lists!ShownBefore
<1> QED
  BY <1>1, <1>2 DEF Lists!Touched

LEMMA ListChange ==
    ASSUME ListInv, NEW r \in Lists!Rows, NEW move \in Lists!Moves, Lists!Change(r, move[2])
    PROVE  ListMoved
<1> DEFINE to == move[2]
<1>1. /\ ListTyped /\ ListReadingTyped /\ listList' = listList /\ listDeleted' = listDeleted
      /\ <<listState[r], to>> \in Lists!Moves /\ r \notin listDeleted
      /\ listState' = [listState EXCEPT ![r] = to] /\ listOlder' = Lists!Touched(r)
  BY DEF ListInv, Lists!Change, Lists!Noted
<1>2. /\ listState[r] # "none" /\ to # "none" /\ to # listState[r] /\ to \in Lists!States
      /\ to # "RELEASED, PENDING"
  <2> HIDE DEF to
  <2> QED
    BY <1>1, ListStates, Zenon
<1>3. /\ listState' \in [Lists!Rows -> Lists!States] /\ listState'[r] = to
      /\ \A s \in Lists!Rows \ {r} : listState'[s] = listState[s]
  BY <1>1, <1>2 DEF ListTyped
<1>4. ListRows' = ListRows /\ r \in ListRows
  BY <1>2, <1>3 DEF ListRows, Lists!Exists
<1>5. /\ ListTyped'
      /\ \A s, t \in Lists!Rows :
            listOlder' = listOlder \/ (s # r /\ t # r) =>
               (Lists!ShownBefore(s, t)' <=> Lists!ShownBefore(s, t))
  BY <1>1, <1>3, <1>4, ListTouch DEF ListTyped
<1>6. Lists!InView \subseteq Lists!Rows /\ Lists!InView' \subseteq Lists!Rows
  BY DEF Lists!InView
<1>7. listOlder' = listOlder \/ r \notin Lists!InView \cap Lists!InView'
  <2>1. CASE listList = "listModerationQueue"
    BY <1>1, <1>2, <1>3, <2>1 DEF Lists!InView, Lists!Where, Lists!QueuedItem
  <2>2. CASE listList # "listModerationQueue"
    BY <1>1, <2>2 DEF Lists!Touched
  <2> QED
    BY <2>1, <2>2
<1>8. \A s, t \in Lists!InView \cap Lists!InView' :
          Lists!ShownBefore(s, t)' <=> Lists!ShownBefore(s, t)
  BY <1>5, <1>6, <1>7
<1>9. listList \in Lists!Payouts => Lists!InView' \ Lists!InView = {}
  <2> SUFFICES ASSUME listList \in Lists!Payouts PROVE r \notin Lists!InView'
    BY <1>1, <1>3, <1>6, ListView
  <2> QED
    BY <1>1, <1>2, <1>3 DEF Lists!Payouts, Lists!InView, Lists!Where, Lists!OwedPayout
<1> QED
  BY <1>1, <1>4, <1>5, <1>8, <1>9 DEF ListMoved

LEMMA ListEdit ==
    ASSUME ListInv, NEW r \in Lists!Rows, Lists!Edit(r)
    PROVE  /\ ListMoved
           /\ \E kinds \in SUBSET {"move"} : Lists!Noted(kinds)
<1> DEFINE kinds == IF listOlder' # listOlder /\ r \in Lists!InView THEN {"move"} ELSE {}
<1>1. /\ ListTyped /\ ListReadingTyped /\ listList' = listList /\ listDeleted' = listDeleted
      /\ listList = "listModerationQueue" /\ r \in ListRows
      /\ listState' = listState /\ listOlder' = Lists!Touched(r) /\ Lists!Noted(kinds)
  BY DEF ListInv, Lists!Edit, Lists!Noted, ListRows
<1>2. ListRows' = ListRows /\ Lists!InView \subseteq Lists!Rows
  BY <1>1 DEF ListRows, Lists!Exists, Lists!InView
<1>3. /\ ListTyped'
      /\ \A s, t \in Lists!Rows :
            listOlder' = listOlder \/ (s # r /\ t # r) =>
               (Lists!ShownBefore(s, t)' <=> Lists!ShownBefore(s, t))
  BY <1>1, <1>2, ListTouch DEF ListTyped
<1>4. "move" \notin listChanges' => listOlder' = listOlder \/ r \notin Lists!InView \/ listPage = 0
  BY <1>1 DEF Lists!Noted
<1>5. listList \notin Lists!Payouts
  BY <1>1 DEF Lists!Payouts
<1> QED
  BY <1>1, <1>2, <1>3, <1>4, <1>5 DEF ListMoved

LEMMA ListDelete ==
    ASSUME ListInv, NEW r \in Lists!Rows, Lists!Delete(r)
    PROVE  ListMoved
<1>1. /\ ListTyped /\ ListReadingTyped /\ listList' = listList /\ listDeleted' = listDeleted \cup {r}
      /\ listList \in Lists!Portfolio /\ r \in ListRows
      /\ listState' = listState /\ listOlder' = Lists!Touched(r)
  BY DEF ListInv, Lists!Delete, Lists!Noted, ListRows
<1>2. ListRows' = ListRows /\ Lists!InView \subseteq Lists!Rows
  BY <1>1 DEF ListRows, Lists!Exists, Lists!InView
<1>3. /\ ListTyped'
      /\ \A s, t \in Lists!Rows :
            listOlder' = listOlder \/ (s # r /\ t # r) =>
               (Lists!ShownBefore(s, t)' <=> Lists!ShownBefore(s, t))
  BY <1>1, <1>2, ListTouch DEF ListTyped
<1>4. r \notin Lists!InView'
  BY <1>1 DEF Lists!Portfolio, Lists!InView, Lists!Where, Lists!MyItem, Lists!PublishedItem,
              Lists!QueuedItem
<1>5. listList \notin Lists!Payouts
  BY <1>1 DEF Lists!Payouts, Lists!Portfolio
<1> QED
  BY <1>1, <1>2, <1>3, <1>4, <1>5 DEF ListMoved

LEMMA ListRowStep ==
    ASSUME ListInv, NEW r \in Lists!Rows,
           \/ Lists!Create(r) \/ Lists!Edit(r) \/ Lists!Delete(r)
           \/ \E move \in Lists!Moves : Lists!Change(r, move[2])
    PROVE  ListInv'
<1>1. CASE Lists!Create(r)
  <2>1. Lists!Noted({})
    BY <1>1 DEF Lists!Create
  <2> QED
    BY <1>1, <2>1, ListCreate, ListMoves
<1>2. CASE Lists!Edit(r)
  BY <1>2, ListEdit, ListMoves
<1>3. CASE Lists!Delete(r)
  <2>1. Lists!Noted({})
    BY <1>3 DEF Lists!Delete
  <2> QED
    BY <1>3, <2>1, ListDelete, ListMoves
<1>4. ASSUME NEW move \in Lists!Moves, Lists!Change(r, move[2]) PROVE ListInv'
  <2>1. Lists!Noted({})
    BY <1>4 DEF Lists!Change
  <2> QED
    BY <1>4, <2>1, ListChange, ListMoves
<1> QED
  BY <1>1, <1>2, <1>3, <1>4

\* A page begins where the last one ended.
LEMMA ListSkips ==
    ASSUME NEW p \in Nat
    PROVE  /\ Lists!Skip(p + 1) \in Nat /\ Lists!Skip(1) = 0
           /\ p > 0 => Lists!Skip(p) \in Nat /\ Lists!Skip(p + 1) = Lists!Skip(p) + PageSize
<1>1. /\ (p + 1) - 1 = p /\ p * PageSize \in Nat /\ 0 * PageSize = 0 /\ 1 - 1 = 0
  BY PageAssumption
<1>2. ASSUME p > 0 PROVE (p - 1) * PageSize \in Nat /\ p * PageSize = (p - 1) * PageSize + PageSize
  BY <1>2, PageAssumption
<1> QED
  BY <1>1, <1>2 DEF Lists!Skip

\* What a step of the reading leaves alone.
LEMMA ListStays ==
    ASSUME ListInv, UNCHANGED <<listList, Lists!rows>>
    PROVE  /\ ListTyped' /\ ListRows' = ListRows /\ Lists!InView' = Lists!InView
           /\ \A r \in Lists!InView : Lists!Place(r)' = Lists!Place(r)
<1>1. listList' = listList /\ listState' = listState /\ listOlder' = listOlder
      /\ listDeleted' = listDeleted
  BY DEF Lists!rows
<1>2. ListRows' = ListRows /\ Lists!InView' = Lists!InView
  BY <1>1 DEF ListRows, Lists!Exists, Lists!InView, Lists!Where, Lists!MyItem,
              Lists!PublishedItem, Lists!QueuedItem, Lists!ClientJob, Lists!AvailableJob,
              Lists!ProfessionalJob, Lists!OwedPayout
<1>3. ListTyped'
  BY <1>1, <1>2 DEF ListInv, ListTyped, Lists!InOrder
<1>4. \A r \in Lists!InView : Lists!Place(r)' = Lists!Place(r)
  BY <1>1, <1>2 DEF Lists!Place, Lists!ShownBefore
<1> QED
  BY <1>2, <1>3, <1>4

LEMMA ListItems ==
    ASSUME ListInv, Lists!Items
    PROVE  ListInv'
<1> DEFINE items == {r \in Lists!InView :
                        Lists!Skip(listPage) <= Lists!Place(r)
                        /\ Lists!Place(r) < Lists!Skip(listPage) + PageSize}
<1>1. /\ ListTyped /\ ListReadingTyped /\ "items" \in listAsked
      /\ UNCHANGED <<listList, Lists!rows>>
      /\ listSeen' = listSeen \cup items /\ listAgain' = listAgain \cup (listSeen \cap items)
      /\ listAsked' = (listAsked \ {"items"})
                      \cup (IF Cardinality(items) < PageSize THEN {"last"} ELSE {})
      /\ listPage' = listPage /\ listTotal' = listTotal /\ listLasting' = listLasting
      /\ listChanges' = listChanges /\ listMoves' = listMoves
  BY ListCardinality DEF ListInv, Lists!Items
<1>2. /\ ListTyped' /\ ListRows' = ListRows /\ Lists!InView' = Lists!InView
      /\ \A r \in Lists!InView : Lists!Place(r)' = Lists!Place(r)
  BY <1>1, ListStays
<1>3. ListRanked /\ Lists!InView \subseteq ListRows
  BY <1>1, ListRanking DEF Lists!InView, ListRows
<1>4. listPage \in Nat /\ listPage > 0
  BY <1>1 DEF ListInv, ListReadingTyped
<1>5. /\ ListRead = Lists!Skip(listPage) /\ Lists!Skip(listPage) \in Nat
      /\ ListRead' = Lists!Skip(listPage) + PageSize
  BY <1>1, <1>4, ListSkips DEF ListRead, Lists!Skip
<1>6. \A r \in Lists!InView : Lists!Place(r) \in Nat
  BY <1>3 DEF ListRanked
<1>7. ListReadingTyped'
  BY <1>1, <1>2, <1>3 DEF ListReadingTyped
<1>8. ASSUME Cardinality(items) < PageSize, NEW r \in Lists!InView
      PROVE  Lists!Place(r) < Lists!Skip(listPage) + PageSize
  <2> DEFINE before == [s \in Lists!InView |-> ListBefore(s)]
             a == Lists!Skip(listPage)
             b == Lists!Skip(listPage) + PageSize
  <2>1. /\ IsFiniteSet(Lists!InView) /\ IsRanking(Lists!InView, before)
        /\ \A s \in Lists!InView : Lists!Place(s) = Cardinality(before[s])
    BY <1>3 DEF ListRanked
  <2>2. SUFFICES ASSUME Lists!Place(r) >= b PROVE FALSE
    BY <1>5, <1>6, PageAssumption
  <2>3. Cardinality(before[r]) \in 0..(Cardinality(Lists!InView) - 1)
        /\ Cardinality(Lists!InView) \in Nat
    BY <2>1, RankLess
  <2>4. a \in Nat /\ b \in Nat /\ a <= b /\ b <= Cardinality(Lists!InView)
    BY <1>5, <2>1, <2>2, <2>3, PageAssumption
  <2>5. items = {s \in Lists!InView : a <= Cardinality(before[s]) /\ Cardinality(before[s]) < b}
    BY <2>1
  <2> HIDE DEF a, b, before, items
  <2>6. Cardinality(items) = b - a
    <3>1. IsFiniteSet(Lists!InView) /\ IsRanking(Lists!InView, before) /\ b <= Cardinality(Lists!InView)
      BY <2>1, <2>4
    <3> QED
      BY <2>4, <2>5, <3>1, RankSegment
  <2>7. b - a = PageSize
    BY <1>5, PageAssumption DEF a, b
  <2> QED
    BY <1>8, <2>6, <2>7, PageAssumption
<1>9. ASSUME listChanges \cap {"leave", "move"} = {}
      PROVE  /\ \A r \in listLasting' : r \in listSeen' \/ Lists!Place(r)' >= ListRead'
             /\ "last" \in listAsked' => listLasting' \subseteq listSeen'
  <2>1. \A r \in listLasting : r \in listSeen \/ Lists!Place(r) >= ListRead
    BY <1>9 DEF ListInv
  <2>2. listLasting \subseteq Lists!InView
    BY <1>1 DEF ListReadingTyped
  <2>3. \A r \in listLasting : r \in listSeen' \/ Lists!Place(r) >= ListRead'
    BY <1>1, <1>5, <1>6, <2>1, <2>2, PageAssumption
  <2>4. ASSUME "last" \in listAsked' PROVE listLasting' \subseteq listSeen'
    <3>1. CASE "last" \in listAsked
      BY <1>1, <1>9, <3>1 DEF ListInv
    <3>2. CASE Cardinality(items) < PageSize
      BY <1>1, <1>5, <1>6, <1>8, <2>2, <2>3, <3>2, PageAssumption
    <3> QED
      BY <1>1, <2>4, <3>1, <3>2
  <2> QED
    BY <1>1, <1>2, <2>2, <2>3, <2>4
<1>10. ASSUME ListNoneComesBefore'
       PROVE  /\ listAgain' = {}
              /\ \A r \in Lists!InView' \cap listSeen' : Lists!Place(r)' < ListRead'
  <2>1. ListNoneComesBefore
    BY <1>1, <1>10 DEF ListNoneComesBefore
  <2>2. listAgain = {} /\ \A r \in Lists!InView \cap listSeen : Lists!Place(r) < ListRead
    BY <2>1 DEF ListInv
  <2> QED
    BY <1>1, <1>2, <1>5, <1>6, <2>2, PageAssumption
<1>11. ASSUME listChanges' = {}
       PROVE  /\ listLasting' = Lists!InView' /\ listSeen' \subseteq Lists!InView'
              /\ listList' \in Lists!Counted /\ "total" \notin listAsked' =>
                    listTotal' = Cardinality(Lists!InView')
  BY <1>1, <1>2, <1>4, <1>11 DEF ListInv
<1> HIDE DEF items
<1> QED
  BY <1>1, <1>2, <1>4, <1>7, <1>9, <1>10, <1>11 DEF ListInv

LEMMA ListOtherSteps ==
    ASSUME ListInv, Lists!BeginReading \/ Lists!Count \/ Lists!NextPage
    PROVE  ListInv'
<1>1. /\ ListTyped /\ ListReadingTyped /\ UNCHANGED <<listList, Lists!rows>>
      /\ listSeen' = listSeen /\ listAgain' = listAgain /\ listChanges' = listChanges
      /\ listMoves' = listMoves
  BY DEF ListInv, Lists!BeginReading, Lists!Count, Lists!NextPage
<1>2. /\ ListTyped' /\ ListRows' = ListRows /\ Lists!InView' = Lists!InView
      /\ \A r \in Lists!InView : Lists!Place(r)' = Lists!Place(r)
  BY <1>1, ListStays
<1>3. ListRanked /\ ListNoneComesBefore' <=> ListNoneComesBefore
  BY <1>1, ListRanking DEF ListNoneComesBefore
<1>4. CASE Lists!BeginReading
  <2>1. /\ listPage = 0 /\ listPage' = 1 /\ listLasting' = Lists!InView /\ listTotal' = listTotal
        /\ listAsked' = IF listList \in Lists!Counted THEN {"items", "total"} ELSE {"items"}
        /\ listSeen = {} /\ listChanges = {} /\ listAgain = {}
    BY <1>1, <1>4 DEF Lists!BeginReading, Lists!Ask, ListInv, ListReadingTyped
  <2>2. ListRead' = 0
    BY <2>1, ListSkips DEF ListRead, Lists!Skip
  <2>3. ListReadingTyped'
    BY <1>1, <1>2, <2>1 DEF ListReadingTyped
  <2>4. \A r \in Lists!InView : Lists!Place(r)' >= 0
    BY <1>1, <1>2, ListRanking DEF ListRanked
  <2> QED
    BY <1>1, <1>2, <2>1, <2>2, <2>3, <2>4 DEF ListInv
<1>5. CASE Lists!Count
  <2>1. /\ listPage' = listPage /\ listLasting' = listLasting
        /\ listTotal' = Cardinality(Lists!InView)
        /\ listAsked' = listAsked \ {"total"} /\ "total" \in listAsked
    BY <1>5, ListCardinality DEF Lists!Count
  <2>2. ListRead' = ListRead
    BY <2>1 DEF ListRead, Lists!Skip
  <2>3. ListReadingTyped'
    BY <1>1, <1>2, <2>1, ListRanking DEF ListReadingTyped, ListRanked
  <2> QED
    BY <1>1, <1>2, <1>3, <2>1, <2>2, <2>3 DEF ListInv, ListReadingTyped, ListNoneComesBefore
<1>6. CASE Lists!NextPage
  <2>1. /\ listPage > 0 /\ listPage' = listPage + 1 /\ listAsked = {}
        /\ listLasting' = listLasting /\ listTotal' = listTotal
        /\ listAsked' = IF listList \in Lists!Counted THEN {"items", "total"} ELSE {"items"}
    BY <1>6 DEF Lists!NextPage, Lists!Ask
  <2>2. listPage \in Nat
    BY <1>1 DEF ListReadingTyped
  <2>3. ListRead' = ListRead
    BY <2>1, <2>2, ListSkips DEF ListRead, Lists!Skip
  <2>4. ListReadingTyped'
    BY <1>1, <1>2, <2>1 DEF ListReadingTyped
  <2> QED
    BY <1>1, <1>2, <1>3, <2>1, <2>2, <2>3, <2>4 DEF ListInv, ListReadingTyped, ListNoneComesBefore
<1> QED
  BY <1>4, <1>5, <1>6

LEMMA ListNext == ASSUME ListInv, [Lists!Next]_listVars PROVE ListInv'
<1>1. CASE UNCHANGED listVars
  <2>1. UNCHANGED <<listList, Lists!rows>>
    BY <1>1 DEF listVars, Lists!rows
  <2>2. /\ ListTyped' /\ ListRows' = ListRows /\ Lists!InView' = Lists!InView
        /\ \A r \in Lists!InView : Lists!Place(r)' = Lists!Place(r)
    BY <2>1, ListStays
  <2>3. ListRead' = ListRead
    BY <1>1 DEF listVars, ListRead, Lists!Skip
  <2> QED
    BY <1>1, <2>2, <2>3 DEF listVars, ListInv, ListReadingTyped, ListNoneComesBefore
<1>2. CASE Lists!Next
  BY <1>2, ListRowStep, ListItems, ListOtherSteps DEF Lists!Next
<1> QED
  BY <1>1, <1>2

-----------------------------------------------------------------------------
(* Search: the page of both kinds together.                                *)

LEMMA FinderCardinality == \A S : Finder!Cardinality(S) = Cardinality(S)
  BY DEF Finder!Cardinality, Cardinality

FinderTerms == {"q", "synonym"}
FinderKinds == {Professionals, Companies}
FinderHits == [id : Finder!Subjects, at : 1..4]
FinderNext == {"professionals", "companies", "countProfessionals", "countCompanies"}

\* Those of a kind that match and, if they tie, may come before s.
FinderRivals(kind, s) ==
    {t \in Finder!Found \cap kind :
        t # s /\ ~Finder!ComesBefore(s, t, searchSearch.terms)}

\* What a query has found: matches at their distances, and whoever of its kind
\* is not found has enough others before.
FinderHitsAreTrue(found) ==
    \A i \in DOMAIN found :
        \E s \in Finder!Found : found[i].id = s /\ found[i].at = Finder!Distance(s)
FinderMissesAreFar(found, kind) ==
    \A s \in Finder!Found \cap kind :
        \/ \E i \in DOMAIN found : found[i].id = s
        \/ Finder!Offset + searchSearch.limit <= Cardinality(FinderRivals(kind, s))

FinderTyped ==
    /\ searchRows \in [Finder!Subjects -> Finder!AnyRow]
    /\ searchEnabled \in BOOLEAN /\ searchMet \in BOOLEAN
    /\ searchExpansions \in Finder!Answers \cup {None}
    /\ searchShown \subseteq Finder!Subjects

FinderSearch ==
    \/ searchSearch = Finder!Idle
    \/ searchSearch \in [pc : {"expand"}, text : BOOLEAN, limit : PlanLimits, page : Nat \ {0},
                         before : SUBSET FinderTerms]
    \/ searchSearch \in [pc : {"query"}, text : BOOLEAN, limit : PlanLimits, page : Nat \ {0},
                         terms : SUBSET FinderTerms, found : Seq(FinderHits), total : Nat,
                         next : FinderNext]
    \/ /\ searchSearch.pc = "answered" /\ searchSearch.text \in BOOLEAN
       /\ searchSearch.limit \in PlanLimits /\ searchSearch.page \in Nat \ {0}
       /\ searchSearch.terms \in SUBSET FinderTerms
       /\ searchSearch.total \in 0..Cardinality(Finder!Subjects)
       /\ IsInjective(searchSearch.results) /\ Finder!Range(searchSearch.results) \subseteq Finder!Subjects

\* The kinds whose query has run.
FinderFetched ==
    IF searchSearch.next = "professionals" THEN {}
    ELSE IF searchSearch.next = "companies" THEN {Professionals}
    ELSE {Professionals, Companies}

FinderQuery ==
    LET found == searchSearch.found IN
    /\ \A i, j \in DOMAIN found : found[i].id = found[j].id => i = j
    /\ \A i \in DOMAIN found : found[i].id \in UNION FinderFetched
    /\ searchSearch.next = "countCompanies" => searchSearch.total \in 0..Cardinality(Professionals)
    /\ ~searchMet =>
          /\ FinderHitsAreTrue(found) /\ \A kind \in FinderFetched : FinderMissesAreFar(found, kind)
          /\ searchSearch.next = "countCompanies" =>
                searchSearch.total = Cardinality(Finder!Found \cap Professionals)

FinderInv ==
    /\ FinderTyped /\ FinderSearch
    /\ searchSearch.pc = "query" => FinderQuery
    /\ Finder!PageIsExact

LEMMA FinderType == FinderInv => Finder!TypeOK
<1> SUFFICES ASSUME FinderInv PROVE Finder!TypeOK
  OBVIOUS
<1>1. searchSearch.pc \in {"idle", "expand", "query", "answered"}
  BY DEF FinderInv, FinderSearch, Finder!Idle
<1>2. searchSearch.pc = "query" => searchSearch.found \in Seq([id : Finder!Subjects, at : 1..4])
  BY DEF FinderInv, FinderSearch, Finder!Idle, FinderHits
<1>3. searchSearch.pc = "answered" =>
          /\ searchSearch.total <= Finder!Cardinality(Finder!Subjects)
          /\ Finder!IsInjective(searchSearch.results)
          /\ Finder!Range(searchSearch.results) \subseteq Finder!Subjects
  BY FinderCardinality DEF FinderInv, FinderSearch, Finder!Idle, IsInjective, Finder!IsInjective
<1> QED
  BY <1>1, <1>2, <1>3 DEF Finder!TypeOK, FinderInv, FinderTyped

\* The nearest area of a row.
LEMMA FinderDistance ==
    ASSUME FinderTyped, NEW s \in Finder!Subjects
    PROVE  Finder!Distance(s) \in 1..4
<1> DEFINE areas == searchRows[s].areas
           ats == {a.at : a \in areas}
<1>1. areas \in {{Finder!Area(1, TRUE)}, {Finder!Area(2, TRUE)}, {Finder!Area(3, TRUE)},
                 {Finder!Area(4, TRUE)}, {Finder!Area(2, FALSE), Finder!Area(4, TRUE)}}
  BY DEF FinderTyped, Finder!AnyRow
<1>2. ats \subseteq 1..4 /\ \E d \in ats : \A a \in areas : d <= a.at
  <2>1. PICK x \in 1..4, y \in 1..4, c \in BOOLEAN, e \in BOOLEAN :
            x <= y /\ areas = {Finder!Area(x, c), Finder!Area(y, e)}
    <3>1. CASE areas = {Finder!Area(1, TRUE)}
      <4>1. areas = {Finder!Area(1, TRUE), Finder!Area(1, TRUE)}
        BY <3>1
      <4> WITNESS 1 \in 1..4, 1 \in 1..4, TRUE \in BOOLEAN, TRUE \in BOOLEAN
      <4> QED
        BY <4>1
    <3>2. CASE areas = {Finder!Area(2, TRUE)}
      <4>1. areas = {Finder!Area(2, TRUE), Finder!Area(2, TRUE)}
        BY <3>2
      <4> WITNESS 2 \in 1..4, 2 \in 1..4, TRUE \in BOOLEAN, TRUE \in BOOLEAN
      <4> QED
        BY <4>1
    <3>3. CASE areas = {Finder!Area(3, TRUE)}
      <4>1. areas = {Finder!Area(3, TRUE), Finder!Area(3, TRUE)}
        BY <3>3
      <4> WITNESS 3 \in 1..4, 3 \in 1..4, TRUE \in BOOLEAN, TRUE \in BOOLEAN
      <4> QED
        BY <4>1
    <3>4. CASE areas = {Finder!Area(4, TRUE)}
      <4>1. areas = {Finder!Area(4, TRUE), Finder!Area(4, TRUE)}
        BY <3>4
      <4> WITNESS 4 \in 1..4, 4 \in 1..4, TRUE \in BOOLEAN, TRUE \in BOOLEAN
      <4> QED
        BY <4>1
    <3>5. CASE areas = {Finder!Area(2, FALSE), Finder!Area(4, TRUE)}
      <4> WITNESS 2 \in 1..4, 4 \in 1..4, FALSE \in BOOLEAN, TRUE \in BOOLEAN
      <4> QED
        BY <3>5
    <3> QED
      BY <1>1, <3>1, <3>2, <3>3, <3>4, <3>5
  <2> HIDE DEF areas
  <2>2. Finder!Area(x, c).at = x /\ Finder!Area(y, e).at = y
    BY DEF Finder!Area
  <2>3. x \in ats /\ ats \subseteq {x, y} /\ \A a \in areas : a.at = x \/ a.at = y
    BY <2>1, <2>2
  <2> QED
    BY <2>1, <2>3
<1>3. Finder!Distance(s) \in ats
  BY <1>2 DEF Finder!Distance
<1> QED
  BY <1>2, <1>3

LEMMA FinderMatch ==
    ASSUME NEW terms
    PROVE  /\ Finder!Matches(terms) \subseteq Finder!Subjects
           /\ IsFiniteSet(Finder!Matches(terms)) /\ IsFiniteSet(Finder!Subjects)
           /\ Cardinality(Finder!Subjects) = Cardinality(Professionals) + Cardinality(Companies)
           /\ Cardinality(Professionals) \in Nat /\ Cardinality(Companies) \in Nat
           /\ Cardinality(Finder!Matches(terms)) =
                 Cardinality(Finder!Matches(terms) \cap Professionals)
                 + Cardinality(Finder!Matches(terms) \cap Companies)
           /\ \A kind \in FinderKinds :
                 Cardinality(Finder!Matches(terms) \cap kind) \in 0..Cardinality(kind)
<1> DEFINE M == Finder!Matches(terms)
<1>1. M \subseteq Finder!Subjects /\ Finder!Subjects = Professionals \cup Companies
  BY DEF Finder!Matches, Finder!Subjects
<1>2. /\ IsFiniteSet(Finder!Subjects) /\ Cardinality(Professionals) \in Nat
      /\ Cardinality(Companies) \in Nat /\ Cardinality(Professionals \cap Companies) = 0
      /\ Cardinality(Finder!Subjects) = Cardinality(Professionals) + Cardinality(Companies)
  <2>1. Cardinality(Professionals \cap Companies) = 0
    BY SearchAssumption, FS_EmptySet
  <2>2. /\ IsFiniteSet(Professionals \cup Companies)
        /\ Cardinality(Professionals \cup Companies) =
              Cardinality(Professionals) + Cardinality(Companies) - Cardinality(Professionals \cap Companies)
    BY SearchAssumption, FS_Union
  <2>3. Cardinality(Professionals) \in Nat /\ Cardinality(Companies) \in Nat
    BY SearchAssumption, FS_CardinalityType
  <2> QED
    BY <1>1, <2>1, <2>2, <2>3
<1> HIDE DEF M
<1>3. IsFiniteSet(M)
  BY <1>1, <1>2, FS_Subset
<1>4. \A kind \in FinderKinds :
          IsFiniteSet(M \cap kind) /\ Cardinality(M \cap kind) \in 0..Cardinality(kind)
  <2> SUFFICES ASSUME NEW kind \in FinderKinds
               PROVE  IsFiniteSet(M \cap kind) /\ Cardinality(M \cap kind) \in 0..Cardinality(kind)
    OBVIOUS
  <2>1. IsFiniteSet(kind) /\ M \cap kind \subseteq kind
    BY SearchAssumption DEF FinderKinds
  <2> QED
    BY <2>1, FS_Subset, FS_CardinalityType
<1>5. Cardinality(M) = Cardinality(M \cap Professionals) + Cardinality(M \cap Companies)
  <2> DEFINE P == M \cap Professionals
             C == M \cap Companies
  <2>1. M = P \cup C /\ P \cap C = {}
    BY <1>1, SearchAssumption
  <2>2. IsFiniteSet(P) /\ IsFiniteSet(C) /\ Cardinality(P) \in Nat /\ Cardinality(C) \in Nat
    BY <1>4 DEF FinderKinds
  <2> HIDE DEF P, C
  <2>3. Cardinality(P \cup C) = Cardinality(P) + Cardinality(C) - Cardinality(P \cap C)
    BY <2>2, FS_Union
  <2>4. Cardinality(P \cap C) = 0
    BY <2>1, FS_EmptySet
  <2>5. Cardinality(M) = Cardinality(P) + Cardinality(C)
    BY <2>1, <2>2, <2>3, <2>4
  <2> QED
    BY <2>5 DEF P, C
<1> QED
  BY <1>1, <1>2, <1>3, <1>4, <1>5 DEF M

\* Whoever is not among the first n of S has n others that may come before.
LEMMA FinderFirst ==
    ASSUME NEW S, IsFiniteSet(S), NEW n \in Nat, NEW terms, NEW f \in Finder!FirstOf(S, n, terms)
    PROVE  \E length \in Nat :
              /\ f \in [1..length -> S] /\ IsInjective(f)
              /\ \A s \in S : \/ \E i \in 1..length : f[i] = s
                              \/ n <= Cardinality({t \in S : t # s /\ ~Finder!ComesBefore(s, t, terms)})
<1> DEFINE size == Cardinality(S)
           length == IF n < size THEN n ELSE size
<1>1. size \in Nat /\ length \in Nat
  BY FS_CardinalityType
<1>2. /\ f \in [1..length -> S] /\ IsInjective(f)
      /\ \A i \in 1..length : \A s \in S \ {f[j] : j \in 1..i} : ~Finder!ComesBefore(s, f[i], terms)
  BY FinderCardinality DEF Finder!FirstOf, Finder!IsInjective, IsInjective
<1> HIDE DEF length, size
<1>3. IsFiniteSet(1..length) /\ Cardinality(1..length) = length
  <2>1. 1 \in Int /\ length \in Int
    BY <1>1
  <2>2. /\ IsFiniteSet(1..length)
        /\ Cardinality(1..length) = IF 1 > length THEN 0 ELSE length - 1 + 1
    BY <2>1, FS_Interval
  <2> QED
    BY <1>1, <2>2
<1>4. ASSUME NEW s \in S, \A i \in 1..length : f[i] # s
      PROVE  n <= Cardinality({t \in S : t # s /\ ~Finder!ComesBefore(s, t, terms)})
  <2> DEFINE T == {t \in S : t # s /\ ~Finder!ComesBefore(s, t, terms)}
  <2>1. IsFiniteSet(T) /\ Cardinality(T) \in Nat
    BY FS_Subset, FS_CardinalityType
  <2>2. f \in Injection(1..length, S)
    BY <1>2 DEF Injection
  <2>3. length = n
    <3> SUFFICES ASSUME length # n PROVE FALSE
      OBVIOUS
    <3>1. length = size
      BY <1>1 DEF length
    <3>2. f \in Surjection(1..length, S)
      BY <1>3, <2>2, <3>1, FS_Injection DEF size
    <3> QED
      BY <1>4, <3>2 DEF Surjection
  <2>4. ASSUME NEW i \in 1..length PROVE f[i] \in T
    <3>1. f[i] \in S /\ f[i] # s
      BY <1>2, <1>4, <2>4
    <3>2. \A j \in 1..i : j \in 1..length
      BY <1>1, <2>4
    <3>3. s \in S \ {f[j] : j \in 1..i}
      BY <1>4, <3>2
    <3> QED
      BY <1>2, <2>4, <3>1, <3>3
  <2>5. f \in Injection(1..length, T)
    BY <1>2, <2>4 DEF Injection
  <2> HIDE DEF T
  <2>6. Cardinality(1..length) <= Cardinality(T)
    BY <2>1, <2>5, FS_Injection
  <2> QED
    BY <1>3, <2>3, <2>6 DEF T
<1> QED
  BY <1>1, <1>2, <1>4

LEMMA FinderOffset ==
    ASSUME searchSearch.limit \in PlanLimits, searchSearch.page \in Nat \ {0}
    PROVE  Finder!Offset \in Nat /\ searchSearch.limit \in Nat
<1>1. searchSearch.limit \in Nat
  BY LinkAssumption
<1>3. searchSearch.page - 1 \in Nat
  BY SMT
<1>2. \A a, b \in Nat : a * b \in Nat
  OBVIOUS
<1> QED
  BY <1>1, <1>2, <1>3 DEF Finder!Offset

LEMMA FinderFind ==
    ASSUME FinderTyped, FinderSearch, searchSearch.pc = "query",
           NEW kind \in FinderKinds, NEW q \in Finder!Fetched(kind)
    PROVE  /\ q \in Seq(FinderHits)
           /\ \A i \in DOMAIN q : q[i].id \in kind
           /\ \A i, j \in DOMAIN q : q[i].id = q[j].id => i = j
           /\ FinderHitsAreTrue(q) /\ FinderMissesAreFar(q, kind)
<1> DEFINE M == Finder!Matches(searchSearch.terms)
           S == M \cap kind
           n == Finder!Offset + searchSearch.limit
<1>1. n \in Nat /\ Finder!Offset \in Nat /\ searchSearch.limit \in Nat
  BY FinderOffset DEF FinderSearch, Finder!Idle
<1>2. M \subseteq Finder!Subjects /\ IsFiniteSet(M) /\ IsFiniteSet(S)
  BY FinderMatch, FS_Subset
<1>3. PICK f \in Finder!FirstOf(S, n, searchSearch.terms) :
          q = [i \in DOMAIN f |-> [id |-> f[i], at |-> Finder!Distance(f[i])]]
  BY DEF Finder!Fetched, Finder!Find
<1> HIDE DEF n, S
<1>4. PICK length \in Nat :
          /\ f \in [1..length -> S] /\ IsInjective(f)
          /\ \A s \in S : \/ \E i \in 1..length : f[i] = s
                          \/ n <= Cardinality({t \in S : t # s
                                                 /\ ~Finder!ComesBefore(s, t, searchSearch.terms)})
  BY <1>1, <1>2, FinderFirst
<1>5. /\ DOMAIN q = 1..length
      /\ \A i \in 1..length : /\ f[i] \in S /\ f[i] \in Finder!Subjects
                              /\ Finder!Distance(f[i]) \in 1..4
                              /\ q[i] = [id |-> f[i], at |-> Finder!Distance(f[i])]
  BY <1>2, <1>3, <1>4, FinderDistance DEF S
<1>6. q \in [1..length -> FinderHits]
  BY <1>3, <1>4, <1>5 DEF FinderHits
<1>7. q \in Seq(FinderHits)
  BY <1>6
<1>8. \A i, j \in DOMAIN q : q[i].id = q[j].id => i = j
  BY <1>4, <1>5 DEF IsInjective
<1>9. FinderHitsAreTrue(q)
  BY <1>5 DEF FinderHitsAreTrue, S, Finder!Found
<1>10. \A s : FinderRivals(kind, s)
                = {t \in S : t # s /\ ~Finder!ComesBefore(s, t, searchSearch.terms)}
  BY DEF FinderRivals, S, Finder!Found
<1>11. \A s \in S : \/ \E i \in DOMAIN q : q[i].id = s
                    \/ n <= Cardinality(FinderRivals(kind, s))
  BY <1>4, <1>5, <1>10
<1>12. FinderMissesAreFar(q, kind)
  BY <1>11 DEF FinderMissesAreFar, S, n, Finder!Found
<1> QED
  BY <1>5, <1>7, <1>8, <1>9, <1>12 DEF S

\* The merged list shows every hit once, at the place of those ahead of it.
LEMMA FinderMerge ==
    ASSUME NEW q \in Seq(FinderHits), \A i, j \in DOMAIN q : q[i].id = q[j].id => i = j
    PROVE  LET merged == Finder!MergeByDistance(q) IN
           /\ DOMAIN merged = DOMAIN q /\ IsFiniteSet(DOMAIN q)
           /\ \A i \in DOMAIN q :
                 /\ Cardinality(Finder!Ahead(q, i)) + 1 \in DOMAIN q
                 /\ merged[Cardinality(Finder!Ahead(q, i)) + 1] = q[i].id
           /\ \A k \in DOMAIN q : \E i \in DOMAIN q : merged[k] = q[i].id
           /\ \A k, l \in DOMAIN q : merged[k] = merged[l] => k = l
<1> DEFINE n == Len(q)
           S == 1..n
           ahead == [i \in S |-> Finder!Ahead(q, i)]
           merged == Finder!MergeByDistance(q)
<1>1. n \in Nat /\ DOMAIN q = S /\ \A i \in S : q[i].at \in 1..4
  <2>1. n \in Nat /\ DOMAIN q = S /\ \A i \in S : q[i] \in FinderHits
    BY LenProperties
  <2> QED
    BY <2>1 DEF FinderHits
<1>2. IsFiniteSet(S) /\ Cardinality(S) = n
  <2>1. 1 \in Int /\ n \in Int
    BY <1>1
  <2>2. IsFiniteSet(1..n) /\ Cardinality(1..n) = IF 1 > n THEN 0 ELSE n - 1 + 1
    BY <2>1, FS_Interval
  <2> QED
    BY <1>1, <2>2
<1> HIDE DEF n
<1>3. IsRanking(S, ahead)
  <2>1. \A i \in S : ahead[i] = {j \in S : q[j].at < q[i].at \/ (q[j].at = q[i].at /\ j < i)}
    BY <1>1 DEF Finder!Ahead
  <2>2. \A i \in S : ahead[i] \subseteq S \ {i}
    BY <1>1, <2>1
  <2>3. \A i, j \in S : i # j => i \in ahead[j] \/ j \in ahead[i]
    BY <1>1, <2>1
  <2>4. \A i, j \in S : i \in ahead[j] => ahead[i] \subseteq ahead[j]
    BY <1>1, <2>1
  <2> HIDE DEF ahead
  <2> QED
    BY <2>2, <2>3, <2>4 DEF IsRanking
<1>4. \A i \in S : ahead[i] = Finder!Ahead(q, i)
  OBVIOUS
<1> HIDE DEF S, ahead
<1>5. \A i \in S : Cardinality(ahead[i]) \in 0..(n - 1)
  BY <1>2, <1>3, RankLess
<1>6. \A k \in S : \E i \in S : Cardinality(ahead[i]) = k - 1
  <2> SUFFICES ASSUME NEW k \in S PROVE \E i \in S : Cardinality(ahead[i]) = k - 1
    OBVIOUS
  <2>1. k - 1 \in Nat /\ k - 1 < Cardinality(S)
    BY <1>1, <1>2 DEF S
  <2> QED
    BY <1>2, <1>3, <2>1, RankOnto
<1>7. \A i, j \in S : Cardinality(ahead[i]) = Cardinality(ahead[j]) => i = j
  BY <1>2, <1>3, RankUnique
<1>8. /\ DOMAIN merged = S
      /\ \A k \in S : merged[k] =
            q[CHOOSE i \in DOMAIN q : Finder!Cardinality(Finder!Ahead(q, i)) = k - 1].id
  BY <1>1 DEF Finder!MergeByDistance
<1> HIDE DEF merged
<1>9. \A i \in S : /\ Cardinality(ahead[i]) + 1 \in S
                   /\ merged[Cardinality(ahead[i]) + 1] = q[i].id
  <2> SUFFICES ASSUME NEW i \in S
               PROVE  /\ Cardinality(ahead[i]) + 1 \in S
                      /\ merged[Cardinality(ahead[i]) + 1] = q[i].id
    OBVIOUS
  <2> DEFINE k == Cardinality(ahead[i]) + 1
  <2>1. k \in S /\ Cardinality(ahead[i]) = k - 1
    BY <1>1, <1>5 DEF S
  <2> HIDE DEF k
  <2>2. \A m \in DOMAIN q : Finder!Cardinality(Finder!Ahead(q, m)) = k - 1 <=> m = i
    BY <1>1, <1>4, <1>7, <2>1, FinderCardinality
  <2>4. (CHOOSE m \in DOMAIN q : Finder!Cardinality(Finder!Ahead(q, m)) = k - 1) = i
    BY <1>1, <2>2
  <2>3. merged[k] = q[i].id
    BY <1>8, <2>1, <2>4
  <2> QED
    BY <2>1, <2>3 DEF k
<1>10. \A k \in S : \E i \in S : k = Cardinality(ahead[i]) + 1
  <2> SUFFICES ASSUME NEW k \in S PROVE \E i \in S : k = Cardinality(ahead[i]) + 1
    OBVIOUS
  <2>1. PICK i \in S : Cardinality(ahead[i]) = k - 1
    BY <1>6
  <2>2. k \in Nat
    BY <1>1 DEF S
  <2> QED
    BY <2>1, <2>2
<1>11. \A k \in S : \E i \in S : k = Cardinality(ahead[i]) + 1 /\ merged[k] = q[i].id
  BY <1>9, <1>10
<1>12. ASSUME NEW k \in S, NEW l \in S, merged[k] = merged[l] PROVE k = l
  <2>1. PICK i \in S : k = Cardinality(ahead[i]) + 1 /\ merged[k] = q[i].id
    BY <1>11
  <2>2. PICK j \in S : l = Cardinality(ahead[j]) + 1 /\ merged[l] = q[j].id
    BY <1>11
  <2>3. i = j
    BY <1>1, <1>12, <2>1, <2>2
  <2> QED
    BY <2>1, <2>2, <2>3
<1>13. DOMAIN merged = S
  BY <1>8
<1> QED
  BY <1>1, <1>2, <1>4, <1>9, <1>11, <1>12, <1>13 DEF merged

\* The answer is the page, where no two match at one distance.
LEMMA FinderPage ==
    ASSUME FinderTyped, FinderSearch, searchSearch.pc = "query", FinderQuery, ~searchMet,
           searchSearch.next = "countCompanies", Finder!NoTies, Finder!OneRank,
           NEW i \in 1..searchSearch.limit, NEW s \in Finder!Found,
           Cardinality(Finder!Nearer(s)) = Finder!Offset + i - 1
    PROVE  LET merged == Finder!MergeByDistance(searchSearch.found) IN
           Finder!Offset + i \in DOMAIN merged /\ merged[Finder!Offset + i] = s
<1> DEFINE M == Finder!Matches(searchSearch.terms)
           q == searchSearch.found
           n == Finder!Offset + searchSearch.limit
<1>1. n \in Nat /\ Finder!Offset \in Nat /\ searchSearch.limit \in Nat
  BY FinderOffset DEF FinderSearch, Finder!Idle
<1>2. M \subseteq Finder!Subjects /\ IsFiniteSet(M) /\ s \in M /\ Finder!Found = M
  BY FinderMatch DEF Finder!Found
<1>3. \A t \in M : Finder!Distance(t) \in 1..4
  BY <1>2, FinderDistance
<1>4. /\ q \in Seq(FinderHits) /\ \A j, k \in DOMAIN q : q[j].id = q[k].id => j = k
      /\ FinderHitsAreTrue(q)
      /\ FinderMissesAreFar(q, Professionals) /\ FinderMissesAreFar(q, Companies)
  BY DEF FinderQuery, FinderFetched, FinderSearch, Finder!Idle
<1> HIDE DEF M, q, n
<1>5. \A t \in M : /\ Finder!Nearer(t) = {u \in M : Finder!Distance(u) < Finder!Distance(t)}
                   /\ IsFiniteSet(Finder!Nearer(t)) /\ Cardinality(Finder!Nearer(t)) \in Nat
  BY <1>2, FS_Subset, FS_CardinalityType DEF Finder!Nearer
<1>6. ASSUME NEW t \in M, Cardinality(Finder!Nearer(t)) < n
      PROVE  \E j \in DOMAIN q : q[j].id = t
  <2>1. PICK kind \in FinderKinds : t \in kind
    BY <1>2 DEF FinderKinds, Finder!Subjects
  <2>2. FinderRivals(kind, t) \subseteq Finder!Nearer(t)
    <3> SUFFICES ASSUME NEW u \in FinderRivals(kind, t) PROVE u \in Finder!Nearer(t)
      OBVIOUS
    <3>1. u \in M /\ u # t /\ ~Finder!ComesBefore(t, u, searchSearch.terms)
      BY <1>2 DEF FinderRivals
    <3>2. Finder!Rank(t, searchSearch.terms) = Finder!Rank(u, searchSearch.terms)
      BY <1>2, <3>1 DEF Finder!OneRank
    <3>3. Finder!Distance(t) # Finder!Distance(u)
      BY <1>2, <3>1 DEF Finder!NoTies
    <3>4. Finder!Distance(u) < Finder!Distance(t)
      BY <1>3, <3>1, <3>2, <3>3 DEF Finder!ComesBefore
    <3> QED
      BY <1>5, <3>1, <3>4
  <2>3. /\ Cardinality(FinderRivals(kind, t)) <= Cardinality(Finder!Nearer(t))
        /\ Cardinality(FinderRivals(kind, t)) \in Nat
    BY <1>5, <2>2, FS_Subset, FS_CardinalityType
  <2>4. ~(n <= Cardinality(FinderRivals(kind, t)))
    BY <1>1, <1>5, <1>6, <2>3
  <2>5. FinderMissesAreFar(q, kind)
    BY <1>4 DEF FinderKinds
  <2> QED
    BY <1>2, <2>1, <2>4, <2>5 DEF FinderMissesAreFar, n
<1>7. Cardinality(Finder!Nearer(s)) < n
  BY <1>1 DEF n
<1>8. PICK m \in DOMAIN q : q[m].id = s
  BY <1>2, <1>6, <1>7
<1>9. \A j \in DOMAIN q : q[j].id \in M /\ q[j].at = Finder!Distance(q[j].id)
  BY <1>2, <1>4 DEF FinderHitsAreTrue
<1> DEFINE ids == [j \in Finder!Ahead(q, m) |-> q[j].id]
<1>10. \A j \in DOMAIN q : j \in Finder!Ahead(q, m) <=> Finder!Distance(q[j].id) < Finder!Distance(s)
  <2> SUFFICES ASSUME NEW j \in DOMAIN q
               PROVE  j \in Finder!Ahead(q, m) <=> Finder!Distance(q[j].id) < Finder!Distance(s)
    OBVIOUS
  <2>1. q[j].at = q[m].at => j = m
    BY <1>2, <1>4, <1>8, <1>9 DEF Finder!NoTies
  <2>2. q[j].at = Finder!Distance(q[j].id) /\ q[m].at = Finder!Distance(s)
        /\ q[j].at \in 1..4 /\ q[m].at \in 1..4
    BY <1>2, <1>3, <1>8, <1>9
  <2>3. ~(m < m)
    BY <1>4, LenProperties
  <2> QED
    BY <2>1, <2>2, <2>3 DEF Finder!Ahead
<1>11. Finder!Ahead(q, m) \subseteq DOMAIN q
  BY DEF Finder!Ahead
<1>12. ids \in [Finder!Ahead(q, m) -> Finder!Nearer(s)]
  BY <1>2, <1>5, <1>9, <1>10, <1>11
<1>13. ids \in Injection(Finder!Ahead(q, m), Finder!Nearer(s))
  BY <1>4, <1>11, <1>12 DEF Injection, IsInjective
<1>14. ASSUME NEW t \in Finder!Nearer(s)
       PROVE  \E j \in Finder!Ahead(q, m) : ids[j] = t
  <2>1. t \in M /\ Finder!Distance(t) < Finder!Distance(s)
    BY <1>2, <1>5
  <2>2. Finder!Nearer(t) \subseteq Finder!Nearer(s)
    BY <1>2, <1>3, <1>5, <2>1
  <2>3. Cardinality(Finder!Nearer(t)) < n
    BY <1>1, <1>2, <1>5, <1>7, <2>1, <2>2, FS_Subset
  <2>4. PICK j \in DOMAIN q : q[j].id = t
    BY <1>6, <2>1, <2>3
  <2> QED
    BY <1>10, <2>1, <2>4
<1>15. ids \in Surjection(Finder!Ahead(q, m), Finder!Nearer(s))
  BY <1>12, <1>14 DEF Surjection
<1>16. DOMAIN q = 1..Len(q) /\ Len(q) \in Nat
  BY <1>4, LenProperties
<1> HIDE DEF ids
<1>17. Cardinality(Finder!Ahead(q, m)) = Cardinality(Finder!Nearer(s))
  BY <1>2, <1>5, <1>13, <1>15, FS_Injection
<1>18. /\ Cardinality(Finder!Ahead(q, m)) + 1 \in DOMAIN Finder!MergeByDistance(q)
       /\ Finder!MergeByDistance(q)[Cardinality(Finder!Ahead(q, m)) + 1] = q[m].id
  BY <1>4, <1>8, FinderMerge
<1>19. Cardinality(Finder!Ahead(q, m)) + 1 = Finder!Offset + i
  BY <1>1, <1>17
<1> QED
  BY <1>8, <1>18, <1>19 DEF q

LEMMA FinderQuiet ==
    ASSUME searchRows' = searchRows, searchSearch'.terms = searchSearch.terms,
           searchSearch'.limit = searchSearch.limit, searchSearch'.page = searchSearch.page
    PROVE  /\ Finder!Found' = Finder!Found /\ Finder!Offset' = Finder!Offset
           /\ \A s : Finder!Distance(s)' = Finder!Distance(s)
           /\ \A kind, s : FinderRivals(kind, s)' = FinderRivals(kind, s)
<1>1. \A s : Finder!Distance(s)' = Finder!Distance(s)
  BY DEF Finder!Distance
<1>2. \A s, t : Finder!Rank(s, t)' = Finder!Rank(s, t)
  BY DEF Finder!Rank, Finder!FullText
<1>3. \A s, t : Finder!TextMatches(s, t)' = Finder!TextMatches(s, t)
  BY DEF Finder!TextMatches, Finder!FullText
<1>4. \A t : Finder!Matches(t)' = Finder!Matches(t)
  BY <1>1, <1>3 DEF Finder!Matches, Finder!Covered
<1>5. Finder!Found' = Finder!Found
  BY <1>1, <1>3 DEF Finder!Found, Finder!Matches, Finder!Covered, Finder!TextMatches, Finder!FullText
<1>6. Finder!Offset' = Finder!Offset
  BY DEF Finder!Offset
<1>7. \A kind, s : FinderRivals(kind, s)' = FinderRivals(kind, s)
  BY <1>1, <1>5 DEF FinderRivals, Finder!ComesBefore, Finder!Rank, Finder!FullText
<1> QED
  BY <1>1, <1>5, <1>6, <1>7

\* A search that begins, or is asked for its next page.
LEMMA FinderAsks ==
    ASSUME FinderInv,
           \/ \E text \in BOOLEAN, limit \in PlanLimits : Finder!Begin(text, limit)
           \/ Finder!Turn
    PROVE  FinderInv'
<1>1. CASE \E text \in BOOLEAN, limit \in PlanLimits : Finder!Begin(text, limit)
  <2>1. /\ UNCHANGED <<searchRows, searchEnabled, searchExpansions, searchShown, searchMet>>
        /\ searchSearch' \in [pc : {"expand"}, text : BOOLEAN, limit : PlanLimits, page : Nat \ {0},
                              before : SUBSET FinderTerms]
    BY <1>1 DEF Finder!Begin, Finder!Ask
  <2> QED
    BY <2>1 DEF FinderInv, FinderTyped, FinderSearch, Finder!PageIsExact, Finder!Answered
<1>2. CASE Finder!Turn
  <2>1. /\ searchSearch.pc = "answered" /\ searchSearch.text \in BOOLEAN
        /\ searchSearch.limit \in PlanLimits /\ searchSearch.page \in Nat \ {0}
        /\ searchSearch.terms \in SUBSET FinderTerms
        /\ Finder!Range(searchSearch.results) \subseteq Finder!Subjects
    BY <1>2 DEF Finder!Turn, FinderInv, FinderSearch, Finder!Idle
  <2>2. /\ UNCHANGED <<searchRows, searchEnabled, searchExpansions, searchMet>>
        /\ searchShown' \subseteq Finder!Subjects
        /\ searchSearch' \in [pc : {"expand"}, text : BOOLEAN, limit : PlanLimits, page : Nat \ {0},
                              before : SUBSET FinderTerms]
    BY <1>2, <2>1 DEF Finder!Turn, Finder!Ask, FinderInv, FinderTyped
  <2> QED
    BY <2>2 DEF FinderInv, FinderTyped, FinderSearch, Finder!PageIsExact, Finder!Answered
<1> QED
  BY <1>1, <1>2

\* The terms of a query, however they were found.
LEMMA FinderExpands ==
    ASSUME FinderInv,
           \/ Finder!Unexpanded \/ Finder!Cached \/ Finder!Fallback
           \/ \E answer \in Finder!Answers : Finder!Expand(answer)
    PROVE  FinderInv'
<1>1. /\ searchSearch.pc = "expand" /\ searchSearch.text \in BOOLEAN
      /\ searchSearch.limit \in PlanLimits /\ searchSearch.page \in Nat \ {0}
  BY DEF Finder!Unexpanded, Finder!Cached, Finder!Fallback, Finder!Expand, Finder!Expanding,
         FinderInv, FinderSearch, Finder!Idle
<1>2. \E terms \in SUBSET FinderTerms :
          Finder!Terms(terms) /\ searchExpansions' \in Finder!Answers \cup {None}
  <2>1. Finder!Answers \subseteq SUBSET FinderTerms /\ {"q"} \in SUBSET FinderTerms
        /\ {} \in SUBSET FinderTerms
    BY DEF Finder!Answers, FinderTerms
  <2>2. searchExpansions \in Finder!Answers \cup {None}
    BY DEF FinderInv, FinderTyped
  <2> QED
    BY <2>1, <2>2 DEF Finder!Unexpanded, Finder!Cached, Finder!Fallback, Finder!Expand
<1>3. PICK terms \in SUBSET FinderTerms :
          Finder!Terms(terms) /\ searchExpansions' \in Finder!Answers \cup {None}
  BY <1>2
<1>4. /\ searchRows' = searchRows /\ searchEnabled' = searchEnabled /\ searchShown' = searchShown
      /\ searchMet' = (searchMet \/ (searchSearch.page > 1 /\ terms # searchSearch.before))
  BY <1>3 DEF Finder!Terms
<1>5. /\ searchSearch' \in [pc : {"query"}, text : BOOLEAN, limit : PlanLimits, page : Nat \ {0},
                            terms : SUBSET FinderTerms, found : Seq(FinderHits), total : Nat,
                            next : FinderNext]
      /\ searchSearch'.next = "professionals" /\ searchSearch'.found = <<>>
  BY <1>1, <1>3 DEF Finder!Terms, FinderNext
<1>6. FinderTyped'
  BY <1>3, <1>4 DEF FinderInv, FinderTyped
<1>7. FinderQuery'
  BY <1>5 DEF FinderQuery, FinderFetched, FinderHitsAreTrue
<1> QED
  BY <1>5, <1>6, <1>7 DEF FinderInv, FinderSearch, Finder!PageIsExact, Finder!Answered

\* The query of a kind, which is appended to what the queries before have found.
LEMMA FinderFetches ==
    ASSUME FinderInv, Finder!FindProfessionals \/ Finder!FindCompanies
    PROVE  FinderInv'
<1> DEFINE first == searchSearch.next = "professionals"
           kind == IF first THEN Professionals ELSE Companies
           found == searchSearch.found
<1>1. /\ FinderTyped /\ FinderSearch /\ searchSearch.pc = "query" /\ FinderQuery
      /\ UNCHANGED <<searchRows, searchEnabled, searchExpansions, searchShown, searchMet>>
      /\ searchSearch.next \in {"professionals", "companies"} /\ kind \in FinderKinds
  BY DEF FinderInv, Finder!FindProfessionals, Finder!FindCompanies, Finder!Quiet, FinderKinds
<1>2. PICK q \in Finder!Fetched(kind) :
          searchSearch' = [searchSearch EXCEPT
                              !.found = found \o q,
                              !.next = IF first THEN "companies" ELSE "countProfessionals"]
  <2>1. searchSearch.next = "professionals" => found = <<>>
    <3> SUFFICES ASSUME searchSearch.next = "professionals" PROVE found = <<>>
      OBVIOUS
    <3>1. found \in Seq(FinderHits) /\ DOMAIN found = {}
      BY <1>1 DEF FinderSearch, Finder!Idle, FinderQuery, FinderFetched
    <3>2. DOMAIN found = 1..Len(found) /\ Len(found) \in Nat
      BY <3>1, LenProperties
    <3> HIDE DEF found
    <3>3. ASSUME Len(found) # 0 PROVE FALSE
      <4>1. 1 \in 1..Len(found)
        BY <3>2, <3>3
      <4> QED
        BY <3>1, <3>2, <4>1
    <3> QED
      BY <3>1, <3>3, EmptySeq
  <2>2. CASE Finder!FindProfessionals
    <3>1. PICK q \in Finder!Fetched(Professionals) :
              searchSearch' = [searchSearch EXCEPT !.found = q, !.next = "companies"]
      BY <2>2 DEF Finder!FindProfessionals
    <3>2. q \in Seq(FinderHits) /\ first /\ kind = Professionals
      BY <1>1, <2>2, <3>1, FinderFind DEF Finder!FindProfessionals, FinderKinds
    <3>3. found \o q = q
      BY <2>1, <3>2, ConcatEmptySeq
    <3> QED
      BY <3>1, <3>2, <3>3
  <2>3. CASE Finder!FindCompanies
    <3>1. ~first /\ kind = Companies
      BY <2>3 DEF Finder!FindCompanies
    <3> QED
      BY <2>3, <3>1 DEF Finder!FindCompanies
  <2> QED
    BY <2>2, <2>3
<1>3. /\ q \in Seq(FinderHits) /\ \A i \in DOMAIN q : q[i].id \in kind
      /\ \A i, j \in DOMAIN q : q[i].id = q[j].id => i = j
      /\ FinderHitsAreTrue(q) /\ FinderMissesAreFar(q, kind)
  BY <1>1, <1>2, FinderFind
<1>4. /\ searchSearch \in [pc : {"query"}, text : BOOLEAN, limit : PlanLimits, page : Nat \ {0},
                           terms : SUBSET FinderTerms, found : Seq(FinderHits), total : Nat,
                           next : FinderNext]
      /\ found \in Seq(FinderHits)
  BY <1>1 DEF FinderSearch, Finder!Idle
<1> DEFINE both == found \o q
<1> HIDE DEF kind, first, found
<1>5. /\ both \in Seq(FinderHits) /\ Len(found) \in Nat /\ Len(q) \in Nat
      /\ DOMAIN both = 1..(Len(found) + Len(q))
      /\ DOMAIN found = 1..Len(found) /\ DOMAIN q = 1..Len(q)
      /\ \A i \in DOMAIN both : both[i] = IF i <= Len(found) THEN found[i] ELSE q[i - Len(found)]
  <2>1. /\ both \in Seq(FinderHits) /\ Len(both) = Len(found) + Len(q)
        /\ \A i \in 1..(Len(found) + Len(q)) :
              both[i] = IF i <= Len(found) THEN found[i] ELSE q[i - Len(found)]
    BY <1>3, <1>4, ConcatProperties
  <2>2. /\ DOMAIN both = 1..Len(both) /\ DOMAIN found = 1..Len(found) /\ DOMAIN q = 1..Len(q)
        /\ Len(found) \in Nat /\ Len(q) \in Nat
    BY <1>3, <1>4, <2>1, LenProperties
  <2> QED
    BY <2>1, <2>2
<1>6. \A i \in DOMAIN both : \/ i \in DOMAIN found /\ both[i] = found[i]
                             \/ i - Len(found) \in DOMAIN q /\ both[i] = q[i - Len(found)]
  BY <1>5
<1>7. /\ \A i \in DOMAIN found : i \in DOMAIN both /\ both[i] = found[i]
      /\ \A i \in DOMAIN q : i + Len(found) \in DOMAIN both /\ both[i + Len(found)] = q[i]
  <2>1. \A i \in DOMAIN found : i \in DOMAIN both /\ both[i] = found[i]
    BY <1>5
  <2>2. ASSUME NEW i \in DOMAIN q PROVE i + Len(found) \in DOMAIN both /\ both[i + Len(found)] = q[i]
    <3>1. i \in 1..Len(q) /\ i + Len(found) \in DOMAIN both /\ ~(i + Len(found) <= Len(found))
          /\ (i + Len(found)) - Len(found) = i
      BY <1>5, <2>2
    <3> QED
      BY <1>5, <3>1
  <2> QED
    BY <2>1, <2>2
<1> HIDE DEF both
<1>8. \A i \in DOMAIN found : found[i].id \in UNION FinderFetched
  BY <1>1 DEF FinderQuery, found
<1>9. (UNION FinderFetched) \cap kind = {} /\ FinderFetched' = FinderFetched \cup {kind}
      /\ UNION (FinderFetched') = (UNION FinderFetched) \cup kind
  <2>1. searchSearch'.next = IF first THEN "companies" ELSE "countProfessionals"
    BY <1>2, <1>4
  <2>2. CASE first
    <3>1. FinderFetched = {} /\ kind = Professionals
      BY <2>2 DEF FinderFetched, kind, first
    <3>2. searchSearch'.next = "companies"
      BY <2>1, <2>2
    <3>3. FinderFetched' = {Professionals}
      BY <3>2 DEF FinderFetched
    <3> QED
      BY <3>1, <3>3
  <2>3. CASE ~first
    <3>1. searchSearch.next = "companies"
      BY <1>1, <2>3 DEF first
    <3>2. FinderFetched = {Professionals} /\ kind = Companies
      BY <2>3, <3>1 DEF FinderFetched, kind
    <3>3. searchSearch'.next = "countProfessionals"
      BY <2>1, <2>3
    <3>4. FinderFetched' = {Professionals, Companies}
      BY <3>3 DEF FinderFetched
    <3>5. UNION FinderFetched = Professionals /\ UNION (FinderFetched') = Professionals \cup Companies
      BY <3>2, <3>4
    <3> QED
      BY <3>2, <3>4, <3>5, SearchAssumption
  <2> QED
    BY <2>2, <2>3
<1>10. \A i, j \in DOMAIN both : both[i].id = both[j].id => i = j
  <2> SUFFICES ASSUME NEW i \in DOMAIN both, NEW j \in DOMAIN both, both[i].id = both[j].id
               PROVE  i = j
    OBVIOUS
  <2>1. \A k, l \in DOMAIN found : found[k].id = found[l].id => k = l
    BY <1>1 DEF FinderQuery, found
  <2>2. i \in Int /\ j \in Int /\ Len(found) \in Int
    BY <1>5
  <2>3. CASE i \in DOMAIN found /\ both[i] = found[i]
    <3>1. j \in DOMAIN found /\ both[j] = found[j]
      BY <1>3, <1>6, <1>8, <1>9, <2>3
    <3> QED
      BY <2>1, <2>3, <3>1
  <2>4. CASE i - Len(found) \in DOMAIN q /\ both[i] = q[i - Len(found)]
    <3>1. j - Len(found) \in DOMAIN q /\ both[j] = q[j - Len(found)]
      BY <1>3, <1>6, <1>8, <1>9, <2>4
    <3>2. i - Len(found) = j - Len(found)
      BY <1>3, <2>4, <3>1
    <3> QED
      BY <2>2, <3>2
  <2> QED
    BY <1>6, <2>3, <2>4
<1>11. \A i \in DOMAIN both : both[i].id \in UNION FinderFetched'
  BY <1>3, <1>6, <1>8, <1>9
<1>12. ASSUME ~searchMet
       PROVE  FinderHitsAreTrue(both) /\ \A k \in FinderFetched' : FinderMissesAreFar(both, k)
  <2>1. FinderHitsAreTrue(found) /\ \A k \in FinderFetched : FinderMissesAreFar(found, k)
    BY <1>1, <1>12 DEF FinderQuery, found
  <2>2. FinderHitsAreTrue(both)
    BY <1>3, <1>6, <2>1 DEF FinderHitsAreTrue
  <2>3. \A k \in FinderFetched : FinderMissesAreFar(both, k)
    BY <1>7, <2>1 DEF FinderMissesAreFar
  <2>4. FinderMissesAreFar(both, kind)
    BY <1>3, <1>7 DEF FinderMissesAreFar
  <2> QED
    BY <1>9, <2>2, <2>3, <2>4
<1>13. /\ searchSearch' \in [pc : {"query"}, text : BOOLEAN, limit : PlanLimits, page : Nat \ {0},
                             terms : SUBSET FinderTerms, found : Seq(FinderHits), total : Nat,
                             next : FinderNext]
       /\ searchSearch'.found = both /\ searchSearch'.pc = "query"
       /\ searchSearch'.terms = searchSearch.terms /\ searchSearch'.limit = searchSearch.limit
       /\ searchSearch'.page = searchSearch.page /\ searchSearch'.next # "countCompanies"
  BY <1>2, <1>4, <1>5 DEF both, FinderNext
<1>14. /\ Finder!Found' = Finder!Found /\ Finder!Offset' = Finder!Offset
       /\ \A s : Finder!Distance(s)' = Finder!Distance(s)
       /\ \A k, s : FinderRivals(k, s)' = FinderRivals(k, s)
  BY <1>1, <1>13, FinderQuiet
<1>15. FinderQuery'
  BY <1>1, <1>10, <1>11, <1>12, <1>13, <1>14
     DEF FinderQuery, FinderHitsAreTrue, FinderMissesAreFar
<1>16. FinderTyped'
  BY <1>1 DEF FinderTyped
<1> QED
  BY <1>13, <1>15, <1>16 DEF FinderInv, FinderSearch, Finder!PageIsExact, Finder!Answered

LEMMA FinderCounts ==
    ASSUME FinderInv, Finder!CountProfessionals
    PROVE  FinderInv'
<1> DEFINE count == Finder!Count(Professionals, searchSearch.terms)
<1>1. /\ FinderTyped /\ FinderSearch /\ searchSearch.pc = "query" /\ FinderQuery
      /\ UNCHANGED <<searchRows, searchEnabled, searchExpansions, searchShown, searchMet>>
      /\ searchSearch.next = "countProfessionals"
      /\ searchSearch' = [searchSearch EXCEPT !.total = count, !.next = "countCompanies"]
  BY DEF FinderInv, Finder!CountProfessionals, Finder!Quiet
<1>2. count = Cardinality(Finder!Found \cap Professionals) /\ count \in 0..Cardinality(Professionals)
      /\ count \in Nat
  <2>1. count = Cardinality(Finder!Matches(searchSearch.terms) \cap Professionals)
    BY FinderCardinality DEF Finder!Count
  <2>2. /\ Cardinality(Finder!Matches(searchSearch.terms) \cap Professionals)
             \in 0..Cardinality(Professionals)
        /\ Cardinality(Professionals) \in Nat
    BY FinderMatch DEF FinderKinds
  <2> QED
    BY <2>1, <2>2 DEF Finder!Found
<1> HIDE DEF count
<1>3. searchSearch \in [pc : {"query"}, text : BOOLEAN, limit : PlanLimits, page : Nat \ {0},
                        terms : SUBSET FinderTerms, found : Seq(FinderHits), total : Nat,
                        next : FinderNext]
  BY <1>1 DEF FinderSearch, Finder!Idle
<1>4. /\ searchSearch' \in [pc : {"query"}, text : BOOLEAN, limit : PlanLimits, page : Nat \ {0},
                            terms : SUBSET FinderTerms, found : Seq(FinderHits), total : Nat,
                            next : FinderNext]
      /\ searchSearch'.pc = "query" /\ searchSearch'.found = searchSearch.found
      /\ searchSearch'.terms = searchSearch.terms /\ searchSearch'.limit = searchSearch.limit
      /\ searchSearch'.page = searchSearch.page /\ searchSearch'.total = count
      /\ searchSearch'.next = "countCompanies"
  BY <1>1, <1>2, <1>3 DEF FinderNext
<1>5. FinderFetched' = FinderFetched
  BY <1>1, <1>4 DEF FinderFetched
<1>6. /\ Finder!Found' = Finder!Found /\ Finder!Offset' = Finder!Offset
      /\ \A s : Finder!Distance(s)' = Finder!Distance(s)
      /\ \A k, s : FinderRivals(k, s)' = FinderRivals(k, s)
  BY <1>1, <1>4, FinderQuiet
<1>7. FinderQuery'
  BY <1>1, <1>2, <1>4, <1>5, <1>6 DEF FinderQuery, FinderHitsAreTrue, FinderMissesAreFar
<1>8. FinderTyped'
  BY <1>1 DEF FinderTyped
<1> QED
  BY <1>4, <1>7, <1>8 DEF FinderInv, FinderSearch, Finder!PageIsExact, Finder!Answered

\* An owner's change ends what is promised of the search it meets.
LEMMA FinderToggles ==
    ASSUME FinderInv, NEW s \in Finder!Subjects, Finder!Toggle(s)
    PROVE  FinderInv'
<1>1. /\ searchMet' = TRUE /\ searchShown' = {}
      /\ UNCHANGED <<searchEnabled, searchExpansions, searchSearch>>
      /\ searchRows' = [searchRows EXCEPT ![s].listed = ~@]
  BY DEF Finder!Toggle
<1>2. searchRows' \in [Finder!Subjects -> Finder!AnyRow]
  BY <1>1 DEF FinderInv, FinderTyped, Finder!AnyRow
<1>3. FinderTyped'
  BY <1>1, <1>2 DEF FinderInv, FinderTyped
<1>4. FinderSearch'
  BY <1>1 DEF FinderInv, FinderSearch
<1>5. searchSearch'.pc = "query" => FinderQuery'
  <2> SUFFICES ASSUME searchSearch.pc = "query" PROVE FinderQuery'
    BY <1>1
  <2>1. FinderQuery /\ FinderFetched' = FinderFetched
    BY <1>1 DEF FinderInv, FinderFetched
  <2> QED
    BY <1>1, <2>1 DEF FinderQuery
<1> QED
  BY <1>1, <1>3, <1>4, <1>5 DEF FinderInv, Finder!PageIsExact, Finder!Answered

LEMMA FinderExpires ==
    ASSUME FinderInv, Finder!Expires \/ UNCHANGED searchVars
    PROVE  FinderInv'
<1>1. /\ UNCHANGED <<searchRows, searchEnabled, searchSearch, searchShown, searchMet>>
      /\ searchExpansions' \in Finder!Answers \cup {None}
  BY DEF Finder!Expires, searchVars, FinderInv, FinderTyped
<1>2. FinderTyped' /\ FinderSearch'
  BY <1>1 DEF FinderInv, FinderTyped, FinderSearch
<1>3. /\ Finder!Found' = Finder!Found /\ Finder!Offset' = Finder!Offset
      /\ \A s : Finder!Distance(s)' = Finder!Distance(s)
      /\ \A k, s : FinderRivals(k, s)' = FinderRivals(k, s)
  BY <1>1, FinderQuiet
<1>4. FinderFetched' = FinderFetched
  BY <1>1 DEF FinderFetched
<1>5. searchSearch'.pc = "query" => FinderQuery'
  BY <1>1, <1>3, <1>4 DEF FinderInv, FinderQuery, FinderHitsAreTrue, FinderMissesAreFar
<1>6. Finder!PageIsExact'
  <2>1. /\ \A s, t : Finder!Rank(s, t)' = Finder!Rank(s, t)
    BY <1>1 DEF Finder!Rank, Finder!FullText
  <2> QED
    BY <1>1, <1>3, <2>1 DEF FinderInv, Finder!PageIsExact, Finder!Answered, Finder!NoTies,
          Finder!OneRank, Finder!Nearer
<1> QED
  BY <1>2, <1>5, <1>6 DEF FinderInv

\* The answer: both kinds merged, cut to the page.
LEMMA FinderAnswers ==
    ASSUME FinderInv, Finder!Answer
    PROVE  FinderInv'
<1> DEFINE q == searchSearch.found
           merged == Finder!MergeByDistance(q)
           count == Finder!Count(Companies, searchSearch.terms)
           page == {j \in 1..searchSearch.limit : Finder!Offset + j \in DOMAIN merged}
           results == [i \in page |-> merged[Finder!Offset + i]]
<1>1. /\ FinderTyped /\ FinderSearch /\ searchSearch.pc = "query" /\ FinderQuery
      /\ UNCHANGED <<searchRows, searchEnabled, searchExpansions, searchShown, searchMet>>
      /\ searchSearch.next = "countCompanies"
      /\ searchSearch' = [pc |-> "answered", text |-> searchSearch.text, limit |-> searchSearch.limit,
                          page |-> searchSearch.page, terms |-> searchSearch.terms,
                          total |-> searchSearch.total + count, results |-> results]
  BY DEF FinderInv, Finder!Answer, Finder!Quiet, Finder!Slice
<1>2. /\ q \in Seq(FinderHits) /\ \A i, j \in DOMAIN q : q[i].id = q[j].id => i = j
      /\ searchSearch.text \in BOOLEAN /\ searchSearch.limit \in PlanLimits
      /\ searchSearch.page \in Nat \ {0} /\ searchSearch.terms \in SUBSET FinderTerms
      /\ searchSearch.total \in 0..Cardinality(Professionals)
  BY <1>1 DEF FinderSearch, Finder!Idle, FinderQuery
<1>3. Finder!Offset \in Nat /\ searchSearch.limit \in Nat
  BY <1>2, FinderOffset
<1>4. /\ Finder!Found \subseteq Finder!Subjects
      /\ Cardinality(Finder!Subjects) = Cardinality(Professionals) + Cardinality(Companies)
      /\ Cardinality(Professionals) \in Nat /\ Cardinality(Companies) \in Nat
      /\ Cardinality(Finder!Found) = Cardinality(Finder!Found \cap Professionals)
                                     + Cardinality(Finder!Found \cap Companies)
      /\ count = Cardinality(Finder!Found \cap Companies) /\ count \in 0..Cardinality(Companies)
  BY FinderMatch, FinderCardinality DEF Finder!Found, FinderKinds, Finder!Count
<1>5. /\ \A k \in DOMAIN merged : \E i \in DOMAIN q : merged[k] = q[i].id
      /\ \A k, l \in DOMAIN merged : merged[k] = merged[l] => k = l
  BY <1>2, FinderMerge
<1>6. \A i \in DOMAIN q : q[i].id \in Finder!Subjects
  <2>1. \A i \in DOMAIN q : q[i] \in FinderHits
    BY <1>2
  <2> QED
    BY <2>1 DEF FinderHits
<1> HIDE DEF merged, count, q
<1>7. /\ DOMAIN results = page
      /\ \A i \in page : /\ i \in 1..searchSearch.limit /\ Finder!Offset + i \in DOMAIN merged
                         /\ results[i] = merged[Finder!Offset + i]
  OBVIOUS
<1> HIDE DEF results
<1>8. IsInjective(results)
  <2> SUFFICES ASSUME NEW i \in page, NEW j \in page, results[i] = results[j] PROVE i = j
    BY <1>7 DEF IsInjective
  <2>1. Finder!Offset + i = Finder!Offset + j
    BY <1>5, <1>7
  <2>2. i \in Nat /\ j \in Nat
    BY <1>3, <1>7
  <2> QED
    BY <1>3, <2>1, <2>2
<1>9. \A i \in page : \E j \in DOMAIN q : results[i] = q[j].id
  BY <1>5, <1>7
<1>10. Finder!Range(results) = {results[i] : i \in page}
  BY <1>7 DEF Finder!Range
<1>11. Finder!Range(results) \subseteq Finder!Subjects
  BY <1>6, <1>9, <1>10
<1>12. searchSearch.total + count \in 0..Cardinality(Finder!Subjects)
  BY <1>2, <1>4
<1>13. /\ searchSearch'.pc = "answered" /\ searchSearch'.text = searchSearch.text
       /\ searchSearch'.limit = searchSearch.limit /\ searchSearch'.page = searchSearch.page
       /\ searchSearch'.terms = searchSearch.terms /\ searchSearch'.results = results
       /\ searchSearch'.total = searchSearch.total + count
  BY <1>1
<1>14. FinderSearch'
  <2>1. Finder!Subjects' = Finder!Subjects
    BY DEF Finder!Subjects
  <2>2. IsInjective(searchSearch'.results) /\ Finder!Range(searchSearch'.results) \subseteq Finder!Subjects
    BY <1>8, <1>11, <1>13
  <2>3. searchSearch'.total \in 0..Cardinality(Finder!Subjects)
    BY <1>12, <1>13
  <2> QED
    BY <1>2, <1>13, <2>2, <2>3 DEF FinderSearch
<1>15. FinderTyped'
  BY <1>1 DEF FinderTyped
<1>16. /\ Finder!Found' = Finder!Found /\ Finder!Offset' = Finder!Offset
       /\ \A s : Finder!Distance(s)' = Finder!Distance(s)
  BY <1>1, <1>13, FinderQuiet
<1>17. \A s, t : Finder!Rank(s, t)' = Finder!Rank(s, t)
  BY <1>1 DEF Finder!Rank, Finder!FullText
<1>18. \A s : Finder!Nearer(s)' = Finder!Nearer(s)
  BY <1>16 DEF Finder!Nearer
<1>19. Finder!PageIsExact'
  <2> SUFFICES ASSUME Finder!Answered', Finder!NoTies', Finder!OneRank'
               PROVE  /\ searchSearch'.total = Finder!Cardinality(Finder!Found)
                      /\ \A i \in 1..searchSearch.limit :
                            \A s \in Finder!Found :
                                Cardinality(Finder!Nearer(s)) = Finder!Offset + i - 1 =>
                                    i \in DOMAIN results /\ results[i] = s
                      /\ Finder!Range(results) \subseteq Finder!Found
    BY <1>13, <1>16, <1>18, FinderCardinality DEF Finder!PageIsExact
  <2>1. ~searchMet /\ Finder!NoTies /\ Finder!OneRank
    BY <1>1, <1>13, <1>16, <1>17 DEF Finder!Answered, Finder!NoTies, Finder!OneRank
  <2>2. searchSearch.total = Cardinality(Finder!Found \cap Professionals) /\ FinderHitsAreTrue(q)
    BY <1>1, <2>1 DEF FinderQuery, q
  <2>3. searchSearch'.total = Finder!Cardinality(Finder!Found)
    BY <1>4, <1>13, <2>2, FinderCardinality
  <2>4. ASSUME NEW i \in 1..searchSearch.limit, NEW s \in Finder!Found,
               Cardinality(Finder!Nearer(s)) = Finder!Offset + i - 1
        PROVE  i \in DOMAIN results /\ results[i] = s
    <3>1. Finder!Offset + i \in DOMAIN merged /\ merged[Finder!Offset + i] = s
      BY <1>1, <2>1, <2>4, FinderPage DEF merged, q
    <3>2. i \in page
      BY <3>1
    <3> QED
      BY <1>7, <3>1, <3>2
  <2>5. Finder!Range(results) \subseteq Finder!Found
    BY <1>9, <1>10, <2>2 DEF FinderHitsAreTrue
  <2> QED
    BY <2>3, <2>4, <2>5
<1> QED
  BY <1>13, <1>14, <1>15, <1>19 DEF FinderInv

LEMMA FinderInit == Finder!Init => FinderInv
<1> SUFFICES ASSUME Finder!Init PROVE FinderInv
  OBVIOUS
<1>1. Finder!Offers \subseteq Finder!AnyRow
  BY DEF Finder!Offers, Finder!AnyRow, Finder!Row
<1>2. searchRows \in [Finder!Subjects -> Finder!AnyRow]
  BY <1>1 DEF Finder!Init
<1>3. searchSearch = Finder!Idle
  BY DEF Finder!Init
<1>4. FinderTyped
  BY <1>2 DEF Finder!Init, FinderTyped
<1> QED
  BY <1>3, <1>4 DEF FinderInv, FinderSearch, Finder!Idle, Finder!PageIsExact, Finder!Answered

LEMMA FinderMoves == ASSUME FinderInv, [Finder!Next]_searchVars PROVE FinderInv'
BY FinderAsks, FinderExpands, FinderFetches, FinderCounts, FinderAnswers, FinderToggles,
   FinderExpires DEF Finder!Next

-----------------------------------------------------------------------------
(* The types that the invariants above leave open.                         *)

\* Where a definition is named it is there, once its creation is done.
PlanTyped ==
    /\ Plans!TypeOK /\ planCalls \in [Slots -> Plans!Calls]
    /\ planProfile.id \in Plans!Rows
    /\ \A s \in Slots : planCalls[s].pc \notin {"idle", "create"} => planCalls[s].to \in Plans!Rows
    /\ planReading.pc = "definition" => planReading.id \in Plans!Rows

LEMMA PlanTypedInit == Plans!Init => PlanTyped
<1> SUFFICES ASSUME Plans!Init PROVE PlanTyped
  OBVIOUS
<1>1. /\ planDefinitions = [id \in Catalog |-> [active |-> TRUE, linked |-> FALSE, version |-> 1]]
      /\ Plans!Rows = Catalog /\ planProfile \in [code : Catalog \cup {"CUSTOM"}, id : Plans!Ids]
      /\ planProfile.id \in Catalog
  BY DEF Plans!Init, Plans!Rows, Plans!Ids
<1>2. \A s \in Slots : planCalls[s] = Plans!Idle
  BY DEF Plans!Init
<1>3. 0 \in Plans!Versions /\ 1 \in Plans!Versions
  BY PlanAssumption DEF Plans!Versions
<1> QED
  BY <1>1, <1>2, <1>3 DEF Plans!Init, PlanTyped, Plans!TypeOK, Plans!Ids, Plans!Calls, Plans!Readings,
     Plans!Idle

LEMMA PlanTypedNext == ASSUME PlanTyped, [Plans!Next]_planVars PROVE PlanTyped'
<1>1. ASSUME NEW s \in Slots, NEW call \in Plans!Calls, Plans!Begin(s, call),
             call.pc \notin {"idle", "create"} => call.to \in Plans!Rows
      PROVE  PlanTyped'
  BY <1>1 DEF Plans!Begin, PlanTyped, Plans!TypeOK, Plans!Rows
<1>2. ASSUME NEW s \in Slots, NEW plan \in Catalog,
             Plans!BeginCatalog(s, plan) \/ Plans!BeginRevise(s, plan)
      PROVE  PlanTyped'
  BY <1>1, <1>2 DEF Plans!BeginCatalog, Plans!BeginRevise, Plans!Calls, Plans!Ids, PlanTyped, Plans!TypeOK
<1>3. ASSUME NEW s \in Slots, NEW id \in Customs, Plans!BeginCustom(s, id) \/ Plans!BeginExtra(s, id)
      PROVE  PlanTyped'
  BY <1>1, <1>3 DEF Plans!BeginCustom, Plans!BeginExtra, Plans!Calls, Plans!Ids, PlanTyped, Plans!TypeOK
<1>4. ASSUME NEW s \in Slots, Plans!Create(s) PROVE PlanTyped'
  BY <1>4, PlanAssumption DEF Plans!Create, Plans!Goto, Plans!Calls, Plans!Ids, Plans!Rows, Plans!Idle,
     Plans!Versions, PlanTyped, Plans!TypeOK
<1>5. ASSUME NEW s \in Slots, Plans!Deactivate(s) PROVE PlanTyped'
  <2> DEFINE call == [planCalls[s] EXCEPT !.pc = IF planCalls[s].kind = "custom" THEN "update" ELSE "forget"]
  <2>1. /\ planCalls[s] \in Plans!Calls /\ planCalls[s].pc = "deactivate"
        /\ UNCHANGED <<planProfile, planCache, planReading, planOrderly>>
        /\ planCalls' = [planCalls EXCEPT ![s] = call]
    BY <1>5 DEF Plans!Deactivate, Plans!Goto, PlanTyped
  <2>2. call \in Plans!Calls /\ call.to = planCalls[s].to /\ planCalls[s].to \in Plans!Rows
    BY <2>1 DEF Plans!Calls, Plans!Idle, PlanTyped
  <2>3. /\ Plans!Rows' = Plans!Rows
        /\ \A id \in Plans!Rows :
              planDefinitions'[id] \in [active : BOOLEAN, linked : BOOLEAN, version : Plans!Versions]
    BY <1>5 DEF Plans!Deactivate, Plans!Rows, PlanTyped, Plans!TypeOK
  <2> HIDE DEF call
  <2>4. planCalls' \in [Slots -> Plans!Calls] /\ planCalls'[s] = call
        /\ \A d \in Slots \ {s} : planCalls'[d] = planCalls[d]
    BY <2>1, <2>2 DEF PlanTyped
  <2> QED
    BY <2>1, <2>2, <2>3, <2>4 DEF PlanTyped, Plans!TypeOK
<1>6. ASSUME NEW s \in Slots, Plans!Update(s) PROVE PlanTyped'
  BY <1>6 DEF Plans!Update, Plans!Goto, Plans!Calls, Plans!Ids, Plans!Rows, Plans!Idle, Plans!Code,
     PlanTyped, Plans!TypeOK
<1>7. ASSUME NEW s \in Slots, Plans!Forget(s) PROVE PlanTyped'
  BY <1>7, PlanAssumption DEF Plans!Forget, Plans!Goto, Plans!Calls, Plans!Ids, Plans!Rows, Plans!Idle,
     Plans!Versions, PlanTyped, Plans!TypeOK
<1>8. ASSUME NEW s \in Slots, Plans!Revise(s) PROVE PlanTyped'
  <2> DEFINE call == [planCalls[s] EXCEPT !.pc = "forget"]
             to == planCalls[s].to
  <2>1. /\ planCalls[s] \in Plans!Calls /\ planCalls[s].pc = "revise" /\ to \in Plans!Rows
        /\ UNCHANGED <<planProfile, planCache, planReading, planOrderly>>
        /\ planCalls' = [planCalls EXCEPT ![s] = call]
        /\ planDefinitions' = [planDefinitions EXCEPT ![to].version = @ + 1]
        /\ planDefinitions[to].version < MaxVersion
    BY <1>8 DEF Plans!Revise, Plans!Goto, PlanTyped
  <2>2. call \in Plans!Calls /\ call.to = to
    BY <2>1 DEF Plans!Calls, Plans!Idle
  <2> HIDE DEF call, to
  <2>3. planDefinitions[to].version + 1 \in Plans!Versions
    BY <2>1, PlanAssumption DEF Plans!Versions, PlanTyped, Plans!TypeOK
  <2>4. /\ Plans!Rows' = Plans!Rows
        /\ \A id \in Plans!Rows :
              planDefinitions'[id] \in [active : BOOLEAN, linked : BOOLEAN, version : Plans!Versions]
    BY <2>1, <2>3 DEF Plans!Rows, PlanTyped, Plans!TypeOK
  <2>5. planCalls' \in [Slots -> Plans!Calls] /\ planCalls'[s] = call
        /\ \A d \in Slots \ {s} : planCalls'[d] = planCalls[d]
    BY <2>1, <2>2 DEF PlanTyped
  <2> QED
    BY <2>1, <2>2, <2>4, <2>5 DEF PlanTyped, Plans!TypeOK, to
<1>9. ASSUME NEW s \in Slots, Plans!Dies(s) PROVE PlanTyped'
  <2>1. /\ planCalls' = [planCalls EXCEPT ![s] = Plans!Idle] /\ planOrderly' = FALSE
        /\ UNCHANGED <<planProfile, planDefinitions, planCache, planReading>>
    BY <1>9 DEF Plans!Dies, Plans!Goto
  <2>2. planCalls' \in [Slots -> Plans!Calls] /\ planCalls'[s].pc = "idle"
        /\ \A d \in Slots \ {s} : planCalls'[d] = planCalls[d]
    BY <2>1 DEF PlanTyped, Plans!Calls, Plans!Idle
  <2> QED
    BY <2>1, <2>2 DEF PlanTyped, Plans!TypeOK, Plans!Rows
<1>10. ASSUME NEW plan \in Catalog, Plans!SyncProfilePlan(plan) PROVE PlanTyped'
  BY <1>10 DEF Plans!SyncProfilePlan, Plans!Rows, Plans!Ids, PlanTyped, Plans!TypeOK
<1>11. CASE Plans!LoadPlan \/ Plans!LoadDefinition
  BY <1>11, PlanAssumption DEF Plans!LoadPlan, Plans!LoadDefinition, Plans!Reads, Plans!Rows,
     Plans!Readings, Plans!Fallback, Plans!Idle, Plans!Versions, PlanTyped, Plans!TypeOK
<1>12. CASE Plans!Get
  BY <1>12 DEF Plans!Get, Plans!LookUp, Plans!Reads, Plans!Rows, Plans!Readings, Plans!Idle,
     PlanTyped, Plans!TypeOK
<1>13. CASE Plans!Answered \/ \E id \in Plans!Ids : Plans!Expires(id)
  BY <1>13, PlanAssumption DEF Plans!Answered, Plans!Expires, Plans!Reads, Plans!Rows, Plans!Readings,
     Plans!Idle, Plans!Versions, PlanTyped, Plans!TypeOK
<1>14. CASE UNCHANGED planVars
  BY <1>14 DEF planVars, PlanTyped, Plans!TypeOK, Plans!Rows
<1> QED
  BY <1>2, <1>3, <1>4, <1>5, <1>6, <1>7, <1>8, <1>9, <1>10, <1>11, <1>12, <1>13, <1>14 DEF Plans!Next

\* Every fault is counted against the bound.
InferenceBounded == inferencePgEnabled \in BOOLEAN /\ inferenceFaults \in 0..MaxFaults

LEMMA InferenceBound ==
    /\ Inference!Init => InferenceBounded
    /\ InferenceBounded /\ [Inference!Next]_inferenceVars => InferenceBounded'
<1>1. Inference!Init => InferenceBounded
  BY BoundAssumption DEF Inference!Init, InferenceBounded
<1>2. [Inference!Next]_inferenceVars =>
          inferencePgEnabled' = inferencePgEnabled
          /\ (inferenceFaults' = inferenceFaults \/ Inference!Fault)
  BY DEF Inference!Next, Inference!Begin, Inference!Skip, Inference!GetL1, Inference!GetL2,
     Inference!Refill, Inference!Acquire, Inference!Fire, Inference!SetL1, Inference!SetL2,
     Inference!Fails, Inference!Release, Inference!Answer, Inference!Dies, Inference!LockExpires,
     Inference!Expire, Inference!Same, inferenceVars
<1> QED
  BY <1>1, <1>2, BoundAssumption DEF InferenceBounded, Inference!Fault

LEMMA InferenceType == InferenceInv /\ InferenceBounded => Inference!TypeOK
BY DEF InferenceInv, InferenceBounded, Cached, Steps, Inference!TypeOK, Inference!Verdicts

\* The values stored of a destination are of their kinds.
LEMMA DestinationTypeInit == Destination!Init => Destination!TypeOK
BY DEF Destination!Init, Destination!TypeOK

LEMMA DestinationType ==
    ASSUME Destination!TypeOK, [Destination!Next]_moneyVars
    PROVE  Destination!TypeOK'
<1>1. ASSUME NEW dto \in Destination!Requests, Destination!Create(dto) PROVE Destination!TypeOK'
  <2>1. /\ dto.method \in Destination!Methods /\ dto.identifierType \in Destination!IdentifierTypes
        /\ dto.method = "BANK" => dto.bank \in Banks
    BY <1>1 DEF Destination!Create, Destination!Requests
  <2>2. /\ moneyAccount'.method = dto.method /\ moneyAccount'.identifierType = dto.identifierType
        /\ moneyAccount'.bank = IF dto.method = "BANK" THEN dto.bank ELSE Null
        /\ moneyTold' = moneyTold
    BY <1>1 DEF Destination!Create
  <2> QED
    BY <2>1, <2>2 DEF Destination!TypeOK
<1>2. CASE Destination!ExecutePayoutForJob \/ Destination!CompletePayoutAttempt
           \/ Destination!RecoverStuckPayoutAttempt \/ Destination!ListPendingPayout
           \/ UNCHANGED moneyVars
  <2>1. moneyAccount' = moneyAccount
    BY <1>2 DEF Destination!ExecutePayoutForJob, Destination!CompletePayoutAttempt,
       Destination!RecoverStuckPayoutAttempt, Destination!ListPendingPayout, moneyVars
  <2>2. moneyTold' = moneyTold \/ moneyTold'.by \in {"attempt", "recovery", "administrator"}
    BY <1>2 DEF Destination!ExecutePayoutForJob, Destination!CompletePayoutAttempt,
       Destination!RecoverStuckPayoutAttempt, Destination!ListPendingPayout, moneyVars
  <2>3. moneyTold' # Null => moneyTold'.by \in {"attempt", "recovery", "administrator"}
    BY <2>2 DEF Destination!TypeOK
  <2>4. moneyAccount' # Null =>
            /\ moneyAccount'.method \in Destination!Methods
            /\ moneyAccount'.identifierType \in Destination!IdentifierTypes
            /\ moneyAccount'.bank \in Banks \cup {Null}
    BY <2>1 DEF Destination!TypeOK
  <2> QED
    BY <2>3, <2>4 DEF Destination!TypeOK
<1> QED
  BY <1>1, <1>2 DEF Destination!Next

LEMMA GrantType == GrantInv => Entitlements!TypeOK
<1> SUFFICES ASSUME GrantInv PROVE Entitlements!TypeOK
  OBVIOUS
<1>1. /\ grantRow.object \in BOOLEAN /\ grantRow.schemaVersion \in {Absent, 2}
      /\ grantRow.v2 \in AnyLimits /\ DOMAIN grantRow.v1 = Entitlements!V1Limits
  <2>1. ASSUME NEW limits \in ValidLimits, grantRow = Entitlements!Canonical(limits)
        PROVE  /\ grantRow.object /\ grantRow.schemaVersion = 2 /\ grantRow.v2 = limits
               /\ grantRow.v1 = Entitlements!NoV1 /\ limits \in AnyLimits
    BY <2>1, CanonicalReads DEF ValidLimits
  <2>2. ASSUME OldRow(grantRow)
        PROVE  /\ grantRow.object /\ grantRow.schemaVersion = Absent /\ grantRow.v2 \in AnyLimits
               /\ DOMAIN grantRow.v1 = Entitlements!V1Limits
    BY <2>2 DEF OldRow
  <2>3. DOMAIN Entitlements!NoV1 = Entitlements!V1Limits
    BY DEF Entitlements!NoV1
  <2> QED
    BY <2>1, <2>2, <2>3 DEF GrantInv, GrantRow
<1>2. DOMAIN grantRow.v2 = Entitlements!Limits
      /\ \A l \in Entitlements!Limits : grantRow.v2[l] \in Entitlements!Leaves
  BY <1>1 DEF AnyLimits
<1>3. ASSUME grantTried # Absent
      PROVE  grantTried.capability \in Entitlements!Capabilities /\ grantTried.granted \in BOOLEAN
  <2>1. ASSUME NEW capability, NEW limits, NEW amount
        PROVE  Entitlements!Grants(capability, limits, amount) \in BOOLEAN
    <3> DEFINE granted == Entitlements!Grants(capability, limits, amount)
    <3>1. capability = "serviceArea.create" => granted \in BOOLEAN
      BY DEF Entitlements!Grants
    <3>2. capability = "serviceArea.radius" => granted \in BOOLEAN
      BY DEF Entitlements!Grants
    <3>3. capability = "portfolio.item.create" => granted \in BOOLEAN
      BY DEF Entitlements!Grants
    <3>4. capability = "portfolio.photo.add" => granted \in BOOLEAN
      BY DEF Entitlements!Grants
    <3>5. capability \notin {"serviceArea.create", "serviceArea.radius", "portfolio.item.create",
                            "portfolio.photo.add"} => granted \in BOOLEAN
      BY DEF Entitlements!Grants
    <3> QED
      BY <3>1, <3>2, <3>3, <3>4, <3>5
  <2> QED
    BY <1>3, <2>1 DEF GrantInv
<1> QED
  BY <1>1, <1>2, <1>3 DEF Entitlements!TypeOK

\* Beside what LinkInv says: what other parts decide, and whose ids there are.
LinkTyped ==
    /\ linkActive \subseteq Trades /\ linkLimit \in PlanLimits /\ linkPeak \in PlanLimits
    /\ linkTrade \in [LinkedJobs -> Trades]
    /\ Link!Rows \subseteq TwoIds
    /\ DOMAIN linkAgreed \subseteq Link!Rows
    /\ linkOrderly \in BOOLEAN

LEMMA LinkTypedInit == Link!Init => LinkTyped
BY DEF Link!Init, LinkTyped, Link!Rows

LEMMA LinkTypedNext == ASSUME LinkInv, LinkTyped, [Link!Next]_linkVars PROVE LinkTyped'
<1>1. ASSUME NEW s \in Slots, NEW i \in TwoIds, Link!Create(s, i) PROVE LinkTyped'
  <2>1. Link!Rows' \in {Link!Rows, Link!Rows \cup {i}}
    BY <1>1 DEF Link!Create, Link!Put, Link!Rows
  <2> QED
    BY <1>1, <2>1 DEF LinkTyped, Link!Create
<1>2. ASSUME NEW i \in Link!Rows, Link!Accept(i) PROVE LinkTyped'
  <2>1. Link!Rows' = Link!Rows /\ DOMAIN linkAgreed' = DOMAIN linkAgreed \cup {i}
    BY <1>2 DEF Link!Accept, Link!Put, Link!Rows
  <2> QED
    BY <1>2, <2>1 DEF LinkTyped, Link!Accept
<1>3. ASSUME NEW s \in Slots, NEW c \in Trades, NEW j, Link!BeginCreate(s, c, j) PROVE LinkTyped'
  BY <1>3 DEF Link!BeginCreate, LinkTyped, Link!Rows
<1>4. ASSUME NEW s \in Slots, NEW c \in Trades, NEW i, Link!BeginRecategorize(s, i, c) PROVE LinkTyped'
  BY <1>4 DEF Link!BeginRecategorize, LinkTyped, Link!Rows
<1>5. ASSUME NEW s \in Slots, Link!Recategorize(s) PROVE LinkTyped'
  BY <1>5 DEF Link!Recategorize, LinkTyped, Link!Rows
<1>6. ASSUME NEW i \in Link!Rows, Link!SoftDelete(i) \/ Link!AskConsent(i) PROVE LinkTyped'
  BY <1>6 DEF Link!SoftDelete, Link!AskConsent, LinkTyped, Link!Rows
<1>7. ASSUME NEW j \in LinkedJobs, Link!Close(j) \/ Link!Reopen(j) PROVE LinkTyped'
  BY <1>7 DEF Link!Close, Link!Reopen, LinkTyped, Link!Rows
<1>8. ASSUME NEW c \in Trades, Link!Retire(c) PROVE LinkTyped'
  BY <1>8 DEF Link!Retire, LinkTyped, Link!Rows
<1>9. ASSUME NEW n \in PlanLimits, Link!ChangePlan(n) PROVE LinkTyped'
  BY <1>9 DEF Link!ChangePlan, LinkTyped, Link!Rows
<1>10. CASE UNCHANGED linkVars
  BY <1>10 DEF linkVars, LinkTyped, Link!Rows
<1> QED
  BY <1>1, <1>2, <1>3, <1>4, <1>5, <1>6, <1>7, <1>8, <1>9, <1>10 DEF Link!Next

LEMMA LinkType == LinkInv /\ LinkTyped => Link!TypeOK
<1> SUFFICES ASSUME LinkInv, LinkTyped PROVE Link!TypeOK
  OBVIOUS
<1>1. \A s \in Slots : linkCalls[s] \in Link!Calls
  BY DEF LinkInv, LinkShape, LinkTyped, LinkCreation, LinkChange, Link!Calls
<1>2. \A i \in Link!Rows : linkItems[i] \in Link!Item
  BY DEF LinkInv, LinkShape
<1> QED
  BY <1>1, <1>2 DEF LinkInv, LinkShape, LinkTyped, Link!TypeOK

-----------------------------------------------------------------------------
(* The suite: the part in focus moves by its own Next, and no other does.   *)

LEMMA FocusMoves ==
    ASSUME [Next]_vars
    PROVE  /\ focus' = focus
           /\ focus = "moderation" => [Inference!Next]_inferenceVars
           /\ focus = "link" => [Link!Next]_linkVars
           /\ focus = "destination" => [Destination!Next]_moneyVars
           /\ focus = "plans" => [Plans!Next]_planVars
           /\ focus = "entitlements" => [Entitlements!Next]_grantVars
           /\ focus = "registration" => [Register!Next]_registerVars
           /\ focus = "accounts" => [Accounts!Next]_payoutVars
           /\ focus = "areas" => [Areas!Next]_areaVars
           /\ focus = "categories" => [Tree!Next]_categoryVars
           /\ focus = "geo" => [Geo!Next]_geoVars
           /\ focus = "places" => [Places!Next]_placeVars
           /\ focus = "rates" => [Rates!Next]_rateVars
           /\ focus = "search" => [Finder!Next]_searchVars
           /\ focus = "lists" => [Lists!Next]_listVars
<1>1. CASE UNCHANGED vars
  BY <1>1 DEF vars
<1>2. CASE Next
  BY <1>2 DEF Next, Still
<1> QED
  BY <1>1, <1>2

\* Whatever level of cache answers, whichever release has filled it and whatever
\* fails or expires meanwhile, moderation lets through only what the provider
\* accepts under the policy of the release that asks; and until something fails
\* a lock has a request that holds it.
THEOREM ModerationIsFaithful == Spec => []VerdictIsFaithful
<1> DEFINE Holds == focus = "moderation" => InferenceInv
<1>1. Init => Holds
  BY InferenceInit DEF Init
<1>2. Holds /\ [Next]_vars => Holds'
  BY FocusMoves, InferenceNext, InferenceStutters
<1>3. Holds => VerdictIsFaithful
  BY InferenceFaithful DEF VerdictIsFaithful
<1> QED
  BY <1>1, <1>2, <1>3, PTL DEF Spec

\* A badge stands for what the client agreed to, whatever updates had been read
\* before the acceptance, on a CLOSED job that carries no other item; and a
\* professional whose creations do not meet another request's never has more
\* items than the largest plan so far allowed.
THEOREM BadgeIsFrozen == Spec => []LinkIsFrozen
<1> DEFINE Holds == focus = "link" => LinkInv /\ LinkQuotaInv
<1>1. Init => Holds
  BY LinkInitInv, LinkQuotaInit DEF Init
<1>2. Holds /\ [Next]_vars => Holds'
  BY FocusMoves, LinkNextInv, LinkQuotaNext
<1>3. Holds => LinkIsFrozen
  BY LinkFrozen, LinkQuota DEF LinkIsFrozen
<1> QED
  BY <1>1, <1>2, <1>3, PTL DEF Spec

\* The plan a profile is on can be used and is the one it names whenever its
\* changes have not met, the answer kept about it is current; and the limits a
\* definition is read back with are those it was written with.
THEOREM PlanInForce == Spec => []PlanIsEffective
<1> DEFINE Holds == /\ focus = "plans" => PlanInv
                    /\ focus = "entitlements" => GrantInv
<1>1. Init => Holds
  BY PlanInit, GrantInit DEF Init
<1>2. Holds /\ [Next]_vars => Holds'
  BY FocusMoves, PlanNext, GrantNext
<1>3. PlanInv => Plans!PlanIsEffective
  BY DEF PlanInv, PlanGood, Plans!AssignedPlanIsActive, Plans!PlanIsEffective
<1>4. Holds => PlanIsEffective
  BY <1>3, GrantsAreWritten DEF PlanIsEffective
<1> QED
  BY <1>1, <1>2, <1>4, PTL DEF Spec

\* As long as no request has met another, a RUT is one company's or one
\* professional's, whichever of the two tables it is in, a user's role is that
\* of what the user owns, and a role kept in the cache is the user's.
THEOREM RegistrationIsUnique == Spec => []RegisteredOnce
<1> DEFINE Holds == focus = "registration" => RegisterInv
<1>1. Init => Holds
  BY RegisterInit DEF Init
<1>2. Holds /\ [Next]_vars => Holds'
  BY FocusMoves, RegisterNext
<1>3. Holds => RegisteredOnce
  BY RegisterOnce DEF RegisteredOnce
<1> QED
  BY <1>1, <1>2, <1>3, PTL DEF Spec

\* Between requests that have followed one another a subject has one primary
\* payout account at most, and the gate before a job says no only for want of an
\* active one; unless a creation has met another change a subject has one
\* primary service area at most, and no more areas than some plan of theirs
\* allowed; and what is stored of a destination is one destination and no more,
\* accepted again as it is, which the first attempt hands over entire.
THEOREM AccountsInOrder == Spec => []AccountsAreInOrder
<1> DEFINE Holds == /\ focus = "accounts" => AccountInv
                    /\ focus = "areas" => AreaInv
                    /\ focus = "destination" => DestinationInv
<1>1. Init => Holds
  BY AccountInit, AreaInit DEF Init, Destination!Init, DestinationInv
<1>2. Holds /\ [Next]_vars => Holds'
  BY FocusMoves, AccountNext, AreaNext, DestinationNext
<1>3. Holds => AccountsAreInOrder
  BY AccountOne, AreaOne, DestinationWhole DEF AccountsAreInOrder
<1> QED
  BY <1>1, <1>2, <1>3, PTL DEF Spec

\* One change of the categories, or one creation of a neighbourhood, that meets
\* nothing else makes what is kept of them current again, however changes have
\* overlapped before; the geocoder adds neighbourhoods only where the seed tells
\* several; a place is named inside the place it lies in; and a checkout is
\* priced at the rate of a day no earlier than the one it was asked on.
THEOREM CatalogsKeepUp == Spec => []CatalogsAreCurrent
<1> DEFINE Holds == /\ focus = "categories" => CategoryInv
                    /\ focus = "geo" => GeoInv
                    /\ focus = "places" => PlaceInv
                    /\ focus = "rates" => RateInv
<1>1. Init => Holds
  BY CategoryInit, GeoInit, PlaceInit, RateInit DEF Init
<1>2. Holds /\ [Next]_vars => Holds'
  BY FocusMoves, CategoryNext, GeoNext, PlaceNext, RateNext
<1>3. Holds => CatalogsAreCurrent
  BY CategoryIsCurrent, GeoIsConsistent, PlaceIsNested, RateIsNewest DEF CatalogsAreCurrent
<1> QED
  BY <1>1, <1>2, <1>3, PTL DEF Spec

\* A page of a search that nothing has met, of subjects equally relevant and at
\* different distances, is the page of both kinds together, nearest first, with
\* their number as its total; and whoever reads a listing to its end misses no row
\* that was there all along unless one has left it or moved, and sees none twice
\* unless one has come in before those already shown or moved.
THEOREM PagesAreExact == Spec => []PageIsExact
<1> DEFINE Holds == /\ focus = "search" => FinderInv
                    /\ focus = "lists" => ListInv
<1>1. Init => Holds
  BY FinderInit, ListInit DEF Init
<1>2. Holds /\ [Next]_vars => Holds'
  BY FocusMoves, FinderMoves, ListNext
<1>3. FinderInv => Finder!PageIsExact
  BY DEF FinderInv
<1>4. Holds => PageIsExact
  BY <1>3, ListIsWhole DEF PageIsExact
<1> QED
  BY <1>1, <1>2, <1>4, PTL DEF Spec

\* Every variable of the part that moves keeps its type: no definition, item or
\* row is named that is not there, no counter passes its bound, and no answer
\* counts or shows more subjects than there are.
THEOREM TypesHold == Spec => []TypeOK
<1> DEFINE Holds == /\ focus \in Parts
                    /\ focus = "accounts" => AccountInv
                    /\ focus = "areas" => AreaInv
                    /\ focus = "registration" => RegisterInv
                    /\ focus = "plans" => PlanTyped
                    /\ focus = "moderation" => InferenceInv /\ InferenceBounded
                    /\ focus = "categories" => CategoryInv
                    /\ focus = "geo" => GeoInv
                    /\ focus = "search" => FinderInv
                    /\ focus = "rates" => RateInv
                    /\ focus = "lists" => ListInv
                    /\ focus = "places" => PlaceInv
                    /\ focus = "entitlements" => GrantInv
                    /\ focus = "destination" => Destination!TypeOK
                    /\ focus = "link" => LinkInv /\ LinkTyped
<1>1. Init => Holds
  BY AccountInit, AreaInit, RegisterInit, PlanTypedInit, InferenceInit, InferenceBound, CategoryInit,
     GeoInit, FinderInit, RateInit, ListInit, PlaceInit, GrantInit, DestinationTypeInit, LinkInitInv,
     LinkTypedInit DEF Init
<1>2. Holds /\ [Next]_vars => Holds'
  <2> SUFFICES ASSUME Holds, [Next]_vars PROVE Holds'
    OBVIOUS
  <2>1. focus' = focus
    BY FocusMoves
  <2>2. focus = "accounts" => AccountInv'
    BY FocusMoves, AccountNext
  <2>3. focus = "areas" => AreaInv'
    BY FocusMoves, AreaNext
  <2>4. focus = "registration" => RegisterInv'
    BY FocusMoves, RegisterNext
  <2>5. focus = "plans" => PlanTyped'
    BY FocusMoves, PlanTypedNext
  <2>6. focus = "moderation" => InferenceInv' /\ InferenceBounded'
    BY FocusMoves, InferenceNext, InferenceStutters, InferenceBound
  <2>7. focus = "categories" => CategoryInv'
    BY FocusMoves, CategoryNext
  <2>8. focus = "geo" => GeoInv'
    BY FocusMoves, GeoNext
  <2>9. focus = "search" => FinderInv'
    BY FocusMoves, FinderMoves
  <2>10. focus = "rates" => RateInv'
    BY FocusMoves, RateNext
  <2>11. focus = "lists" => ListInv'
    BY FocusMoves, ListNext
  <2>12. focus = "places" => PlaceInv'
    BY FocusMoves, PlaceNext
  <2>13. focus = "entitlements" => GrantInv'
    BY FocusMoves, GrantNext
  <2>14. focus = "destination" => Destination!TypeOK'
    BY FocusMoves, DestinationType
  <2>15. focus = "link" => LinkInv' /\ LinkTyped'
    BY FocusMoves, LinkNextInv, LinkTypedNext
  <2> QED
    BY <2>1, <2>2, <2>3, <2>4, <2>5, <2>6, <2>7, <2>8, <2>9, <2>10, <2>11, <2>12, <2>13, <2>14, <2>15
<1>3. PlanTyped => Plans!TypeOK
  BY DEF PlanTyped
<1>4. Holds => TypeOK
  BY <1>3, AccountOne, AreaOne, RegisterOnce, InferenceType, CategoryIsCurrent, GeoIsConsistent,
     FinderType, RateIsNewest, ListType, PlaceIsNested, GrantType, LinkType DEF TypeOK
<1> HIDE DEF Holds
<1> QED
  BY <1>1, <1>2, <1>4, PTL DEF Spec
=============================================================================
