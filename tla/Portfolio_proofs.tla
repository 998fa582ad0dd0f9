-------------------------- MODULE Portfolio_proofs --------------------------
(***************************************************************************)
(* Proofs about Portfolio, for any slots, photos and bounds.               *)
(***************************************************************************)
EXTENDS Portfolio, FiniteSetTheorems, TLAPS

Request == [pc : Steps, moderate : BOOLEAN, text : Nat, keys : SUBSET Photos]
Job == [id : Nat, keys : SUBSET Photos, text : Nat, left : Nat]

\* The types without the bounds.
Shape ==
    /\ aiEnabled \in BOOLEAN
    /\ item \in [status : Status, ai : AiStatus, deleted : BOOLEAN, text : Nat]
    /\ photos \subseteq Photos /\ stored \subseteq Photos
    /\ jobs \subseteq Job /\ issued \in Nat
    /\ cleanup \in {"none", "queued", "done"}
    /\ asked \in BOOLEAN
    /\ req \in [Slots -> Request]
    /\ reviewed \in [keys : SUBSET Photos, texts : SUBSET Nat]
    /\ orderly \in BOOLEAN /\ ban \in Bans

LEMMA ReqRecord ==
    ASSUME Shape, NEW r \in Slots
    PROVE  /\ req[r] = [pc |-> req[r].pc, moderate |-> req[r].moderate,
                        text |-> req[r].text, keys |-> req[r].keys]
           /\ req[r].pc \in Steps /\ req[r].moderate \in BOOLEAN
           /\ req[r].text \in Nat /\ req[r].keys \in SUBSET Photos
BY DEF Shape, Request

\* The request of r has become x, and the others are what they were.
Sets(r, x) ==
    /\ req' = [req EXCEPT ![r] = x]
    /\ req'[r] = x /\ \A s \in Slots \ {r} : req'[s] = req[s]
    /\ req' \in [Slots -> Request]

LEMMA SetRequest ==
    ASSUME Shape, NEW r \in Slots, NEW x \in Request, req' = [req EXCEPT ![r] = x]
    PROVE  Sets(r, x)
BY DEF Shape, Sets

LEMMA IdleRequest == Idle \in Request /\ Idle.pc = "idle" /\ ~Idle.moderate
BY DEF Idle, Request, Steps

LEMMA ReplySets ==
    ASSUME Shape, NEW r \in Slots, Reply(r)
    PROVE  Sets(r, Idle)
BY SetRequest, IdleRequest DEF Reply

LEMMA GotoSets ==
    ASSUME Shape, NEW r \in Slots, NEW step \in Steps, Goto(r, step)
    PROVE  Sets(r, [req[r] EXCEPT !.pc = step])
<1>1. [req[r] EXCEPT !.pc = step] \in Request
  BY DEF Shape, Request
<1>2. req' = [req EXCEPT ![r] = [req[r] EXCEPT !.pc = step]]
  BY DEF Goto
<1> QED
  BY <1>1, <1>2, SetRequest

\* What an edit leaves behind: a request that will queue a job, or none.
LEMMA EditedSets ==
    ASSUME Shape, NEW r \in Slots, NEW text \in Nat, Edited(r, text)
    PROVE  IF req[r].moderate
           THEN Sets(r, [req[r] EXCEPT !.pc = "pend", !.text = text])
           ELSE Sets(r, Idle)
<1>1. CASE req[r].moderate
  <2>1. [req[r] EXCEPT !.pc = "pend", !.text = text] \in Request
    BY DEF Shape, Request, Steps
  <2>2. req' = [req EXCEPT ![r] = [req[r] EXCEPT !.pc = "pend", !.text = text]]
    BY <1>1 DEF Edited
  <2> QED
    BY <1>1, <2>1, <2>2, SetRequest
<1>2. CASE ~req[r].moderate
  <2>1. req' = [req EXCEPT ![r] = Idle]
    BY <1>2 DEF Edited
  <2> QED
    BY <1>2, <2>1, SetRequest, IdleRequest
<1> QED
  BY <1>1, <1>2

Begun(step, keys, moderate) ==
    [pc |-> step, moderate |-> moderate, text |-> IF moderate THEN item.text ELSE 0, keys |-> keys]

LEMMA BeginSets ==
    ASSUME Shape, NEW r \in Slots, NEW step \in Steps, NEW keys \in SUBSET Photos,
           NEW moderate \in BOOLEAN, Begin(r, step, keys, moderate)
    PROVE  Sets(r, Begun(step, keys, moderate))
<1>1. item.text \in Nat
  BY DEF Shape
<1>2. Begun(step, keys, moderate) \in Request
  BY <1>1 DEF Begun, Request
<1>3. req' = [req EXCEPT ![r] = Begun(step, keys, moderate)]
  BY DEF Begin, Begun
<1> QED
  BY <1>2, <1>3, SetRequest

-----------------------------------------------------------------------------
(* The inductive invariant.                                                *)

\* What a ban rests on: nothing under way can still publish the item.
Harmless == {"idle", "insert", "delete", "update", "softDelete", "enqueueCleanup"}
BanIsSafe ==
    ban = "in force" =>
        /\ item.status = "HIDDEN_BY_ADMIN" /\ jobs = {}
        /\ \A r \in Slots : ~req[r].moderate /\ req[r].pc \in Harmless

\* What a step still to come needs to know of the item.
StepIsSound(r) ==
    /\ req[r].pc \in {"insert", "delete", "update"} =>
           /\ req[r].moderate \/ item.status # "PUBLISHED"
           /\ req[r].moderate => req[r].text = item.text
    /\ req[r].pc = "pend" => req[r].text = item.text
    /\ req[r].pc = "publish" => req[r].moderate
    /\ req[r].pc = "enqueue" => item.status = "HIDDEN_PENDING_REVIEW"
    /\ req[r].pc \in {"publish", "enqueue"} => req[r].keys = photos /\ req[r].text = item.text
    /\ req[r].pc # "enqueueCleanup"

Settled == aiEnabled /\ orderly /\ ~item.deleted

\* While the history is orderly one request is under way, or a job about the
\* item as it stands.
OneAtATime ==
    /\ cleanup = "none" /\ stored = Photos
    /\ \A r, s \in Slots : req[r].pc # "idle" /\ req[s].pc # "idle" => r = s
    /\ jobs # {} => \A r \in Slots : req[r].pc = "idle"
    /\ \A j \in jobs : j.keys = photos /\ j.text = item.text
    /\ \A r \in Slots : StepIsSound(r)

ShownIsPassed ==
    item.status = "PUBLISHED" /\ (\A r \in Slots : req[r].pc # "pend") =>
        photos \subseteq reviewed.keys /\ item.text \in reviewed.texts

IInv == Shape /\ BanIsSafe /\ (Settled => OneAtATime /\ ShownIsPassed)

LEMMA InitInv == Init => IInv
<1> SUFFICES ASSUME Init PROVE IInv
    OBVIOUS
<1>1. \A r \in Slots : req[r] = Idle /\ req[r].pc = "idle"
  BY IdleRequest DEF Init
<1>2. Shape
  <2>1. reviewed \in [keys : SUBSET Photos, texts : SUBSET Nat]
    BY DEF Init, Nothing
  <2>2. req \in [Slots -> Request]
    BY IdleRequest DEF Init
  <2>3. item \in [status : Status, ai : AiStatus, deleted : BOOLEAN, text : Nat]
    BY DEF Init, Status, AiStatus
  <2> QED
    BY <2>1, <2>2, <2>3 DEF Init, Shape, Bans
<1>3. BanIsSafe
  BY DEF Init, BanIsSafe
<1>4. OneAtATime /\ ShownIsPassed
  BY <1>1 DEF Init, OneAtATime, ShownIsPassed, StepIsSound
<1> QED
  BY <1>2, <1>3, <1>4 DEF IInv

\* A request begins: with everything else at rest, or the history is no
\* longer orderly.
LEMMA BeginInv ==
    ASSUME IInv, NEW r \in Slots, NEW step \in Steps, NEW keys \in SUBSET Photos,
           NEW moderate \in BOOLEAN, Begin(r, step, keys, moderate),
           item.status = "HIDDEN_BY_ADMIN" => ~moderate /\ step \in Harmless,
           step \in {"insert", "delete", "update"} =>
               (aiEnabled => moderate \/ item.status # "PUBLISHED"),
           step = "publish" => moderate = aiEnabled /\ keys = photos,
           step \notin {"idle", "pend", "enqueue", "enqueueCleanup"}
    PROVE  IInv'
<1> DEFINE x == Begun(step, keys, moderate)
<1>1. Shape /\ Sets(r, x)
  BY BeginSets DEF IInv
<1>2. /\ x.pc = step /\ x.moderate = moderate /\ x.keys = keys
      /\ moderate => x.text = item.text
  BY DEF Begun
<1> HIDE DEF x
<1>3. /\ UNCHANGED <<config, item, photos, stored, queues, asked, ban, faults>>
      /\ orderly' = (orderly /\ Quiet /\ jobs = {})
      /\ reviewed' = IF orderly' THEN reviewed ELSE Nothing
  BY DEF Begin, Keep
<1>4. Shape'
  <2>1. reviewed' \in [keys : SUBSET Photos, texts : SUBSET Nat]
    BY <1>1, <1>3 DEF Shape, Nothing
  <2>2. orderly' \in BOOLEAN
    BY <1>1, <1>3 DEF Shape
  <2>3. req' \in [Slots -> Request]
    BY <1>1 DEF Sets
  <2> QED
    BY <1>1, <1>3, <2>1, <2>2, <2>3 DEF Shape, config, queues
<1>5. BanIsSafe'
  <2> SUFFICES ASSUME ban = "in force" PROVE BanIsSafe'
    BY <1>3 DEF BanIsSafe
  <2>1. item.status = "HIDDEN_BY_ADMIN" /\ jobs = {} /\ \A s \in Slots : ~req[s].moderate /\ req[s].pc \in Harmless
    BY DEF IInv, BanIsSafe
  <2>2. \A s \in Slots : ~req'[s].moderate /\ req'[s].pc \in Harmless
    BY <1>1, <1>2, <2>1 DEF Sets
  <2> QED
    BY <1>3, <2>1, <2>2 DEF BanIsSafe, queues
<1>6. ASSUME Settled' PROVE OneAtATime' /\ ShownIsPassed'
  <2>1. Settled /\ Quiet /\ jobs = {}
    BY <1>3, <1>6 DEF Settled, config
  <2>2. OneAtATime /\ ShownIsPassed
    BY <2>1 DEF IInv
  <2>3. \A s \in Slots : req[s].pc = "idle"
    BY <2>1, IdleRequest DEF Quiet
  <2>4. \A s \in Slots \ {r} : req'[s].pc = "idle"
    BY <1>1, <2>3 DEF Sets
  <2>5. req'[r] = x
    BY <1>1 DEF Sets
  <2>6. StepIsSound(r)'
    BY <1>2, <1>3, <2>1, <2>5 DEF StepIsSound, Settled, config
  <2>7. \A s \in Slots : StepIsSound(s)'
    BY <2>4, <2>6 DEF StepIsSound
  <2>8. OneAtATime'
    BY <1>3, <2>1, <2>2, <2>4, <2>7 DEF OneAtATime, queues
  <2>9. ShownIsPassed'
    BY <1>3, <1>6, <2>2, <2>3 DEF ShownIsPassed, Settled
  <2> QED
    BY <2>8, <2>9
<1> QED
  BY <1>4, <1>5, <1>6 DEF IInv

-----------------------------------------------------------------------------
(* The steps of a request.                                                 *)

ItemRows == [status : Status, ai : AiStatus, deleted : BOOLEAN, text : Nat]

\* While one request is under way, orderly history leaves everything else at rest.
LEMMA Alone ==
    ASSUME OneAtATime, NEW r \in Slots, req[r].pc # "idle"
    PROVE  jobs = {} /\ \A s \in Slots \ {r} : req[s].pc = "idle"
BY DEF OneAtATime

LEMMA MoveInv ==
    ASSUME IInv, NEW r \in Slots, NEW x, Sets(r, x), req[r].pc # "idle",
           UNCHANGED <<config, stored, queues, asked, history>>,
           photos' \subseteq Photos, item' \in ItemRows, item.deleted => item'.deleted,
           ban = "in force" => item'.status = "HIDDEN_BY_ADMIN" /\ ~x.moderate /\ x.pc \in Harmless,
           Settled /\ Settled' /\ OneAtATime /\ ShownIsPassed => StepIsSound(r)' /\ ShownIsPassed'
    PROVE  IInv'
<1>1. Shape'
  BY DEF IInv, Shape, Sets, ItemRows, config, queues, history
<1>2. BanIsSafe'
  BY DEF IInv, BanIsSafe, Sets, queues, history
<1>3. ASSUME Settled' PROVE OneAtATime' /\ ShownIsPassed'
  <2>1. Settled
    BY <1>3 DEF Settled, config, history
  <2>2. OneAtATime /\ ShownIsPassed
    BY <2>1 DEF IInv
  <2>3. jobs = {} /\ \A s \in Slots \ {r} : req[s].pc = "idle"
    BY <2>2, Alone
  <2>4. \A s \in Slots \ {r} : req'[s].pc = "idle"
    BY <2>3 DEF Sets
  <2>5. StepIsSound(r)' /\ ShownIsPassed'
    BY <1>3, <2>1, <2>2
  <2>6. \A s \in Slots : StepIsSound(s)'
    BY <2>4, <2>5 DEF StepIsSound
  <2>7. OneAtATime'
    BY <2>2, <2>3, <2>4, <2>6 DEF OneAtATime, queues
  <2> QED
    BY <2>5, <2>7
<1> QED
  BY <1>1, <1>2, <1>3 DEF IInv

\* What a request knows while it is under way.
LEMMA Knows ==
    ASSUME IInv, NEW r \in Slots
    PROVE  /\ req[r] \in Request
           /\ req[r].moderate \in BOOLEAN /\ req[r].text \in Nat /\ req[r].keys \subseteq Photos
           /\ item \in ItemRows /\ item.text \in Nat /\ photos \subseteq Photos
           /\ ban = "in force" => item.status = "HIDDEN_BY_ADMIN"
           /\ ban = "in force" => ~req[r].moderate
           /\ ban = "in force" => req[r].pc \in Harmless
           /\ OneAtATime => StepIsSound(r)
BY DEF IInv, Shape, Request, ItemRows, BanIsSafe, OneAtATime

\* An edit of the photos: the item is not shown, or is to be moderated again.
LEMMA PhotosInv ==
    ASSUME IInv, NEW r \in Slots, InsertPhoto(r) \/ DeletePhoto(r)
    PROVE  IInv'
<1>1. /\ req[r].pc \in {"insert", "delete"} /\ req[r].pc # "idle"
      /\ photos' \subseteq Photos /\ item' = item /\ item' \in ItemRows
      /\ UNCHANGED <<config, stored, queues, asked, history>>
  BY Knows DEF InsertPhoto, DeletePhoto, At
<1>2. (Reply(r) /\ photos' \subseteq photos) \/ Edited(r, req[r].text)
  BY DEF InsertPhoto, DeletePhoto
<1>3. CASE Reply(r) /\ photos' \subseteq photos
  <2>1. Sets(r, Idle)
    BY <1>3, ReplySets DEF IInv
  <2>2. Idle.pc = "idle" /\ ~Idle.moderate /\ "idle" \in Harmless
    BY IdleRequest DEF Harmless
  <2>3. ASSUME Settled, Settled', OneAtATime, ShownIsPassed
        PROVE  StepIsSound(r)' /\ ShownIsPassed'
    <3>1. \A s \in Slots : req[s].pc # "pend"
      BY <1>1, <2>3, Alone
    <3>2. reviewed' = reviewed
      BY <1>1 DEF history
    <3> QED
      BY <1>1, <1>3, <2>1, <2>2, <2>3, <3>1, <3>2 DEF StepIsSound, ShownIsPassed, Sets
  <2> QED
    BY <1>1, <2>1, <2>2, <2>3, Knows, MoveInv
<1>4. CASE Edited(r, req[r].text) /\ req[r].moderate
  <2> DEFINE x == [req[r] EXCEPT !.pc = "pend", !.text = req[r].text]
  <2>1. Sets(r, x)
    BY <1>4, EditedSets, Knows DEF IInv
  <2>2. x.pc = "pend" /\ x.text = req[r].text
    BY Knows DEF Request
  <2> HIDE DEF x
  <2>3. ASSUME OneAtATime PROVE StepIsSound(r)' /\ ShownIsPassed'
    BY <1>1, <1>4, <2>1, <2>2, <2>3, Knows DEF StepIsSound, ShownIsPassed, Sets
  <2> QED
    BY <1>1, <1>4, <2>1, <2>3, Knows, MoveInv
<1>5. CASE Edited(r, req[r].text) /\ ~req[r].moderate
  <2>1. Sets(r, Idle)
    BY <1>5, EditedSets, Knows DEF IInv
  <2>2. Idle.pc = "idle" /\ ~Idle.moderate /\ "idle" \in Harmless
    BY IdleRequest DEF Harmless
  <2>3. ASSUME OneAtATime PROVE StepIsSound(r)' /\ ShownIsPassed'
    BY <1>1, <1>5, <2>1, <2>2, <2>3, Knows DEF StepIsSound, ShownIsPassed, Sets
  <2> QED
    BY <1>1, <2>1, <2>2, <2>3, Knows, MoveInv
<1> QED
  BY <1>2, <1>3, <1>4, <1>5

\* What an update of the item leaves alone.
LEMMA ItemText ==
    ASSUME item \in ItemRows, NEW text \in Nat
    PROVE  /\ [item EXCEPT !.text = text] \in ItemRows
           /\ [item EXCEPT !.text = text].text = text
           /\ [item EXCEPT !.text = text].status = item.status
           /\ [item EXCEPT !.text = text].deleted = item.deleted
BY DEF ItemRows

LEMMA ItemDeleted ==
    ASSUME item \in ItemRows
    PROVE  /\ [item EXCEPT !.deleted = TRUE] \in ItemRows
           /\ [item EXCEPT !.deleted = TRUE].deleted = TRUE
           /\ [item EXCEPT !.deleted = TRUE].status = item.status
BY DEF ItemRows

LEMMA ItemStatus ==
    ASSUME item \in ItemRows, NEW status \in Status
    PROVE  /\ [item EXCEPT !.status = status] \in ItemRows
           /\ [item EXCEPT !.status = status].status = status
           /\ [item EXCEPT !.status = status].deleted = item.deleted
           /\ [item EXCEPT !.status = status].text = item.text
BY DEF ItemRows

LEMMA ItemVerdict ==
    ASSUME item \in ItemRows, NEW status \in Status, NEW ai \in AiStatus
    PROVE  /\ [item EXCEPT !.status = status, !.ai = ai] \in ItemRows
           /\ [item EXCEPT !.status = status, !.ai = ai].status = status
           /\ [item EXCEPT !.status = status, !.ai = ai].deleted = item.deleted
           /\ [item EXCEPT !.status = status, !.ai = ai].text = item.text
BY DEF ItemRows

LEMMA UpdateInv ==
    ASSUME IInv, NEW r \in Slots, UpdateItem(r)
    PROVE  IInv'
<1>1. /\ req[r].pc = "update" /\ req[r].pc # "idle"
      /\ photos' = photos /\ photos' \subseteq Photos
      /\ item' = [item EXCEPT !.text = item.text + 1]
      /\ Edited(r, item.text + 1)
      /\ UNCHANGED <<config, stored, queues, asked, history>>
  BY Knows DEF UpdateItem, At
<1>2. item.text + 1 \in Nat
  BY DEF IInv, Shape
<1>3. /\ item' \in ItemRows /\ item'.text = item.text + 1
      /\ item'.status = item.status /\ item'.deleted = item.deleted
  BY <1>1, <1>2, Knows, ItemText
<1>4. CASE req[r].moderate
  <2> DEFINE x == [req[r] EXCEPT !.pc = "pend", !.text = item.text + 1]
  <2>1. Sets(r, x)
    BY <1>1, <1>2, <1>4, EditedSets DEF IInv
  <2>2. x.pc = "pend" /\ x.text = item.text + 1
    BY Knows DEF Request
  <2> HIDE DEF x
  <2>3. StepIsSound(r)' /\ ShownIsPassed'
    BY <1>3, <2>1, <2>2 DEF StepIsSound, ShownIsPassed, Sets
  <2> QED
    BY <1>1, <1>3, <1>4, <2>1, <2>3, Knows, MoveInv
<1>5. CASE ~req[r].moderate
  <2>1. Sets(r, Idle)
    BY <1>1, <1>2, <1>5, EditedSets DEF IInv
  <2>2. Idle.pc = "idle" /\ ~Idle.moderate /\ "idle" \in Harmless
    BY IdleRequest DEF Harmless
  <2>3. ASSUME OneAtATime PROVE StepIsSound(r)' /\ ShownIsPassed'
    BY <1>1, <1>3, <1>5, <2>1, <2>2, <2>3, Knows DEF StepIsSound, ShownIsPassed, Sets
  <2> QED
    BY <1>1, <1>3, <2>1, <2>2, <2>3, Knows, MoveInv
<1> QED
  BY <1>4, <1>5

\* transitionToAiPending
LEMMA PendInv ==
    ASSUME IInv, NEW r \in Slots, Pend(r)
    PROVE  IInv'
<1>1. /\ req[r].pc = "pend" /\ req[r].pc # "idle"
      /\ photos' = photos /\ photos' \subseteq Photos
      /\ item' = [item EXCEPT !.status = "HIDDEN_PENDING_REVIEW", !.ai = "PENDING"]
      /\ UNCHANGED <<config, stored, queues, asked, history>>
  BY Knows DEF Pend, At, AiPending
<1>2. "HIDDEN_PENDING_REVIEW" \in Status /\ "PENDING" \in AiStatus
  BY DEF Status, AiStatus
<1>3. /\ item' \in ItemRows /\ item'.status = "HIDDEN_PENDING_REVIEW"
      /\ item'.deleted = item.deleted /\ item'.text = item.text
  BY <1>1, <1>2, Knows, ItemVerdict
<1> DEFINE x == [req[r] EXCEPT !.pc = "enqueue", !.keys = photos]
<1>4. x \in Request /\ x.pc = "enqueue" /\ x.keys = photos /\ x.text = req[r].text
  BY Knows DEF Request, Steps
<1>5. req' = [req EXCEPT ![r] = x]
  BY DEF Pend
<1> HIDE DEF x
<1>6. Sets(r, x)
  BY <1>4, <1>5, SetRequest DEF IInv
<1>7. ASSUME OneAtATime PROVE StepIsSound(r)' /\ ShownIsPassed'
  BY <1>1, <1>3, <1>4, <1>6, <1>7, Knows DEF StepIsSound, ShownIsPassed, Sets
<1>8. ban # "in force"
  BY <1>1, Knows DEF Harmless
<1> QED
  BY <1>1, <1>3, <1>6, <1>7, <1>8, MoveInv

LEMMA PublishInv ==
    ASSUME IInv, NEW r \in Slots, Publish(r)
    PROVE  IInv'
<1>1. /\ req[r].pc = "publish" /\ req[r].pc # "idle"
      /\ photos' = photos /\ photos' \subseteq Photos
      /\ UNCHANGED <<config, stored, queues, asked, history>>
  BY Knows DEF Publish, At
<1>2. ban # "in force"
  BY <1>1, Knows DEF Harmless
<1>3. CASE req[r].moderate
  <2>1. /\ item' = [item EXCEPT !.status = "HIDDEN_PENDING_REVIEW", !.ai = "PENDING"]
        /\ Goto(r, "enqueue")
    BY <1>3 DEF Publish, AiPending
  <2>2. "HIDDEN_PENDING_REVIEW" \in Status /\ "PENDING" \in AiStatus /\ "enqueue" \in Steps
    BY DEF Status, AiStatus, Steps
  <2>3. /\ item' \in ItemRows /\ item'.status = "HIDDEN_PENDING_REVIEW"
        /\ item'.deleted = item.deleted /\ item'.text = item.text
    BY <2>1, <2>2, Knows, ItemVerdict
  <2> DEFINE x == [req[r] EXCEPT !.pc = "enqueue"]
  <2>4. Sets(r, x)
    BY <2>1, <2>2, GotoSets DEF IInv
  <2>5. x.pc = "enqueue" /\ x.keys = req[r].keys /\ x.text = req[r].text
    BY Knows DEF Request
  <2> HIDE DEF x
  <2>6. ASSUME OneAtATime PROVE StepIsSound(r)' /\ ShownIsPassed'
    BY <1>1, <2>3, <2>4, <2>5, <2>6, Knows DEF StepIsSound, ShownIsPassed, Sets
  <2> QED
    BY <1>1, <1>2, <2>3, <2>4, <2>6, MoveInv
<1>4. CASE ~req[r].moderate
  <2>1. item' = [item EXCEPT !.status = "PUBLISHED", !.ai = "OK"] /\ Reply(r)
    BY <1>4 DEF Publish
  <2>2. "PUBLISHED" \in Status /\ "OK" \in AiStatus
    BY DEF Status, AiStatus
  <2>3. item' \in ItemRows /\ item'.deleted = item.deleted
    BY <2>1, <2>2, Knows, ItemVerdict
  <2>4. Sets(r, Idle)
    BY <2>1, ReplySets DEF IInv
  <2>5. ~OneAtATime
    BY <1>1, <1>4, Knows DEF StepIsSound
  <2> QED
    BY <1>1, <1>2, <2>3, <2>4, <2>5, MoveInv
<1> QED
  BY <1>3, <1>4

LEMMA HideInv ==
    ASSUME IInv, NEW r \in Slots, Unpublish(r) \/ Report(r)
    PROVE  IInv'
<1>1. /\ req[r].pc \in {"unpublish", "report"} /\ req[r].pc # "idle"
      /\ photos' = photos /\ photos' \subseteq Photos
      /\ UNCHANGED <<config, stored, queues, asked, history>>
      /\ Reply(r)
  BY Knows DEF Unpublish, Report, At
<1>2. ban # "in force"
  BY <1>1, Knows DEF Harmless
<1>3. PICK status \in {"DRAFT", "HIDDEN_PENDING_REVIEW"} : item' = [item EXCEPT !.status = status]
  BY DEF Unpublish, Report
<1>4. status \in Status /\ status # "PUBLISHED"
  BY DEF Status
<1>5. item' \in ItemRows /\ item'.status # "PUBLISHED" /\ item'.deleted = item.deleted
  BY <1>3, <1>4, Knows, ItemStatus
<1>6. Sets(r, Idle)
  BY <1>1, ReplySets DEF IInv
<1>7. StepIsSound(r)' /\ ShownIsPassed'
  BY <1>5, <1>6, IdleRequest DEF StepIsSound, ShownIsPassed, Sets
<1> QED
  BY <1>1, <1>2, <1>5, <1>6, <1>7, MoveInv

LEMMA SoftDeleteInv ==
    ASSUME IInv, NEW r \in Slots, SoftDelete(r)
    PROVE  IInv'
<1>1. /\ req[r].pc = "softDelete" /\ req[r].pc # "idle"
      /\ photos' = photos /\ photos' \subseteq Photos
      /\ item' = [item EXCEPT !.deleted = TRUE]
      /\ Reply(r) \/ Goto(r, "enqueueCleanup")
      /\ UNCHANGED <<config, stored, queues, asked, history>>
  BY Knows DEF SoftDelete, At
<1>2. item' \in ItemRows /\ item'.deleted /\ item'.status = item.status
  BY <1>1, Knows, ItemDeleted
<1>3. PICK x : /\ Sets(r, x) /\ x.pc \in {"idle", "enqueueCleanup"}
               /\ x.moderate => req[r].moderate
  <2>1. CASE Reply(r)
    BY <2>1, ReplySets, IdleRequest DEF IInv
  <2>2. CASE Goto(r, "enqueueCleanup")
    <3>1. "enqueueCleanup" \in Steps
      BY DEF Steps
    <3>2. Sets(r, [req[r] EXCEPT !.pc = "enqueueCleanup"])
      BY <2>2, <3>1, GotoSets DEF IInv
    <3> QED
      BY <3>2 DEF IInv, Shape, Request
  <2> QED
    BY <1>1, <2>1, <2>2
<1>4. x.pc \in Harmless
  BY <1>3 DEF Harmless
<1>5. ~Settled'
  BY <1>2 DEF Settled
<1> QED
  BY <1>1, <1>2, <1>3, <1>4, <1>5, Knows, MoveInv

LEMMA EnqueueInv ==
    ASSUME IInv, NEW r \in Slots, Enqueue(r)
    PROVE  IInv'
<1> DEFINE j == [id |-> issued + 1, keys |-> req[r].keys, text |-> req[r].text, left |-> Attempts]
<1>1. /\ req[r].pc = "enqueue" /\ req[r].pc # "idle"
      /\ issued' = issued + 1 /\ jobs' = jobs \cup {j}
      /\ Reply(r)
      /\ UNCHANGED <<config, item, photos, stored, cleanup, asked, history>>
  BY DEF Enqueue, Queued, At
<1>2. j \in Job /\ j.keys = req[r].keys /\ j.text = req[r].text
  BY DEF IInv, Shape, Request, Job, Attempts
<1> HIDE DEF j
<1>3. Sets(r, Idle)
  BY <1>1, ReplySets DEF IInv
<1>4. ban # "in force"
  BY <1>1, Knows DEF Harmless
<1>5. Shape'
  BY <1>1, <1>2, <1>3 DEF IInv, Shape, Sets, config, history
<1>6. BanIsSafe'
  BY <1>1, <1>4 DEF BanIsSafe, history
<1>7. ASSUME Settled' PROVE OneAtATime' /\ ShownIsPassed'
  <2>1. OneAtATime /\ ShownIsPassed
    BY <1>1, <1>7 DEF IInv, Settled, config, history
  <2>2. StepIsSound(r) /\ jobs = {} /\ \A s \in Slots \ {r} : req[s].pc = "idle"
    BY <1>1, <2>1, Alone, Knows
  <2>3. \A s \in Slots : req'[s].pc = "idle"
    BY <1>3, <2>2, IdleRequest DEF Sets
  <2>4. j.keys = photos /\ j.text = item.text /\ item.status = "HIDDEN_PENDING_REVIEW"
    BY <1>1, <1>2, <2>2 DEF StepIsSound
  <2>5. OneAtATime'
    BY <1>1, <2>1, <2>2, <2>3, <2>4 DEF OneAtATime, StepIsSound
  <2>6. ShownIsPassed'
    BY <1>1, <2>4 DEF ShownIsPassed
  <2> QED
    BY <2>5, <2>6
<1> QED
  BY <1>5, <1>6, <1>7 DEF IInv

LEMMA EnqueueCleanupInv ==
    ASSUME IInv, NEW r \in Slots, EnqueueCleanup(r)
    PROVE  IInv'
<1>1. /\ req[r].pc = "enqueueCleanup" /\ cleanup' = "queued" /\ Reply(r)
      /\ UNCHANGED <<config, item, photos, stored, jobs, issued, asked, history>>
  BY DEF EnqueueCleanup, At
<1>2. Sets(r, Idle)
  BY <1>1, ReplySets DEF IInv
<1>3. Shape'
  BY <1>1, <1>2 DEF IInv, Shape, Sets, config, history
<1>4. BanIsSafe'
  BY <1>1, <1>2, IdleRequest DEF IInv, BanIsSafe, Sets, history, Harmless
<1>5. ~Settled'
  BY <1>1, Knows DEF IInv, Settled, StepIsSound, config, history
<1> QED
  BY <1>3, <1>4, <1>5 DEF IInv

\* A fault ends the orderly history.
LEMMA FaultKeeps ==
    ASSUME Shape, Fault
    PROVE  /\ orderly' = FALSE /\ ~Settled'
           /\ reviewed' = Nothing /\ reviewed' \in [keys : SUBSET Photos, texts : SUBSET Nat]
BY DEF Fault, Keep, Settled, Nothing

LEMMA RequestFailsInv ==
    ASSUME IInv, NEW r \in Slots, RequestFails(r)
    PROVE  IInv'
<1>1. /\ Fault /\ Reply(r)
      /\ UNCHANGED <<config, item, photos, stored, queues, asked, ban>>
  BY DEF RequestFails
<1>2. Sets(r, Idle)
  BY <1>1, ReplySets DEF IInv
<1>3. Shape'
  BY <1>1, <1>2, FaultKeeps DEF IInv, Shape, Sets, config, queues
<1>4. BanIsSafe'
  BY <1>1, <1>2, IdleRequest DEF IInv, BanIsSafe, Sets, queues, Harmless
<1>5. ~Settled'
  BY <1>1, FaultKeeps DEF IInv
<1> QED
  BY <1>3, <1>4, <1>5 DEF IInv

LEMMA RequestStepInv ==
    ASSUME IInv, NEW r \in Slots, RequestStep(r)
    PROVE  IInv'
BY PhotosInv, UpdateInv, PendInv, EnqueueInv, PublishInv, HideInv, SoftDeleteInv,
   EnqueueCleanupInv DEF RequestStep

LEMMA BeginsInv ==
    ASSUME IInv, NEW r \in Slots,
           \/ \E p \in Photos : BeginAddPhoto(r, p) \/ BeginDeletePhoto(r, p)
           \/ BeginUpdate(r) \/ BeginPublish(r) \/ BeginUnpublish(r) \/ BeginDelete(r)
           \/ BeginReport(r)
    PROVE  IInv'
<1>1. /\ aiEnabled \in BOOLEAN /\ ShouldRevalidate \in BOOLEAN
      /\ photos \in SUBSET Photos /\ {} \in SUBSET Photos
      /\ {"insert", "delete", "update", "publish", "unpublish", "softDelete", "report"} \subseteq Steps
  BY DEF IInv, Shape, ShouldRevalidate, Steps
<1>2. /\ aiEnabled /\ item.status = "PUBLISHED" => ShouldRevalidate
      /\ item.status = "HIDDEN_BY_ADMIN" => ~ShouldRevalidate
  BY DEF ShouldRevalidate
<1>3. ASSUME NEW p \in Photos, BeginAddPhoto(r, p) PROVE IInv'
  <2>1. Begin(r, "insert", {p}, ShouldRevalidate)
    BY <1>3 DEF BeginAddPhoto
  <2> QED
    BY <1>1, <1>2, <2>1, BeginInv DEF Harmless
<1>4. ASSUME NEW p \in Photos, BeginDeletePhoto(r, p) PROVE IInv'
  <2>1. Begin(r, "delete", {p}, ShouldRevalidate)
    BY <1>4 DEF BeginDeletePhoto
  <2> QED
    BY <1>1, <1>2, <2>1, BeginInv DEF Harmless
<1>5. CASE BeginUpdate(r)
  <2>1. Begin(r, "update", {}, ShouldRevalidate)
    BY <1>5 DEF BeginUpdate
  <2> QED
    BY <1>1, <1>2, <2>1, BeginInv DEF Harmless
<1>6. CASE BeginPublish(r)
  <2>1. Begin(r, "publish", photos, aiEnabled) /\ item.status # "HIDDEN_BY_ADMIN"
    BY <1>6 DEF BeginPublish
  <2> QED
    BY <1>1, <2>1, BeginInv
<1>7. CASE BeginUnpublish(r)
  <2>1. Begin(r, "unpublish", {}, FALSE) /\ item.status # "HIDDEN_BY_ADMIN"
    BY <1>7 DEF BeginUnpublish
  <2> QED
    BY <1>1, <2>1, BeginInv
<1>8. CASE BeginDelete(r)
  <2>1. Begin(r, "softDelete", {}, FALSE)
    BY <1>8 DEF BeginDelete
  <2> QED
    BY <1>1, <2>1, BeginInv DEF Harmless
<1>9. CASE BeginReport(r)
  <2>1. Begin(r, "report", {}, FALSE) /\ item.status # "HIDDEN_BY_ADMIN"
    BY <1>9 DEF BeginReport
  <2> QED
    BY <1>1, <2>1, BeginInv
<1> QED
  BY <1>3, <1>4, <1>5, <1>6, <1>7, <1>8, <1>9

-----------------------------------------------------------------------------
(* The client, the administrator and the workers.                          *)

LEMMA RequestVerificationInv ==
    ASSUME IInv, RequestVerification
    PROVE  IInv'
<1>1. UNCHANGED <<config, item, photos, stored, queues, req, history>> /\ asked' \in BOOLEAN
  BY DEF RequestVerification
<1>2. Shape' /\ BanIsSafe'
  BY <1>1 DEF IInv, Shape, BanIsSafe, config, queues, history
<1>3. ASSUME Settled' PROVE OneAtATime' /\ ShownIsPassed'
  BY <1>1, <1>3 DEF IInv, Settled, OneAtATime, ShownIsPassed, StepIsSound, config, queues, history
<1> QED
  BY <1>2, <1>3 DEF IInv

\* A change of the item's status by somebody else, whose history is orderly
\* only when no request is under way.
LEMMA StatusInv ==
    ASSUME IInv, NEW status \in Status, item' = [item EXCEPT !.status = status],
           UNCHANGED <<config, photos, stored, queues, req, faults>>, asked' \in BOOLEAN,
           orderly' = (orderly /\ Quiet), ban' \in Bans,
           reviewed' \in [keys : SUBSET Photos, texts : SUBSET Nat],
           ban' = "in force" => status = "HIDDEN_BY_ADMIN" /\ jobs = {} /\ Quiet,
           status = "PUBLISHED" /\ orderly' =>
               photos \subseteq reviewed'.keys /\ item.text \in reviewed'.texts
    PROVE  IInv'
<1>1. item \in ItemRows
  BY DEF IInv, Shape, ItemRows
<1>2. /\ item' \in ItemRows /\ item'.status = status
      /\ item'.deleted = item.deleted /\ item'.text = item.text
  BY <1>1, ItemStatus
<1>3. Shape'
  BY <1>2 DEF IInv, Shape, ItemRows, config, queues
<1>4. BanIsSafe'
  BY <1>2, IdleRequest DEF BanIsSafe, Quiet, Harmless, queues
<1>5. ASSUME Settled' PROVE OneAtATime' /\ ShownIsPassed'
  <2>1. Settled /\ Quiet
    BY <1>2, <1>5 DEF Settled, config
  <2>2. OneAtATime /\ \A r \in Slots : req'[r].pc = "idle"
    BY <2>1, IdleRequest DEF IInv, Quiet
  <2>3. \A r \in Slots : StepIsSound(r)'
    BY <2>2 DEF StepIsSound
  <2>4. OneAtATime'
    BY <1>2, <2>2, <2>3 DEF OneAtATime, queues
  <2>5. ShownIsPassed'
    BY <1>2, <1>5 DEF ShownIsPassed, Settled
  <2> QED
    BY <2>4, <2>5
<1> QED
  BY <1>3, <1>4, <1>5 DEF IInv

LEMMA KeepType ==
    ASSUME Shape, NEW still \in BOOLEAN, Keep(still)
    PROVE  reviewed' \in [keys : SUBSET Photos, texts : SUBSET Nat]
BY DEF Shape, Keep, Nothing

LEMMA PassedType ==
    ASSUME Shape, NEW keys \in SUBSET Photos, NEW text \in Nat, Passed(keys, text)
    PROVE  /\ reviewed' \in [keys : SUBSET Photos, texts : SUBSET Nat]
           /\ orderly' => keys \subseteq reviewed'.keys /\ text \in reviewed'.texts
<1>1. CASE orderly'
  <2>1. reviewed' = [keys |-> reviewed.keys \cup keys, texts |-> reviewed.texts \cup {text}]
    BY <1>1 DEF Passed
  <2>2. reviewed.keys \subseteq Photos /\ reviewed.texts \subseteq Nat
    BY DEF Shape
  <2> QED
    BY <2>1, <2>2
<1>2. CASE ~orderly'
  BY <1>2 DEF Passed, Nothing
<1> QED
  BY <1>1, <1>2

LEMMA OthersInv ==
    ASSUME IInv, DeclineInappropriate \/ AdminApprove \/ AdminHide \/ AdminRestore
    PROVE  IInv'
<1>1. /\ Shape /\ Quiet \in BOOLEAN /\ photos \in SUBSET Photos /\ item.text \in Nat
      /\ asked \in BOOLEAN
  BY DEF IInv, Shape, Quiet
<1>2. {"DRAFT", "PUBLISHED", "HIDDEN_PENDING_REVIEW", "HIDDEN_BY_ADMIN"} \subseteq Status
  BY DEF Status
<1>3. CASE DeclineInappropriate
  <2>1. /\ item' = [item EXCEPT !.status = "HIDDEN_PENDING_REVIEW"]
        /\ Keep(Quiet) /\ orderly' = (orderly /\ Quiet)
        /\ ban' = (IF ban = "in force" THEN "undone" ELSE ban) /\ asked' = FALSE
        /\ UNCHANGED <<config, photos, stored, queues, req, faults>>
    BY <1>3 DEF DeclineInappropriate, Keep
  <2>2. reviewed' \in [keys : SUBSET Photos, texts : SUBSET Nat]
    BY <1>1, <2>1, KeepType
  <2> QED
    BY <1>1, <1>2, <2>1, <2>2, StatusInv DEF Shape, Bans
<1>4. CASE AdminApprove
  <2>1. /\ item' = [item EXCEPT !.status = "PUBLISHED"] /\ item.status # "HIDDEN_BY_ADMIN"
        /\ orderly' = (orderly /\ Quiet) /\ ban' = "none"
        /\ Passed(photos, item.text)
        /\ UNCHANGED <<config, photos, stored, queues, asked, req, faults>>
    BY <1>4 DEF AdminApprove, AdminMoves
  <2>2. /\ reviewed' \in [keys : SUBSET Photos, texts : SUBSET Nat]
        /\ orderly' => photos \subseteq reviewed'.keys /\ item.text \in reviewed'.texts
    BY <1>1, <2>1, PassedType
  <2>3. asked' \in BOOLEAN
    BY <1>1, <2>1
  <2> QED
    BY <1>2, <2>1, <2>2, <2>3, StatusInv DEF Bans
<1>5. CASE AdminHide
  <2>1. /\ item' = [item EXCEPT !.status = "HIDDEN_BY_ADMIN"]
        /\ Keep(Quiet) /\ orderly' = (orderly /\ Quiet) 
        /\ ban' = IF jobs = {} /\ Quiet THEN "in force" ELSE "none"
        /\ UNCHANGED <<config, photos, stored, queues, asked, req, faults>>
    BY <1>5 DEF AdminHide, AdminMoves
  <2>2. reviewed' \in [keys : SUBSET Photos, texts : SUBSET Nat]
    BY <1>1, <2>1, KeepType
  <2>3. asked' \in BOOLEAN /\ ban' \in Bans
    BY <1>1, <2>1 DEF Bans
  <2> QED
    BY <1>2, <2>1, <2>2, <2>3, StatusInv
<1>6. CASE AdminRestore
  <2>1. /\ item' = [item EXCEPT !.status = "DRAFT"]
        /\ Keep(Quiet) /\ orderly' = (orderly /\ Quiet) /\ ban' = "none"
        /\ UNCHANGED <<config, photos, stored, queues, asked, req, faults>>
    BY <1>6 DEF AdminRestore, AdminMoves
  <2>2. reviewed' \in [keys : SUBSET Photos, texts : SUBSET Nat]
    BY <1>1, <2>1, KeepType
  <2>3. asked' \in BOOLEAN
    BY <1>1, <2>1
  <2> QED
    BY <1>2, <2>1, <2>2, <2>3, StatusInv DEF Bans
<1> QED
  BY <1>3, <1>4, <1>5, <1>6

\* A job is in the queue: there is no ban.
LEMMA VerdictInv ==
    ASSUME IInv, NEW j \in jobs, NEW ok \in BOOLEAN, Verdict(ok),
           jobs' \subseteq jobs, orderly' \in BOOLEAN,
           reviewed' \in [keys : SUBSET Photos, texts : SUBSET Nat],
           orderly' => /\ orderly
                       /\ ok => /\ (j.keys \cap stored) \subseteq reviewed'.keys
                                /\ j.text \in reviewed'.texts
    PROVE  IInv'
<1> DEFINE status == IF ok THEN "PUBLISHED" ELSE "HIDDEN_PENDING_REVIEW"
           ai == IF ok THEN "OK" ELSE "FLAGGED"
<1>1. /\ UNCHANGED <<config, photos, stored, issued, cleanup, asked, req, ban>>
      /\ item' = [item EXCEPT !.status = status, !.ai = ai]
  BY DEF Verdict
<1>2. /\ Shape /\ item \in ItemRows
  BY DEF IInv, Shape, ItemRows
<1>3. /\ status \in Status /\ ai \in AiStatus
      /\ ~ok => status # "PUBLISHED"
  BY DEF Status, AiStatus
<1> HIDE DEF status, ai
<1>4. /\ item' \in ItemRows /\ item'.status = status
      /\ item'.deleted = item.deleted /\ item'.text = item.text
  BY <1>1, <1>2, <1>3, ItemVerdict
<1>5. Shape'
  <2>1. jobs' \subseteq Job
    BY <1>2 DEF Shape
  <2> QED
    BY <1>1, <1>2, <1>4, <2>1 DEF Shape, ItemRows, config
<1>6. ban' # "in force"
  BY <1>1 DEF IInv, BanIsSafe
<1>7. ASSUME Settled' PROVE OneAtATime' /\ ShownIsPassed'
  <2>1. Settled
    BY <1>1, <1>4, <1>7 DEF Settled, config
  <2>2. OneAtATime
    BY <2>1 DEF IInv
  <2>3. \A r \in Slots : req'[r].pc = "idle"
    BY <1>1, <2>2 DEF OneAtATime
  <2>4. \A r \in Slots : StepIsSound(r)'
    BY <2>3 DEF StepIsSound
  <2>5. OneAtATime'
    BY <1>1, <1>4, <2>2, <2>3, <2>4 DEF OneAtATime
  <2>6. j.keys \cap stored = photos /\ j.text = item.text
    BY <2>2 DEF OneAtATime, IInv, Shape
  <2>7. ShownIsPassed'
    BY <1>1, <1>3, <1>4, <1>7, <2>6 DEF ShownIsPassed, Settled
  <2> QED
    BY <2>5, <2>7
<1> QED
  BY <1>5, <1>6, <1>7 DEF IInv, BanIsSafe

LEMMA WorkerInv ==
    ASSUME IInv, NEW j \in jobs,
           \/ \E ok \in BOOLEAN : Moderate(j, ok) \/ ModerateTwice(j, ok)
           \/ ModerateUnseen(j) \/ AttemptFails(j)
    PROVE  IInv'
<1>1. /\ Shape /\ j \in Job /\ orderly \in BOOLEAN
      /\ reviewed \in [keys : SUBSET Photos, texts : SUBSET Nat]
      /\ j.keys \cap stored \in SUBSET Photos /\ j.text \in Nat /\ j.left \in Nat
  BY DEF IInv, Shape, Job
<1>2. ASSUME NEW ok \in BOOLEAN, Moderate(j, ok) PROVE IInv'
  <2>1. /\ Verdict(ok) /\ jobs' \subseteq jobs /\ orderly' = orderly
        /\ IF ok THEN Passed(j.keys \cap stored, j.text) ELSE reviewed' = reviewed
    BY <1>2 DEF Moderate
  <2>2. /\ reviewed' \in [keys : SUBSET Photos, texts : SUBSET Nat]
        /\ ok /\ orderly' => /\ (j.keys \cap stored) \subseteq reviewed'.keys
                             /\ j.text \in reviewed'.texts
    BY <1>1, <2>1, PassedType
  <2> QED
    BY <1>1, <2>1, <2>2, VerdictInv
<1>3. ASSUME NEW ok \in BOOLEAN, ModerateTwice(j, ok) PROVE IInv'
  <2>1. Verdict(ok) /\ jobs' \subseteq jobs /\ Fault
    BY <1>3 DEF ModerateTwice
  <2> QED
    BY <1>1, <2>1, FaultKeeps, VerdictInv
<1>4. CASE ModerateUnseen(j)
  <2>1. Verdict(TRUE) /\ jobs' \subseteq jobs /\ Fault
    BY <1>4 DEF ModerateUnseen
  <2> QED
    BY <1>1, <2>1, FaultKeeps, VerdictInv
<1>5. CASE AttemptFails(j)
  <2> DEFINE again == [j EXCEPT !.left = @ - 1]
  <2>1. /\ Fault /\ jobs' \subseteq jobs \cup (IF j.left > 1 THEN {again} ELSE {})
        /\ UNCHANGED <<config, item, photos, stored, issued, cleanup, asked, req, ban>>
    BY <1>5 DEF AttemptFails
  <2>2. j.left > 1 => again \in Job
    BY <1>1 DEF Job
  <2> HIDE DEF again
  <2>3. Shape'
    BY <1>1, <2>1, <2>2, FaultKeeps DEF Shape, config
  <2>4. ban' # "in force"
    BY <2>1 DEF IInv, BanIsSafe
  <2>5. ~Settled'
    BY <1>1, <2>1, FaultKeeps
  <2> QED
    BY <2>3, <2>4, <2>5 DEF IInv, BanIsSafe
<1> QED
  BY <1>2, <1>3, <1>4, <1>5

LEMMA CleanInv ==
    ASSUME IInv, CleanUp \/ \E p \in photos : CleanUpPartly(p)
    PROVE  IInv'
<1>1. /\ cleanup = "queued" /\ cleanup' = "done" /\ stored' \subseteq stored
      /\ UNCHANGED <<config, item, photos, jobs, issued, asked, req, ban>>
      /\ UNCHANGED history \/ Fault
  BY DEF CleanUp, CleanUpPartly, history
<1>2. Shape'
  BY <1>1, FaultKeeps DEF IInv, Shape, config, history
<1>3. BanIsSafe'
  BY <1>1 DEF IInv, BanIsSafe
<1>4. ~Settled'
  BY <1>1, FaultKeeps DEF IInv, Settled, OneAtATime, config, history
<1> QED
  BY <1>2, <1>3, <1>4 DEF IInv

LEMMA NextInv == IInv /\ [Next]_vars => IInv'
<1> SUFFICES ASSUME IInv, [Next]_vars PROVE IInv'
    OBVIOUS
<1>1. CASE Next
  BY <1>1, BeginsInv, RequestStepInv, RequestFailsInv, RequestVerificationInv, OthersInv,
     WorkerInv, CleanInv DEF Next
<1>2. CASE UNCHANGED vars
  <2>1. UNCHANGED <<config, item, photos, stored, queues, asked, req, history>>
    BY <1>2 DEF vars, config, queues, history
  <2>2. Shape' /\ BanIsSafe'
    BY <2>1 DEF IInv, Shape, BanIsSafe, config, queues, history
  <2>3. ASSUME Settled' PROVE OneAtATime' /\ ShownIsPassed'
    BY <2>1, <2>3 DEF IInv, Settled, OneAtATime, ShownIsPassed, StepIsSound, config, queues, history
  <2> QED
    BY <2>2, <2>3 DEF IInv
<1> QED
  BY <1>1, <1>2

\* The inductive invariant of one portfolio item: PortfolioService,
\* PortfolioRepository, its workers and its moderators.
THEOREM Invariant == Spec => []IInv
BY InitInv, NextInv, PTL DEF Spec

\* With moderation on and nothing overlapping or failing, what the public sees
\* of an item is what a verdict or an administrator has passed, whatever is
\* edited, outside the window between an edit's write and the update that
\* hides the item (enqueueRemoderationIfNeeded, applyAiModerationVerdict).
THEOREM ReviewIsSafe == Spec => []PublishedIsReviewed
<1>1. IInv => PublishedIsReviewed
  BY IdleRequest DEF IInv, Settled, ShownIsPassed, PublishedIsReviewed, Visible, At
<1> QED
  BY <1>1, Invariant, PTL

\* An item hidden by an administrator with nothing under way stays hidden until
\* an administrator gives it back or a client complains of it, and nothing the
\* owner does lifts it (shouldRevalidateAfterEdit,
\* applyAdminPortfolioModeration, declinePortfolioConsent).
THEOREM BanIsKept == Spec => []BanHolds
<1>1. IInv => BanHolds
  BY DEF IInv, BanIsSafe, BanHolds
<1> QED
  BY <1>1, Invariant, PTL

-----------------------------------------------------------------------------
(* The types with the bounds: a version and a job are left for every       *)
(* request that will need one.                                             *)

Updating == {s \in Slots : At(s, "update")}
Moderating == {s \in Slots : req[s].moderate}

CountInv ==
    /\ item.text + Cardinality(Updating) <= MaxEdits
    /\ issued + Cardinality(Moderating) <= MaxJobs
    /\ \A r \in Slots :
          req[r].text \in Texts /\ (req[r].pc \in {"pend", "enqueue"} => req[r].moderate)

DataInv == jobs \subseteq Jobs /\ reviewed.texts \subseteq Texts /\ faults \in 0..MaxFaults

BoundInv == CountInv /\ DataInv

\* Sets of slots that differ in r at most.
LEMMA Counting ==
    ASSUME NEW S \in SUBSET Slots, NEW T \in SUBSET Slots, NEW r \in Slots, S \ {r} = T \ {r}
    PROVE  /\ Cardinality(S) \in Nat /\ Cardinality(T) \in Nat
           /\ r \in S => Cardinality(S) >= 1
           /\ Cardinality(T) <= Cardinality(S) + 1
           /\ (r \in T => r \in S) => Cardinality(T) <= Cardinality(S)
           /\ r \in S /\ r \notin T => Cardinality(T) + 1 <= Cardinality(S)
<1>1. IsFiniteSet(S) /\ IsFiniteSet(T)
  BY ConstantsAssumption, FS_Subset
<1>2. Cardinality(S) \in Nat /\ Cardinality(T) \in Nat
  BY <1>1, FS_CardinalityType
<1>3. /\ Cardinality(S \ {r}) = IF r \in S THEN Cardinality(S) - 1 ELSE Cardinality(S)
      /\ Cardinality(T \ {r}) = IF r \in T THEN Cardinality(T) - 1 ELSE Cardinality(T)
  BY <1>1, FS_RemoveElement
<1>4. Cardinality(S \ {r}) \in Nat
  <2>1. IsFiniteSet(S \ {r})
    BY <1>1, FS_RemoveElement
  <2> QED
    BY <2>1, FS_CardinalityType
<1>5. Cardinality(S \ {r}) = Cardinality(T \ {r})
  OBVIOUS
<1> QED
  BY <1>2, <1>3, <1>4, <1>5

\* The slot r goes on to x: what it gives up and what it lays claim to.
LEMMA StepCounts ==
    ASSUME Shape, CountInv, NEW r \in Slots, NEW x, Sets(r, x),
           x.text \in Texts, x.pc \in {"pend", "enqueue"} => x.moderate,
           x.pc = "update" /\ req[r].pc # "update" => item.text + Cardinality(Updating) < MaxEdits,
           x.moderate /\ ~req[r].moderate => issued + Cardinality(Moderating) < MaxJobs,
           \/ item'.text = item.text
           \/ item'.text = item.text + 1 /\ req[r].pc = "update" /\ x.pc # "update",
           \/ issued' = issued
           \/ issued' = issued + 1 /\ req[r].moderate /\ ~x.moderate
    PROVE  CountInv'
<1>1. /\ item.text \in Nat /\ issued \in Nat /\ MaxEdits \in Nat /\ MaxJobs \in Nat
  BY ConstantsAssumption DEF Shape
<1>2. req'[r] = x /\ \A s \in Slots \ {r} : req'[s] = req[s]
  BY DEF Sets
<1>3. /\ Updating \in SUBSET Slots /\ Updating' \in SUBSET Slots
      /\ Updating \ {r} = Updating' \ {r}
      /\ r \in Updating <=> req[r].pc = "update"
      /\ r \in Updating' <=> x.pc = "update"
  BY <1>2 DEF Updating, At
<1>4. /\ Moderating \in SUBSET Slots /\ Moderating' \in SUBSET Slots
      /\ Moderating \ {r} = Moderating' \ {r}
      /\ r \in Moderating <=> req[r].moderate
      /\ r \in Moderating' <=> x.moderate
  BY <1>2 DEF Moderating
<1> DEFINE u == Cardinality(Updating) v == Cardinality(Updating')
           m == Cardinality(Moderating) n == Cardinality(Moderating')
<1>5. /\ u \in Nat /\ v \in Nat /\ v <= u + 1
      /\ (x.pc = "update" => req[r].pc = "update") => v <= u
      /\ req[r].pc = "update" /\ x.pc # "update" => v + 1 <= u
  BY <1>3, Counting
<1>6. /\ m \in Nat /\ n \in Nat /\ n <= m + 1
      /\ (x.moderate => req[r].moderate) => n <= m
      /\ req[r].moderate /\ ~x.moderate => n + 1 <= m
  BY <1>4, Counting
<1>7. item.text + u <= MaxEdits /\ issued + m <= MaxJobs
  BY DEF CountInv
<1>8. x.pc = "update" /\ req[r].pc # "update" => item.text + u < MaxEdits
  OBVIOUS
<1>9. x.moderate /\ ~req[r].moderate => issued + m < MaxJobs
  OBVIOUS
<1> HIDE DEF u, v, m, n
<1>10. item'.text + v <= MaxEdits
  BY <1>1, <1>5, <1>7, <1>8
<1>11. issued' + n <= MaxJobs
  BY <1>1, <1>6, <1>7, <1>9
<1>12. \A s \in Slots :
          req'[s].text \in Texts /\ (req'[s].pc \in {"pend", "enqueue"} => req'[s].moderate)
  BY <1>2 DEF CountInv
<1> QED
  BY <1>10, <1>11, <1>12 DEF CountInv, v, n, Texts

\* Nothing that is counted changes.
LEMMA SameCounts ==
    ASSUME CountInv, item'.text = item.text, issued' = issued, req' = req
    PROVE  CountInv'
BY DEF CountInv, Updating, Moderating, At

\* A request that ends or only moves on claims nothing new.
LEMMA IdleCounts ==
    ASSUME Shape, CountInv, NEW r \in Slots, Reply(r), item'.text = item.text, issued' = issued
    PROVE  CountInv'
<1>1. Sets(r, Idle)
  BY ReplySets
<1>2. Idle.text \in Texts /\ Idle.pc = "idle" /\ ~Idle.moderate
  BY ConstantsAssumption DEF Idle, Texts
<1> QED
  BY <1>1, <1>2, StepCounts

\* Every version written so far is one of Texts.
LEMMA TextBound ==
    ASSUME Shape, CountInv
    PROVE  /\ item.text \in Texts
           /\ \A r \in Slots : At(r, "update") => item.text + 1 \in Texts
<1>1. item.text \in Nat /\ MaxEdits \in Nat
  BY ConstantsAssumption DEF Shape
<1>2. item.text + Cardinality(Updating) <= MaxEdits
  BY DEF CountInv
<1>3. IsFiniteSet(Updating) /\ Cardinality(Updating) \in Nat
  <2>1. Updating \in SUBSET Slots
    BY DEF Updating
  <2> QED
    BY <2>1, ConstantsAssumption, FS_Subset, FS_CardinalityType
<1>4. ASSUME NEW r \in Slots, At(r, "update") PROVE Cardinality(Updating) >= 1
  BY <1>4, Counting DEF Updating
<1> QED
  BY <1>1, <1>2, <1>3, <1>4 DEF Texts

LEMMA HistoryData ==
    ASSUME DataInv, \/ UNCHANGED <<reviewed, faults>>
                    \/ faults' = faults /\ \E still \in BOOLEAN : Keep(still)
                    \/ Fault
    PROVE  reviewed'.texts \subseteq Texts /\ faults' \in 0..MaxFaults
BY ConstantsAssumption DEF DataInv, Keep, Fault, Nothing

LEMMA InitBound == Init => BoundInv
<1> SUFFICES ASSUME Init PROVE BoundInv
    OBVIOUS
<1>1. \A r \in Slots : req[r] = Idle
  BY DEF Init
<1>2. Updating = {} /\ Moderating = {}
  BY <1>1, IdleRequest DEF Updating, Moderating, At
<1>3. Cardinality({}) = 0
  BY FS_EmptySet
<1>4. CountInv
  BY <1>1, <1>2, <1>3, ConstantsAssumption DEF Init, CountInv, Idle, Texts
<1> QED
  BY <1>4, ConstantsAssumption DEF Init, BoundInv, DataInv, Nothing

LEMMA BeginBound ==
    ASSUME Shape, BoundInv, NEW r \in Slots, NEW step \in Steps, NEW keys \in SUBSET Photos,
           NEW moderate \in BOOLEAN, Begin(r, step, keys, moderate),
           step \notin {"pend", "enqueue"},
           step = "update" => item.text + Cardinality(Updating) < MaxEdits
    PROVE  BoundInv'
<1> DEFINE x == Begun(step, keys, moderate)
<1>1. Sets(r, x)
  BY BeginSets
<1>2. x.pc = step /\ x.moderate = moderate /\ x.text \in Texts
  BY TextBound, ConstantsAssumption DEF Begun, BoundInv, Texts
<1> HIDE DEF x
<1>3. x.moderate /\ ~req[r].moderate => issued + Cardinality(Moderating) < MaxJobs
  BY <1>2 DEF Begin, JobLeft, Moderating
<1>4. /\ UNCHANGED <<item, jobs, issued, faults>>
      /\ \E still \in BOOLEAN : Keep(still)
  BY DEF Begin, queues, Quiet
<1>5. CountInv'
  BY <1>1, <1>2, <1>3, <1>4, StepCounts DEF BoundInv
<1> QED
  BY <1>4, <1>5, HistoryData DEF BoundInv, DataInv

LEMMA BeginsBound ==
    ASSUME Shape, BoundInv, NEW r \in Slots,
           \/ \E p \in Photos : BeginAddPhoto(r, p) \/ BeginDeletePhoto(r, p)
           \/ BeginUpdate(r) \/ BeginPublish(r) \/ BeginUnpublish(r) \/ BeginDelete(r)
           \/ BeginReport(r)
    PROVE  BoundInv'
<1>1. PICK step \in {"insert", "delete", "update", "publish", "unpublish", "softDelete", "report"},
           keys \in SUBSET Photos, moderate \in BOOLEAN :
         /\ Begin(r, step, keys, moderate)
         /\ step = "update" => item.text + Cardinality(Updating) < MaxEdits
  <2>1. /\ aiEnabled \in BOOLEAN /\ ShouldRevalidate \in BOOLEAN /\ FALSE \in BOOLEAN
        /\ photos \in SUBSET Photos /\ {} \in SUBSET Photos
    BY DEF Shape, ShouldRevalidate
  <2>2. ASSUME NEW p \in Photos, BeginAddPhoto(r, p) PROVE Begin(r, "insert", {p}, ShouldRevalidate)
    BY <2>2 DEF BeginAddPhoto
  <2>3. ASSUME NEW p \in Photos, BeginDeletePhoto(r, p) PROVE Begin(r, "delete", {p}, ShouldRevalidate)
    BY <2>3 DEF BeginDeletePhoto
  <2>4. CASE \E p \in Photos : BeginAddPhoto(r, p) \/ BeginDeletePhoto(r, p)
    BY <2>1, <2>2, <2>3, <2>4
  <2>5. CASE BeginUpdate(r)
    BY <2>1, <2>5 DEF BeginUpdate, Updating
  <2>6. CASE BeginPublish(r) \/ BeginUnpublish(r) \/ BeginDelete(r) \/ BeginReport(r)
    BY <2>1, <2>6 DEF BeginPublish, BeginUnpublish, BeginDelete, BeginReport
  <2> QED
    BY <2>4, <2>5, <2>6
<1>2. step \in Steps /\ step \notin {"pend", "enqueue"}
  BY DEF Steps
<1> QED
  BY <1>1, <1>2, BeginBound

\* What an edit leaves behind claims nothing new.
LEMMA EditCounts ==
    ASSUME Shape, CountInv, NEW r \in Slots, NEW text \in Texts, Edited(r, text), issued' = issued,
           \/ item'.text = item.text
           \/ item'.text = item.text + 1 /\ req[r].pc = "update"
    PROVE  CountInv'
<1>1. text \in Nat
  BY ConstantsAssumption DEF Texts
<1>2. CASE req[r].moderate
  <2> DEFINE x == [req[r] EXCEPT !.pc = "pend", !.text = text]
  <2>1. Sets(r, x)
    BY <1>1, <1>2, EditedSets
  <2>2. x.pc = "pend" /\ x.text = text /\ x.moderate
    BY <1>2, ReqRecord
  <2> HIDE DEF x
  <2> QED
    BY <1>2, <2>1, <2>2, StepCounts
<1>3. CASE ~req[r].moderate
  <2>1. Sets(r, Idle)
    BY <1>1, <1>3, EditedSets
  <2>2. Idle.text \in Texts /\ Idle.pc = "idle" /\ ~Idle.moderate
    BY ConstantsAssumption DEF Idle, Texts
  <2> QED
    BY <2>1, <2>2, StepCounts
<1> QED
  BY <1>2, <1>3

\* A step of a request that leaves the queue and the history alone.
LEMMA RequestData ==
    ASSUME DataInv, UNCHANGED <<jobs, history>>
    PROVE  DataInv'
BY DEF DataInv, history

LEMMA EditBound ==
    ASSUME Shape, BoundInv, NEW r \in Slots, InsertPhoto(r) \/ DeletePhoto(r) \/ UpdateItem(r)
    PROVE  BoundInv'
<1>1. UNCHANGED <<jobs, issued, history>>
  BY DEF InsertPhoto, DeletePhoto, UpdateItem, queues
<1>2. req[r].text \in Texts /\ CountInv
  BY DEF BoundInv, CountInv
<1>3. CASE InsertPhoto(r) \/ DeletePhoto(r)
  <2>1. item' = item /\ (Reply(r) \/ Edited(r, req[r].text))
    BY <1>3 DEF InsertPhoto, DeletePhoto
  <2>2. CountInv'
    BY <1>1, <1>2, <2>1, IdleCounts, EditCounts
  <2> QED
    BY <1>1, <2>2, RequestData DEF BoundInv
<1>4. CASE UpdateItem(r)
  <2>1. /\ At(r, "update") /\ item' = [item EXCEPT !.text = item.text + 1]
        /\ Edited(r, item.text + 1)
    BY <1>4 DEF UpdateItem
  <2>2. item.text + 1 \in Texts /\ item'.text = item.text + 1
    BY <1>2, <2>1, TextBound DEF Shape
  <2>3. CountInv'
    BY <1>1, <1>2, <2>1, <2>2, EditCounts DEF At
  <2> QED
    BY <1>1, <2>3, RequestData DEF BoundInv
<1> QED
  BY <1>3, <1>4

\* A request that will queue a job still holds its claim.
LEMMA PendBound ==
    ASSUME Shape, BoundInv, NEW r \in Slots, Pend(r) \/ Publish(r)
    PROVE  BoundInv'
<1>1. UNCHANGED <<jobs, issued, history>> /\ item'.text = item.text
  BY DEF Pend, Publish, AiPending, queues, Shape
<1>2. req[r].text \in Texts /\ CountInv
  BY DEF BoundInv, CountInv
<1>3. CASE Pend(r)
  <2> DEFINE x == [req[r] EXCEPT !.pc = "enqueue", !.keys = photos]
  <2>1. req[r].moderate
    BY <1>2, <1>3 DEF CountInv, Pend, At
  <2>2. x \in Request /\ x.pc = "enqueue" /\ x.text = req[r].text /\ x.moderate
    BY <2>1 DEF Shape, Request, Steps
  <2>3. req' = [req EXCEPT ![r] = x]
    BY <1>3 DEF Pend
  <2> HIDE DEF x
  <2>4. Sets(r, x)
    BY <2>2, <2>3, SetRequest
  <2>5. CountInv'
    BY <1>1, <1>2, <2>1, <2>2, <2>4, StepCounts
  <2> QED
    BY <1>1, <2>5, RequestData DEF BoundInv
<1>4. CASE Publish(r) /\ req[r].moderate
  <2> DEFINE x == [req[r] EXCEPT !.pc = "enqueue"]
  <2>1. Sets(r, x)
    BY <1>4, GotoSets DEF Publish, Steps
  <2>2. x.pc = "enqueue" /\ x.text = req[r].text /\ x.moderate
    BY <1>4, ReqRecord
  <2> HIDE DEF x
  <2>3. CountInv'
    BY <1>1, <1>2, <1>4, <2>1, <2>2, StepCounts
  <2> QED
    BY <1>1, <2>3, RequestData DEF BoundInv
<1>5. CASE Publish(r) /\ ~req[r].moderate
  <2>1. CountInv'
    BY <1>1, <1>2, <1>5, IdleCounts DEF Publish
  <2> QED
    BY <1>1, <2>1, RequestData DEF BoundInv
<1> QED
  BY <1>3, <1>4, <1>5

\* The job was claimed when the request began.
LEMMA EnqueueBound ==
    ASSUME Shape, BoundInv, NEW r \in Slots, Enqueue(r)
    PROVE  BoundInv'
<1> DEFINE j == [id |-> issued + 1, keys |-> req[r].keys, text |-> req[r].text, left |-> Attempts]
<1>1. /\ req[r].pc = "enqueue" /\ issued' = issued + 1 /\ jobs' = jobs \cup {j}
      /\ Reply(r) /\ item' = item /\ UNCHANGED history
  BY DEF Enqueue, Queued, At
<1>2. CountInv /\ req[r].text \in Texts /\ req[r].moderate
  BY <1>1 DEF BoundInv, CountInv
<1>3. issued + 1 \in 1..MaxJobs
  <2>1. Cardinality(Moderating) \in Nat /\ Cardinality(Moderating) >= 1
    BY <1>2, Counting DEF Moderating
  <2>2. issued \in Nat /\ MaxJobs \in Nat /\ issued + Cardinality(Moderating) <= MaxJobs
    BY <1>2, ConstantsAssumption DEF Shape, CountInv
  <2> QED
    BY <2>1, <2>2
<1>4. j \in Jobs
  <2>1. req[r].keys \in SUBSET Photos
    BY ReqRecord
  <2>2. Attempts \in 1..Attempts
    BY DEF Attempts
  <2> QED
    BY <1>2, <1>3, <2>1, <2>2 DEF Jobs
<1> HIDE DEF j
<1>5. Sets(r, Idle)
  BY <1>1, ReplySets
<1>6. Idle.text \in Texts /\ Idle.pc = "idle" /\ ~Idle.moderate
  BY ConstantsAssumption DEF Idle, Texts
<1>7. CountInv'
  BY <1>1, <1>2, <1>5, <1>6, StepCounts
<1> QED
  BY <1>1, <1>4, <1>7 DEF BoundInv, DataInv, history

LEMMA EndBound ==
    ASSUME Shape, BoundInv, NEW r \in Slots,
           Unpublish(r) \/ Report(r) \/ SoftDelete(r) \/ EnqueueCleanup(r)
    PROVE  BoundInv'
<1>1. UNCHANGED <<jobs, issued, history>> /\ item'.text = item.text
  BY DEF Unpublish, Report, SoftDelete, EnqueueCleanup, queues, Shape
<1>2. CASE Reply(r)
  BY <1>1, <1>2, IdleCounts, RequestData DEF BoundInv
<1>3. CASE Goto(r, "enqueueCleanup")
  <2> DEFINE x == [req[r] EXCEPT !.pc = "enqueueCleanup"]
  <2>1. Sets(r, x)
    BY <1>3, GotoSets DEF Steps
  <2>2. x.pc = "enqueueCleanup" /\ x.text = req[r].text /\ x.moderate = req[r].moderate
    BY ReqRecord
  <2> HIDE DEF x
  <2>3. CountInv'
    BY <1>1, <2>1, <2>2, StepCounts DEF BoundInv, CountInv
  <2> QED
    BY <1>1, <2>3, RequestData DEF BoundInv
<1> QED
  BY <1>2, <1>3 DEF Unpublish, Report, SoftDelete, EnqueueCleanup

LEMMA RequestFailsBound ==
    ASSUME Shape, BoundInv, NEW r \in Slots, RequestFails(r)
    PROVE  BoundInv'
<1>1. Fault /\ Reply(r) /\ UNCHANGED <<item, jobs, issued>>
  BY DEF RequestFails, queues
<1> QED
  BY <1>1, IdleCounts, HistoryData DEF BoundInv, DataInv

LEMMA PassedBound ==
    ASSUME DataInv, NEW keys, NEW text \in Texts, Passed(keys, text)
    PROVE  reviewed'.texts \subseteq Texts
BY DEF DataInv, Passed, Nothing

LEMMA OthersBound ==
    ASSUME Shape, BoundInv,
           \/ RequestVerification \/ DeclineInappropriate
           \/ AdminApprove \/ AdminHide \/ AdminRestore
           \/ CleanUp \/ \E p \in photos : CleanUpPartly(p)
    PROVE  BoundInv'
<1>1. UNCHANGED <<jobs, issued, req>> /\ item'.text = item.text
  BY DEF RequestVerification, DeclineInappropriate, AdminApprove, AdminHide, AdminRestore,
         AdminMoves, CleanUp, CleanUpPartly, queues, Shape
<1>2. CountInv'
  BY <1>1, SameCounts DEF BoundInv
<1>3. reviewed'.texts \subseteq Texts /\ faults' \in 0..MaxFaults
  <2>1. CASE AdminApprove
    <3>1. Passed(photos, item.text) /\ faults' = faults
      BY <2>1 DEF AdminApprove, AdminMoves
    <3> QED
      BY <3>1, TextBound, PassedBound DEF BoundInv, DataInv
  <2>2. CASE DeclineInappropriate \/ AdminHide \/ AdminRestore
    <3>1. faults' = faults /\ \E still \in BOOLEAN : Keep(still)
      BY <2>2 DEF DeclineInappropriate, AdminHide, AdminRestore, AdminMoves, Quiet
    <3> QED
      BY <3>1, HistoryData DEF BoundInv
  <2>3. CASE RequestVerification \/ CleanUp
    BY <2>3, HistoryData DEF BoundInv, RequestVerification, CleanUp, history
  <2>4. CASE \E p \in photos : CleanUpPartly(p)
    BY <2>4, HistoryData DEF BoundInv, CleanUpPartly
  <2> QED
    BY <2>1, <2>2, <2>3, <2>4
<1> QED
  BY <1>1, <1>2, <1>3 DEF BoundInv, DataInv

LEMMA WorkerBound ==
    ASSUME Shape, BoundInv, NEW j \in jobs,
           \/ \E ok \in BOOLEAN : Moderate(j, ok) \/ ModerateTwice(j, ok)
           \/ ModerateUnseen(j) \/ AttemptFails(j)
    PROVE  BoundInv'
<1>1. UNCHANGED <<issued, req>> /\ item'.text = item.text
  BY DEF Moderate, ModerateTwice, ModerateUnseen, AttemptFails, Verdict, Shape
<1>2. CountInv'
  BY <1>1, SameCounts DEF BoundInv
<1>3. j \in Jobs /\ j.text \in Texts
  BY DEF BoundInv, DataInv, Jobs
<1>4. jobs' \subseteq Jobs
  <2> DEFINE again == [j EXCEPT !.left = @ - 1]
  <2>1. j.left > 1 => again \in Jobs
    BY <1>3 DEF Jobs, Attempts
  <2> HIDE DEF again
  <2>2. jobs' \subseteq jobs \cup (IF j.left > 1 THEN {again} ELSE {})
    BY DEF Moderate, ModerateTwice, ModerateUnseen, AttemptFails, again
  <2> QED
    BY <2>1, <2>2 DEF BoundInv, DataInv
<1>5. reviewed'.texts \subseteq Texts /\ faults' \in 0..MaxFaults
  <2>1. ASSUME NEW ok \in BOOLEAN, Moderate(j, ok)
        PROVE  reviewed'.texts \subseteq Texts /\ faults' \in 0..MaxFaults
    BY <1>3, <2>1, PassedBound DEF Moderate, BoundInv, DataInv
  <2>2. Fault => reviewed'.texts \subseteq Texts /\ faults' \in 0..MaxFaults
    BY HistoryData DEF BoundInv
  <2> QED
    BY <2>1, <2>2 DEF ModerateTwice, ModerateUnseen, AttemptFails
<1> QED
  BY <1>2, <1>4, <1>5 DEF BoundInv, DataInv

LEMMA NextBound == Shape /\ BoundInv /\ [Next]_vars => BoundInv'
<1> SUFFICES ASSUME Shape, BoundInv, [Next]_vars PROVE BoundInv'
    OBVIOUS
<1>1. CASE Next
  <2>1. ASSUME NEW r \in Slots, RequestStep(r) PROVE BoundInv'
    BY <2>1, EditBound, PendBound, EnqueueBound, EndBound DEF RequestStep
  <2> QED
    BY <1>1, <2>1, BeginsBound, RequestFailsBound, OthersBound, WorkerBound DEF Next
<1>2. CASE UNCHANGED vars
  <2>1. item' = item /\ UNCHANGED <<jobs, issued, req, history>>
    BY <1>2 DEF vars, queues
  <2> QED
    BY <2>1, SameCounts, RequestData DEF BoundInv
<1> QED
  BY <1>1, <1>2

\* Every variable of Portfolio keeps its type: the bounds hold because each
\* request claims its version and its job when it begins.
THEOREM TypeCorrect == Spec => []TypeOK
<1>1. Spec => []Shape
  <2>1. IInv => Shape
    BY DEF IInv
  <2> QED
    BY <2>1, Invariant, PTL
<1>2. Shape /\ BoundInv => TypeOK
  <2> SUFFICES ASSUME Shape, BoundInv PROVE TypeOK
    OBVIOUS
  <2>1. item \in [status : Status, ai : AiStatus, deleted : BOOLEAN, text : Texts]
    BY TextBound DEF Shape, BoundInv
  <2>2. req \in [Slots -> [pc : Steps, moderate : BOOLEAN, text : Texts, keys : SUBSET Photos]]
    BY DEF Shape, Request, BoundInv, CountInv
  <2>3. reviewed \in [keys : SUBSET Photos, texts : SUBSET Texts]
    BY DEF Shape, BoundInv, DataInv
  <2>4. issued \in 0..MaxJobs
    <3>1. Moderating \in SUBSET Slots
      BY DEF Moderating
    <3>2. Cardinality(Moderating) \in Nat
      BY <3>1, ConstantsAssumption, FS_Subset, FS_CardinalityType
    <3> QED
      BY <3>2, ConstantsAssumption DEF Shape, BoundInv, CountInv
  <2> QED
    BY <2>1, <2>2, <2>3, <2>4 DEF Shape, BoundInv, DataInv, TypeOK
<1> QED
  BY <1>1, <1>2, InitBound, NextBound, PTL DEF Spec
=============================================================================
