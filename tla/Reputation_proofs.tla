------------------------- MODULE Reputation_proofs -------------------------
(***************************************************************************)
(* Proofs about the parts of Reputation, for any requests, files, items and *)
(* faults: what each part keeps by itself, and that Reputation keeps it.    *)
(***************************************************************************)
EXTENDS Reputation, Sequences, FiniteSetTheorems, WellFoundedInduction, TLAPS

(* Numbers: a set of them that is not empty has a least one and, finite, a  *)
(* greatest one.                                                            *)

LEMMA LeastNumber ==
    ASSUME NEW S \in SUBSET Nat, S # {}
    PROVE  \E n \in S : \A m \in S : n <= m
<1> DEFINE R == {p \in Nat \X Nat : p[1] < p[2]}
<1>1. IsWellFoundedOn(R, Nat)
  BY NatLessThanWellFounded DEF OpToRel
<1>2. \E n \in S : \A m \in S : ~(<<m, n>> \in R)
  BY <1>1, WFMin
<1>3. \A m, n \in Nat : m < n => <<m, n>> \in R
  OBVIOUS
<1> HIDE DEF R
<1>4. PICK n \in S : \A m \in S : ~(<<m, n>> \in R)
  BY <1>2
<1>5. \A m \in S : m \in Nat /\ n \in Nat /\ ~(m < n)
  BY <1>3, <1>4
<1> QED
  BY <1>5

HasGreatest(S) == \E n \in S : \A m \in S : m <= n

\* A least set without a greatest number would have one less and still none.
LEMMA GreatestNumber ==
    ASSUME NEW S \in SUBSET Nat, IsFiniteSet(S), S # {}
    PROVE  HasGreatest(S)
<1> DEFINE Bad(T) == IsFiniteSet(T) /\ T # {} /\ ~HasGreatest(T)
           Sizes == {n \in Nat : \E T \in SUBSET Nat : Bad(T) /\ Cardinality(T) = n}
<1>1. SUFFICES ASSUME ~HasGreatest(S) PROVE FALSE
  OBVIOUS
<1>2. Cardinality(S) \in Sizes
  BY <1>1, FS_CardinalityType
<1>3. PICK n \in Sizes : \A m \in Sizes : n <= m
  <2> HIDE DEF Sizes
  <2>1. Sizes \in SUBSET Nat
    BY DEF Sizes
  <2> QED
    BY <1>2, <2>1, LeastNumber
<1>4. PICK T \in SUBSET Nat : Bad(T) /\ Cardinality(T) = n
  BY <1>3
<1>5. PICK x \in T : TRUE
  BY <1>4
<1> DEFINE U == T \ {x}
<1>6. IsFiniteSet(U) /\ Cardinality(U) = n - 1 /\ U \in SUBSET Nat
  BY <1>4, <1>5, FS_RemoveElement
<1>7. CASE U = {}
  <2>1. \A m \in T : m = x /\ m \in Nat
    BY <1>5, <1>7
  <2> QED
    BY <1>4, <1>5, <2>1 DEF HasGreatest
<1>8. CASE U # {} /\ ~HasGreatest(U)
  <2>1. n - 1 \in Sizes
    BY <1>6, <1>8, FS_CardinalityType
  <2> QED
    BY <1>3, <2>1
<1>9. CASE HasGreatest(U)
  <2>1. PICK g \in U : \A m \in U : m <= g
    BY <1>9 DEF HasGreatest
  <2>2. \A m \in T : m = x \/ m <= g
    BY <2>1
  <2>3. x \in Nat /\ g \in Nat /\ g \in T /\ \A m \in T : m \in Nat
    BY <1>4, <1>5, <2>1
  <2>4. CASE g <= x
    BY <1>4, <1>5, <2>2, <2>3, <2>4 DEF HasGreatest
  <2>5. CASE x <= g
    BY <1>4, <2>2, <2>3, <2>5 DEF HasGreatest
  <2> QED
    BY <2>3, <2>4, <2>5
<1> QED
  BY <1>7, <1>8, <1>9

-----------------------------------------------------------------------------

(* PortfolioConsent: the consent of the client.                            *)

ConsentRow == [status : Consent!ConsentStatus \cup {"none"}, due : BOOLEAN,
               tried : {"never", "fresh", "stale"}, sent : BOOLEAN]

ConsentShape ==
    /\ consentConsent \in ConsentRow
    /\ consentFirst \in Consent!ConsentStatus \cup {"none"}
    /\ consentVerified \in BOOLEAN /\ consentOrderly \in BOOLEAN
    /\ consentRefusals \in [Slots -> {"idle", "write"}]

\* A consent leaves PENDING for good, and the history remembers what for.
ConsentFirstIsKept == consentFirst = "none" <=> consentConsent.status \in {"none", "PENDING"}

\* While the history is orderly a refusal under way is alone, and the row it
\* has read is the row it will write.
ConsentRefusalIsAlone ==
    consentOrderly =>
        \A c \in Slots : consentRefusals[c] = "write" =>
            consentConsent.status = "PENDING" /\ \A d \in Slots \ {c} : consentRefusals[d] = "idle"

\* What becomes of the row once somebody has refused it can only be a row that
\* was asked for.
ConsentRefusalIsOfARow ==
    \A c \in Slots : consentRefusals[c] = "write" => consentConsent.status # "none"

ConsentInv ==
    /\ ConsentShape /\ ConsentFirstIsKept /\ ConsentRefusalIsAlone /\ ConsentRefusalIsOfARow
    /\ Consent!VerifiedIsAccepted

LEMMA ConsentInit == Consent!Init => ConsentInv
<1> SUFFICES ASSUME Consent!Init PROVE ConsentInv
    OBVIOUS
<1>1. consentConsent.status = "none" /\ consentFirst = "none" /\ ~consentVerified
  BY DEF Consent!Init
<1>2. ConsentShape
  BY DEF Consent!Init, ConsentShape, ConsentRow
<1>3. ConsentRefusalIsAlone /\ ConsentRefusalIsOfARow
  BY DEF Consent!Init, ConsentRefusalIsAlone, ConsentRefusalIsOfARow
<1>4. ConsentFirstIsKept /\ Consent!VerifiedIsAccepted
  BY <1>1 DEF ConsentFirstIsKept, Consent!VerifiedIsAccepted
<1> QED
  BY <1>2, <1>3, <1>4 DEF ConsentInv

\* A step of the reminder or of the clock keeps the answers; a request may at
\* most turn a row that is not there into a PENDING one.
ConsentUnanswering ==
    /\ UNCHANGED <<consentFirst, consentVerified, consentRefusals, consentOrderly>>
    /\ consentConsent' \in ConsentRow
    /\ \/ consentConsent'.status = consentConsent.status
       \/ consentConsent.status = "none" /\ consentConsent'.status = "PENDING"

LEMMA ConsentUnansweringInv == ASSUME ConsentInv, ConsentUnanswering PROVE ConsentInv'
<1>1. ConsentShape'
  BY DEF ConsentInv, ConsentShape, ConsentUnanswering
<1>2. ConsentFirstIsKept'
  BY DEF ConsentInv, ConsentFirstIsKept, ConsentUnanswering
<1>3. ConsentRefusalIsAlone' /\ ConsentRefusalIsOfARow'
  BY DEF ConsentInv, ConsentRefusalIsAlone, ConsentRefusalIsOfARow, ConsentUnanswering
<1>4. Consent!VerifiedIsAccepted'
  BY DEF ConsentInv, ConsentFirstIsKept, Consent!VerifiedIsAccepted, ConsentUnanswering
<1> QED
  BY <1>1, <1>2, <1>3, <1>4 DEF ConsentInv

LEMMA ConsentReminderStep == ASSUME ConsentInv,
   Consent!Reminder \/ Consent!NotifyFails \/ Consent!WorkerFails PROVE ConsentUnanswering
<1>1. consentConsent \in ConsentRow
  BY DEF ConsentInv, ConsentShape
<1>2. \/ UNCHANGED <<consentFirst, consentConsent, consentVerified, consentRefusals,
                    consentOrderly>>
      \/ /\ UNCHANGED <<consentFirst, consentVerified, consentRefusals, consentOrderly>>
         /\ \/ consentConsent' = [consentConsent EXCEPT !.tried = "fresh"]
            \/ consentConsent' = [consentConsent EXCEPT !.sent = TRUE]
  BY DEF Consent!Reminder, Consent!Claim, Consent!Notify, Consent!MarkSent, Consent!NotifyFails,
     Consent!WorkerFails
<1> QED
  BY <1>1, <1>2 DEF ConsentUnanswering, ConsentRow

LEMMA ConsentAskStep ==
    ASSUME ConsentInv, NEW a \in Slots,
           Consent!BeginAsk(a) \/ Consent!Create(a) \/ Consent!Schedule(a) \/ Consent!AskFails(a)
    PROVE  ConsentUnanswering
<1>1. consentConsent \in ConsentRow
  BY DEF ConsentInv, ConsentShape
<1>2. \/ UNCHANGED <<consentFirst, consentConsent, consentVerified, consentRefusals,
                    consentOrderly>>
      \/ /\ UNCHANGED <<consentFirst, consentVerified, consentRefusals, consentOrderly>>
         /\ consentConsent.status = "none"
         /\ consentConsent' = [consentConsent EXCEPT !.status = "PENDING"]
  BY DEF Consent!BeginAsk, Consent!Create, Consent!Schedule, Consent!AskFails
<1> QED
  BY <1>1, <1>2 DEF ConsentUnanswering, ConsentRow, Consent!ConsentStatus

LEMMA ConsentClockStep == ASSUME ConsentInv,
   Consent!TimePasses \/ Consent!AttemptAges PROVE ConsentUnanswering
<1>1. consentConsent \in ConsentRow
  BY DEF ConsentInv, ConsentShape
<1>2. /\ UNCHANGED <<consentFirst, consentVerified, consentRefusals, consentOrderly>>
      /\ \/ consentConsent' = [consentConsent EXCEPT !.due = TRUE]
         \/ consentConsent' = [consentConsent EXCEPT !.tried = "stale"]
  BY DEF Consent!TimePasses, Consent!AttemptAges
<1> QED
  BY <1>1, <1>2 DEF ConsentUnanswering, ConsentRow

-----------------------------------------------------------------------------
\* What an answer leaves behind, whoever gives it.
LEMMA ConsentAnswerRow ==
    ASSUME ConsentInv, NEW status \in Consent!ConsentStatus \ {"PENDING"}, Consent!Answer(status)
    PROVE  /\ consentConsent' \in ConsentRow /\ consentConsent'.status = status
           /\ consentFirst' = IF consentFirst = "none" THEN status ELSE consentFirst
           /\ consentFirst' \in Consent!ConsentStatus /\ consentFirst' # "none"
BY DEF ConsentInv, ConsentShape, ConsentRow, Consent!Answer, Consent!ConsentStatus

\* An acceptance or the expiry ends a PENDING consent.
LEMMA ConsentEndInv ==
    ASSUME ConsentInv, Consent!Pending, NEW status \in {"ACCEPTED", "EXPIRED"},
           Consent!Answer(status), ~consentVerified,
           consentVerified' = (status = "ACCEPTED"),
           consentOrderly' = (consentOrderly /\ ~Consent!Refusing), UNCHANGED consentRefusals
    PROVE  ConsentInv'
<1>1. /\ consentConsent' \in ConsentRow /\ consentConsent'.status = status /\ consentFirst = "none"
      /\ consentFirst' = status
      /\ status \in Consent!ConsentStatus \ {"PENDING"}
  BY ConsentAnswerRow DEF ConsentInv, Consent!Pending, ConsentFirstIsKept, Consent!ConsentStatus
<1>2. ConsentShape'
  BY <1>1 DEF ConsentInv, ConsentShape, Consent!ConsentStatus
<1>3. ConsentRefusalIsAlone' /\ ConsentRefusalIsOfARow'
  BY <1>1 DEF ConsentInv, ConsentShape, ConsentRefusalIsAlone, ConsentRefusalIsOfARow,
     Consent!Refusing, Consent!ConsentStatus
<1>4. ConsentFirstIsKept' /\ Consent!VerifiedIsAccepted'
  BY <1>1 DEF ConsentFirstIsKept, Consent!VerifiedIsAccepted, Consent!ConsentStatus
<1> QED
  BY <1>2, <1>3, <1>4 DEF ConsentInv

LEMMA ConsentBeginDeclineInv == ASSUME ConsentInv, NEW c \in Slots,
   Consent!BeginDecline(c) PROVE ConsentInv'
<1>1. consentConsent.status = "PENDING"
  BY DEF Consent!BeginDecline, Consent!Answerable, Consent!Pending
<1>2. ConsentShape' /\ ConsentFirstIsKept' /\ Consent!VerifiedIsAccepted'
  BY DEF ConsentInv, ConsentShape, ConsentFirstIsKept, Consent!VerifiedIsAccepted,
     Consent!BeginDecline
<1>3. ConsentRefusalIsAlone' /\ ConsentRefusalIsOfARow'
  BY <1>1 DEF ConsentInv, ConsentShape, ConsentRefusalIsAlone, ConsentRefusalIsOfARow,
     Consent!BeginDecline, Consent!Refusing
<1> QED
  BY <1>2, <1>3 DEF ConsentInv

\* A refusal that overlapped an acceptance leaves a verified item with a
\* DECLINED consent; one that overlapped nothing ends a PENDING one.
LEMMA ConsentDeclineInv == ASSUME ConsentInv, NEW c \in Slots,
   Consent!Decline(c) PROVE ConsentInv'
<1>1. /\ consentConsent' \in ConsentRow /\ consentConsent'.status = "DECLINED"
      /\ consentFirst' = IF consentFirst = "none" THEN "DECLINED" ELSE consentFirst
      /\ consentFirst' \in Consent!ConsentStatus /\ consentFirst' # "none"
  BY ConsentAnswerRow DEF Consent!Decline, Consent!ConsentStatus
<1>2. ConsentShape' /\ ConsentFirstIsKept'
  BY <1>1 DEF ConsentInv, ConsentShape, ConsentFirstIsKept, Consent!Decline
<1>3. ConsentRefusalIsAlone' /\ ConsentRefusalIsOfARow'
  BY <1>1 DEF ConsentInv, ConsentShape, ConsentRefusalIsAlone, ConsentRefusalIsOfARow,
     Consent!Decline
<1>4. consentOrderly => /\ consentConsent.status = "PENDING"
                        /\ consentFirst = "none" /\ ~consentVerified
  BY DEF ConsentInv, ConsentShape, ConsentRefusalIsAlone, ConsentFirstIsKept,
     Consent!VerifiedIsAccepted, Consent!Decline
<1>5. Consent!VerifiedIsAccepted'
  BY <1>1, <1>4 DEF Consent!VerifiedIsAccepted, Consent!Decline
<1> QED
  BY <1>2, <1>3, <1>5 DEF ConsentInv

LEMMA ConsentNext == ASSUME ConsentInv, [Consent!Next]_consentVars PROVE ConsentInv'
<1>1. ASSUME NEW a \in Slots,
             \/ Consent!BeginAsk(a) \/ Consent!Create(a)
             \/ Consent!Schedule(a) \/ Consent!AskFails(a)
      PROVE  ConsentInv'
  BY <1>1, ConsentAskStep, ConsentUnansweringInv
<1>2. CASE Consent!Accept
  <2>1. /\ Consent!Pending /\ Consent!Answer("ACCEPTED") /\ ~consentVerified
        /\ consentVerified' = TRUE
        /\ consentOrderly' = (consentOrderly /\ ~Consent!Refusing) /\ UNCHANGED consentRefusals
    BY <1>2 DEF Consent!Accept, Consent!Answerable
  <2> QED
    BY <2>1, ConsentEndInv
<1>3. ASSUME NEW c \in Slots, Consent!BeginDecline(c) \/ Consent!Decline(c) PROVE ConsentInv'
  BY <1>3, ConsentBeginDeclineInv, ConsentDeclineInv
<1>4. CASE Consent!Expire
  <2>1. /\ Consent!Pending /\ Consent!Answer("EXPIRED")
        /\ UNCHANGED <<consentVerified, consentRefusals>>
        /\ consentOrderly' = (consentOrderly /\ ~Consent!Refusing)
    BY <1>4 DEF Consent!Expire
  <2>2. ~consentVerified
    BY <2>1 DEF ConsentInv, Consent!VerifiedIsAccepted, Consent!Pending
  <2> QED
    BY <2>1, <2>2, ConsentEndInv DEF ConsentInv, ConsentShape
<1>5. CASE Consent!TimePasses \/ Consent!AttemptAges
  BY <1>5, ConsentClockStep, ConsentUnansweringInv
<1>6. CASE Consent!Reminder \/ Consent!NotifyFails \/ Consent!WorkerFails
  BY <1>6, ConsentReminderStep, ConsentUnansweringInv
<1>7. CASE UNCHANGED consentVars
  BY <1>7, ConsentUnansweringInv DEF consentVars, ConsentUnanswering, ConsentInv, ConsentShape
<1> QED
  BY <1>1, <1>2, <1>3, <1>4, <1>5, <1>6, <1>7 DEF Consent!Next

-----------------------------------------------------------------------------
(* PhotoStorage: the photos of the items and their files.                  *)

FileShape == Storage!TypeOK /\ fileCalls \in [Slots -> Storage!Calls]

\* The unique index: no key is in two rows.
FileIsInOneItem ==
    \A i, j \in Items : \A f \in filePhotos[i] : f \in filePhotos[j] => i = j

\* A file is in the bucket for as long as no deleted item has it.
FileKept(f) == f \in fileBucket \/ \E i \in fileDeleted : f \in filePhotos[i]

\* What a request has read or found still counts when it writes.
FileCall(c) ==
    /\ c.pc = "delete" => c.item \notin fileDeleted
    /\ c.pc = "enqueue" => c.item \in fileDeleted
    /\ c.pc = "head" /\ c.ready => \A f \in c.read \ c.left : FileKept(f)

\* A cleanup is of a deleted item and deletes only files that are still its own.
FileJob(i) ==
    /\ fileCleanup[i].left \subseteq filePhotos[i]
    /\ i \in fileDeleted \/ fileCleanup[i] = Storage!NoJob

\* What the cache remembers and what a publication has found is kept.
FileGood ==
    /\ \A s \in Slots : FileCall(fileCalls[s])
    /\ \A i \in Items : FileJob(i)
    /\ \A f \in fileKnown : FileKept(f)
    /\ \A i \in Items : \A f \in fileFound[i] : FileKept(f)

FileInv == FileShape /\ FileIsInOneItem /\ (fileOrderly => FileGood)

LEMMA FileInit == Storage!Init => FileInv
<1> SUFFICES ASSUME Storage!Init PROVE FileInv
  OBVIOUS
<1>1. FileShape
  BY DEF Storage!Init, FileShape, Storage!TypeOK, Storage!Calls, Storage!Idle, Storage!NoJob,
         Storage!Job
<1>2. FileIsInOneItem
  BY DEF Storage!Init, FileIsInOneItem
<1>3. FileGood
  BY DEF Storage!Init, FileGood, FileCall, FileJob, Storage!Idle, Storage!NoJob, Storage!Job
<1> QED
  BY <1>1, <1>2, <1>3 DEF FileInv

\* What is kept stays kept by a step that deletes no row of a deleted item and
\* no file but one of a deleted item.
LEMMA FileStaysKept ==
    ASSUME fileDeleted \subseteq fileDeleted',
           \A i \in fileDeleted : filePhotos[i] \subseteq filePhotos'[i],
           \A f \in fileBucket \ fileBucket' : \E i \in fileDeleted : f \in filePhotos[i],
           NEW f, FileKept(f)
    PROVE  FileKept(f)'
BY DEF FileKept

\* The uploads, the cache and the reads of a publication delete nothing.
FileQuiet ==
    /\ FileShape'
    /\ UNCHANGED <<fileDeleted, filePhotos, fileCleanup, fileOrderly>>
    /\ fileBucket \subseteq fileBucket'
    /\ fileOrderly =>
          /\ \A s \in Slots : fileCalls'[s] = fileCalls[s] \/ FileCall(fileCalls'[s])
          /\ \A f \in fileKnown' : FileKept(f)'
          /\ \A i \in Items : \A f \in fileFound'[i] : FileKept(f) \/ FileKept(f)'

LEMMA FileQuietStep == ASSUME FileInv, FileQuiet PROVE FileInv'
<1>1. \A f : FileKept(f) => FileKept(f)'
  BY FileStaysKept DEF FileQuiet, FileInv, FileShape
<1>2. FileIsInOneItem'
  BY DEF FileInv, FileIsInOneItem, FileQuiet
<1>3. ASSUME fileOrderly PROVE FileGood'
  <2>1. \A i \in Items : FileJob(i)'
    BY <1>3 DEF FileInv, FileGood, FileJob, FileQuiet
  <2>2. \A s \in Slots : FileCall(fileCalls[s])'
    BY <1>1, <1>3 DEF FileInv, FileGood, FileCall, FileQuiet
  <2>3. \A i \in Items : \A f \in fileFound'[i] : FileKept(f)'
    BY <1>1, <1>3 DEF FileQuiet
  <2>4. \A f \in fileKnown' : FileKept(f)'
    BY <1>3 DEF FileQuiet
  <2> QED
    BY <2>1, <2>2, <2>3, <2>4 DEF FileGood
<1> QED
  BY <1>2, <1>3 DEF FileInv, FileQuiet

\* What an entry of the request's row does to the table of requests.
LEMMA FileGoto ==
    ASSUME FileShape, NEW s \in Slots, NEW c \in Storage!Calls, Storage!Goto(s, c)
    PROVE  /\ fileCalls' \in [Slots -> Storage!Calls]
           /\ \A r \in Slots : fileCalls'[r] = IF r = s THEN c ELSE fileCalls[r]
BY DEF FileShape, Storage!Goto

LEMMA FileIdle == Storage!Idle \in Storage!Calls /\ FileCall(Storage!Idle)
BY DEF Storage!Idle, Storage!Calls, FileCall

LEMMA FilePresign ==
    ASSUME FileInv, NEW i \in Items, NEW keys \in SUBSET TwoFiles, Storage!Presign(i, keys)
    PROVE  FileInv'
<1>1. FileShape'
  BY DEF FileInv, FileShape, Storage!TypeOK, Storage!Presign
<1>2. FileQuiet
  BY <1>1 DEF FileQuiet, FileInv, FileGood, FileKept, Storage!Presign
<1> QED
  BY <1>2, FileQuietStep

LEMMA FileUploadOrForget ==
    ASSUME FileInv, NEW f \in TwoFiles, Storage!Upload(f) \/ Storage!Forget(f)
    PROVE  FileInv'
<1>1. FileShape'
  BY DEF FileInv, FileShape, Storage!TypeOK, Storage!Upload, Storage!Forget
<1>2. FileQuiet
  BY <1>1 DEF FileQuiet, FileInv, FileGood, FileKept, Storage!Upload, Storage!Forget
<1> QED
  BY <1>2, FileQuietStep

\* A request begins that changes nothing yet.
LEMMA FileBegins ==
    ASSUME FileInv, NEW s \in Slots, NEW c \in Storage!Calls, Storage!Begin(s, c),
           fileOrderly => FileCall(c),
           UNCHANGED <<fileStatus, fileDeleted, filePhotos, fileSigned, fileBucket, fileKnown,
                       fileCleanup, fileFound, fileOrderly>>
    PROVE  FileInv'
<1>1. /\ fileCalls' \in [Slots -> Storage!Calls]
      /\ \A r \in Slots : fileCalls'[r] = IF r = s THEN c ELSE fileCalls[r]
  BY FileGoto DEF Storage!Begin, FileInv
<1>2. FileShape'
  BY <1>1 DEF FileInv, FileShape, Storage!TypeOK
<1>3. FileQuiet
  BY <1>1, <1>2 DEF FileQuiet, FileInv, FileGood, FileKept
<1> QED
  BY <1>3, FileQuietStep

LEMMA FileBeginAdd ==
    ASSUME FileInv, NEW s \in Slots, NEW i \in Items, NEW f \in TwoFiles, Storage!BeginAdd(s, i, f)
    PROVE  FileInv'
<1> DEFINE c == [pc |-> "insert", item |-> i, file |-> f]
<1>1. c \in Storage!Calls /\ FileCall(c)
  BY DEF Storage!Calls, FileCall
<1> QED
  BY <1>1, FileBegins DEF Storage!BeginAdd

LEMMA FileBeginDelete ==
    ASSUME FileInv, NEW s \in Slots, NEW i \in Items, NEW f \in TwoFiles,
           Storage!BeginDeletePhoto(s, i, f)
    PROVE  FileInv'
<1> DEFINE c == [pc |-> "delete", item |-> i, file |-> f]
<1>1. c \in Storage!Calls /\ FileCall(c)
  BY DEF Storage!Calls, FileCall, Storage!BeginDeletePhoto, Storage!Live
<1> QED
  BY <1>1, FileBegins DEF Storage!BeginDeletePhoto

LEMMA FileBeginPublish ==
    ASSUME FileInv, NEW s \in Slots, NEW i \in Items, Storage!BeginPublish(s, i)
    PROVE  FileInv'
<1> DEFINE c == [pc |-> "head", item |-> i, read |-> filePhotos[i], left |-> filePhotos[i],
                 ready |-> TRUE]
<1>1. filePhotos[i] \in SUBSET TwoFiles
  BY DEF FileInv, FileShape, Storage!TypeOK
<1>2. c \in Storage!Calls /\ FileCall(c)
  BY <1>1 DEF Storage!Calls, FileCall
<1> QED
  BY <1>2, FileBegins DEF Storage!BeginPublish

\* The record of a publication that looks for its photos.
LEMMA FileHeadCall ==
    ASSUME FileInv, NEW s \in Slots, fileCalls[s].pc = "head"
    PROVE  /\ fileCalls[s] \in [pc : {"head"}, item : Items, read : SUBSET TwoFiles,
                                left : SUBSET TwoFiles, ready : BOOLEAN]
           /\ fileOrderly /\ fileCalls[s].ready =>
                 \A f \in fileCalls[s].read \ fileCalls[s].left : FileKept(f)
<1>1. fileCalls[s] \in Storage!Calls
  BY DEF FileInv, FileShape
<1>2. fileCalls[s] \in [pc : {"head"}, item : Items, read : SUBSET TwoFiles,
                        left : SUBSET TwoFiles, ready : BOOLEAN]
  BY <1>1 DEF Storage!Calls, Storage!Idle
<1> QED
  BY <1>2 DEF FileInv, FileGood, FileCall

LEMMA FileCached ==
    ASSUME FileInv, NEW s \in Slots, NEW f \in TwoFiles, Storage!Cached(s, f)
    PROVE  FileInv'
<1> DEFINE c == fileCalls[s]
           d == [c EXCEPT !.left = @ \ {f}]
<1>1. /\ c.pc = "head" /\ f \in c.left \cap fileKnown /\ Storage!Goto(s, d)
      /\ UNCHANGED <<fileStatus, fileDeleted, filePhotos, fileSigned, fileBucket, fileKnown,
                     fileCleanup, fileFound, fileOrderly>>
  BY DEF Storage!Cached
<1>2. /\ d \in Storage!Calls /\ d.pc = "head" /\ d.read = c.read /\ d.left = c.left \ {f}
      /\ d.ready = c.ready
  BY <1>1, FileHeadCall DEF Storage!Calls
<1>3. fileOrderly => FileCall(d)
  <2>1. fileOrderly => FileKept(f)
    BY <1>1 DEF FileInv, FileGood
  <2> QED
    BY <1>1, <1>2, <2>1, FileHeadCall DEF FileCall
<1> HIDE DEF c, d
<1>4. /\ fileCalls' \in [Slots -> Storage!Calls]
      /\ \A r \in Slots : fileCalls'[r] = IF r = s THEN d ELSE fileCalls[r]
  BY <1>1, <1>2, FileGoto DEF FileInv
<1>5. FileShape'
  BY <1>1, <1>4 DEF FileInv, FileShape, Storage!TypeOK
<1>6. FileQuiet
  BY <1>1, <1>3, <1>4, <1>5 DEF FileQuiet, FileInv, FileGood, FileKept
<1> QED
  BY <1>6, FileQuietStep

LEMMA FileHead ==
    ASSUME FileInv, NEW s \in Slots, NEW f \in TwoFiles, Storage!Head(s, f)
    PROVE  FileInv'
<1> DEFINE c == fileCalls[s]
           d == [c EXCEPT !.left = @ \ {f}, !.ready = @ /\ f \in fileBucket]
<1>1. /\ c.pc = "head" /\ f \in c.left /\ Storage!Goto(s, d)
      /\ fileKnown' \in {fileKnown, fileKnown \cup ({f} \cap fileBucket)}
      /\ UNCHANGED <<fileStatus, fileDeleted, filePhotos, fileSigned, fileBucket,
                     fileCleanup, fileFound, fileOrderly>>
  BY DEF Storage!Head
<1>2. /\ d \in Storage!Calls /\ d.pc = "head" /\ d.read = c.read /\ d.left = c.left \ {f}
      /\ d.ready = (c.ready /\ f \in fileBucket)
  BY <1>1, FileHeadCall DEF Storage!Calls
<1>3. fileOrderly => FileCall(d)
  BY <1>1, <1>2, FileHeadCall DEF FileCall, FileKept
<1> HIDE DEF c, d
<1>4. /\ fileCalls' \in [Slots -> Storage!Calls]
      /\ \A r \in Slots : fileCalls'[r] = IF r = s THEN d ELSE fileCalls[r]
  BY <1>1, <1>2, FileGoto DEF FileInv
<1>5. FileShape'
  BY <1>1, <1>4 DEF FileInv, FileShape, Storage!TypeOK
<1>6. \A g \in fileKnown' : fileOrderly => FileKept(g)'
  BY <1>1 DEF FileInv, FileGood, FileKept
<1>7. FileQuiet
  BY <1>1, <1>3, <1>4, <1>5, <1>6 DEF FileQuiet, FileInv, FileGood
<1> QED
  BY <1>7, FileQuietStep

\* A request ends with nothing written.
LEMMA FileEnds ==
    ASSUME FileInv, NEW s \in Slots, Storage!Goto(s, Storage!Idle),
           UNCHANGED <<fileDeleted, filePhotos, fileSigned, fileBucket, fileKnown,
                       fileCleanup, fileOrderly>>,
           fileStatus' \in [Items -> {"DRAFT", "PUBLISHED"}],
           fileFound' \in [Items -> SUBSET TwoFiles],
           fileOrderly => \A i \in Items : \A f \in fileFound'[i] : FileKept(f)
    PROVE  FileInv'
<1>1. /\ fileCalls' \in [Slots -> Storage!Calls]
      /\ \A r \in Slots : fileCalls'[r] = IF r = s THEN Storage!Idle ELSE fileCalls[r]
  BY FileGoto, FileIdle DEF FileInv
<1>2. FileShape'
  BY <1>1 DEF FileInv, FileShape, Storage!TypeOK
<1>3. \A f \in fileKnown' : fileOrderly => FileKept(f)'
  BY DEF FileInv, FileGood, FileKept
<1>4. FileQuiet
  BY <1>1, <1>2, <1>3, FileIdle DEF FileQuiet, FileInv, FileGood
<1> QED
  BY <1>4, FileQuietStep

LEMMA FilePublishFails ==
    ASSUME FileInv, NEW s \in Slots, Storage!PublishFails(s) PROVE FileInv'
<1>1. /\ Storage!Goto(s, Storage!Idle)
      /\ UNCHANGED <<fileStatus, fileDeleted, filePhotos, fileSigned, fileBucket, fileKnown,
                     fileCleanup, fileFound, fileOrderly>>
  BY DEF Storage!PublishFails
<1>2. /\ fileStatus \in [Items -> {"DRAFT", "PUBLISHED"}]
      /\ fileFound \in [Items -> SUBSET TwoFiles]
  BY DEF FileInv, FileShape, Storage!TypeOK
<1>3. fileOrderly => \A i \in Items : \A f \in fileFound[i] : FileKept(f)
  BY DEF FileInv, FileGood
<1> QED
  BY <1>1, <1>2, <1>3, FileEnds

LEMMA FilePublish ==
    ASSUME FileInv, NEW s \in Slots, Storage!Publish(s) PROVE FileInv'
<1> DEFINE c == fileCalls[s]
<1>1. /\ c.pc = "head" /\ c.left = {} /\ c.ready /\ Storage!Goto(s, Storage!Idle)
      /\ fileStatus' = [fileStatus EXCEPT ![c.item] = "PUBLISHED"]
      /\ fileFound' = [fileFound EXCEPT ![c.item] = c.read]
      /\ UNCHANGED <<fileDeleted, filePhotos, fileSigned, fileBucket, fileKnown,
                     fileCleanup, fileOrderly>>
  BY DEF Storage!Publish
<1>2. c.item \in Items /\ c.read \in SUBSET TwoFiles
  BY <1>1, FileHeadCall
<1>3. fileOrderly => \A f \in c.read : FileKept(f)
  BY <1>1, FileHeadCall
<1>4. /\ fileStatus \in [Items -> {"DRAFT", "PUBLISHED"}]
      /\ fileFound \in [Items -> SUBSET TwoFiles]
  BY DEF FileInv, FileShape, Storage!TypeOK
<1>5. fileOrderly => \A i \in Items : \A f \in fileFound[i] : FileKept(f)
  BY DEF FileInv, FileGood
<1> HIDE DEF c
<1>6. /\ fileStatus' \in [Items -> {"DRAFT", "PUBLISHED"}]
      /\ fileFound' \in [Items -> SUBSET TwoFiles]
  BY <1>1, <1>2, <1>4
<1>7. fileOrderly => \A i \in Items : \A f \in fileFound'[i] : FileKept(f)
  BY <1>1, <1>2, <1>3, <1>4, <1>5
<1> QED
  BY <1>1, <1>6, <1>7, FileEnds

LEMMA FileUnpublish ==
    ASSUME FileInv, NEW i \in Items, Storage!Unpublish(i) PROVE FileInv'
<1>1. FileShape'
  BY DEF FileInv, FileShape, Storage!TypeOK, Storage!Unpublish
<1>2. \A j \in Items : fileFound'[j] \subseteq fileFound[j]
  BY DEF FileInv, FileShape, Storage!TypeOK, Storage!Unpublish
<1>3. \A f \in fileKnown' : fileOrderly => FileKept(f)'
  BY DEF FileInv, FileGood, FileKept, Storage!Unpublish
<1>4. FileQuiet
  BY <1>1, <1>2, <1>3 DEF FileQuiet, FileInv, FileGood, Storage!Unpublish
<1> QED
  BY <1>4, FileQuietStep

\* The record of a request that adds or deletes one photo, or enqueues a cleanup.
LEMMA FilePhotoCall ==
    ASSUME FileInv, NEW s \in Slots
    PROVE  /\ fileCalls[s].pc \in {"insert", "delete"} =>
                 fileCalls[s] \in [pc : {"insert", "delete"}, item : Items, file : TwoFiles]
           /\ fileCalls[s].pc = "enqueue" => fileCalls[s] \in [pc : {"enqueue"}, item : Items]
<1>1. fileCalls[s] \in Storage!Calls
  BY DEF FileInv, FileShape
<1> QED
  BY <1>1 DEF Storage!Calls, Storage!Idle

\* A step that may change rows, cleanups and files, and ends or begins nothing
\* but what is good.
LEMMA FileChanges ==
    ASSUME FileInv, FileShape', FileIsInOneItem',
           fileOrderly' =>
               /\ fileOrderly
               /\ fileDeleted \subseteq fileDeleted'
               /\ \A i \in fileDeleted : filePhotos[i] \subseteq filePhotos'[i]
               /\ \A f \in fileBucket \ fileBucket' : \E i \in fileDeleted : f \in filePhotos[i]
               /\ fileKnown' = fileKnown /\ fileFound' = fileFound
               /\ \A i \in Items : FileJob(i)'
               /\ \A s \in Slots :
                     \/ FileCall(fileCalls[s])'
                     \/ /\ fileCalls'[s] = fileCalls[s]
                        /\ fileCalls[s].pc = "delete" => fileCalls[s].item \notin fileDeleted'
    PROVE  FileInv'
<1>1. ASSUME fileOrderly' PROVE FileGood'
  <2>1. \A f : FileKept(f) => FileKept(f)'
    BY <1>1, FileStaysKept
  <2>2. \A s \in Slots : FileCall(fileCalls[s])'
    BY <1>1, <2>1 DEF FileInv, FileGood, FileCall
  <2>3. /\ \A f \in fileKnown' : FileKept(f)'
        /\ \A i \in Items : \A f \in fileFound'[i] : FileKept(f)'
    BY <1>1, <2>1 DEF FileInv, FileGood
  <2> QED
    BY <1>1, <2>2, <2>3 DEF FileGood
<1> QED
  BY <1>1 DEF FileInv

LEMMA FileInsert ==
    ASSUME FileInv, NEW s \in Slots, Storage!Insert(s) PROVE FileInv'
<1> DEFINE c == fileCalls[s]
<1>1. /\ c.pc = "insert" /\ Storage!Goto(s, Storage!Idle)
      /\ filePhotos' = IF Storage!Registered(c.file) THEN filePhotos
                       ELSE [filePhotos EXCEPT ![c.item] = @ \cup {c.file}]
      /\ UNCHANGED <<fileStatus, fileDeleted, fileSigned, fileBucket, fileKnown, fileCleanup,
                     fileFound, fileOrderly>>
  BY DEF Storage!Insert
<1>2. c.item \in Items /\ c.file \in TwoFiles
  BY <1>1, FilePhotoCall
<1>3. filePhotos \in [Items -> SUBSET TwoFiles]
  BY DEF FileInv, FileShape, Storage!TypeOK
<1>4. Storage!Registered(c.file) <=> \E i \in Items : c.file \in filePhotos[i]
  BY DEF Storage!Registered, Storage!Taken
<1> HIDE DEF c
<1>5. /\ filePhotos' \in [Items -> SUBSET TwoFiles]
      /\ \A i \in Items : filePhotos[i] \subseteq filePhotos'[i]
  BY <1>1, <1>2, <1>3
<1>6. FileIsInOneItem'
  <2>1. CASE Storage!Registered(c.file)
    BY <1>1, <2>1 DEF FileInv, FileIsInOneItem
  <2>2. CASE ~Storage!Registered(c.file)
    <3>1. \A i \in Items : filePhotos'[i] = IF i = c.item THEN filePhotos[i] \cup {c.file}
                                            ELSE filePhotos[i]
      BY <1>1, <1>3, <2>2
    <3>2. ASSUME NEW i \in Items, NEW j \in Items, NEW f, f \in filePhotos'[i], f \in filePhotos'[j]
          PROVE  i = j
      <4>1. CASE f = c.file
        BY <1>4, <2>2, <3>1, <3>2, <4>1
      <4>2. CASE f # c.file
        <5>1. f \in filePhotos[i] /\ f \in filePhotos[j]
          BY <3>1, <3>2, <4>2
        <5> QED
          BY <5>1 DEF FileInv, FileIsInOneItem
      <4> QED
        BY <4>1, <4>2
    <3> QED
      BY <3>2 DEF FileIsInOneItem
  <2> QED
    BY <2>1, <2>2
<1>7. /\ fileCalls' \in [Slots -> Storage!Calls]
      /\ \A r \in Slots : fileCalls'[r] = IF r = s THEN Storage!Idle ELSE fileCalls[r]
  BY <1>1, FileGoto, FileIdle DEF FileInv
<1>8. FileShape'
  BY <1>1, <1>5, <1>7 DEF FileInv, FileShape, Storage!TypeOK
<1>9. fileDeleted \subseteq Items
  BY DEF FileInv, FileShape, Storage!TypeOK
<1>10. ASSUME fileOrderly, NEW r \in Slots
       PROVE  \/ FileCall(fileCalls[r])'
              \/ /\ fileCalls'[r] = fileCalls[r]
                 /\ fileCalls[r].pc = "delete" => fileCalls[r].item \notin fileDeleted'
  BY <1>1, <1>7, <1>10 DEF FileInv, FileGood, FileCall, Storage!Idle
<1>11. fileOrderly => \A i \in Items : FileJob(i)'
  BY <1>1, <1>5 DEF FileInv, FileGood, FileJob
<1> QED
  BY <1>1, <1>5, <1>6, <1>8, <1>9, <1>10, <1>11, FileChanges

LEMMA FileDeletePhoto ==
    ASSUME FileInv, NEW s \in Slots, Storage!DeletePhoto(s) PROVE FileInv'
<1> DEFINE c == fileCalls[s]
<1>1. /\ c.pc = "delete" /\ Storage!Goto(s, Storage!Idle)
      /\ filePhotos' = [filePhotos EXCEPT ![c.item] = @ \ {c.file}]
      /\ UNCHANGED <<fileStatus, fileDeleted, fileSigned, fileBucket, fileKnown, fileCleanup,
                     fileFound, fileOrderly>>
  BY DEF Storage!DeletePhoto
<1>2. c.item \in Items /\ c.file \in TwoFiles
  BY <1>1, FilePhotoCall
<1>3. filePhotos \in [Items -> SUBSET TwoFiles] /\ fileDeleted \subseteq Items
  BY DEF FileInv, FileShape, Storage!TypeOK
<1>4. fileOrderly => c.item \notin fileDeleted
  BY <1>1 DEF FileInv, FileGood, FileCall
<1> HIDE DEF c
<1>5. /\ filePhotos' \in [Items -> SUBSET TwoFiles]
      /\ \A i \in Items : filePhotos'[i] = IF i = c.item THEN filePhotos[i] \ {c.file}
                                           ELSE filePhotos[i]
  BY <1>1, <1>2, <1>3
<1>6. FileIsInOneItem'
  BY <1>5 DEF FileInv, FileIsInOneItem
<1>7. /\ fileCalls' \in [Slots -> Storage!Calls]
      /\ \A r \in Slots : fileCalls'[r] = IF r = s THEN Storage!Idle ELSE fileCalls[r]
  BY <1>1, FileGoto, FileIdle DEF FileInv
<1>8. FileShape'
  BY <1>1, <1>5, <1>7 DEF FileInv, FileShape, Storage!TypeOK
<1>9. fileOrderly => \A i \in fileDeleted : filePhotos'[i] = filePhotos[i]
  BY <1>3, <1>4, <1>5
<1>10. ASSUME fileOrderly, NEW r \in Slots
       PROVE  \/ FileCall(fileCalls[r])'
              \/ /\ fileCalls'[r] = fileCalls[r]
                 /\ fileCalls[r].pc = "delete" => fileCalls[r].item \notin fileDeleted'
  BY <1>1, <1>7, <1>10 DEF FileInv, FileGood, FileCall, Storage!Idle
<1>11. ASSUME fileOrderly, NEW i \in Items PROVE FileJob(i)'
  <2>1. FileJob(i)
    BY <1>11 DEF FileInv, FileGood
  <2>2. CASE i \in fileDeleted
    BY <1>1, <1>9, <1>11, <2>1, <2>2 DEF FileJob
  <2>3. CASE i \notin fileDeleted
    <3>1. fileCleanup[i].left = {}
      BY <2>1, <2>3 DEF FileJob, Storage!NoJob, Storage!Job
    <3> QED
      BY <1>1, <2>1, <3>1 DEF FileJob
  <2> QED
    BY <2>2, <2>3
<1> QED
  BY <1>1, <1>6, <1>8, <1>9, <1>10, <1>11, FileChanges

LEMMA FileSoftDelete ==
    ASSUME FileInv, NEW s \in Slots, NEW i \in Items, Storage!SoftDelete(s, i) PROVE FileInv'
<1> DEFINE c == [pc |-> "enqueue", item |-> i]
<1>1. /\ Storage!Goto(s, c) /\ fileDeleted' = fileDeleted \cup {i}
      /\ fileOrderly' = (fileOrderly /\ \A r \in Slots :
                            fileCalls[r].pc = "delete" => fileCalls[r].item # i)
      /\ UNCHANGED <<fileStatus, filePhotos, fileSigned, fileBucket, fileKnown, fileCleanup,
                     fileFound>>
  BY DEF Storage!SoftDelete, Storage!Begin
<1>2. c \in Storage!Calls
  BY DEF Storage!Calls
<1>3. /\ fileCalls' \in [Slots -> Storage!Calls]
      /\ \A r \in Slots : fileCalls'[r] = IF r = s THEN c ELSE fileCalls[r]
  BY <1>1, <1>2, FileGoto DEF FileInv
<1>4. FileShape'
  BY <1>1, <1>3 DEF FileInv, FileShape, Storage!TypeOK
<1>5. FileIsInOneItem'
  BY <1>1 DEF FileInv, FileIsInOneItem
<1>6. ASSUME fileOrderly', NEW r \in Slots
      PROVE  \/ FileCall(fileCalls[r])'
             \/ /\ fileCalls'[r] = fileCalls[r]
                /\ fileCalls[r].pc = "delete" => fileCalls[r].item \notin fileDeleted'
  <2>1. CASE r = s
    BY <1>1, <1>3, <2>1 DEF FileCall
  <2>2. CASE r # s
    BY <1>1, <1>3, <1>6, <2>2 DEF FileInv, FileGood, FileCall
  <2> QED
    BY <2>1, <2>2
<1>7. fileOrderly' => \A j \in Items : FileJob(j)'
  BY <1>1 DEF FileInv, FileGood, FileJob
<1> QED
  BY <1>1, <1>4, <1>5, <1>6, <1>7, FileChanges

LEMMA FileEnqueue ==
    ASSUME FileInv, NEW s \in Slots, Storage!Enqueue(s) PROVE FileInv'
<1> DEFINE c == fileCalls[s]
<1>1. /\ c.pc = "enqueue" /\ Storage!Goto(s, Storage!Idle)
      /\ fileCleanup' \in {fileCleanup, [fileCleanup EXCEPT ![c.item] = Storage!Queued]}
      /\ UNCHANGED <<fileStatus, fileDeleted, filePhotos, fileSigned, fileBucket, fileKnown,
                     fileFound, fileOrderly>>
  BY DEF Storage!Enqueue
<1>2. c.item \in Items
  BY <1>1, FilePhotoCall
<1>3. fileOrderly => c.item \in fileDeleted
  BY <1>1 DEF FileInv, FileGood, FileCall
<1>4. fileCleanup \in [Items -> [pc : {"none", "queued", "delete"}, left : SUBSET TwoFiles]]
  BY DEF FileInv, FileShape, Storage!TypeOK
<1> HIDE DEF c
<1>5. /\ fileCleanup' \in [Items -> [pc : {"none", "queued", "delete"}, left : SUBSET TwoFiles]]
      /\ \A i \in Items : \/ fileCleanup'[i] = fileCleanup[i]
                          \/ i = c.item /\ fileCleanup'[i].left = {}
  BY <1>1, <1>2, <1>4 DEF Storage!Queued, Storage!Job
<1>6. /\ fileCalls' \in [Slots -> Storage!Calls]
      /\ \A r \in Slots : fileCalls'[r] = IF r = s THEN Storage!Idle ELSE fileCalls[r]
  BY <1>1, FileGoto, FileIdle DEF FileInv
<1>7. FileShape'
  BY <1>1, <1>5, <1>6 DEF FileInv, FileShape, Storage!TypeOK
<1>8. FileIsInOneItem'
  BY <1>1 DEF FileInv, FileIsInOneItem
<1>9. ASSUME fileOrderly, NEW r \in Slots
      PROVE  \/ FileCall(fileCalls[r])'
             \/ /\ fileCalls'[r] = fileCalls[r]
                /\ fileCalls[r].pc = "delete" => fileCalls[r].item \notin fileDeleted'
  BY <1>1, <1>6, <1>9 DEF FileInv, FileGood, FileCall, Storage!Idle
<1>10. fileOrderly => \A i \in Items : FileJob(i)'
  BY <1>1, <1>3, <1>5 DEF FileInv, FileGood, FileJob
<1> QED
  BY <1>1, <1>7, <1>8, <1>9, <1>10, FileChanges

\* The cleanup's own steps change its job, and the bucket by a file that is
\* listed for deletion.
LEMMA FileCleanup ==
    ASSUME FileInv, NEW i \in Items,
           \/ Storage!Clean(i) \/ Storage!WorkerDies(i)
           \/ \E f \in TwoFiles : Storage!DeleteFile(i, f)
    PROVE  FileInv'
<1>1. /\ fileCleanup \in [Items -> [pc : {"none", "queued", "delete"}, left : SUBSET TwoFiles]]
      /\ filePhotos \in [Items -> SUBSET TwoFiles] /\ fileBucket \subseteq fileSigned
      /\ fileDeleted \subseteq Items
  BY DEF FileInv, FileShape, Storage!TypeOK
<1>2. /\ fileCleanup' \in [Items -> [pc : {"none", "queued", "delete"}, left : SUBSET TwoFiles]]
      /\ \A j \in Items \ {i} : fileCleanup'[j] = fileCleanup[j]
      /\ \/ fileCleanup'[i].left = filePhotos[i]
         \/ fileCleanup'[i].left \subseteq fileCleanup[i].left
      /\ fileCleanup[i].pc \in {"queued", "delete"}
  <2>1. CASE Storage!Clean(i)
    BY <1>1, <2>1 DEF Storage!Clean, Storage!Job, Storage!Queued
  <2>2. CASE Storage!WorkerDies(i)
    BY <1>1, <2>2 DEF Storage!WorkerDies, Storage!Job, Storage!Queued, Storage!Cleaning
  <2>3. ASSUME NEW f \in TwoFiles, Storage!DeleteFile(i, f)
        PROVE  /\ fileCleanup' \in [Items -> [pc : {"none", "queued", "delete"},
                                              left : SUBSET TwoFiles]]
               /\ \A j \in Items \ {i} : fileCleanup'[j] = fileCleanup[j]
               /\ fileCleanup'[i].left \subseteq fileCleanup[i].left
               /\ fileCleanup[i].pc = "delete"
    <3>1. /\ fileCleanup' = [fileCleanup EXCEPT ![i].left = @ \ {f}]
          /\ fileCleanup[i].pc = "delete"
      BY <2>3 DEF Storage!DeleteFile, Storage!Cleaning
    <3> QED
      BY <1>1, <3>1
  <2> QED
    BY <2>1, <2>2, <2>3
<1>3. /\ UNCHANGED <<fileStatus, fileDeleted, filePhotos, fileSigned, fileKnown, fileCalls,
                     fileFound, fileOrderly>>
      /\ fileBucket' \subseteq fileBucket
      /\ fileBucket \ fileBucket' \subseteq fileCleanup[i].left
  BY DEF Storage!Clean, Storage!WorkerDies, Storage!DeleteFile
<1>4. FileShape'
  BY <1>2, <1>3 DEF FileInv, FileShape, Storage!TypeOK
<1>5. FileIsInOneItem'
  BY <1>3 DEF FileInv, FileIsInOneItem
<1>6. fileOrderly => \A j \in Items : FileJob(j)
  BY DEF FileInv, FileGood
<1>7. fileOrderly => i \in fileDeleted /\ fileCleanup[i].left \subseteq filePhotos[i]
  BY <1>2, <1>6 DEF FileJob, Storage!NoJob, Storage!Job
<1>8. fileOrderly => \A j \in Items : FileJob(j)'
  BY <1>2, <1>3, <1>6, <1>7 DEF FileJob
<1>9. ASSUME fileOrderly, NEW r \in Slots
      PROVE  /\ fileCalls'[r] = fileCalls[r]
             /\ fileCalls[r].pc = "delete" => fileCalls[r].item \notin fileDeleted'
  BY <1>3, <1>9 DEF FileInv, FileGood, FileCall
<1> QED
  BY <1>3, <1>4, <1>5, <1>7, <1>8, <1>9, FileChanges

LEMMA FileNext == ASSUME FileInv, [Storage!Next]_fileVars PROVE FileInv'
<1>1. ASSUME NEW s \in Slots, NEW i \in Items, Storage!BeginPublish(s, i) \/ Storage!SoftDelete(s, i)
      PROVE  FileInv'
  BY <1>1, FileBeginPublish, FileSoftDelete
<1>2. ASSUME NEW s \in Slots, NEW i \in Items, NEW f \in TwoFiles,
             Storage!BeginAdd(s, i, f) \/ Storage!BeginDeletePhoto(s, i, f)
      PROVE  FileInv'
  BY <1>2, FileBeginAdd, FileBeginDelete
<1>3. ASSUME NEW s \in Slots, NEW f \in TwoFiles, Storage!Cached(s, f) \/ Storage!Head(s, f)
      PROVE  FileInv'
  BY <1>3, FileCached, FileHead
<1>4. ASSUME NEW s \in Slots, \/ Storage!Insert(s) \/ Storage!PublishFails(s) \/ Storage!Publish(s)
                              \/ Storage!DeletePhoto(s) \/ Storage!Enqueue(s)
      PROVE  FileInv'
  BY <1>4, FileInsert, FilePublishFails, FilePublish, FileDeletePhoto, FileEnqueue
<1>5. ASSUME NEW i \in Items, \/ \E keys \in SUBSET TwoFiles : Storage!Presign(i, keys)
                              \/ Storage!Unpublish(i)
      PROVE  FileInv'
  BY <1>5, FilePresign, FileUnpublish
<1>6. ASSUME NEW i \in Items, \/ Storage!Clean(i) \/ Storage!WorkerDies(i)
                              \/ \E f \in TwoFiles : Storage!DeleteFile(i, f)
      PROVE  FileInv'
  BY <1>6, FileCleanup
<1>7. ASSUME NEW f \in TwoFiles, Storage!Upload(f) \/ Storage!Forget(f) PROVE FileInv'
  BY <1>7, FileUploadOrForget
<1>8. CASE UNCHANGED fileVars
  <2>1. FileShape'
    BY <1>8 DEF FileInv, FileShape, Storage!TypeOK, fileVars
  <2>2. FileQuiet
    BY <1>8, <2>1 DEF FileQuiet, FileInv, FileGood, FileKept, fileVars
  <2> QED
    BY <2>2, FileQuietStep
<1>9. CASE Storage!Next
  BY <1>9, <1>1, <1>2, <1>3, <1>4, <1>5, <1>6, <1>7 DEF Storage!Next
<1> QED
  BY <1>8, <1>9

\* No live item shows a photo of a deleted one, so what it has found is there.
LEMMA FilesAreShown == FileInv => Storage!ShownPhotosExist
<1> SUFFICES ASSUME FileInv, fileOrderly, NEW i \in Items \ fileDeleted,
                    NEW f \in fileFound[i] \cap filePhotos[i]
             PROVE  f \in fileBucket
  BY DEF Storage!ShownPhotosExist, Storage!Live
<1>1. FileKept(f) /\ fileDeleted \subseteq Items
  BY DEF FileInv, FileGood, FileShape, Storage!TypeOK
<1> QED
  BY <1>1 DEF FileInv, FileIsInOneItem, FileKept

-----------------------------------------------------------------------------
(* PhotoOrder: the positions of the photos of one item.                    *)

\* The instance's name for the cardinality of the standard module.
LEMMA PhotoCardinality == \A S : Photos!Cardinality(S) = Cardinality(S)
  BY DEF Photos!Cardinality, Cardinality

\* A deletion has read a position, and no position is below 1.
PhotoRequests == {e \in Photos!Requests : e.pc = "delete" => e.at # 0}

PhotoShape ==
    /\ photoOrder \in [Photos!Rows -> Nat \ {0}]
    /\ Photos!Rows \subseteq Files /\ IsFiniteSet(Photos!Rows)
    /\ photoEdits \in [Slots -> PhotoRequests]
    /\ photoOrderly \in BOOLEAN /\ photoGap \in BOOLEAN

\* The largest position, 0 without photos.
PhotoLast(n) ==
    /\ n \in Nat /\ \A p \in Photos!Rows : photoOrder[p] <= n
    /\ IF Photos!Rows = {} THEN n = 0 ELSE \E p \in Photos!Rows : photoOrder[p] = n

\* What a request that nothing has met has read is still so.
PhotoFresh(e) == e.photo \notin Photos!Rows /\ Cardinality(Photos!Rows) < Limit
PhotoEdit(e) ==
    /\ e.pc = "max" => PhotoFresh(e)
    /\ e.pc = "insert" => PhotoFresh(e) /\ PhotoLast(e.last)
    /\ e.pc = "delete" => e.photo \in Photos!Rows /\ photoOrder[e.photo] = e.at

PhotoGood ==
    /\ \A r \in Slots : photoEdits[r] # Photos!Idle =>
          /\ PhotoEdit(photoEdits[r])
          /\ \A d \in Slots \ {r} : photoEdits[d] = Photos!Idle
    /\ Photos!Distinct
    /\ Cardinality(Photos!Rows) <= Limit
    /\ ~photoGap => Photos!Orders = 1..Cardinality(Photos!Rows)

PhotoInv == PhotoShape /\ (photoOrderly => PhotoGood)

LEMMA PhotoInit == Photos!Init => PhotoInv
<1> SUFFICES ASSUME Photos!Init PROVE PhotoInv
  OBVIOUS
<1>1. Photos!Rows = {} /\ Cardinality(Photos!Rows) = 0 /\ IsFiniteSet(Photos!Rows)
  BY FS_EmptySet DEF Photos!Init, Photos!Rows
<1>2. PhotoShape
  BY <1>1 DEF Photos!Init, Photos!Rows, PhotoShape, PhotoRequests, Photos!Requests, Photos!Idle
<1>3. Photos!Orders = 1..0
  BY <1>1 DEF Photos!Orders
<1>4. PhotoGood
  BY <1>1, <1>3, LimitAssumption DEF Photos!Init, PhotoGood, Photos!Distinct
<1> QED
  BY <1>2, <1>4 DEF PhotoInv

\* The aggregate answers the largest position.
LEMMA PhotoLargest == PhotoShape => PhotoLast(Photos!Largest)
<1> SUFFICES ASSUME PhotoShape PROVE PhotoLast(Photos!Largest)
  OBVIOUS
<1>1. CASE Photos!Rows = {}
  BY <1>1 DEF Photos!Largest, PhotoLast
<1>2. CASE Photos!Rows # {}
  <2>1. Photos!Orders \in SUBSET Nat /\ Photos!Orders # {}
    BY <1>2 DEF Photos!Orders, PhotoShape
  <2>2. IsFiniteSet(Photos!Orders)
    <3>1. photoOrder \in Surjection(Photos!Rows, Photos!Orders)
      BY DEF Surjection, Photos!Orders, PhotoShape
    <3> QED
      BY <3>1, FS_Surjection DEF PhotoShape
  <2>3. \E n \in Photos!Orders : \A m \in Photos!Orders : m <= n
    BY <2>1, <2>2, GreatestNumber DEF HasGreatest
  <2>4. Photos!Largest \in Photos!Orders /\ \A m \in Photos!Orders : m <= Photos!Largest
    BY <1>2, <2>3 DEF Photos!Largest
  <2> QED
    BY <1>2, <2>1, <2>4 DEF Photos!Orders, PhotoLast
<1> QED
  BY <1>1, <1>2

\* The requests move, and what the one that moves has to say is so.
PhotoMoved(r) ==
    /\ photoEdits'[r] \in PhotoRequests
    /\ photoEdits' = [photoEdits EXCEPT ![r] = photoEdits'[r]]
    /\ photoOrderly' \in BOOLEAN
    /\ photoOrderly' => /\ photoOrderly
                        /\ \A d \in Slots \ {r} : photoEdits[d] = Photos!Idle
                        /\ photoEdits'[r] # Photos!Idle => PhotoEdit(photoEdits[r])'

LEMMA PhotoReads ==
    ASSUME PhotoInv, NEW r \in Slots, PhotoMoved(r), UNCHANGED <<photoOrder, photoGap>>
    PROVE  PhotoInv'
<1>1. /\ photoEdits' \in [Slots -> PhotoRequests]
      /\ \A d \in Slots \ {r} : photoEdits'[d] = photoEdits[d]
  BY DEF PhotoMoved, PhotoInv, PhotoShape
<1>2. PhotoShape'
  BY <1>1 DEF PhotoInv, PhotoShape, PhotoMoved, Photos!Rows
<1>3. ASSUME photoOrderly' PROVE PhotoGood'
  <2>1. \A d \in Slots : photoEdits'[d] # Photos!Idle =>
            /\ PhotoEdit(photoEdits[d])'
            /\ \A e \in Slots \ {d} : photoEdits'[e] = Photos!Idle
    BY <1>1, <1>3 DEF PhotoMoved
  <2>2. /\ Photos!Distinct' /\ Cardinality(Photos!Rows)' <= Limit
        /\ (~photoGap => Photos!Orders = 1..Cardinality(Photos!Rows))'
    BY <1>3 DEF PhotoMoved, PhotoInv, PhotoGood, Photos!Distinct, Photos!Rows, Photos!Orders
  <2> QED
    BY <2>1, <2>2 DEF PhotoGood
<1> QED
  BY <1>2, <1>3 DEF PhotoInv

LEMMA PhotoBegins ==
    ASSUME PhotoInv, NEW r \in Slots, NEW e \in PhotoRequests, Photos!Begin(r, e),
           photoOrderly => PhotoEdit(e)
    PROVE  PhotoInv'
<1>1. /\ photoEdits[r] = Photos!Idle /\ photoEdits' = [photoEdits EXCEPT ![r] = e]
      /\ photoOrderly' = (photoOrderly /\ Photos!Quiet)
      /\ UNCHANGED <<photoOrder, photoGap>>
  BY DEF Photos!Begin
<1>2. photoEdits'[r] = e
  BY <1>1 DEF PhotoInv, PhotoShape
<1>3. PhotoEdit(e) => PhotoEdit(photoEdits[r])'
  BY <1>1, <1>2 DEF PhotoEdit, PhotoFresh, PhotoLast, Photos!Rows
<1>4. PhotoMoved(r)
  BY <1>1, <1>2, <1>3 DEF PhotoMoved, Photos!Quiet, PhotoInv, PhotoShape
<1> QED
  BY <1>1, <1>4, PhotoReads

LEMMA PhotoBegin ==
    ASSUME PhotoInv, NEW r \in Slots, NEW p \in Files,
           Photos!BeginDelete(r, p) \/ \E at \in Photos!Append..MaxOrder : Photos!BeginAdd(r, p, at)
    PROVE  PhotoInv'
<1>1. CASE Photos!BeginDelete(r, p)
  <2> DEFINE e == [pc |-> "delete", photo |-> p, at |-> photoOrder[p]]
  <2>1. p \in Photos!Rows /\ photoOrder[p] \in Nat \ {0}
    BY <1>1 DEF Photos!BeginDelete, PhotoInv, PhotoShape
  <2>2. e \in PhotoRequests
    <3>1. e \in [pc : {"delete"}, photo : Files, at : Nat] /\ e.at # 0
      BY <2>1
    <3> QED
      BY <3>1 DEF PhotoRequests, Photos!Requests
  <2>3. PhotoEdit(e)
    BY <2>1 DEF PhotoEdit
  <2> QED
    BY <1>1, <2>2, <2>3, PhotoBegins DEF Photos!BeginDelete
<1>2. ASSUME NEW at \in Photos!Append..MaxOrder, Photos!BeginAdd(r, p, at) PROVE PhotoInv'
  <2> DEFINE e == [pc |-> "max", photo |-> p, at |-> at]
  <2>1. e \in PhotoRequests /\ PhotoEdit(e)
    BY <1>2, PhotoCardinality
    DEF PhotoRequests, Photos!Requests, Photos!Positions, PhotoEdit, PhotoFresh, Photos!BeginAdd
  <2> QED
    BY <1>2, <2>1, PhotoBegins DEF Photos!BeginAdd
<1> QED
  BY <1>1, <1>2

\* The record of an insertion, before and after the aggregate.
LEMMA PhotoAdds ==
    ASSUME PhotoInv, NEW r \in Slots
    PROVE  /\ photoEdits[r].pc \in {"max", "insert"} =>
                 photoEdits[r].photo \in Files /\ photoEdits[r].at \in Photos!Append..MaxOrder
           /\ photoEdits[r].pc = "insert" => photoEdits[r].last \in Nat
           /\ photoEdits[r].pc = "delete" =>
                 photoEdits[r].photo \in Files /\ photoEdits[r].at \in Nat \ {0}
           /\ photoOrderly /\ photoEdits[r].pc \in {"max", "insert", "delete"} =>
                 /\ PhotoEdit(photoEdits[r])
                 /\ \A d \in Slots \ {r} : photoEdits[d] = Photos!Idle
<1>1. photoEdits[r] \in PhotoRequests
  BY DEF PhotoInv, PhotoShape
<1>2. photoEdits[r].pc \in {"max", "insert", "delete"} => photoEdits[r] # Photos!Idle
  BY DEF Photos!Idle
<1>3. photoOrderly /\ photoEdits[r] # Photos!Idle =>
         /\ PhotoEdit(photoEdits[r])
         /\ \A d \in Slots \ {r} : photoEdits[d] = Photos!Idle
  BY DEF PhotoInv, PhotoGood
<1>4. /\ photoEdits[r].pc \in {"max", "insert"} =>
            photoEdits[r].photo \in Files /\ photoEdits[r].at \in Photos!Append..MaxOrder
      /\ photoEdits[r].pc = "insert" => photoEdits[r].last \in Nat
      /\ photoEdits[r].pc = "delete" =>
            photoEdits[r].photo \in Files /\ photoEdits[r].at \in Nat \ {0}
  BY <1>1 DEF PhotoRequests, Photos!Requests, Photos!Positions, Photos!Idle
<1> QED
  BY <1>2, <1>3, <1>4

LEMMA PhotoReadMax == ASSUME PhotoInv, NEW r \in Slots, Photos!ReadMax(r) PROVE PhotoInv'
<1> DEFINE e == photoEdits[r]
           f == [pc |-> "insert", photo |-> e.photo, at |-> e.at, last |-> Photos!Largest]
<1>1. /\ e.pc = "max" /\ photoEdits' = [photoEdits EXCEPT ![r] = f]
      /\ UNCHANGED <<photoOrder, photoOrderly, photoGap>>
  BY DEF Photos!ReadMax
<1>2. PhotoLast(Photos!Largest) /\ Photos!Largest \in Nat
  BY PhotoLargest DEF PhotoInv, PhotoLast
<1>3. f \in PhotoRequests
  BY <1>1, <1>2, PhotoAdds DEF PhotoRequests, Photos!Requests, Photos!Positions
<1>4. photoOrderly => PhotoEdit(f) /\ \A d \in Slots \ {r} : photoEdits[d] = Photos!Idle
  <2>1. photoOrderly => PhotoFresh(e)
    BY <1>1, PhotoAdds DEF PhotoEdit
  <2>2. photoOrderly => PhotoEdit(f)
    BY <1>2, <2>1 DEF PhotoEdit, PhotoFresh
  <2> QED
    BY <1>1, <2>2, PhotoAdds
<1> HIDE DEF e, f
<1>5. photoEdits'[r] = f
  BY <1>1 DEF PhotoInv, PhotoShape
<1>6. PhotoEdit(f) => PhotoEdit(photoEdits[r])'
  BY <1>1, <1>5 DEF PhotoEdit, PhotoFresh, PhotoLast, Photos!Rows
<1>7. PhotoMoved(r)
  BY <1>1, <1>3, <1>4, <1>5, <1>6 DEF PhotoMoved, PhotoInv, PhotoShape
<1> QED
  BY <1>1, <1>7, PhotoReads

\* A request ends with the rows written: what has to be shown of a write that
\* keeps the type of the positions and, nothing having met it, what is good.
LEMMA PhotoWrites ==
    ASSUME PhotoInv, NEW r \in Slots, photoEdits[r] # Photos!Idle, Photos!Reply(r),
           UNCHANGED photoOrderly, photoGap' \in BOOLEAN,
           photoOrder' \in [Photos!Rows' -> Nat \ {0}],
           Photos!Rows' \subseteq Files, IsFiniteSet(Photos!Rows'),
           photoOrderly => /\ Photos!Distinct'
                           /\ Cardinality(Photos!Rows)' <= Limit
                           /\ (~photoGap => Photos!Orders = 1..Cardinality(Photos!Rows))'
    PROVE  PhotoInv'
<1>1. photoEdits' \in [Slots -> PhotoRequests]
  BY DEF PhotoInv, PhotoShape, Photos!Reply, PhotoRequests, Photos!Requests, Photos!Idle
<1>2. photoOrderly => \A d \in Slots : photoEdits'[d] = Photos!Idle
  BY DEF PhotoInv, PhotoShape, PhotoGood, Photos!Reply
<1>3. PhotoShape'
  BY <1>1 DEF PhotoShape, PhotoInv
<1>4. photoOrderly => PhotoGood'
  BY <1>2 DEF PhotoGood
<1> QED
  BY <1>3, <1>4 DEF PhotoInv

\* Nobody has met an insertion: the photos from its position on move up by one,
\* and with the new one they are numbered as before.
LEMMA PhotoInserted ==
    ASSUME PhotoShape, Photos!Distinct, NEW last, PhotoLast(last), NEW n \in Files,
           n \notin Photos!Rows, NEW t \in Nat \ {0}, NEW shifts \in BOOLEAN,
           shifts <=> t <= last,
           photoOrder' = [p \in Photos!Rows \cup {n} |->
                             IF p = n THEN t
                             ELSE IF shifts /\ photoOrder[p] >= t THEN photoOrder[p] + 1
                             ELSE photoOrder[p]]
    PROVE  /\ Photos!Distinct'
           /\ Photos!Orders = 1..Cardinality(Photos!Rows) /\ t <= last + 1 =>
                 (Photos!Orders = 1..Cardinality(Photos!Rows))'
<1>1. \A p \in Photos!Rows : photoOrder[p] \in Nat \ {0} /\ photoOrder[p] <= last
  BY DEF PhotoShape, PhotoLast
<1>2. last \in Nat
  BY DEF PhotoLast
<1>3. Photos!Rows' = Photos!Rows \cup {n}
  BY DEF Photos!Rows
<1>4. /\ photoOrder'[n] = t
      /\ \A p \in Photos!Rows : photoOrder'[p] = IF photoOrder[p] >= t THEN photoOrder[p] + 1
                                                 ELSE photoOrder[p]
  BY <1>1, <1>2
<1>5. Photos!Distinct'
  <2>1. SUFFICES ASSUME NEW p \in Photos!Rows \cup {n}, NEW q \in Photos!Rows \cup {n},
                        photoOrder'[p] = photoOrder'[q]
                 PROVE  p = q
    BY <1>3 DEF Photos!Distinct
  <2>2. CASE p = n \/ q = n
    BY <1>1, <1>4, <2>1, <2>2
  <2>3. CASE p # n /\ q # n
    <3>1. photoOrder[p] = photoOrder[q]
      BY <1>1, <1>4, <2>1, <2>3
    <3> QED
      BY <2>3, <3>1 DEF Photos!Distinct
  <2> QED
    BY <2>2, <2>3
<1>6. ASSUME Photos!Orders = 1..Cardinality(Photos!Rows), t <= last + 1
      PROVE  (Photos!Orders = 1..Cardinality(Photos!Rows))'
  <2> DEFINE size == Cardinality(Photos!Rows)
  <2>1. size \in Nat /\ Cardinality(Photos!Rows)' = size + 1
    BY <1>3, FS_CardinalityType, FS_AddElement DEF PhotoShape
  <2>2. \A m : m \in 1..size <=> \E p \in Photos!Rows : photoOrder[p] = m
    BY <1>6 DEF Photos!Orders
  <2>3. \A m : m \in Photos!Orders' <=> \E p \in Photos!Rows \cup {n} : photoOrder'[p] = m
    BY <1>3 DEF Photos!Orders
  <2> HIDE DEF size
  <2>4. last = size
    <3>1. CASE Photos!Rows = {}
      <4>1. size = 0
        BY <3>1, FS_EmptySet DEF size
      <4> QED
        BY <3>1, <4>1 DEF PhotoLast
    <3>2. CASE Photos!Rows # {}
      <4>1. PICK p \in Photos!Rows : photoOrder[p] = last
        BY <3>2 DEF PhotoLast
      <4>2. last <= size /\ last >= 1
        BY <1>1, <1>2, <2>1, <2>2, <4>1
      <4>3. size \in 1..size
        BY <1>2, <2>1, <4>2
      <4>4. size <= last
        BY <1>1, <2>2, <4>3
      <4> QED
        BY <1>2, <2>1, <4>2, <4>4
    <3> QED
      BY <3>1, <3>2
  <2>5. ASSUME NEW p \in Photos!Rows \cup {n} PROVE photoOrder'[p] \in 1..(size + 1)
    BY <1>1, <1>2, <1>4, <1>6, <2>1, <2>4
  <2>6. ASSUME NEW m \in 1..(size + 1) PROVE \E p \in Photos!Rows \cup {n} : photoOrder'[p] = m
    <3>1. CASE m = t
      BY <1>4, <3>1
    <3>2. CASE m < t
      <4>1. m \in 1..size
        BY <1>6, <2>1, <2>4, <3>2
      <4>2. PICK p \in Photos!Rows : photoOrder[p] = m
        BY <2>2, <4>1
      <4> QED
        BY <1>1, <1>4, <3>2, <4>2
    <3>3. CASE m > t
      <4>1. m - 1 \in 1..size
        BY <2>1, <3>3
      <4>2. PICK p \in Photos!Rows : photoOrder[p] = m - 1
        BY <2>2, <4>1
      <4> QED
        BY <1>1, <1>4, <3>3, <4>2
    <3> QED
      BY <2>1, <3>1, <3>2, <3>3
  <2>7. Photos!Orders' = 1..(size + 1)
    <3>1. Photos!Orders' \subseteq 1..(size + 1)
      <4>1. \A p \in Photos!Rows \cup {n} : photoOrder'[p] \in 1..(size + 1)
        BY <2>5
      <4>2. ASSUME NEW m \in Photos!Orders' PROVE m \in 1..(size + 1)
        <5>1. PICK p \in Photos!Rows \cup {n} : photoOrder'[p] = m
          BY <2>3
        <5> QED
          BY <4>1, <5>1, Zenon
      <4> QED
        BY <4>2, Zenon
    <3>2. 1..(size + 1) \subseteq Photos!Orders'
      BY <2>3, <2>6, Zenon
    <3> QED
      BY <3>1, <3>2
  <2> QED
    BY <2>1, <2>7 DEF size
<1> QED
  BY <1>5, <1>6

LEMMA PhotoInsert == ASSUME PhotoInv, NEW r \in Slots, Photos!Insert(r) PROVE PhotoInv'
<1> DEFINE e == photoEdits[r]
           t == Photos!Target(e)
<1>1. /\ e.pc = "insert" /\ Photos!Reply(r) /\ UNCHANGED photoOrderly
      /\ e.photo \in Photos!Rows => photoOrder' = photoOrder
      /\ e.photo \notin Photos!Rows =>
            photoOrder' = [p \in Photos!Rows \cup {e.photo} |->
                              IF p = e.photo THEN t
                              ELSE IF Photos!Shifts(e) /\ photoOrder[p] >= t
                                   THEN photoOrder[p] + 1
                              ELSE photoOrder[p]]
      /\ photoGap' = (photoGap \/ (e.photo \notin Photos!Rows /\ t > e.last + 1))
  BY DEF Photos!Insert, Photos!InsertWith, Photos!Inserted
<1>2. /\ e.photo \in Files /\ e.at \in Photos!Append..MaxOrder /\ e.last \in Nat
      /\ e # Photos!Idle
  BY <1>1, PhotoAdds DEF Photos!Idle
<1>3. t \in Nat \ {0}
  BY <1>2 DEF Photos!Target, Photos!Append
<1>4. /\ Photos!Shifts(e) \in BOOLEAN
      /\ Photos!Shifts(e) <=> t <= e.last
  BY <1>2 DEF Photos!Target, Photos!Shifts, Photos!Append
<1>5. photoOrderly => PhotoFresh(e) /\ PhotoLast(e.last)
  BY <1>1, PhotoAdds DEF PhotoEdit
<1>6. photoOrderly => /\ Photos!Distinct
                      /\ ~photoGap => Photos!Orders = 1..Cardinality(Photos!Rows)
  BY DEF PhotoInv, PhotoGood
<1>7. PhotoShape
  BY DEF PhotoInv
<1>8. photoGap' \in BOOLEAN
  BY <1>1, <1>7 DEF PhotoShape
<1> HIDE DEF e, t
<1>9. /\ photoOrder' \in [Photos!Rows' -> Nat \ {0}]
      /\ Photos!Rows' \subseteq Files /\ IsFiniteSet(Photos!Rows')
  <2>1. CASE e.photo \in Photos!Rows
    BY <1>1, <1>7, <2>1 DEF PhotoShape, Photos!Rows
  <2>2. CASE e.photo \notin Photos!Rows
    <3>1. Photos!Rows' = Photos!Rows \cup {e.photo}
      BY <1>1, <2>2 DEF Photos!Rows
    <3>2. photoOrder' \in [Photos!Rows \cup {e.photo} -> Nat \ {0}]
      BY <1>1, <1>3, <1>7, <2>2 DEF PhotoShape
    <3> QED
      BY <1>2, <1>7, <3>1, <3>2, FS_AddElement DEF PhotoShape
  <2> QED
    BY <2>1, <2>2
<1>10. ASSUME photoOrderly
       PROVE  /\ Photos!Distinct'
              /\ Cardinality(Photos!Rows)' <= Limit
              /\ (~photoGap => Photos!Orders = 1..Cardinality(Photos!Rows))'
  <2>1. e.photo \notin Photos!Rows /\ Cardinality(Photos!Rows) < Limit
    BY <1>5, <1>10 DEF PhotoFresh
  <2>2. Photos!Rows' = Photos!Rows \cup {e.photo}
    BY <1>1, <2>1 DEF Photos!Rows
  <2>3. Cardinality(Photos!Rows)' <= Limit
    <3>1. /\ Cardinality(Photos!Rows \cup {e.photo}) = Cardinality(Photos!Rows) + 1
          /\ Cardinality(Photos!Rows) \in Nat
      BY <1>7, <2>1, FS_AddElement, FS_CardinalityType DEF PhotoShape
    <3> QED
      BY <2>1, <2>2, <3>1, LimitAssumption
  <2>4. /\ Photos!Distinct'
        /\ Photos!Orders = 1..Cardinality(Photos!Rows) /\ t <= e.last + 1 =>
              (Photos!Orders = 1..Cardinality(Photos!Rows))'
    <3> DEFINE shifts == Photos!Shifts(e)
               last == e.last
    <3>1. /\ shifts \in BOOLEAN /\ (shifts <=> t <= last) /\ PhotoLast(last)
          /\ photoOrder' = [p \in Photos!Rows \cup {e.photo} |->
                               IF p = e.photo THEN t
                               ELSE IF shifts /\ photoOrder[p] >= t THEN photoOrder[p] + 1
                               ELSE photoOrder[p]]
      BY <1>1, <1>4, <1>5, <1>10, <2>1
    <3> HIDE DEF shifts, last
    <3>2. /\ Photos!Distinct'
          /\ Photos!Orders = 1..Cardinality(Photos!Rows) /\ t <= last + 1 =>
                (Photos!Orders = 1..Cardinality(Photos!Rows))'
      BY <1>2, <1>3, <1>6, <1>7, <1>10, <2>1, <3>1, PhotoInserted
    <3> QED
      BY <3>2 DEF last
  <2>5. ~photoGap' => ~photoGap /\ t <= e.last + 1
    <3>1. ~photoGap' => ~photoGap /\ ~(t > e.last + 1)
      BY <1>1, <2>1, Zenon
    <3> QED
      BY <1>2, <1>3, <3>1
  <2> QED
    BY <1>6, <1>10, <2>3, <2>4, <2>5
<1> QED
  BY <1>1, <1>2, <1>8, <1>9, <1>10, PhotoWrites DEF e


\* Nobody has met a deletion: the photos behind it move down by one, and the
\* others are numbered as before.
LEMMA PhotoDeleted ==
    ASSUME PhotoShape, Photos!Distinct, NEW d \in Photos!Rows,
           photoOrder' = [p \in Photos!Rows \ {d} |->
                             IF photoOrder[p] > photoOrder[d] THEN photoOrder[p] - 1
                             ELSE photoOrder[p]]
    PROVE  /\ Photos!Distinct'
           /\ Photos!Orders = 1..Cardinality(Photos!Rows) =>
                 (Photos!Orders = 1..Cardinality(Photos!Rows))'
<1> DEFINE t == photoOrder[d]
<1>1. t \in Nat \ {0} /\ \A p \in Photos!Rows : photoOrder[p] \in Nat \ {0}
  BY DEF PhotoShape
<1>2. Photos!Rows' = Photos!Rows \ {d}
  BY DEF Photos!Rows
<1>3. \A p \in Photos!Rows \ {d} :
          /\ photoOrder'[p] = IF photoOrder[p] > t THEN photoOrder[p] - 1 ELSE photoOrder[p]
          /\ photoOrder[p] # t
  BY DEF Photos!Distinct
<1> HIDE DEF t
<1>4. Photos!Distinct'
  <2>1. SUFFICES ASSUME NEW p \in Photos!Rows \ {d}, NEW q \in Photos!Rows \ {d},
                        photoOrder'[p] = photoOrder'[q]
                 PROVE  p = q
    BY <1>2 DEF Photos!Distinct
  <2>2. photoOrder[p] = photoOrder[q]
    BY <1>1, <1>3, <2>1
  <2> QED
    BY <2>2 DEF Photos!Distinct
<1>5. ASSUME Photos!Orders = 1..Cardinality(Photos!Rows)
      PROVE  (Photos!Orders = 1..Cardinality(Photos!Rows))'
  <2> DEFINE size == Cardinality(Photos!Rows)
  <2>1. size \in Nat /\ Cardinality(Photos!Rows)' = size - 1
    BY <1>2, FS_CardinalityType, FS_RemoveElement DEF PhotoShape
  <2>2. \A m : m \in 1..size <=> \E p \in Photos!Rows : photoOrder[p] = m
    BY <1>5 DEF Photos!Orders
  <2>3. \A m : m \in Photos!Orders' <=> \E p \in Photos!Rows \ {d} : photoOrder'[p] = m
    BY <1>2 DEF Photos!Orders
  <2>4. \A p \in Photos!Rows : photoOrder[p] \in 1..size
    BY <2>2, Zenon
  <2>5. t \in 1..size
    BY <2>4 DEF t
  <2> HIDE DEF size
  <2>6. ASSUME NEW p \in Photos!Rows \ {d} PROVE photoOrder'[p] \in 1..(size - 1)
    BY <1>1, <1>3, <2>1, <2>4, <2>5
  <2>7. ASSUME NEW m \in 1..(size - 1) PROVE \E p \in Photos!Rows \ {d} : photoOrder'[p] = m
    <3>1. CASE m < t
      <4>1. m \in 1..size
        BY <2>1
      <4>2. PICK p \in Photos!Rows : photoOrder[p] = m
        BY <2>2, <4>1
      <4>3. p # d
        BY <1>1, <3>1, <4>2 DEF t
      <4> QED
        BY <1>1, <1>3, <3>1, <4>2, <4>3
    <3>2. CASE m >= t
      <4>1. m + 1 \in 1..size
        BY <2>1
      <4>2. PICK p \in Photos!Rows : photoOrder[p] = m + 1
        BY <2>2, <4>1
      <4>3. p # d
        BY <1>1, <3>2, <4>2 DEF t
      <4> QED
        BY <1>1, <1>3, <3>2, <4>2, <4>3
    <3> QED
      BY <1>1, <3>1, <3>2
  <2>8. Photos!Orders' = 1..(size - 1)
    <3>1. \A m : m \in Photos!Orders' <=> m \in 1..(size - 1)
      BY <2>3, <2>6, <2>7, Zenon
    <3> QED
      BY <3>1
  <2> QED
    BY <2>1, <2>8 DEF size
<1> QED
  BY <1>4, <1>5

LEMMA PhotoDelete == ASSUME PhotoInv, NEW r \in Slots, Photos!Delete(r) PROVE PhotoInv'
<1> DEFINE e == photoEdits[r]
<1>1. /\ e.pc = "delete" /\ Photos!Reply(r) /\ UNCHANGED <<photoOrderly, photoGap>>
      /\ e.photo \notin Photos!Rows => photoOrder' = photoOrder
      /\ e.photo \in Photos!Rows =>
            photoOrder' = [p \in Photos!Rows \ {e.photo} |->
                              IF photoOrder[p] > e.at THEN photoOrder[p] - 1 ELSE photoOrder[p]]
  BY DEF Photos!Delete, Photos!DeleteWith
<1>2. e.photo \in Files /\ e.at \in Nat \ {0} /\ e # Photos!Idle
  BY <1>1, PhotoAdds DEF Photos!Idle
<1>3. photoOrderly => e.photo \in Photos!Rows /\ photoOrder[e.photo] = e.at
  BY <1>1, PhotoAdds DEF PhotoEdit
<1>4. photoOrderly => /\ Photos!Distinct /\ Cardinality(Photos!Rows) <= Limit
                      /\ ~photoGap => Photos!Orders = 1..Cardinality(Photos!Rows)
  BY DEF PhotoInv, PhotoGood
<1>5. PhotoShape
  BY DEF PhotoInv
<1> HIDE DEF e
<1>6. /\ photoOrder' \in [Photos!Rows' -> Nat \ {0}]
      /\ Photos!Rows' \subseteq Files /\ IsFiniteSet(Photos!Rows')
  <2>1. CASE e.photo \notin Photos!Rows
    BY <1>1, <1>5, <2>1 DEF PhotoShape, Photos!Rows
  <2>2. CASE e.photo \in Photos!Rows
    <3>1. Photos!Rows' = Photos!Rows \ {e.photo}
      BY <1>1, <2>2 DEF Photos!Rows
    <3>2. photoOrder' \in [Photos!Rows \ {e.photo} -> Nat \ {0}]
      BY <1>1, <1>2, <1>5, <2>2 DEF PhotoShape
    <3> QED
      BY <1>5, <3>1, <3>2, FS_RemoveElement DEF PhotoShape
  <2> QED
    BY <2>1, <2>2
<1>7. ASSUME photoOrderly
      PROVE  /\ Photos!Distinct'
             /\ Cardinality(Photos!Rows)' <= Limit
             /\ (~photoGap => Photos!Orders = 1..Cardinality(Photos!Rows))'
  <2>1. Photos!Rows' = Photos!Rows \ {e.photo}
    BY <1>1, <1>3, <1>7 DEF Photos!Rows
  <2>2. Cardinality(Photos!Rows)' <= Limit
    <3>1. /\ Cardinality(Photos!Rows \ {e.photo}) = Cardinality(Photos!Rows) - 1
          /\ Cardinality(Photos!Rows) \in Nat
      BY <1>3, <1>5, <1>7, FS_RemoveElement, FS_CardinalityType DEF PhotoShape
    <3> QED
      BY <1>4, <1>7, <2>1, <3>1, LimitAssumption
  <2>3. photoOrder' = [p \in Photos!Rows \ {e.photo} |->
                          IF photoOrder[p] > photoOrder[e.photo] THEN photoOrder[p] - 1
                          ELSE photoOrder[p]]
    BY <1>1, <1>3, <1>7
  <2>4. /\ Photos!Distinct'
        /\ Photos!Orders = 1..Cardinality(Photos!Rows) =>
              (Photos!Orders = 1..Cardinality(Photos!Rows))'
    BY <1>3, <1>4, <1>5, <1>7, <2>3, PhotoDeleted
  <2> QED
    BY <1>1, <1>4, <1>7, <2>2, <2>4
<1> QED
  BY <1>1, <1>2, <1>5, <1>6, <1>7, PhotoWrites DEF e, PhotoShape

LEMMA PhotoNext == ASSUME PhotoInv, [Photos!Next]_photoVars PROVE PhotoInv'
<1>1. ASSUME NEW r \in Slots, NEW p \in Files,
             \/ Photos!BeginDelete(r, p)
             \/ \E at \in Photos!Append..MaxOrder : Photos!BeginAdd(r, p, at)
      PROVE  PhotoInv'
  BY <1>1, PhotoBegin
<1>2. ASSUME NEW r \in Slots, Photos!ReadMax(r) \/ Photos!Insert(r) \/ Photos!Delete(r)
      PROVE  PhotoInv'
  BY <1>2, PhotoReadMax, PhotoInsert, PhotoDelete
<1>3. CASE UNCHANGED photoVars
  <2>1. PhotoShape'
    BY <1>3 DEF PhotoInv, PhotoShape, Photos!Rows, photoVars
  <2>2. photoOrderly => PhotoGood'
    BY <1>3 DEF PhotoInv, PhotoGood, PhotoEdit, PhotoFresh, PhotoLast, Photos!Distinct,
                Photos!Rows, Photos!Orders, photoVars
  <2> QED
    BY <1>3, <2>1, <2>2 DEF PhotoInv, photoVars
<1> QED
  BY <1>1, <1>2, <1>3 DEF Photos!Next

LEMMA PhotosAreInOrder == PhotoInv => Photos!PhotosInOrder
  BY PhotoCardinality
  DEF PhotoInv, PhotoGood, Photos!PhotosInOrder, Photos!WithinLimit, Photos!Dense

-----------------------------------------------------------------------------
(* DgiVerification: the tax certificate.                                   *)

DgiSubmits == [pc : {"idle", "deleteOld", "mark", "clear", "add"}, doc : Dgi!Keys, old : Dgi!Keys]

\* The worker is at work exactly while the job is active, and a job that may
\* run again has attempts left.
DgiShape ==
    /\ dgiRow \in [status : Dgi!DgiStatus, doc : Dgi!Keys, trusted : BOOLEAN]
    /\ dgiBucket \subseteq Docs /\ dgiSubmits \in [OneSlot -> DgiSubmits]
    /\ dgiJob \in [state : {"none", "waiting", "active", "finished"}, doc : Dgi!Keys, left : 0..3]
    /\ dgiWorker \in {"idle", "download", "verify", "review", "reject", "rejected", "notify",
                      "done"}
    /\ dgiOnFailed \in {"idle", "read", "write"} /\ dgiWatchdog \in {"idle", "write"}
    /\ dgiAdmin \in [pc : {"idle", "looks", "approve", "rejects"}, doc : Dgi!Keys]
    /\ dgiCleanup \in [pc : {"idle", "delete"}, old : SUBSET Docs]
    /\ dgiChecked \in Dgi!Keys /\ dgiFaults \in 0..OneFault
    /\ dgiWorker # "idle" <=> dgiJob.state = "active"
    /\ Dgi!JobLive => dgiJob.left # 0

\* A submission under way: until it marks the row, the row can be submitted;
\* from then on the row is about its document, which is in the bucket.
DgiSubmission(c) ==
    /\ c.doc \in dgiBucket
    /\ c.pc = "deleteOld" => c.old # c.doc
    /\ IF c.pc \in {"clear", "add"} THEN dgiRow.status = "PROCESSING" /\ dgiRow.doc = c.doc
       ELSE dgiRow.status \notin {"VERIFIED_AUTO", "PROCESSING"}

DgiUnreviewed == dgiAdmin = Dgi!NoReview /\ dgiWatchdog = "idle" /\ dgiOnFailed = "idle"
DgiUncleaned == dgiCleanup = Dgi!NoCleanup

\* Nothing has overlapped: whoever is under way is alone, and what it has read
\* is still so.
DgiAlone ==
    /\ \A s \in OneSlot : dgiSubmits[s] # Dgi!NoSubmit =>
          /\ DgiSubmission(dgiSubmits[s])
          /\ \A t \in OneSlot \ {s} : dgiSubmits[t] = Dgi!NoSubmit
          /\ ~Dgi!JobLive /\ DgiUnreviewed /\ DgiUncleaned
    /\ Dgi!JobLive =>
          /\ DgiUnreviewed /\ DgiUncleaned
          /\ dgiJob.doc = dgiRow.doc
          /\ dgiWorker \notin {"notify", "done"} => dgiRow.status = "PROCESSING"
    /\ dgiOnFailed = "idle"
    /\ dgiAdmin # Dgi!NoReview =>
          /\ dgiWatchdog = "idle" /\ DgiUncleaned
          /\ dgiRow.status = "PENDING_MANUAL_REVIEW" /\ dgiAdmin.doc = dgiRow.doc
    /\ dgiWatchdog # "idle" => DgiUncleaned /\ dgiRow.status = "PROCESSING"
    /\ dgiRow.doc \notin dgiCleanup.old

DgiVerified ==
    /\ dgiRow.trusted <=> dgiRow.status = "VERIFIED_AUTO"
    /\ dgiRow.status = "VERIFIED_AUTO" => dgiChecked = dgiRow.doc

DgiStored ==
    (\A s \in OneSlot : dgiSubmits[s] = Dgi!NoSubmit) /\ dgiRow.doc # NoDoc =>
        dgiRow.doc \in dgiBucket

DgiFlags == dgiQueueEnabled \in BOOLEAN /\ dgiStale \in BOOLEAN /\ dgiOrderly \in BOOLEAN

DgiInv == DgiShape /\ DgiFlags /\ (dgiOrderly => DgiAlone /\ DgiVerified /\ DgiStored)

LEMMA DgiInit == Dgi!Init => DgiInv
<1> SUFFICES ASSUME Dgi!Init PROVE DgiInv
  OBVIOUS
<1>1. DgiShape
  BY FaultAssumption
  DEF Dgi!Init, DgiShape, Dgi!TypeOK, DgiSubmits, Dgi!Keys, Dgi!NoSubmit, Dgi!NoJob, Dgi!NoReview,
      Dgi!NoCleanup, Dgi!JobLive, Dgi!DgiStatus, Dgi!Attempts
<1>0. DgiFlags
  BY DEF Dgi!Init, DgiFlags
<1>2. DgiAlone
  BY DEF Dgi!Init, DgiAlone, Dgi!JobLive, Dgi!NoJob, Dgi!NoCleanup
<1>3. DgiVerified /\ DgiStored
  BY DEF Dgi!Init, DgiVerified, DgiStored
<1> QED
  BY <1>0, <1>1, <1>2, <1>3 DEF DgiInv

\* What begins with nobody under way finds nobody.
LEMMA DgiNobody ==
    Dgi!Others = 0 =>
        /\ \A s \in OneSlot : dgiSubmits[s] = Dgi!NoSubmit
        /\ ~Dgi!JobLive /\ DgiUnreviewed /\ DgiUncleaned
<1>1. Dgi!Others = 0 => /\ ~Dgi!Submitting /\ ~Dgi!JobLive /\ ~Dgi!Reviewing
                        /\ dgiCleanup = Dgi!NoCleanup
  BY DEF Dgi!Others, Dgi!Busy
<1> QED
  BY <1>1 DEF Dgi!Submitting, Dgi!Reviewing, DgiUnreviewed, DgiUncleaned

\* Upload, RowAges: the bucket may grow and the clock moves.
LEMMA DgiClock ==
    ASSUME DgiInv, Dgi!RowAges \/ \E d \in Docs : Dgi!Upload(d)
    PROVE  DgiInv'
<1>1. /\ UNCHANGED <<dgiQueueEnabled, dgiRow, dgiSubmits, dgiJob, dgiWorker, dgiOnFailed, dgiAdmin,
                     dgiWatchdog, dgiCleanup, dgiChecked, dgiOrderly, dgiFaults>>
      /\ dgiBucket \subseteq dgiBucket' /\ (dgiBucket \subseteq Docs => dgiBucket' \subseteq Docs)
      /\ dgiStale' \in {dgiStale, TRUE}
  BY DEF Dgi!RowAges, Dgi!Upload, Dgi!actors
<1>2. DgiShape'
  BY <1>1 DEF DgiInv, DgiShape, Dgi!JobLive
<1>4. DgiFlags'
  BY <1>1 DEF DgiInv, DgiFlags
<1>3. ASSUME dgiOrderly PROVE DgiAlone' /\ DgiVerified' /\ DgiStored'
  <2>1. DgiAlone'
    BY <1>1, <1>3 DEF DgiInv, DgiAlone, DgiSubmission, DgiUnreviewed, DgiUncleaned, Dgi!JobLive
  <2>2. DgiVerified' /\ DgiStored'
    BY <1>1, <1>3 DEF DgiInv, DgiVerified, DgiStored
  <2> QED
    BY <2>1, <2>2
<1> QED
  BY <1>1, <1>2, <1>3, <1>4 DEF DgiInv

LEMMA DgiBeginSubmit ==
    ASSUME DgiInv, NEW s \in OneSlot, NEW d \in Docs, Dgi!BeginSubmit(s, d)
    PROVE  DgiInv'
<1> DEFINE c == [pc |-> IF dgiRow.doc \in {NoDoc, d} THEN "mark" ELSE "deleteOld",
                 doc |-> d, old |-> dgiRow.doc]
<1>1. /\ d \in dgiBucket /\ dgiRow.status \notin {"VERIFIED_AUTO", "PROCESSING"}
      /\ dgiSubmits' = [dgiSubmits EXCEPT ![s] = c]
      /\ dgiOrderly' = (dgiOrderly /\ Dgi!Others = 0)
      /\ UNCHANGED <<dgiQueueEnabled, dgiRow, dgiBucket, dgiStale, dgiJob, dgiWorker, dgiOnFailed,
                     dgiAdmin, dgiWatchdog, dgiCleanup, dgiChecked, dgiFaults>>
  BY DEF Dgi!BeginSubmit, Dgi!CanSubmit, Dgi!Begins, Dgi!subject
<1>2. c \in DgiSubmits /\ c.doc = d /\ (c.pc = "deleteOld" => c.old # d)
      /\ c.pc \notin {"clear", "add"}
  BY DEF DgiInv, DgiShape, Dgi!Keys, DgiSubmits
<1> HIDE DEF c
<1>3. /\ dgiSubmits' \in [OneSlot -> DgiSubmits]
      /\ \A t \in OneSlot : dgiSubmits'[t] = IF t = s THEN c ELSE dgiSubmits[t]
  BY <1>1, <1>2 DEF DgiInv, DgiShape
<1>4. DgiShape'
  BY <1>1, <1>3 DEF DgiInv, DgiShape, Dgi!JobLive
<1>6. DgiFlags'
  BY <1>1 DEF DgiInv, DgiFlags
<1>5. ASSUME dgiOrderly' PROVE DgiAlone' /\ DgiVerified' /\ DgiStored'
  <2>1. dgiOrderly /\ DgiAlone /\ DgiVerified /\ DgiStored
    BY <1>1, <1>5 DEF DgiInv
  <2>2. /\ \A t \in OneSlot : dgiSubmits[t] = Dgi!NoSubmit
        /\ ~Dgi!JobLive /\ DgiUnreviewed /\ DgiUncleaned
    BY <1>1, <1>5, DgiNobody
  <2>3. DgiSubmission(c)
    BY <1>1, <1>2 DEF DgiSubmission
  <2>4. DgiSubmission(dgiSubmits[s])'
    BY <1>1, <1>3, <2>3 DEF DgiSubmission
  <2>5. DgiAlone'
    BY <1>1, <1>3, <2>1, <2>2, <2>4 DEF DgiAlone, DgiUnreviewed, DgiUncleaned, Dgi!JobLive
  <2>6. DgiVerified'
    BY <1>1, <2>1 DEF DgiVerified
  <2>7. DgiStored'
    BY <1>1, <1>3, <2>1, <2>2 DEF DgiStored
  <2> QED
    BY <2>5, <2>6, <2>7
<1> QED
  BY <1>4, <1>5, <1>6 DEF DgiInv


\* A step of a submission keeps its document.
LEMMA DgiSubmitStep ==
    ASSUME DgiInv, NEW s \in OneSlot, NEW from \in {"deleteOld", "mark", "clear", "add"},
           NEW to \in {"idle", "mark", "clear", "add"}, Dgi!Step(s, from, to)
    PROVE  /\ dgiSubmits[s].pc = from /\ dgiSubmits[s] \in DgiSubmits
           /\ dgiSubmits[s] # Dgi!NoSubmit
           /\ dgiSubmits' \in [OneSlot -> DgiSubmits]
           /\ \A t \in OneSlot \ {s} : dgiSubmits'[t] = dgiSubmits[t]
           /\ IF to = "idle" THEN dgiSubmits'[s] = Dgi!NoSubmit
              ELSE /\ dgiSubmits'[s].pc = to /\ dgiSubmits'[s].doc = dgiSubmits[s].doc
                   /\ dgiSubmits'[s] # Dgi!NoSubmit
           /\ UNCHANGED <<dgiQueueEnabled, dgiWorker, dgiOnFailed, dgiAdmin, dgiWatchdog,
                          dgiCleanup>>
<1> DEFINE c == IF to = "idle" THEN Dgi!NoSubmit ELSE [dgiSubmits[s] EXCEPT !.pc = to]
<1>1. /\ dgiSubmits[s].pc = from /\ dgiSubmits' = [dgiSubmits EXCEPT ![s] = c]
      /\ UNCHANGED <<dgiQueueEnabled, dgiWorker, dgiOnFailed, dgiAdmin, dgiWatchdog, dgiCleanup>>
  BY DEF Dgi!Step
<1>2. dgiSubmits[s] \in DgiSubmits /\ dgiSubmits \in [OneSlot -> DgiSubmits]
  BY DEF DgiInv, DgiShape
<1>3. dgiSubmits[s] # Dgi!NoSubmit
  BY <1>1 DEF Dgi!NoSubmit
<1>4. c \in DgiSubmits
  BY <1>2 DEF DgiSubmits, Dgi!NoSubmit, Dgi!Keys
<1>5. /\ to = "idle" => c = Dgi!NoSubmit
      /\ to # "idle" => c.pc = to /\ c.doc = dgiSubmits[s].doc /\ c # Dgi!NoSubmit
  BY <1>2 DEF DgiSubmits, Dgi!NoSubmit
<1> HIDE DEF c
<1>6. /\ dgiSubmits' \in [OneSlot -> DgiSubmits] /\ dgiSubmits'[s] = c
      /\ \A t \in OneSlot \ {s} : dgiSubmits'[t] = dgiSubmits[t]
  BY <1>1, <1>2, <1>4
<1> QED
  BY <1>1, <1>2, <1>3, <1>5, <1>6

\* What a step of an orderly submission starts from.
LEMMA DgiSubmitAlone ==
    ASSUME DgiInv, dgiOrderly, NEW s \in OneSlot, dgiSubmits[s] # Dgi!NoSubmit
    PROVE  /\ DgiSubmission(dgiSubmits[s])
           /\ \A t \in OneSlot \ {s} : dgiSubmits[t] = Dgi!NoSubmit
           /\ ~Dgi!JobLive /\ DgiUnreviewed /\ DgiUncleaned /\ DgiVerified
BY DEF DgiInv, DgiAlone

\* Where it ends: the conjuncts of DgiAlone that are about somebody else hold
\* of nobody.
LEMMA DgiSubmitMoves ==
    ASSUME NEW s \in OneSlot,
           \A t \in OneSlot \ {s} : dgiSubmits'[t] = Dgi!NoSubmit,
           (dgiSubmits[s] # Dgi!NoSubmit => DgiSubmission(dgiSubmits[s]))',
           (~Dgi!JobLive /\ DgiUnreviewed /\ DgiUncleaned)'
    PROVE  DgiAlone'
<1>1. dgiRow.doc' \notin dgiCleanup.old'
  BY DEF DgiUncleaned, Dgi!NoCleanup
<1> QED
  BY <1>1 DEF DgiAlone, DgiUnreviewed

LEMMA DgiDeleteOld == ASSUME DgiInv, NEW s \in OneSlot, Dgi!DeleteOld(s) PROVE DgiInv'
<1> DEFINE c == dgiSubmits[s]
<1>1. /\ Dgi!Step(s, "deleteOld", "mark") /\ dgiBucket' = dgiBucket \ {c.old}
      /\ UNCHANGED <<dgiRow, dgiStale, dgiJob, dgiChecked, dgiOrderly, dgiFaults>>
  BY DEF Dgi!DeleteOld, Dgi!Goes
<1>2. /\ c.pc = "deleteOld" /\ c # Dgi!NoSubmit
      /\ dgiSubmits' \in [OneSlot -> DgiSubmits]
      /\ \A t \in OneSlot \ {s} : dgiSubmits'[t] = dgiSubmits[t]
      /\ dgiSubmits'[s].pc = "mark" /\ dgiSubmits'[s].doc = c.doc /\ dgiSubmits'[s] # Dgi!NoSubmit
      /\ UNCHANGED <<dgiQueueEnabled, dgiWorker, dgiOnFailed, dgiAdmin, dgiWatchdog, dgiCleanup>>
  BY <1>1, DgiSubmitStep
<1> HIDE DEF c
<1>3. DgiShape' /\ DgiFlags'
  BY <1>1, <1>2 DEF DgiInv, DgiShape, DgiFlags, Dgi!JobLive
<1>4. ASSUME dgiOrderly PROVE DgiAlone' /\ DgiVerified' /\ DgiStored'
  <2>1. /\ DgiSubmission(c) /\ \A t \in OneSlot \ {s} : dgiSubmits[t] = Dgi!NoSubmit
        /\ ~Dgi!JobLive /\ DgiUnreviewed /\ DgiUncleaned /\ DgiVerified
    BY <1>2, <1>4, DgiSubmitAlone DEF c
  <2>2. DgiSubmission(dgiSubmits[s])'
    BY <1>1, <1>2, <2>1 DEF DgiSubmission
  <2>3. (~Dgi!JobLive /\ DgiUnreviewed /\ DgiUncleaned)'
    BY <1>1, <1>2, <2>1 DEF DgiUnreviewed, DgiUncleaned, Dgi!JobLive
  <2>4. DgiAlone'
    BY <1>2, <2>1, <2>2, <2>3, DgiSubmitMoves
  <2>5. DgiVerified' /\ DgiStored'
    BY <1>1, <1>2, <2>1 DEF DgiVerified, DgiStored
  <2> QED
    BY <2>4, <2>5
<1> QED
  BY <1>1, <1>3, <1>4 DEF DgiInv

LEMMA DgiMark == ASSUME DgiInv, NEW s \in OneSlot, Dgi!Mark(s) PROVE DgiInv'
<1> DEFINE c == dgiSubmits[s]
           to == IF dgiQueueEnabled THEN "clear" ELSE "idle"
<1>1. /\ Dgi!Step(s, "mark", to) /\ dgiStale' = FALSE
      /\ dgiRow' = [dgiRow EXCEPT !.status = "PROCESSING", !.doc = c.doc]
      /\ UNCHANGED <<dgiBucket, dgiJob, dgiChecked, dgiOrderly, dgiFaults>>
  BY DEF Dgi!Mark, Dgi!Goes
<1>2. to \in {"idle", "clear"}
  OBVIOUS
<1>3. dgiRow \in [status : Dgi!DgiStatus, doc : Dgi!Keys, trusted : BOOLEAN]
  BY DEF DgiInv, DgiShape
<1> HIDE DEF c, to
<1>4. /\ c.pc = "mark" /\ c # Dgi!NoSubmit /\ c \in DgiSubmits
      /\ dgiSubmits' \in [OneSlot -> DgiSubmits]
      /\ \A t \in OneSlot \ {s} : dgiSubmits'[t] = dgiSubmits[t]
      /\ \/ dgiSubmits'[s] = Dgi!NoSubmit
         \/ dgiSubmits'[s].pc = "clear" /\ dgiSubmits'[s].doc = c.doc
      /\ UNCHANGED <<dgiQueueEnabled, dgiWorker, dgiOnFailed, dgiAdmin, dgiWatchdog, dgiCleanup>>
  BY <1>1, <1>2, DgiSubmitStep DEF c
<1>5. /\ dgiRow' \in [status : Dgi!DgiStatus, doc : Dgi!Keys, trusted : BOOLEAN]
      /\ dgiRow'.status = "PROCESSING" /\ dgiRow'.doc = c.doc /\ dgiRow'.trusted = dgiRow.trusted
  BY <1>1, <1>3, <1>4 DEF Dgi!DgiStatus, DgiSubmits
<1>6. DgiShape'
  BY <1>1, <1>4, <1>5 DEF DgiInv, DgiShape, Dgi!JobLive
<1>7. DgiFlags'
  BY <1>1, <1>4 DEF DgiInv, DgiFlags
<1>8. ASSUME dgiOrderly PROVE DgiAlone' /\ DgiVerified' /\ DgiStored'
  <2>1. /\ DgiSubmission(c) /\ \A t \in OneSlot \ {s} : dgiSubmits[t] = Dgi!NoSubmit
        /\ ~Dgi!JobLive /\ DgiUnreviewed /\ DgiUncleaned /\ DgiVerified
    BY <1>4, <1>8, DgiSubmitAlone DEF c
  <2>2. c.doc \in dgiBucket /\ dgiRow.status # "VERIFIED_AUTO" /\ ~dgiRow.trusted
    BY <1>4, <2>1 DEF DgiSubmission, DgiVerified
  <2>3. (dgiSubmits[s] # Dgi!NoSubmit => DgiSubmission(dgiSubmits[s]))'
    BY <1>1, <1>4, <1>5, <2>2 DEF DgiSubmission
  <2>4. (~Dgi!JobLive /\ DgiUnreviewed /\ DgiUncleaned)'
    BY <1>1, <1>4, <2>1 DEF DgiUnreviewed, DgiUncleaned, Dgi!JobLive
  <2>5. DgiAlone'
    BY <1>4, <2>1, <2>3, <2>4, DgiSubmitMoves
  <2>6. DgiVerified' /\ DgiStored'
    BY <1>1, <1>5, <2>2 DEF DgiVerified, DgiStored
  <2> QED
    BY <2>5, <2>6
<1> QED
  BY <1>1, <1>6, <1>7, <1>8 DEF DgiInv

\* clearFinishedVerifyJob, verifyQueue.add
LEMMA DgiEnqueue ==
    ASSUME DgiInv, NEW s \in OneSlot, Dgi!Clear(s) \/ Dgi!Add(s) PROVE DgiInv'
<1> DEFINE c == dgiSubmits[s]
           fresh == [state |-> "waiting", doc |-> c.doc, left |-> Dgi!Attempts]
<1>1. /\ \/ Dgi!Step(s, "clear", "add") /\ dgiJob' \in {dgiJob, Dgi!NoJob}
            /\ (dgiJob.state # "finished" => dgiJob' = dgiJob)
         \/ Dgi!Step(s, "add", "idle") /\ dgiJob' = IF dgiJob = Dgi!NoJob THEN fresh ELSE dgiJob
      /\ UNCHANGED <<dgiRow, dgiBucket, dgiStale, dgiChecked, dgiOrderly, dgiFaults>>
  BY DEF Dgi!Clear, Dgi!Add, Dgi!Goes, Dgi!subject
<1>2. /\ c.pc \in {"clear", "add"} /\ c # Dgi!NoSubmit /\ c \in DgiSubmits
      /\ dgiSubmits' \in [OneSlot -> DgiSubmits]
      /\ \A t \in OneSlot \ {s} : dgiSubmits'[t] = dgiSubmits[t]
      /\ IF c.pc = "add" THEN dgiSubmits'[s] = Dgi!NoSubmit
         ELSE dgiSubmits'[s].pc = "add" /\ dgiSubmits'[s].doc = c.doc
      /\ UNCHANGED <<dgiQueueEnabled, dgiWorker, dgiOnFailed, dgiAdmin, dgiWatchdog, dgiCleanup>>
  <2>1. CASE Dgi!Step(s, "clear", "add")
    BY <2>1, DgiSubmitStep
  <2>2. CASE Dgi!Step(s, "add", "idle")
    BY <2>2, DgiSubmitStep
  <2> QED
    BY <1>1, <2>1, <2>2
<1>3. /\ c.pc = "add" => dgiJob' = IF dgiJob = Dgi!NoJob THEN fresh ELSE dgiJob
      /\ c.pc = "clear" => /\ dgiJob' \in {dgiJob, Dgi!NoJob}
                           /\ dgiJob.state # "finished" => dgiJob' = dgiJob
  BY <1>1 DEF Dgi!Step
<1>4. dgiJob \in [state : {"none", "waiting", "active", "finished"}, doc : Dgi!Keys, left : 0..3]
  BY DEF DgiInv, DgiShape
<1>5. /\ fresh \in [state : {"none", "waiting", "active", "finished"}, doc : Dgi!Keys, left : 0..3]
      /\ fresh.state = "waiting" /\ fresh.doc = c.doc /\ fresh.left = 3
      /\ Dgi!NoJob \in [state : {"none", "waiting", "active", "finished"}, doc : Dgi!Keys,
                        left : 0..3]
      /\ Dgi!NoJob.state = "none"
  BY <1>2 DEF DgiSubmits, Dgi!Attempts, Dgi!NoJob, Dgi!Keys
<1> HIDE DEF c, fresh
<1>6. /\ dgiJob' \in [state : {"none", "waiting", "active", "finished"}, doc : Dgi!Keys, left : 0..3]
      /\ \/ dgiJob' = dgiJob
         \/ dgiJob.state = "finished" /\ dgiJob'.state = "none"
         \/ /\ dgiJob.state = "none" /\ dgiJob'.state = "waiting" /\ dgiJob'.left = 3
            /\ dgiJob'.doc = c.doc /\ c.pc = "add"
  BY <1>2, <1>3, <1>4, <1>5
<1>7. DgiShape' /\ DgiFlags'
  <2>1. dgiWorker' # "idle" <=> dgiJob'.state = "active"
    BY <1>2, <1>6 DEF DgiInv, DgiShape
  <2>2. Dgi!JobLive' => dgiJob'.left # 0
    BY <1>6 DEF DgiInv, DgiShape, Dgi!JobLive
  <2>3. DgiFlags'
    BY <1>1, <1>2 DEF DgiInv, DgiFlags
  <2> QED
    BY <1>1, <1>2, <1>6, <2>1, <2>2, <2>3 DEF DgiInv, DgiShape
<1>8. ASSUME dgiOrderly PROVE DgiAlone' /\ DgiVerified' /\ DgiStored'
  <2>1. /\ DgiSubmission(c) /\ \A t \in OneSlot \ {s} : dgiSubmits[t] = Dgi!NoSubmit
        /\ ~Dgi!JobLive /\ DgiUnreviewed /\ DgiUncleaned /\ DgiVerified
    BY <1>2, <1>8, DgiSubmitAlone DEF c
  <2>2. c.doc \in dgiBucket /\ dgiRow.status = "PROCESSING" /\ dgiRow.doc = c.doc
    BY <1>2, <2>1 DEF DgiSubmission
  <2>3. (dgiSubmits[s] # Dgi!NoSubmit => DgiSubmission(dgiSubmits[s]))'
    BY <1>1, <1>2, <2>2 DEF DgiSubmission
  <2>4. (DgiUnreviewed /\ DgiUncleaned)'
    BY <1>1, <1>2, <2>1 DEF DgiUnreviewed, DgiUncleaned
  <2>5. DgiVerified' /\ DgiStored'
    BY <1>1, <1>2, <2>1, <2>2 DEF DgiVerified, DgiStored
  <2>6. DgiAlone'
    <3>1. CASE ~Dgi!JobLive'
      BY <1>2, <2>1, <2>3, <2>4, <3>1, DgiSubmitMoves
    <3>2. CASE Dgi!JobLive'
      <4>1. c.pc = "add" /\ dgiJob'.state = "waiting" /\ dgiJob'.doc = c.doc
        BY <1>6, <2>1, <3>2 DEF Dgi!JobLive
      <4>2. \A t \in OneSlot : dgiSubmits'[t] = Dgi!NoSubmit
        BY <1>2, <2>1, <4>1
      <4> QED
        BY <1>1, <2>2, <2>4, <4>1, <4>2 DEF DgiAlone, DgiUnreviewed, DgiUncleaned, Dgi!NoCleanup
    <3> QED
      BY <3>1, <3>2
  <2> QED
    BY <2>5, <2>6
<1> QED
  BY <1>1, <1>7, <1>8 DEF DgiInv


\* The worker moves; nobody else does.
DgiWorks ==
    /\ UNCHANGED <<dgiQueueEnabled, dgiBucket, dgiStale, dgiSubmits, dgiOnFailed, dgiAdmin,
                   dgiWatchdog, dgiCleanup>>
    /\ dgiWorker' \in {"idle", "download", "verify", "review", "reject", "rejected", "notify",
                       "done"}

\* Once the worker has its job, what it writes is about the job's document.
LEMMA DgiWorkStep ==
    ASSUME DgiInv, DgiWorks, dgiWorker # "idle", dgiWorker' # "idle",
           UNCHANGED <<dgiJob, dgiOrderly, dgiFaults>>,
           dgiRow' \in [status : Dgi!DgiStatus, doc : Dgi!Keys, trusted : BOOLEAN],
           dgiRow'.doc = dgiRow.doc, dgiChecked' \in Dgi!Keys,
           dgiOrderly /\ dgiJob.doc = dgiRow.doc /\ DgiVerified
                /\ (dgiWorker \notin {"notify", "done"} => dgiRow.status = "PROCESSING") =>
               /\ DgiVerified'
               /\ dgiWorker' \notin {"notify", "done"} => dgiRow'.status = "PROCESSING"
    PROVE  DgiInv'
<1>1. dgiJob.state = "active"
  BY DEF DgiInv, DgiShape
<1>2. DgiShape'
  BY <1>1 DEF DgiInv, DgiShape, DgiWorks, Dgi!JobLive
<1>3. DgiFlags'
  BY DEF DgiInv, DgiFlags, DgiWorks
<1>4. ASSUME dgiOrderly PROVE DgiAlone' /\ DgiVerified' /\ DgiStored'
  <2>1. Dgi!JobLive
    BY <1>1 DEF Dgi!JobLive
  <2>2. /\ \A s \in OneSlot : dgiSubmits[s] = Dgi!NoSubmit
        /\ DgiUnreviewed /\ DgiUncleaned /\ dgiJob.doc = dgiRow.doc
        /\ dgiWorker \notin {"notify", "done"} => dgiRow.status = "PROCESSING"
        /\ DgiVerified /\ DgiStored /\ dgiRow.doc \notin dgiCleanup.old
    BY <1>4, <2>1 DEF DgiInv, DgiAlone
  <2>3. DgiVerified' /\ (dgiWorker' \notin {"notify", "done"} => dgiRow'.status = "PROCESSING")
    BY <1>4, <2>2
  <2>4. DgiAlone'
    BY <2>2, <2>3 DEF DgiAlone, DgiWorks, DgiUnreviewed, DgiUncleaned
  <2>5. DgiStored'
    BY <2>2 DEF DgiStored, DgiWorks
  <2> QED
    BY <2>3, <2>4, <2>5
<1> QED
  BY <1>2, <1>3, <1>4 DEF DgiInv

\* applyDgiVerificationResult keeps the document, and the trust profile follows
\* a subject that was not verified.
LEMMA DgiApply ==
    ASSUME DgiInv, NEW status \in Dgi!DgiStatus, NEW doc \in Dgi!Keys, Dgi!Apply(status, doc)
    PROVE  /\ dgiRow' \in [status : Dgi!DgiStatus, doc : Dgi!Keys, trusted : BOOLEAN]
           /\ dgiRow'.doc = dgiRow.doc /\ dgiRow'.status = status
           /\ dgiChecked' \in Dgi!Keys /\ UNCHANGED <<dgiBucket, dgiStale>>
           /\ DgiVerified /\ dgiRow.status # "VERIFIED_AUTO"
                /\ (status = "VERIFIED_AUTO" => doc = dgiRow.doc) => DgiVerified'
<1>1. /\ dgiRow \in [status : Dgi!DgiStatus, doc : Dgi!Keys, trusted : BOOLEAN]
      /\ dgiChecked \in Dgi!Keys
  BY DEF DgiInv, DgiShape
<1>2. /\ dgiRow' = [dgiRow EXCEPT !.status = status, !.trusted = @ \/ status = "VERIFIED_AUTO"]
      /\ dgiChecked' = IF status = "VERIFIED_AUTO" THEN doc ELSE dgiChecked
      /\ UNCHANGED <<dgiBucket, dgiStale>>
  BY DEF Dgi!Apply
<1>3. /\ dgiRow' \in [status : Dgi!DgiStatus, doc : Dgi!Keys, trusted : BOOLEAN]
      /\ dgiRow'.doc = dgiRow.doc /\ dgiRow'.status = status
      /\ dgiRow'.trusted <=> (dgiRow.trusted \/ status = "VERIFIED_AUTO")
  BY <1>1, <1>2
<1>4. dgiChecked' \in Dgi!Keys
  BY <1>1, <1>2
<1>5. DgiVerified /\ dgiRow.status # "VERIFIED_AUTO"
        /\ (status = "VERIFIED_AUTO" => doc = dgiRow.doc) => DgiVerified'
  BY <1>2, <1>3 DEF DgiVerified
<1> QED
  BY <1>2, <1>3, <1>4, <1>5

LEMMA DgiWorkerReads ==
    ASSUME DgiInv, \/ Dgi!Judge \/ Dgi!Notify \/ Dgi!RejectRead
    PROVE  DgiInv'
<1>1. /\ DgiWorks /\ dgiWorker # "idle" /\ dgiWorker' # "idle"
      /\ UNCHANGED <<dgiRow, dgiJob, dgiChecked, dgiOrderly, dgiFaults>>
  BY DEF Dgi!Judge, Dgi!Notify, Dgi!RejectRead, Dgi!Work, Dgi!Goes, Dgi!subject, DgiWorks
<1>2. \/ dgiWorker \notin {"notify", "done"}
      \/ dgiWorker' = "done"
  BY DEF Dgi!Judge, Dgi!Notify, Dgi!RejectRead, Dgi!Work
<1>3. /\ dgiRow' \in [status : Dgi!DgiStatus, doc : Dgi!Keys, trusted : BOOLEAN]
      /\ dgiChecked' \in Dgi!Keys
  BY <1>1 DEF DgiInv, DgiShape
<1>4. DgiVerified => DgiVerified'
  BY <1>1 DEF DgiVerified
<1> QED
  BY <1>1, <1>2, <1>3, <1>4, DgiWorkStep

LEMMA DgiWorkerWrites ==
    ASSUME DgiInv, Dgi!Verify \/ Dgi!Review \/ Dgi!RejectWrite
    PROVE  DgiInv'
<1>1. dgiJob.doc \in Dgi!Keys /\ NoDoc \in Dgi!Keys
  BY DEF DgiInv, DgiShape, Dgi!Keys
<1>2. PICK status \in {"VERIFIED_AUTO", "PENDING_MANUAL_REVIEW", "REJECTED"},
           doc \in {dgiJob.doc, NoDoc} :
          /\ Dgi!Apply(status, doc) /\ (status = "VERIFIED_AUTO" => doc = dgiJob.doc)
  BY DEF Dgi!Verify, Dgi!Review, Dgi!RejectWrite
<1>3. /\ UNCHANGED <<dgiQueueEnabled, dgiSubmits, dgiOnFailed, dgiAdmin, dgiWatchdog, dgiCleanup,
                     dgiJob, dgiOrderly, dgiFaults>>
      /\ dgiWorker \in {"verify", "review", "rejected"} /\ dgiWorker' \in {"notify", "done"}
  BY DEF Dgi!Verify, Dgi!Review, Dgi!RejectWrite, Dgi!Work, Dgi!Goes
<1>4. status \in Dgi!DgiStatus /\ doc \in Dgi!Keys
  BY <1>1 DEF Dgi!DgiStatus
<1>5. /\ dgiRow' \in [status : Dgi!DgiStatus, doc : Dgi!Keys, trusted : BOOLEAN]
      /\ dgiRow'.doc = dgiRow.doc /\ dgiRow'.status = status
      /\ dgiChecked' \in Dgi!Keys /\ UNCHANGED <<dgiBucket, dgiStale>>
      /\ DgiVerified /\ dgiRow.status # "VERIFIED_AUTO"
           /\ (status = "VERIFIED_AUTO" => doc = dgiRow.doc) => DgiVerified'
  BY <1>2, <1>4, DgiApply
<1>6. DgiWorks
  BY <1>3, <1>5 DEF DgiWorks
<1> QED
  BY <1>2, <1>3, <1>5, <1>6, DgiWorkStep

\* The job is handed out, or is done with.
LEMMA DgiJobMoves ==
    ASSUME DgiInv, Dgi!Take \/ Dgi!Finish PROVE DgiInv'
<1>1. /\ DgiWorks /\ UNCHANGED <<dgiRow, dgiChecked, dgiOrderly, dgiFaults>>
      /\ \/ /\ dgiJob.state = "waiting" /\ dgiJob' = [dgiJob EXCEPT !.state = "active"]
            /\ dgiWorker = "idle" /\ dgiWorker' = "download"
         \/ /\ dgiJob' = [dgiJob EXCEPT !.state = "finished"]
            /\ dgiWorker = "done" /\ dgiWorker' = "idle"
  BY DEF Dgi!Take, Dgi!Finish, Dgi!Work, Dgi!Goes, Dgi!subject, DgiWorks
<1>2. dgiJob \in [state : {"none", "waiting", "active", "finished"}, doc : Dgi!Keys, left : 0..3]
  BY DEF DgiInv, DgiShape
<1>3. /\ dgiJob' \in [state : {"none", "waiting", "active", "finished"}, doc : Dgi!Keys, left : 0..3]
      /\ dgiJob'.doc = dgiJob.doc /\ dgiJob'.left = dgiJob.left
      /\ \/ /\ dgiJob.state = "waiting" /\ dgiJob'.state = "active"
            /\ dgiWorker = "idle" /\ dgiWorker' = "download"
         \/ dgiJob'.state = "finished" /\ dgiWorker = "done" /\ dgiWorker' = "idle"
  BY <1>1, <1>2
<1>4. DgiShape'
  BY <1>1, <1>3 DEF DgiInv, DgiShape, DgiWorks, Dgi!JobLive
<1>5. DgiFlags'
  BY <1>1 DEF DgiInv, DgiFlags, DgiWorks
<1>6. ASSUME dgiOrderly PROVE DgiAlone' /\ DgiVerified' /\ DgiStored'
  <2>1. Dgi!JobLive
    BY <1>3 DEF Dgi!JobLive, DgiInv, DgiShape
  <2>2. /\ \A s \in OneSlot : dgiSubmits[s] = Dgi!NoSubmit
        /\ DgiUnreviewed /\ DgiUncleaned /\ dgiJob.doc = dgiRow.doc
        /\ dgiWorker \notin {"notify", "done"} => dgiRow.status = "PROCESSING"
        /\ DgiVerified /\ DgiStored /\ dgiRow.doc \notin dgiCleanup.old
    BY <1>6, <2>1 DEF DgiInv, DgiAlone
  <2>3. DgiAlone'
    BY <1>1, <1>3, <2>2 DEF DgiAlone, DgiWorks, DgiUnreviewed, DgiUncleaned, Dgi!JobLive
  <2>4. DgiVerified' /\ DgiStored'
    BY <1>1, <2>2 DEF DgiVerified, DgiStored, DgiWorks
  <2> QED
    BY <2>3, <2>4
<1> QED
  BY <1>1, <1>4, <1>5, <1>6 DEF DgiInv

\* What overlaps or fails ends the orderly history; the types are kept.
LEMMA DgiFaults ==
    ASSUME DgiInv, \/ \E s \in OneSlot : Dgi!SubmitFails(s)
                   \/ Dgi!NotifyFails \/ Dgi!AttemptFails \/ Dgi!WorkerDies
    PROVE  DgiInv'
<1>1. dgiOrderly' = FALSE /\ dgiFaults' \in 0..OneFault
  BY FaultAssumption
  DEF Dgi!SubmitFails, Dgi!NotifyFails, Dgi!AttemptFails, Dgi!WorkerDies, Dgi!Fault, DgiInv, DgiShape
<1>2. DgiFlags'
  BY <1>1 DEF Dgi!SubmitFails, Dgi!NotifyFails, Dgi!AttemptFails, Dgi!WorkerDies, Dgi!Work,
             Dgi!subject, DgiInv, DgiFlags
<1>3. dgiJob \in [state : {"none", "waiting", "active", "finished"}, doc : Dgi!Keys, left : 0..3]
  BY DEF DgiInv, DgiShape
<1>4. ASSUME NEW s \in OneSlot, Dgi!SubmitFails(s) PROVE DgiShape'
  <2>1. dgiSubmits' \in [OneSlot -> DgiSubmits]
    BY <1>4 DEF Dgi!SubmitFails, DgiInv, DgiShape, DgiSubmits, Dgi!NoSubmit, Dgi!Keys
  <2> QED
    BY <1>1, <1>4, <2>1 DEF Dgi!SubmitFails, Dgi!subject, DgiInv, DgiShape, Dgi!JobLive
<1>5. ASSUME Dgi!NotifyFails PROVE DgiShape'
  <2>1. /\ dgiWorker = "notify" /\ dgiWorker' \in {"review", "reject"}
        /\ UNCHANGED <<dgiRow, dgiBucket, dgiStale, dgiSubmits, dgiJob, dgiOnFailed, dgiAdmin,
                       dgiWatchdog, dgiCleanup, dgiChecked>>
    BY <1>5 DEF Dgi!NotifyFails, Dgi!Work, Dgi!subject
  <2>2. dgiWorker' # "idle" <=> dgiJob'.state = "active"
    BY <2>1 DEF DgiInv, DgiShape
  <2>3. Dgi!JobLive' => dgiJob'.left # 0
    BY <2>1 DEF DgiInv, DgiShape, Dgi!JobLive
  <2> QED
    BY <1>1, <2>1, <2>2, <2>3 DEF DgiInv, DgiShape
<1>6. ASSUME Dgi!AttemptFails PROVE DgiShape'
  <2> DEFINE state == IF dgiJob.state = "active" /\ dgiJob.left > 1 THEN "waiting" ELSE "finished"
             left == dgiJob.left - 1
  <2>1. /\ dgiJob' = [dgiJob EXCEPT !.state = state, !.left = left]
        /\ dgiWorker # "idle" /\ dgiWorker' = "idle" /\ dgiOnFailed' = "read"
        /\ UNCHANGED <<dgiRow, dgiBucket, dgiStale, dgiSubmits, dgiAdmin, dgiWatchdog, dgiCleanup,
                       dgiChecked>>
    BY <1>6 DEF Dgi!AttemptFails, Dgi!subject
  <2>2. dgiJob.state = "active" /\ dgiJob.left \in 1..3
    BY <1>3, <2>1 DEF DgiInv, DgiShape, Dgi!JobLive
  <2>3. /\ dgiJob' \in [state : {"none", "waiting", "active", "finished"}, doc : Dgi!Keys,
                        left : 0..3]
        /\ dgiJob'.state \in {"waiting", "finished"}
        /\ dgiJob'.state = "waiting" => dgiJob'.left # 0
    <3>1. state \in {"waiting", "finished"} /\ left \in 0..3 /\ (state = "waiting" => left # 0)
      BY <2>2
    <3> HIDE DEF state, left
    <3> QED
      BY <1>3, <2>1, <3>1
  <2>4. dgiWorker' # "idle" <=> dgiJob'.state = "active"
    BY <2>1, <2>3
  <2>5. Dgi!JobLive' => dgiJob'.left # 0
    BY <2>3 DEF Dgi!JobLive
  <2> QED
    BY <1>1, <2>1, <2>3, <2>4, <2>5 DEF DgiInv, DgiShape
<1>7. ASSUME Dgi!WorkerDies PROVE DgiShape'
  <2>1. /\ dgiJob' = [dgiJob EXCEPT !.state = "waiting"]
        /\ dgiWorker # "idle" /\ dgiWorker' = "idle"
        /\ UNCHANGED <<dgiRow, dgiBucket, dgiStale, dgiSubmits, dgiOnFailed, dgiAdmin, dgiWatchdog,
                       dgiCleanup, dgiChecked>>
    BY <1>7 DEF Dgi!WorkerDies, Dgi!subject
  <2>2. /\ dgiJob' \in [state : {"none", "waiting", "active", "finished"}, doc : Dgi!Keys,
                        left : 0..3]
        /\ dgiJob'.state = "waiting" /\ dgiJob'.left = dgiJob.left
    BY <1>3, <2>1
  <2>3. dgiWorker' # "idle" <=> dgiJob'.state = "active"
    BY <2>1, <2>2
  <2>4. Dgi!JobLive' => dgiJob'.left # 0
    BY <2>1, <2>2 DEF DgiInv, DgiShape, Dgi!JobLive
  <2> QED
    BY <1>1, <2>1, <2>2, <2>3, <2>4 DEF DgiInv, DgiShape
<1>8. DgiShape'
  BY <1>4, <1>5, <1>6, <1>7
<1> QED
  BY <1>1, <1>2, <1>8 DEF DgiInv

\* The handler of a failure, the watchdog, the clean-up and the administrator
\* leave the submissions, the job and its worker alone.
DgiQuiet == UNCHANGED <<dgiQueueEnabled, dgiSubmits, dgiJob, dgiWorker, dgiFaults>>

DgiSides ==
    /\ dgiRow \in [status : Dgi!DgiStatus, doc : Dgi!Keys, trusted : BOOLEAN]
    /\ dgiBucket \subseteq Docs /\ dgiStale \in BOOLEAN /\ dgiOrderly \in BOOLEAN
    /\ dgiOnFailed \in {"idle", "read", "write"} /\ dgiWatchdog \in {"idle", "write"}
    /\ dgiAdmin \in [pc : {"idle", "looks", "approve", "rejects"}, doc : Dgi!Keys]
    /\ dgiCleanup \in [pc : {"idle", "delete"}, old : SUBSET Docs]
    /\ dgiChecked \in Dgi!Keys

LEMMA DgiSideTypes == DgiInv => DgiSides
BY DEF DgiInv, DgiShape, DgiFlags, DgiSides

LEMMA DgiSideStep ==
    ASSUME DgiInv, DgiQuiet, DgiSides', dgiOrderly' => (DgiAlone /\ DgiVerified /\ DgiStored)'
    PROVE  DgiInv'
<1>1. DgiShape'
  BY DEF DgiInv, DgiShape, DgiSides, DgiQuiet, Dgi!JobLive
<1>2. DgiFlags'
  BY DEF DgiInv, DgiFlags, DgiSides, DgiQuiet
<1> QED
  BY <1>1, <1>2 DEF DgiInv

\* Nobody submits and nothing is verified while an orderly history has one of
\* them under way, and only that one is.
LEMMA DgiSideAlone ==
    ASSUME DgiInv, dgiOrderly
    PROVE  /\ dgiOnFailed = "idle" /\ DgiVerified /\ DgiStored
           /\ ~(DgiUnreviewed /\ DgiUncleaned) =>
                 /\ \A s \in OneSlot : dgiSubmits[s] = Dgi!NoSubmit
                 /\ ~Dgi!JobLive
           /\ dgiWatchdog # "idle" =>
                 /\ dgiAdmin = Dgi!NoReview /\ DgiUncleaned /\ dgiRow.status = "PROCESSING"
           /\ dgiAdmin # Dgi!NoReview =>
                 /\ dgiWatchdog = "idle" /\ DgiUncleaned
                 /\ dgiRow.status = "PENDING_MANUAL_REVIEW" /\ dgiAdmin.doc = dgiRow.doc
           /\ ~DgiUncleaned => DgiUnreviewed /\ dgiRow.doc \notin dgiCleanup.old
BY DEF DgiInv, DgiAlone, DgiUnreviewed

\* What is left when one of them ends.
LEMMA DgiSideEnds ==
    ASSUME \A s \in OneSlot : dgiSubmits[s] = Dgi!NoSubmit, ~Dgi!JobLive, DgiUnreviewed,
           DgiUncleaned
    PROVE  DgiAlone
BY DEF DgiAlone, DgiUnreviewed, DgiUncleaned, Dgi!NoCleanup

LEMMA DgiOnFailed == ASSUME DgiInv, Dgi!OnFailedRead \/ Dgi!OnFailedWrite PROVE DgiInv'
<1>1. DgiQuiet /\ dgiOrderly' = dgiOrderly /\ dgiOnFailed # "idle"
  BY DEF Dgi!OnFailedRead, Dgi!OnFailedWrite, Dgi!Goes, DgiQuiet
<1>2. ~dgiOrderly
  BY <1>1, DgiSideAlone
<1>3. "REJECTED" \in Dgi!DgiStatus /\ NoDoc \in Dgi!Keys
  BY DEF Dgi!DgiStatus, Dgi!Keys
<1>4. /\ dgiRow' \in [status : Dgi!DgiStatus, doc : Dgi!Keys, trusted : BOOLEAN]
      /\ dgiChecked' \in Dgi!Keys /\ UNCHANGED <<dgiBucket, dgiStale>>
  <2>1. CASE Dgi!OnFailedRead
    BY <2>1, DgiSideTypes DEF Dgi!OnFailedRead, Dgi!subject, DgiSides
  <2>2. CASE Dgi!OnFailedWrite
    BY <2>2, <1>3, DgiApply DEF Dgi!OnFailedWrite
  <2> QED
    BY <2>1, <2>2
<1>5. DgiSides'
  BY <1>1, <1>4, DgiSideTypes DEF Dgi!OnFailedRead, Dgi!OnFailedWrite, Dgi!Goes, DgiSides
<1> QED
  BY <1>1, <1>2, <1>5, DgiSideStep

\* runStaleWatchdog
LEMMA DgiWatch == ASSUME DgiInv, Dgi!Watch \/ Dgi!WatchWrite PROVE DgiInv'
<1>1. CASE Dgi!Watch
  <2>1. /\ DgiQuiet /\ dgiRow.status = "PROCESSING" /\ dgiWatchdog' = "write"
        /\ dgiOrderly' = (dgiOrderly /\ Dgi!Others = 0)
        /\ UNCHANGED <<dgiRow, dgiBucket, dgiStale, dgiOnFailed, dgiAdmin, dgiCleanup, dgiChecked>>
    BY <1>1 DEF Dgi!Watch, Dgi!WatchIf, Dgi!Begins, Dgi!subject, DgiQuiet
  <2>2. DgiSides'
    BY <2>1, DgiSideTypes DEF DgiSides
  <2>3. ASSUME dgiOrderly' PROVE (DgiAlone /\ DgiVerified /\ DgiStored)'
    <3>1. /\ \A s \in OneSlot : dgiSubmits[s] = Dgi!NoSubmit
          /\ ~Dgi!JobLive /\ DgiUnreviewed /\ DgiUncleaned /\ DgiVerified /\ DgiStored
      BY <2>1, <2>3, DgiNobody, DgiSideAlone
    <3>2. DgiAlone'
      BY <2>1, <3>1 DEF DgiAlone, DgiQuiet, DgiUnreviewed, DgiUncleaned, Dgi!NoCleanup, Dgi!JobLive
    <3> QED
      BY <2>1, <3>1, <3>2 DEF DgiVerified, DgiStored, DgiQuiet
  <2> QED
    BY <2>1, <2>2, <2>3, DgiSideStep
<1>2. CASE Dgi!WatchWrite
  <2>1. /\ DgiQuiet /\ dgiWatchdog = "write" /\ dgiWatchdog' = "idle"
        /\ Dgi!Apply("REJECTED", NoDoc)
        /\ UNCHANGED <<dgiOrderly, dgiOnFailed, dgiAdmin, dgiCleanup>>
    BY <1>2 DEF Dgi!WatchWrite, Dgi!Goes, DgiQuiet
  <2>2. "REJECTED" \in Dgi!DgiStatus /\ NoDoc \in Dgi!Keys
    BY DEF Dgi!DgiStatus, Dgi!Keys
  <2>3. /\ dgiRow' \in [status : Dgi!DgiStatus, doc : Dgi!Keys, trusted : BOOLEAN]
        /\ dgiRow'.doc = dgiRow.doc /\ dgiChecked' \in Dgi!Keys /\ UNCHANGED <<dgiBucket, dgiStale>>
        /\ DgiVerified /\ dgiRow.status # "VERIFIED_AUTO" => DgiVerified'
    BY <2>1, <2>2, DgiApply
  <2>4. DgiSides'
    BY <2>1, <2>3, DgiSideTypes DEF DgiSides
  <2>5. ASSUME dgiOrderly PROVE (DgiAlone /\ DgiVerified /\ DgiStored)'
    <3>1. /\ \A s \in OneSlot : dgiSubmits[s] = Dgi!NoSubmit
          /\ ~Dgi!JobLive /\ dgiAdmin = Dgi!NoReview /\ dgiOnFailed = "idle" /\ DgiUncleaned
          /\ DgiVerified /\ DgiStored /\ dgiRow.status = "PROCESSING"
      BY <2>1, <2>5, DgiSideAlone DEF DgiUnreviewed
    <3>2. DgiAlone'
      BY <2>1, <3>1 DEF DgiAlone, DgiQuiet, DgiUncleaned, Dgi!NoCleanup, Dgi!JobLive
    <3> QED
      BY <2>1, <2>3, <3>1, <3>2 DEF DgiStored, DgiQuiet
  <2> QED
    BY <2>1, <2>4, <2>5, DgiSideStep
<1> QED
  BY <1>1, <1>2

\* runOrphanCleanup
LEMMA DgiCleans == ASSUME DgiInv, Dgi!KeepReferenced \/ Dgi!DeleteOrphans PROVE DgiInv'
<1>1. CASE Dgi!KeepReferenced
  <2>1. PICK old \in SUBSET (dgiBucket \ {dgiRow.doc}) :
            dgiCleanup' = [pc |-> "delete", old |-> old]
    BY <1>1 DEF Dgi!KeepReferenced, Dgi!CleanUpBut
  <2>2. /\ DgiQuiet /\ dgiOrderly' = (dgiOrderly /\ Dgi!Others = 0)
        /\ UNCHANGED <<dgiRow, dgiBucket, dgiStale, dgiOnFailed, dgiAdmin, dgiWatchdog, dgiChecked>>
    BY <1>1 DEF Dgi!KeepReferenced, Dgi!CleanUpBut, Dgi!Begins, Dgi!subject, DgiQuiet
  <2>3. DgiSides'
    BY <2>1, <2>2, DgiSideTypes DEF DgiSides
  <2>4. ASSUME dgiOrderly' PROVE (DgiAlone /\ DgiVerified /\ DgiStored)'
    <3>1. /\ \A s \in OneSlot : dgiSubmits[s] = Dgi!NoSubmit
          /\ ~Dgi!JobLive /\ DgiUnreviewed /\ DgiVerified /\ DgiStored
      BY <2>2, <2>4, DgiNobody, DgiSideAlone
    <3>2. dgiRow'.doc \notin dgiCleanup'.old
      BY <2>1, <2>2
    <3>3. DgiAlone'
      BY <2>2, <3>1, <3>2 DEF DgiAlone, DgiQuiet, DgiUnreviewed, Dgi!JobLive
    <3> QED
      BY <2>2, <3>1, <3>3 DEF DgiVerified, DgiStored, DgiQuiet
  <2> QED
    BY <2>2, <2>3, <2>4, DgiSideStep
<1>2. CASE Dgi!DeleteOrphans
  <2>1. PICK lost \in SUBSET dgiCleanup.old : dgiBucket' = dgiBucket \ lost
    BY <1>2 DEF Dgi!DeleteOrphans
  <2>2. /\ DgiQuiet /\ dgiCleanup # Dgi!NoCleanup /\ dgiCleanup' = Dgi!NoCleanup
        /\ UNCHANGED <<dgiRow, dgiStale, dgiOnFailed, dgiAdmin, dgiWatchdog, dgiChecked, dgiOrderly>>
    BY <1>2 DEF Dgi!DeleteOrphans, Dgi!Goes, DgiQuiet, Dgi!NoCleanup
  <2>3. DgiSides'
    BY <2>1, <2>2, DgiSideTypes DEF DgiSides, Dgi!NoCleanup
  <2>4. ASSUME dgiOrderly PROVE (DgiAlone /\ DgiVerified /\ DgiStored)'
    <3>1. /\ \A s \in OneSlot : dgiSubmits[s] = Dgi!NoSubmit
          /\ ~Dgi!JobLive /\ DgiUnreviewed /\ DgiVerified /\ DgiStored
          /\ dgiRow.doc \notin dgiCleanup.old
      BY <2>2, <2>4, DgiSideAlone DEF DgiUncleaned
    <3>2. DgiAlone'
      BY <2>2, <3>1 DEF DgiAlone, DgiQuiet, DgiUnreviewed, DgiUncleaned, Dgi!NoCleanup, Dgi!JobLive
    <3> QED
      BY <2>1, <2>2, <3>1, <3>2 DEF DgiVerified, DgiStored, DgiQuiet
  <2> QED
    BY <2>2, <2>3, <2>4, DgiSideStep
<1> QED
  BY <1>1, <1>2

\* listPendingManual, adminReview
LEMMA DgiReviews == ASSUME DgiInv, Dgi!Look \/ Dgi!Decide \/ Dgi!DecisionWritten PROVE DgiInv'
<1>1. CASE Dgi!Look
  <2>1. /\ DgiQuiet /\ dgiRow.status = "PENDING_MANUAL_REVIEW"
        /\ dgiAdmin' = [pc |-> "looks", doc |-> dgiRow.doc]
        /\ dgiOrderly' = (dgiOrderly /\ Dgi!Others = 0)
        /\ UNCHANGED <<dgiRow, dgiBucket, dgiStale, dgiOnFailed, dgiWatchdog, dgiCleanup, dgiChecked>>
    BY <1>1 DEF Dgi!Look, Dgi!Begins, Dgi!subject, DgiQuiet
  <2>2. DgiSides'
    BY <2>1, DgiSideTypes DEF DgiSides
  <2>3. ASSUME dgiOrderly' PROVE (DgiAlone /\ DgiVerified /\ DgiStored)'
    <3>1. /\ \A s \in OneSlot : dgiSubmits[s] = Dgi!NoSubmit
          /\ ~Dgi!JobLive /\ DgiUnreviewed /\ DgiUncleaned /\ DgiVerified /\ DgiStored
      BY <2>1, <2>3, DgiNobody, DgiSideAlone
    <3>2. dgiAdmin'.doc = dgiRow'.doc /\ dgiRow'.status = "PENDING_MANUAL_REVIEW"
      BY <2>1
    <3>3. DgiAlone'
      BY <2>1, <3>1, <3>2
      DEF DgiAlone, DgiQuiet, DgiUnreviewed, DgiUncleaned, Dgi!NoCleanup, Dgi!JobLive
    <3> QED
      BY <2>1, <3>1, <3>3 DEF DgiVerified, DgiStored, DgiQuiet
  <2> QED
    BY <2>1, <2>2, <2>3, DgiSideStep
<1>2. CASE Dgi!Decide
  <2>1. /\ DgiQuiet /\ dgiAdmin.pc = "looks"
        /\ \/ \E pc \in {"approve", "rejects"} : dgiAdmin' = [dgiAdmin EXCEPT !.pc = pc]
           \/ dgiAdmin' = Dgi!NoReview
        /\ UNCHANGED <<dgiRow, dgiBucket, dgiStale, dgiOnFailed, dgiWatchdog, dgiCleanup, dgiChecked,
                       dgiOrderly>>
    BY <1>2 DEF Dgi!Decide, Dgi!Goes, Dgi!subject, DgiQuiet
  <2>2. /\ dgiAdmin' \in [pc : {"idle", "looks", "approve", "rejects"}, doc : Dgi!Keys]
        /\ dgiAdmin' # Dgi!NoReview => dgiAdmin'.doc = dgiAdmin.doc
        /\ dgiAdmin # Dgi!NoReview
    BY <2>1, DgiSideTypes DEF DgiSides, Dgi!NoReview, Dgi!Keys
  <2>3. DgiSides'
    BY <2>1, <2>2, DgiSideTypes DEF DgiSides
  <2>4. ASSUME dgiOrderly PROVE (DgiAlone /\ DgiVerified /\ DgiStored)'
    <3>1. /\ \A s \in OneSlot : dgiSubmits[s] = Dgi!NoSubmit
          /\ ~Dgi!JobLive /\ dgiWatchdog = "idle" /\ dgiOnFailed = "idle" /\ DgiUncleaned
          /\ DgiVerified /\ DgiStored
          /\ dgiRow.status = "PENDING_MANUAL_REVIEW" /\ dgiAdmin.doc = dgiRow.doc
      BY <2>2, <2>4, DgiSideAlone DEF DgiUnreviewed
    <3>2. DgiAlone'
      BY <2>1, <2>2, <3>1
      DEF DgiAlone, DgiQuiet, DgiUnreviewed, DgiUncleaned, Dgi!NoCleanup, Dgi!JobLive
    <3> QED
      BY <2>1, <3>1, <3>2 DEF DgiVerified, DgiStored, DgiQuiet
  <2> QED
    BY <2>1, <2>3, <2>4, DgiSideStep
<1>3. CASE Dgi!DecisionWritten
  <2> DEFINE status == IF dgiAdmin.pc = "approve" THEN "VERIFIED_AUTO" ELSE "REJECTED"
  <2>1. /\ DgiQuiet /\ dgiAdmin.pc # "idle" /\ dgiAdmin' = Dgi!NoReview
        /\ Dgi!Apply(status, dgiAdmin.doc)
        /\ UNCHANGED <<dgiOrderly, dgiOnFailed, dgiWatchdog, dgiCleanup>>
    BY <1>3 DEF Dgi!DecisionWritten, Dgi!Goes, DgiQuiet
  <2>2. status \in Dgi!DgiStatus /\ dgiAdmin.doc \in Dgi!Keys /\ dgiAdmin # Dgi!NoReview
    BY <2>1, DgiSideTypes DEF Dgi!DgiStatus, DgiSides, Dgi!NoReview
  <2> HIDE DEF status
  <2>3. /\ dgiRow' \in [status : Dgi!DgiStatus, doc : Dgi!Keys, trusted : BOOLEAN]
        /\ dgiRow'.doc = dgiRow.doc /\ dgiChecked' \in Dgi!Keys /\ UNCHANGED <<dgiBucket, dgiStale>>
        /\ DgiVerified /\ dgiRow.status # "VERIFIED_AUTO" /\ dgiAdmin.doc = dgiRow.doc => DgiVerified'
    BY <2>1, <2>2, DgiApply
  <2>4. DgiSides'
    BY <2>1, <2>3, DgiSideTypes DEF DgiSides, Dgi!NoReview, Dgi!Keys
  <2>5. ASSUME dgiOrderly PROVE (DgiAlone /\ DgiVerified /\ DgiStored)'
    <3>1. /\ \A s \in OneSlot : dgiSubmits[s] = Dgi!NoSubmit
          /\ ~Dgi!JobLive /\ dgiWatchdog = "idle" /\ dgiOnFailed = "idle" /\ DgiUncleaned
          /\ DgiVerified /\ DgiStored
          /\ dgiRow.status = "PENDING_MANUAL_REVIEW" /\ dgiAdmin.doc = dgiRow.doc
      BY <2>2, <2>5, DgiSideAlone DEF DgiUnreviewed
    <3>2. DgiAlone'
      BY <2>1, <3>1
      DEF DgiAlone, DgiQuiet, DgiUnreviewed, DgiUncleaned, Dgi!NoCleanup, Dgi!JobLive
    <3> QED
      BY <2>1, <2>3, <3>1, <3>2 DEF DgiStored, DgiQuiet
  <2> QED
    BY <2>1, <2>4, <2>5, DgiSideStep
<1> QED
  BY <1>1, <1>2, <1>3

LEMMA DgiNext == ASSUME DgiInv, [Dgi!Next]_dgiVars PROVE DgiInv'
<1>1. CASE UNCHANGED dgiVars
  <2>1. DgiShape' /\ DgiFlags'
    BY <1>1 DEF dgiVars, DgiInv, DgiShape, DgiFlags, Dgi!JobLive
  <2>2. DgiAlone => DgiAlone'
    BY <1>1 DEF dgiVars, DgiAlone, DgiSubmission, DgiUnreviewed, DgiUncleaned, Dgi!JobLive
  <2>3. DgiVerified /\ DgiStored => DgiVerified' /\ DgiStored'
    BY <1>1 DEF dgiVars, DgiVerified, DgiStored
  <2> QED
    BY <1>1, <2>1, <2>2, <2>3 DEF dgiVars, DgiInv
<1>2. CASE Dgi!Next
  <2>1. CASE Dgi!RowAges \/ \E d \in Docs : Dgi!Upload(d)
    BY <2>1, DgiClock
  <2>2. CASE \E d \in Docs, s \in OneSlot : Dgi!BeginSubmit(s, d)
    BY <2>2, DgiBeginSubmit
  <2>3. CASE \E s \in OneSlot : Dgi!SubmitStep(s)
    BY <2>3, DgiDeleteOld, DgiMark, DgiEnqueue DEF Dgi!SubmitStep
  <2>4. CASE Dgi!WorkerStep
    BY <2>4, DgiWorkerReads, DgiWorkerWrites, DgiJobMoves DEF Dgi!WorkerStep
  <2>5. CASE \/ \E s \in OneSlot : Dgi!SubmitFails(s)
             \/ Dgi!NotifyFails \/ Dgi!AttemptFails \/ Dgi!WorkerDies
    BY <2>5, DgiFaults
  <2>6. CASE \/ Dgi!OnFailedRead \/ Dgi!OnFailedWrite \/ Dgi!Watch \/ Dgi!WatchWrite
    BY <2>6, DgiOnFailed, DgiWatch
  <2>7. CASE \/ Dgi!KeepReferenced \/ Dgi!DeleteOrphans
             \/ Dgi!Look \/ Dgi!Decide \/ Dgi!DecisionWritten
    BY <2>7, DgiCleans, DgiReviews
  <2> QED
    BY <1>2, <2>1, <2>2, <2>3, <2>4, <2>5, <2>6, <2>7 DEF Dgi!Next
<1> QED
  BY <1>1, <1>2

LEMMA DgiIsBacked == DgiInv => Dgi!TypeOK /\ Dgi!VerificationIsBacked /\ Dgi!DocumentIsKept
<1> SUFFICES ASSUME DgiInv PROVE Dgi!TypeOK /\ Dgi!VerificationIsBacked /\ Dgi!DocumentIsKept
  OBVIOUS
<1>1. Dgi!VerificationIsBacked
  BY DEF DgiInv, DgiVerified, Dgi!VerificationIsBacked
<1>2. Dgi!DocumentIsKept
  BY DEF DgiInv, DgiStored, Dgi!DocumentIsKept, Dgi!Submitting
<1>3. {dgiQueueEnabled, dgiStale, dgiOrderly} \subseteq BOOLEAN
  BY DEF DgiInv, DgiFlags
<1>4. \A s \in OneSlot : dgiSubmits[s] \in DgiSubmits
  BY DEF DgiInv, DgiShape
<1>5. Dgi!TypeOK
  BY <1>3, <1>4 DEF DgiInv, DgiShape, DgiSubmits, Dgi!TypeOK, Dgi!Attempts
<1> QED
  BY <1>1, <1>2, <1>5

-----------------------------------------------------------------------------
(* DgiDocument: the check digit.                                            *)

Ruts == [1..12 -> 0..9]

\* A number is accepted when its weighted sum and its check digit make a
\* multiple of eleven.
LEMMA CheckedSum ==
    ASSUME NEW rut \in Ruts, Document!CheckDigit(rut)
    PROVE  \E k \in Nat : Document!WeightedSum(rut) + rut[12] = 11 * k
<1> DEFINE w == Document!WeightedSum(rut)
           rem == w % 11
<1>0. /\ rut[1] \in 0..9 /\ rut[2] \in 0..9 /\ rut[3] \in 0..9 /\ rut[4] \in 0..9
      /\ rut[5] \in 0..9 /\ rut[6] \in 0..9 /\ rut[7] \in 0..9 /\ rut[8] \in 0..9
      /\ rut[9] \in 0..9 /\ rut[10] \in 0..9 /\ rut[11] \in 0..9 /\ rut[12] \in 0..9
  BY DEF Ruts
<1>1. w \in Nat
  <2>1. /\ 4 * rut[1] \in Nat /\ 3 * rut[2] \in Nat /\ 2 * rut[3] \in Nat /\ 9 * rut[4] \in Nat
        /\ 8 * rut[5] \in Nat /\ 7 * rut[6] \in Nat /\ 6 * rut[7] \in Nat /\ 5 * rut[8] \in Nat
        /\ 4 * rut[9] \in Nat /\ 3 * rut[10] \in Nat /\ 2 * rut[11] \in Nat
    BY <1>0
  <2> QED
    BY <2>1 DEF Document!WeightedSum
<1>2. rut[12] = IF rem = 0 THEN 0 ELSE 11 - rem
  BY DEF Document!CheckDigit, Document!Remainder
<1> HIDE DEF w
<1>3. PICK q \in Nat : w = 11 * q + rem
  BY <1>1
<1>4. w + rut[12] = 11 * q \/ w + rut[12] = 11 * (q + 1)
  BY <1>0, <1>1, <1>2, <1>3
<1>5. \E k \in Nat : w + rut[12] = 11 * k
  <2>1. q \in Nat /\ q + 1 \in Nat
    OBVIOUS
  <2> QED
    BY <1>4, <2>1
<1> QED
  BY <1>5 DEF w

\* Eleven divides no product of what is smaller than it.
LEMMA Eleven ==
    ASSUME NEW k \in Int, NEW e \in -9..9, e # 0
    PROVE  /\ e # 11 * k /\ 2 * e # 11 * k /\ 3 * e # 11 * k /\ 4 * e # 11 * k
           /\ 5 * e # 11 * k /\ 6 * e # 11 * k /\ 7 * e # 11 * k /\ 8 * e # 11 * k
           /\ 9 * e # 11 * k
OBVIOUS

LEMMA SumIsInteger ==
    ASSUME NEW f \in [1..12 -> Int] PROVE Document!WeightedSum(f) \in Int
BY DEF Document!WeightedSum

LEMMA SumsAdd ==
    ASSUME NEW f \in [1..12 -> Int], NEW g \in [1..12 -> Int]
    PROVE  Document!WeightedSum([j \in 1..12 |-> f[j] + g[j]]) =
               Document!WeightedSum(f) + Document!WeightedSum(g)
BY DEF Document!WeightedSum

\* The differences, digit by digit, of two accepted numbers.
LEMMA CheckedDifference ==
    ASSUME NEW rut \in Ruts, NEW alt \in Ruts, NEW d \in [1..12 -> -9..9],
           \A j \in 1..12 : alt[j] = rut[j] + d[j],
           Document!CheckDigit(rut), Document!CheckDigit(alt)
    PROVE  \E m \in Int : Document!WeightedSum(d) + d[12] = 11 * m
<1>1. PICK k \in Nat : Document!WeightedSum(rut) + rut[12] = 11 * k
  BY CheckedSum
<1>2. PICK l \in Nat : Document!WeightedSum(alt) + alt[12] = 11 * l
  BY CheckedSum
<1>3. /\ rut \in [1..12 -> Int] /\ d \in [1..12 -> Int]
      /\ alt = [j \in 1..12 |-> rut[j] + d[j]]
  BY DEF Ruts
<1>4. Document!WeightedSum(alt) = Document!WeightedSum(rut) + Document!WeightedSum(d)
  BY <1>3, SumsAdd
<1>5. Document!WeightedSum(rut) \in Int /\ Document!WeightedSum(d) \in Int
  BY <1>3, SumIsInteger
<1>6. rut[12] \in Int /\ d[12] \in Int /\ alt[12] = rut[12] + d[12] /\ l - k \in Int
  BY <1>3
<1>7. Document!WeightedSum(d) + d[12] = 11 * (l - k)
  BY <1>1, <1>2, <1>4, <1>5, <1>6
<1> QED
  BY <1>6, <1>7

\* Differences in one place.
LEMMA OneDifference ==
    ASSUME NEW d \in [1..12 -> -9..9], NEW i \in 1..12, d[i] # 0,
           \A j \in 1..12 \ {i} : d[j] = 0, NEW m \in Int
    PROVE  Document!WeightedSum(d) + d[12] # 11 * m
<1>1. ASSUME i = 1 PROVE Document!WeightedSum(d) + d[12] = 4 * d[i]
  BY <1>1 DEF Document!WeightedSum
<1>2. ASSUME i = 2 PROVE Document!WeightedSum(d) + d[12] = 3 * d[i]
  BY <1>2 DEF Document!WeightedSum
<1>3. ASSUME i = 3 PROVE Document!WeightedSum(d) + d[12] = 2 * d[i]
  BY <1>3 DEF Document!WeightedSum
<1>4. ASSUME i = 4 PROVE Document!WeightedSum(d) + d[12] = 9 * d[i]
  BY <1>4 DEF Document!WeightedSum
<1>5. ASSUME i = 5 PROVE Document!WeightedSum(d) + d[12] = 8 * d[i]
  BY <1>5 DEF Document!WeightedSum
<1>6. ASSUME i = 6 PROVE Document!WeightedSum(d) + d[12] = 7 * d[i]
  BY <1>6 DEF Document!WeightedSum
<1>7. ASSUME i = 7 PROVE Document!WeightedSum(d) + d[12] = 6 * d[i]
  BY <1>7 DEF Document!WeightedSum
<1>8. ASSUME i = 8 PROVE Document!WeightedSum(d) + d[12] = 5 * d[i]
  BY <1>8 DEF Document!WeightedSum
<1>9. ASSUME i = 9 PROVE Document!WeightedSum(d) + d[12] = 4 * d[i]
  BY <1>9 DEF Document!WeightedSum
<1>10. ASSUME i = 10 PROVE Document!WeightedSum(d) + d[12] = 3 * d[i]
  BY <1>10 DEF Document!WeightedSum
<1>11. ASSUME i = 11 PROVE Document!WeightedSum(d) + d[12] = 2 * d[i]
  BY <1>11 DEF Document!WeightedSum
<1>12. ASSUME i = 12 PROVE Document!WeightedSum(d) + d[12] = 1 * d[i]
  BY <1>12 DEF Document!WeightedSum
<1>13. /\ d[i] # 11 * m /\ 2 * d[i] # 11 * m /\ 3 * d[i] # 11 * m /\ 4 * d[i] # 11 * m
       /\ 5 * d[i] # 11 * m /\ 6 * d[i] # 11 * m /\ 7 * d[i] # 11 * m /\ 8 * d[i] # 11 * m
       /\ 9 * d[i] # 11 * m
  BY Eleven
<1> QED
  BY <1>1, <1>2, <1>3, <1>4, <1>5, <1>6, <1>7, <1>8, <1>9, <1>10, <1>11, <1>12, <1>13

\* Differences that two neighbours exchange.
LEMMA NeighbourDifference ==
    ASSUME NEW d \in [1..12 -> -9..9], NEW i \in 1..10, d[i] # 0, d[i] = -d[i + 1],
           \A j \in 1..12 \ {i, i + 1} : d[j] = 0, NEW m \in Int
    PROVE  Document!WeightedSum(d) + d[12] # 11 * m
<1>1. ASSUME i = 1 PROVE Document!WeightedSum(d) + d[12] = d[i]
  BY <1>1 DEF Document!WeightedSum
<1>2. ASSUME i = 2 PROVE Document!WeightedSum(d) + d[12] = d[i]
  BY <1>2 DEF Document!WeightedSum
<1>3. ASSUME i = 3 PROVE Document!WeightedSum(d) + d[12] = 7 * d[i + 1]
  BY <1>3 DEF Document!WeightedSum
<1>4. ASSUME i = 4 PROVE Document!WeightedSum(d) + d[12] = d[i]
  BY <1>4 DEF Document!WeightedSum
<1>5. ASSUME i = 5 PROVE Document!WeightedSum(d) + d[12] = d[i]
  BY <1>5 DEF Document!WeightedSum
<1>6. ASSUME i = 6 PROVE Document!WeightedSum(d) + d[12] = d[i]
  BY <1>6 DEF Document!WeightedSum
<1>7. ASSUME i = 7 PROVE Document!WeightedSum(d) + d[12] = d[i]
  BY <1>7 DEF Document!WeightedSum
<1>8. ASSUME i = 8 PROVE Document!WeightedSum(d) + d[12] = d[i]
  BY <1>8 DEF Document!WeightedSum
<1>9. ASSUME i = 9 PROVE Document!WeightedSum(d) + d[12] = d[i]
  BY <1>9 DEF Document!WeightedSum
<1>10. ASSUME i = 10 PROVE Document!WeightedSum(d) + d[12] = d[i]
  BY <1>10 DEF Document!WeightedSum
<1>11. d[i + 1] \in -9..9 /\ d[i + 1] # 0
  OBVIOUS
<1>12. d[i] # 11 * m /\ 7 * d[i + 1] # 11 * m
  BY <1>11, Eleven
<1> QED
  BY <1>1, <1>2, <1>3, <1>4, <1>5, <1>6, <1>7, <1>8, <1>9, <1>10, <1>12

LEMMA DigitDifferences ==
    ASSUME NEW rut \in Ruts, NEW alt \in Ruts
    PROVE  /\ [j \in 1..12 |-> alt[j] - rut[j]] \in [1..12 -> -9..9]
           /\ \A j \in 1..12 : alt[j] = rut[j] + (alt[j] - rut[j])
BY DEF Ruts

LEMMA MistypedDigit ==
    ASSUME NEW rut \in Ruts, Document!CheckDigit(rut), NEW i \in 1..12, NEW x \in 0..9 \ {rut[i]}
    PROVE  ~Document!CheckDigit([rut EXCEPT ![i] = x])
<1> DEFINE alt == [rut EXCEPT ![i] = x]
           d == [j \in 1..12 |-> alt[j] - rut[j]]
<1>1. /\ alt \in Ruts /\ alt[i] = x /\ \A j \in 1..12 \ {i} : alt[j] = rut[j]
      /\ \A j \in 1..12 : rut[j] \in 0..9
  BY DEF Ruts
<1> HIDE DEF alt
<1>2. /\ d \in [1..12 -> -9..9] /\ \A j \in 1..12 : alt[j] = rut[j] + d[j]
      /\ d[i] # 0 /\ \A j \in 1..12 \ {i} : d[j] = 0
  <2>1. \A j \in 1..12 : d[j] = alt[j] - rut[j]
    OBVIOUS
  <2>2. /\ d \in [1..12 -> -9..9] /\ \A j \in 1..12 : alt[j] = rut[j] + d[j]
    BY <1>1, DigitDifferences
  <2> HIDE DEF d
  <2>3. \A j \in 1..12 \ {i} : d[j] = 0
    BY <1>1, <2>1
  <2>4. d[i] # 0
    <3>1. d[i] = x - rut[i] /\ x \in 0..9 /\ rut[i] \in 0..9 /\ x # rut[i]
      BY <1>1, <2>1
    <3> QED
      BY <3>1
  <2> QED
    BY <2>2, <2>3, <2>4
<1> HIDE DEF d
<1>3. \A m \in Int : Document!WeightedSum(d) + d[12] # 11 * m
  BY <1>2, OneDifference
<1>4. ~Document!CheckDigit(alt)
  BY <1>1, <1>2, <1>3, CheckedDifference
<1> QED
  BY <1>4 DEF alt

LEMMA SwappedNeighbours ==
    ASSUME NEW rut \in Ruts, Document!CheckDigit(rut), NEW i \in 1..10, rut[i] # rut[i + 1]
    PROVE  ~Document!CheckDigit([rut EXCEPT ![i] = rut[i + 1], ![i + 1] = rut[i]])
<1> DEFINE alt == [rut EXCEPT ![i] = rut[i + 1], ![i + 1] = rut[i]]
           d == [j \in 1..12 |-> alt[j] - rut[j]]
<1>1. /\ i \in 1..12 /\ i + 1 \in 1..12 /\ i # i + 1
      /\ alt \in Ruts /\ alt[i] = rut[i + 1] /\ alt[i + 1] = rut[i]
      /\ \A j \in 1..12 \ {i, i + 1} : alt[j] = rut[j]
      /\ \A j \in 1..12 : rut[j] \in 0..9
  BY DEF Ruts
<1> HIDE DEF alt
<1>2. /\ d \in [1..12 -> -9..9] /\ \A j \in 1..12 : alt[j] = rut[j] + d[j]
      /\ d[i] # 0 /\ d[i] = -d[i + 1] /\ \A j \in 1..12 \ {i, i + 1} : d[j] = 0
  BY <1>1, DigitDifferences
<1> HIDE DEF d
<1>3. \A m \in Int : Document!WeightedSum(d) + d[12] # 11 * m
  BY <1>2, NeighbourDifference
<1>4. ~Document!CheckDigit(alt)
  BY <1>1, <1>2, <1>3, CheckedDifference
<1> QED
  BY <1>4 DEF alt

\* The numbers that can be typed have twelve digits.
LEMMA NumbersAreRuts == ASSUME NEW rut \in Document!Numbers PROVE rut \in Ruts /\ Len(rut) = 12
<1>1. PICK p \in {<<0, 0>>, <<0, 1>>, <<1, 5>>, <<2, 1>>, <<2, 2>>}, a \in Digits, b \in Digits,
           c \in Digits, d \in 0..9, e \in 0..9 :
          rut = <<p[1], p[2], a, b, a, c, c, b, 0, 0, d, e>>
  BY DEF Document!Numbers
<1>2. p[1] \in 0..9 /\ p[2] \in 0..9 /\ a \in 0..9 /\ b \in 0..9 /\ c \in 0..9
  BY DigitAssumption
<1> QED
  BY <1>1, <1>2 DEF Ruts

-----------------------------------------------------------------------------
(* DgiDocument: the verdict.                                                *)

DocumentInv ==
    /\ rutRegistered # None =>
          /\ rutRegistered \in Ruts /\ Len(rutRegistered) = 12
          /\ Document!CheckDigit(rutRegistered)
    /\ rutOutcome # None =>
          /\ rutCertificate \in Document!Certificates
          /\ rutOutcome = IF Document!ByQr(rutCertificate) # None THEN Document!ByQr(rutCertificate)
                          ELSE Document!ByText(rutCertificate)

LEMMA DocumentInit == Document!Init => DocumentInv
BY DEF Document!Init, DocumentInv

LEMMA DocumentNext == ASSUME DocumentInv, [Document!Next]_rutVars PROVE DocumentInv'
<1>1. CASE UNCHANGED rutVars
  BY <1>1 DEF rutVars, DocumentInv
<1>2. ASSUME NEW rut \in Document!Numbers, Document!Register(rut) PROVE DocumentInv'
  BY <1>2, NumbersAreRuts DEF Document!Register, Document!Valid, DocumentInv
<1>3. ASSUME NEW c \in Document!Certificates, Document!Verify(c) PROVE DocumentInv'
  BY <1>3 DEF Document!Verify, DocumentInv
<1> QED
  BY <1>1, <1>2, <1>3 DEF Document!Next

\* What the page and the text decide.
LEMMA PageDecides ==
    ASSUME NEW c \in Document!Certificates, Document!ByQr(c) = "VERIFIED_AUTO"
    PROVE  /\ Document!Consulted(c) /\ "inactive" \notin c.page.marks
           /\ c.page.cell = c.page.about \/ c.page.numbers = <<c.page.about>> =>
                 c.page.about = "own"
<1>1. /\ Document!Lookup(c) # None
      /\ Document!Lookup(c).rut = "own" /\ Document!Lookup(c).activo
  BY NoneAssumption DEF Document!ByQr
<1>2. /\ Document!Consulted(c) /\ Document!PageRut(c.page) = "own"
      /\ Document!InferActivo(c.page)
  BY <1>1 DEF Document!Lookup
<1>3. c.page \in Document!Pages
  BY <1>2 DEF Document!Consulted, Document!Certificates
<1>4. /\ c.page.about \in Document!Kinds
      /\ c.page.cell \in Document!Kinds => c.page.cell = c.page.about
  BY <1>3 DEF Document!Pages
<1>5. c.page.numbers = <<c.page.about>> =>
          c.page.numbers # <<>> /\ c.page.numbers[1] = c.page.about
  OBVIOUS
<1> QED
  BY <1>2, <1>4, <1>5 DEF Document!PageRut, Document!InferActivo, Document!Kinds

LEMMA TextDecides ==
    ASSUME NEW c \in Document!Certificates, Document!Lookup(c) = None
    PROVE  /\ Document!ByQr(c) = None /\ Document!ByText(c) # "VERIFIED_AUTO"
           /\ c.label = "own" => Document!ByText(c) = "PENDING_MANUAL_REVIEW"
           /\ c.label = "other" => Document!ByText(c) = "REJECTED"
BY DEF Document!ByQr, Document!ByText, Document!TextRut, Document!Kinds

LEMMA DocumentIsSound == DocumentInv => Document!TypeOK /\ Document!DocumentDecides
<1> SUFFICES ASSUME DocumentInv PROVE Document!TypeOK /\ Document!DocumentDecides
  OBVIOUS
<1>1. Document!TypeOK
  BY DEF DocumentInv, Document!TypeOK, Document!ByQr, Document!ByText
<1>2. Document!RutIsProtected
  BY MistypedDigit, SwappedNeighbours DEF DocumentInv, Document!RutIsProtected
<1>3. Document!VerdictFollowsDgi
  <2>1. ASSUME rutOutcome = "VERIFIED_AUTO"
        PROVE  /\ rutCertificate \in Document!Certificates
               /\ Document!ByQr(rutCertificate) = "VERIFIED_AUTO"
    BY <2>1, NoneAssumption DEF DocumentInv, Document!ByText
  <2>2. ASSUME rutOutcome # None, Document!Lookup(rutCertificate) = None
        PROVE  /\ rutCertificate \in Document!Certificates
               /\ rutOutcome = Document!ByText(rutCertificate)
    BY <2>2, TextDecides DEF DocumentInv
  <2> QED
    BY <2>1, <2>2, PageDecides, TextDecides DEF Document!VerdictFollowsDgi
<1> QED
  BY <1>1, <1>2, <1>3 DEF Document!DocumentDecides

-----------------------------------------------------------------------------
(* Types.  Requests, the reminder and the faults are not needed for the     *)
(* badge, so they have an invariant of their own.                           *)

ConsentSteps ==
    /\ consentAsks \in [Slots -> {"idle", "create", "add"}]
    /\ consentTimer \in {"none", "queued", "payload", "mark", "done"}
    /\ consentFaults \in 0..MaxFaults

LEMMA ConsentStepsInit == Consent!Init => ConsentSteps
BY FaultAssumption DEF Consent!Init, ConsentSteps

LEMMA ConsentStepsNext == ASSUME ConsentSteps, [Consent!Next]_consentVars PROVE ConsentSteps'
<1>1. ASSUME NEW a \in Slots,
             \/ Consent!BeginAsk(a) \/ Consent!Create(a)
             \/ Consent!Schedule(a) \/ Consent!AskFails(a)
      PROVE  ConsentSteps'
  <2>1. /\ \E s \in {"idle", "create", "add"} : consentAsks' = [consentAsks EXCEPT ![a] = s]
        /\ consentTimer' \in {consentTimer, "queued"}
        /\ consentFaults' = consentFaults \/ Consent!Fault
    BY <1>1 DEF Consent!BeginAsk, Consent!Create, Consent!Schedule, Consent!AskFails
  <2> QED
    BY <2>1, FaultAssumption DEF ConsentSteps, Consent!Fault
<1>2. CASE \/ Consent!Accept \/ Consent!TimePasses \/ Consent!Expire \/ Consent!AttemptAges
           \/ \E c \in Slots : Consent!BeginDecline(c) \/ Consent!Decline(c)
  BY <1>2 DEF Consent!Accept, Consent!BeginDecline, Consent!Decline, Consent!TimePasses,
              Consent!Expire, Consent!AttemptAges, ConsentSteps
<1>3. CASE Consent!Reminder \/ Consent!NotifyFails \/ Consent!WorkerFails
  <2>1. /\ UNCHANGED consentAsks
        /\ consentTimer' \in {"queued", "payload", "mark", "done"}
        /\ consentFaults' = consentFaults \/ Consent!Fault
    BY <1>3 DEF Consent!Reminder, Consent!Claim, Consent!Notify, Consent!MarkSent,
                Consent!NotifyFails, Consent!WorkerFails
  <2> QED
    BY <2>1, FaultAssumption DEF ConsentSteps, Consent!Fault
<1>4. CASE UNCHANGED consentVars
  BY <1>4 DEF consentVars, ConsentSteps
<1> QED
  BY <1>1, <1>2, <1>3, <1>4 DEF Consent!Next

LEMMA ConsentTypes == ConsentInv /\ ConsentSteps => Consent!TypeOK
BY DEF ConsentInv, ConsentShape, ConsentRow, ConsentSteps, Consent!TypeOK

LEMMA PhotoTypes == PhotoInv => Photos!TypeOK
BY DEF PhotoInv, PhotoShape, PhotoRequests, Photos!TypeOK

LEMMA FileTypes == FileInv => Storage!TypeOK
BY DEF FileInv, FileShape

-----------------------------------------------------------------------------
(* The suite: the part in focus moves by its own Next, and no other does.   *)

LEMMA FocusMoves ==
    ASSUME [Next]_vars
    PROVE  /\ focus' = focus
           /\ focus = "consent" => [Consent!Next]_consentVars
           /\ focus = "photos" => [Photos!Next]_photoVars
           /\ focus = "files" => [Storage!Next]_fileVars
           /\ focus = "dgi" => [Dgi!Next]_dgiVars
           /\ focus = "document" => [Document!Next]_rutVars
<1>1. CASE UNCHANGED vars
  BY <1>1 DEF vars
<1>2. CASE Next
  BY <1>2 DEF Next, Still
<1> QED
  BY <1>1, <1>2

\* The badge follows the client's first answer unless a refusal overlapped
\* another answer or the expiry, and even then a verified item's consent is
\* ACCEPTED or DECLINED and nothing else: for any number of requests, refusals
\* and faults.
THEOREM BadgeIsConsented == LiveSpec => []VerifiedIsAccepted
<1> DEFINE Holds == focus = "consent" => ConsentInv
<1>1. Init => Holds
  BY ConsentInit DEF Init
<1>2. Holds /\ [Next]_vars => Holds'
  BY FocusMoves, ConsentNext
<1>3. Holds => VerifiedIsAccepted
  BY DEF ConsentInv, VerifiedIsAccepted
<1> QED
  BY <1>1, <1>2, <1>3, PTL DEF LiveSpec

\* Photos added and deleted one after another keep positions of their own
\* within the limit, numbered 1..N unless the owner has put one behind the end;
\* and the photos that a live item shows of those it was published with are in
\* the bucket, whatever the cleanups of deleted items do.
THEOREM PhotosInPlace == LiveSpec => []PhotosAreShown
<1> DEFINE Holds == /\ focus = "photos" => PhotoInv
                    /\ focus = "files" => FileInv
<1>1. Init => Holds
  BY PhotoInit, FileInit DEF Init
<1>2. Holds /\ [Next]_vars => Holds'
  BY FocusMoves, PhotoNext, FileNext
<1>3. Holds => PhotosAreShown
  BY PhotosAreInOrder, FilesAreShown DEF PhotosAreShown
<1> QED
  BY <1>1, <1>2, <1>3, PTL DEF LiveSpec

\* A verified certificate was verified for the document its row names, which is
\* in the bucket, and the trust profile says so and nothing else, as long as
\* nothing overlaps or fails; and for any digits, a number that is registered
\* protects against every mistyped digit and every swap of neighbours, and a
\* company is verified without a person only by its own page of the DGI.
THEOREM CertificateHolds == LiveSpec => []CertificateIsBacked
<1> DEFINE Holds == (focus = "dgi" => DgiInv) /\ (focus = "document" => DocumentInv)
<1>1. Init => Holds
  BY DgiInit, DocumentInit DEF Init
<1>2. Holds /\ [Next]_vars => Holds'
  BY FocusMoves, DgiNext, DocumentNext
<1>3. Holds => CertificateIsBacked
  BY DgiIsBacked, DocumentIsSound DEF CertificateIsBacked
<1> QED
  BY <1>1, <1>2, <1>3, PTL DEF LiveSpec

\* Whatever part moves, its state has the shape its module states, for every
\* number of requests, files, documents and failures.
THEOREM StatesAreTyped == LiveSpec => []TypeOK
<1> DEFINE Holds == /\ focus \in Parts
                    /\ focus = "photos" => PhotoInv
                    /\ focus = "files" => FileInv
                    /\ focus = "consent" => ConsentInv /\ ConsentSteps
                    /\ focus = "dgi" => DgiInv
                    /\ focus = "document" => DocumentInv
<1>1. Init => Holds
  BY PhotoInit, FileInit, ConsentInit, ConsentStepsInit, DgiInit, DocumentInit DEF Init
<1>2. Holds /\ [Next]_vars => Holds'
  BY FocusMoves, PhotoNext, FileNext, ConsentNext, ConsentStepsNext, DgiNext, DocumentNext
<1>3. Holds => TypeOK
  BY PhotoTypes, FileTypes, ConsentTypes, DgiIsBacked, DocumentIsSound DEF TypeOK
<1> QED
  BY <1>1, <1>2, <1>3, PTL DEF LiveSpec
=============================================================================
