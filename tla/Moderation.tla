----------------------------- MODULE Moderation -----------------------------
(***************************************************************************)
(* The inference that moderates one text or photo: moderateText and         *)
(* moderateImage with the two levels of InferenceCacheService and the       *)
(* Redis lock of InferenceLockService.                                      *)
(*                                                                         *)
(* Releases of the program with different policy versions share both        *)
(* caches and the lock, whose key leaves the policy out.  The circuit       *)
(* breaker and the provider's timeout are ways for a call to fail.  Scores, *)
(* model names, hit counters and the preparation of images are left out.    *)
(***************************************************************************)
EXTENDS Naturals

CONSTANTS
    Requests,       \* inferences on this content in progress at once
    Policies,       \* values of policyVersion
    None,
    MaxFaults       \* bound: failed calls and dead workers

VARIABLES
    verdict,        \* what the provider says of the content under each policy
    pgEnabled,      \* cfg.cache.pgEnabled
    l1,             \* Redis: key -> result
    l2,             \* AiInferenceCache: key -> result of a row that has not expired
    lock,           \* the holder of the lock, or None
    requests,       \* the inferences in progress
    faults

caches == <<l1, l2>>
vars == <<verdict, pgEnabled, caches, lock, requests, faults>>

Verdicts == {"ok", "flagged"}
Idle == [pc |-> "idle", policy |-> None, locked |-> FALSE, result |-> "none"]

Init ==
    /\ verdict \in [Policies -> Verdicts]
    /\ pgEnabled \in BOOLEAN
    /\ l1 = [p \in Policies |-> "none"] /\ l2 = l1
    /\ lock = None
    /\ requests = [r \in Requests |-> Idle]
    /\ faults = 0

\* Mutant: the policy version is left out of the key.
KeyOfContent(policy) == CHOOSE p \in Policies : TRUE

\* CacheKey; the task and the content are fixed.
Key(policy) == policy

Fault == faults < MaxFaults /\ faults' = faults + 1
Same == UNCHANGED <<verdict, pgEnabled, faults>>
Goto(r, pc) == requests' = [requests EXCEPT ![r].pc = pc]
Settle(r, pc, result) == requests' = [requests EXCEPT ![r].pc = pc, ![r].result = result]

\* moderateText, moderateImage: a photo without its bytes is not classified.
Begin(r, policy) ==
    /\ requests[r] = Idle
    /\ requests' = [requests EXCEPT ![r] = [Idle EXCEPT !.pc = "get", !.policy = policy]]
    /\ UNCHANGED <<caches, lock>> /\ Same

Skip(r, policy) ==
    /\ requests[r] = Idle
    /\ requests' = [requests EXCEPT ![r] = [Idle EXCEPT !.pc = "done", !.policy = policy,
                                                        !.result = "skipped"]]
    /\ UNCHANGED <<caches, lock>> /\ Same

-----------------------------------------------------------------------------
(* InferenceCacheService.get, before the lock ("get") and under it          *)
(* ("recheck")                                                              *)

Found(r) == IF requests[r].locked THEN "release" ELSE "done"

GetL1(r) ==
    LET c == requests[r] IN
    /\ c.pc \in {"get", "recheck"} /\ l1[Key(c.policy)] # "none"
    /\ Settle(r, Found(r), l1[Key(c.policy)])
    /\ UNCHANGED <<caches, lock>> /\ Same

GetL2(r) ==
    LET c == requests[r]
        row == l2[Key(c.policy)] IN
    /\ c.pc \in {"get", "recheck"} /\ l1[Key(c.policy)] = "none"
    /\ IF pgEnabled /\ row # "none" THEN Settle(r, "refill", row)
       ELSE Goto(r, IF c.pc = "get" THEN "acquire" ELSE "fire")
    /\ UNCHANGED <<caches, lock>> /\ Same

\* A hit of the second level fills the first; a failure is ignored.
Refill(r) ==
    LET c == requests[r] IN
    /\ c.pc = "refill" /\ Goto(r, Found(r))
    /\ \/ l1' = [l1 EXCEPT ![Key(c.policy)] = c.result] /\ UNCHANGED faults
       \/ Fault /\ UNCHANGED l1
    /\ UNCHANGED <<l2, lock, verdict, pgEnabled>>

\* InferenceLockService.acquire: without the lock the inference goes on.
Acquire(r) ==
    /\ requests[r].pc = "acquire"
    /\ \/ /\ lock = None /\ lock' = r
          /\ requests' = [requests EXCEPT ![r].pc = "recheck", ![r].locked = TRUE]
          /\ UNCHANGED faults
       \/ /\ lock # None /\ Goto(r, "recheck")
          /\ UNCHANGED <<lock, faults>>
       \/ /\ lock = None /\ Fault /\ Goto(r, "recheck")
          /\ UNCHANGED lock
    /\ UNCHANGED <<caches, verdict, pgEnabled>>

\* The provider answers.
Fire(r) ==
    /\ requests[r].pc = "fire"
    /\ Settle(r, "set", verdict[requests[r].policy])
    /\ UNCHANGED <<caches, lock>> /\ Same

\* InferenceCacheService.set
SetL1(r) ==
    LET c == requests[r] IN
    /\ c.pc = "set" /\ Goto(r, IF pgEnabled THEN "set2" ELSE Found(r))
    /\ l1' = [l1 EXCEPT ![Key(c.policy)] = c.result]
    /\ UNCHANGED <<l2, lock>> /\ Same

SetL2(r) ==
    LET c == requests[r] IN
    /\ c.pc = "set2" /\ Goto(r, Found(r))
    /\ \/ /\ l2' = [l2 EXCEPT ![Key(c.policy)] = c.result]
          /\ UNCHANGED faults
       \/ Fault /\ UNCHANGED l2
    /\ UNCHANGED <<l1, lock, verdict, pgEnabled>>

\* Redis, the second level or the provider fails, times out or is cut off by
\* the breaker: the request fails closed, once it has released its lock.
Fails(r) ==
    /\ requests[r].pc \in {"get", "recheck", "fire", "set"} /\ Fault
    /\ Settle(r, Found(r), "failed")
    /\ UNCHANGED <<verdict, pgEnabled, caches, lock>>

\* InferenceLockService.release: only the holder's own lock goes.
Release(r) ==
    /\ requests[r].pc = "release"
    /\ requests' = [requests EXCEPT ![r].pc = "done", ![r].locked = FALSE]
    /\ \/ lock' = (IF lock = r THEN None ELSE lock) /\ UNCHANGED faults
       \/ Fault /\ UNCHANGED lock
    /\ UNCHANGED <<caches, verdict, pgEnabled>>

Answer(r) ==
    /\ requests[r].pc = "done" /\ requests' = [requests EXCEPT ![r] = Idle]
    /\ UNCHANGED <<caches, lock>> /\ Same

Dies(r) ==
    /\ requests[r] # Idle /\ Fault
    /\ requests' = [requests EXCEPT ![r] = Idle]
    /\ UNCHANGED <<verdict, pgEnabled, caches, lock>>

-----------------------------------------------------------------------------
(* Time                                                                    *)

LockExpires == lock # None /\ lock' = None /\ UNCHANGED <<caches, requests>> /\ Same

\* The Redis TTL or expiresAt passes; purgeExpired removes rows nobody reads.
Expire(p) ==
    /\ \/ l1[p] # "none" /\ l1' = [l1 EXCEPT ![p] = "none"] /\ UNCHANGED l2
       \/ l2[p] # "none" /\ l2' = [l2 EXCEPT ![p] = "none"] /\ UNCHANGED l1
    /\ UNCHANGED <<lock, requests>> /\ Same

Next ==
    \/ \E r \in Requests :
          \/ \E p \in Policies : Begin(r, p) \/ Skip(r, p)
          \/ GetL1(r) \/ GetL2(r) \/ Refill(r) \/ Acquire(r) \/ Fire(r)
          \/ SetL1(r) \/ SetL2(r) \/ Fails(r) \/ Release(r) \/ Answer(r) \/ Dies(r)
    \/ LockExpires
    \/ \E p \in Policies : Expire(p)

Spec == Init /\ [][Next]_vars

-----------------------------------------------------------------------------
\* moderate: the status of the whole, from the results of the text and the
\* photos
Moderate(results) ==
    IF results \cap {"failed", "flagged"} # {} THEN "FLAGGED" ELSE "OK"

TypeOK ==
    /\ verdict \in [Policies -> Verdicts] /\ pgEnabled \in BOOLEAN
    /\ {l1, l2} \subseteq [Policies -> Verdicts \cup {"none"}]
    /\ lock \in Requests \cup {None}
    /\ \A r \in Requests :
          requests[r] \in [pc : {"idle", "get", "refill", "acquire", "recheck",
                                 "fire", "set", "set2", "release", "done"},
                           policy : Policies \cup {None}, locked : BOOLEAN,
                           result : Verdicts \cup {"none", "skipped", "failed"}]
    /\ faults \in 0..MaxFaults

\* Whatever level answers, whichever release has written it and whatever
\* fails, a content is OK only if the provider says so under the policy of the
\* release that asks, or its bytes were missing; and a lock without a request
\* that holds it is left by a failure only.
VerdictIsFaithful ==
    /\ \A r \in Requests :
          LET c == requests[r] IN
          c.pc = "done" /\ Moderate({c.result}) = "OK"
            => c.result = "skipped" \/ verdict[c.policy] = "ok"
    /\ lock # None /\ faults = 0 => requests[lock].locked
=============================================================================
