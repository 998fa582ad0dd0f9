--------------------------- MODULE PayoutAccounts ---------------------------
(***************************************************************************)
(* The payout accounts of one professional or company, and the gate that    *)
(* lets a professional accept a job only with exactly one active primary    *)
(* account.                                                                 *)
(*                                                                         *)
(* setPrimary clears and sets in one transaction at READ COMMITTED: an      *)
(* account made primary by another transaction after the clearing began is  *)
(* not cleared, so the clearing remembers the accounts it has seen.         *)
(***************************************************************************)
EXTENDS Naturals, FiniteSets

CONSTANTS
    Slots,          \* requests in progress at once
    Accounts        \* ids of accounts

VARIABLES
    subjectType,    \* PROFESSIONAL or COMPANY
    accounts,       \* the PayoutAccount rows
    calls,          \* the requests in progress
    orderly         \* history: no request has met another or broken off

vars == <<subjectType, accounts, calls, orderly>>

Rows == DOMAIN accounts
Active == {a \in Rows : accounts[a].active}
Primary == {a \in Rows : accounts[a].primary}
Idle == [pc |-> "idle"]
Quiet == \A s \in Slots : calls[s] = Idle

Init ==
    /\ subjectType \in {"PROFESSIONAL", "COMPANY"}
    /\ accounts = [a \in {} |-> [primary |-> FALSE, active |-> TRUE]]
    /\ calls = [s \in Slots |-> Idle]
    /\ orderly = TRUE

Begin(s, call) ==
    /\ calls[s] = Idle /\ calls' = [calls EXCEPT ![s] = call]
    /\ orderly' = (orderly /\ Quiet)
    /\ UNCHANGED <<subjectType, accounts>>

Goto(s, call) == calls' = [calls EXCEPT ![s] = call] /\ UNCHANGED <<subjectType, orderly>>

\* isPrimary as the request gives it, or by default; inactive accounts count.
Chosen(given) == IF given = "omitted" THEN Rows = {} ELSE given = "yes"

BeginCreate(s, isPrimary) ==
    Begin(s, [pc |-> "create", primary |-> isPrimary, replaces |-> isPrimary /\ Primary # {}])

CreateForCurrentProfessional(s, given) ==
    subjectType = "PROFESSIONAL" /\ BeginCreate(s, Chosen(given))

CreateForCompany(s, given) ==
    subjectType = "COMPANY" /\ BeginCreate(s, Chosen(given))

\* Mutant: the earlier primary account is left alone.
CreateOnly(s, a) ==
    /\ calls[s].pc = "create" /\ a \notin Rows
    /\ accounts' = [b \in Rows \cup {a} |->
                       IF b = a THEN [primary |-> calls[s].primary, active |-> TRUE] ELSE accounts[b]]
    /\ Goto(s, Idle)

\* createProfessionalAccount, createCompanyAccount
Create(s, a) ==
    /\ calls[s].pc = "create" /\ a \notin Rows
    /\ accounts' = [b \in Rows \cup {a} |->
                       IF b = a THEN [primary |-> calls[s].primary, active |-> TRUE] ELSE accounts[b]]
    /\ Goto(s, IF calls[s].replaces THEN [pc |-> "clear", account |-> a] ELSE Idle)

\* Of any account, an inactive one included.
BeginSetPrimary(s, a) == a \in Rows /\ Begin(s, [pc |-> "clear", account |-> a])

SetPrimaryForCurrentProfessional(s, a) == subjectType = "PROFESSIONAL" /\ BeginSetPrimary(s, a)
SetPrimaryForCompany(s, a) == subjectType = "COMPANY" /\ BeginSetPrimary(s, a)

\* setPrimaryProfessional, setPrimaryCompany: updateMany
Clear(s) ==
    /\ calls[s].pc = "clear"
    /\ Goto(s, [pc |-> "set", account |-> calls[s].account, seen |-> Primary])
    /\ UNCHANGED accounts

\* The commit: the accounts seen are cleared, then one is set.
SetPrimary(s) ==
    /\ calls[s].pc = "set"
    /\ accounts' = [a \in Rows |->
                       [accounts[a] EXCEPT !.primary =
                           a = calls[s].account \/ (@ /\ a \notin calls[s].seen)]]
    /\ Goto(s, Idle)

\* updateForCurrentProfessional: label and isActive, without a count.
Update(a, active) ==
    /\ subjectType = "PROFESSIONAL" /\ a \in Rows
    /\ accounts' = [accounts EXCEPT ![a].active = active]
    /\ UNCHANGED <<subjectType, calls, orderly>>

\* deactivateForCurrentProfessional: only for the primary account are the
\* active ones counted.
BeginDeactivate(s, a) ==
    /\ subjectType = "PROFESSIONAL" /\ a \in Rows
    /\ a \in Primary => Cardinality(Active) > 1
    /\ Begin(s, [pc |-> "deactivate", account |-> a])

Deactivate(s) ==
    /\ calls[s].pc = "deactivate"
    /\ accounts' = [accounts EXCEPT ![calls[s].account].active = FALSE]
    /\ Goto(s, Idle)

\* resolvePayoutAccountId: the account asked for, unless it is inactive, or
\* the primary one if none is asked for.
Resolved(asked) == Active \cap (IF asked = {} THEN Primary ELSE asked)

\* assertProfessionalCanAcceptJob
CanAcceptJob ==
    /\ Active # {}
    /\ Cardinality(Active \cap Primary) = 1
    /\ Resolved({}) # {}

\* The process dies between two transactions.
Dies(s) ==
    /\ calls[s] # Idle /\ calls' = [calls EXCEPT ![s] = Idle]
    /\ orderly' = FALSE
    /\ UNCHANGED <<subjectType, accounts>>

Next ==
    \E s \in Slots :
        \/ \E given \in {"omitted", "yes", "no"} :
              CreateForCurrentProfessional(s, given) \/ CreateForCompany(s, given)
        \/ \E a \in Accounts :
              \/ Create(s, a) \/ BeginDeactivate(s, a)
              \/ SetPrimaryForCurrentProfessional(s, a) \/ SetPrimaryForCompany(s, a)
              \/ \E active \in BOOLEAN : Update(a, active)
        \/ Clear(s) \/ SetPrimary(s) \/ Deactivate(s) \/ Dies(s)

Spec == Init /\ [][Next]_vars

-----------------------------------------------------------------------------
Calls ==
    {Idle}
    \cup [pc : {"create"}, primary : BOOLEAN, replaces : BOOLEAN]
    \cup [pc : {"clear", "deactivate"}, account : Accounts]
    \cup [pc : {"set"}, account : Accounts, seen : SUBSET Accounts]

TypeOK ==
    /\ subjectType \in {"PROFESSIONAL", "COMPANY"}
    /\ Rows \subseteq Accounts
    /\ \A a \in Rows : accounts[a] \in [primary : BOOLEAN, active : BOOLEAN]
    /\ \A s \in Slots : calls[s] \in Calls
    /\ orderly \in BOOLEAN

\* Between requests that have followed one another a subject has at most one
\* primary account, so that the gate refuses a professional only for want of
\* an active primary one, never because there are two.
OnePrimary ==
    orderly /\ Quiet =>
        /\ Cardinality(Primary) <= 1
        /\ CanAcceptJob <=> \E a \in Primary : accounts[a].active
=============================================================================
