---------------------------- MODULE Registration ----------------------------
(***************************************************************************)
(* Registration of users as administrator of a company, as professional or  *)
(* as employee of a company, and the role cache of AuthorizationService.    *)
(*                                                                         *)
(* A request reads all it checks, then writes in one transaction, then      *)
(* invalidates the cache.  Each table has unique indexes on the RUT and on  *)
(* the owner; nothing in the database relates the two tables.               *)
(***************************************************************************)
EXTENDS Naturals, FiniteSets

CONSTANTS
    Users,
    Ruts,
    NoRut,
    Slots       \* requests in progress at once

VARIABLES
    role,       \* User.role
    company,    \* Company: administrator -> RUT
    profile,    \* ProfessionalProfile: user -> RUT or NoRut
    employer,   \* User.companyId, by administrator: employee -> administrator
    calls,      \* the requests in progress
    cache,      \* AuthorizationService.roleCache
    lookups,    \* role read by a lookup that has not stored it yet
    orderly     \* history: nothing has overlapped or broken off

rows == <<role, company, profile, employer>>
vars == <<rows, calls, cache, lookups, orderly>>

Role == {"CLIENT", "INDEPENDENT_PRO", "COMPANY_ADMIN", "COMPANY_EMPLOYEE"}
Idle == [pc |-> "idle"]
Quiet == (\A s \in Slots : calls[s] = Idle) /\ (\A u \in Users : lookups[u] = "none")
Empty == [u \in {} |-> NoRut]
With(f, u, x) == [v \in DOMAIN f \cup {u} |-> IF v = u THEN x ELSE f[v]]

Init ==
    /\ role = [u \in Users |-> "CLIENT"]
    /\ company = Empty /\ profile = Empty /\ employer = Empty
    /\ calls = [s \in Slots |-> Idle]
    /\ cache = [u \in Users |-> "none"] /\ lookups = [u \in Users |-> "none"]
    /\ orderly = TRUE

RutsOf(f) == {f[u] : u \in DOMAIN f} \ {NoRut}

\* Mutant: each registration looks in its own table.
RutAvailableIn(rut, f) == rut \notin RutsOf(f)

\* assertRutAvailable, isRutTakenGlobally: both tables
RutAvailable(rut, f) == rut \notin RutsOf(company) \cup RutsOf(profile)

Begin(s, call) ==
    /\ calls[s] = Idle /\ calls' = [calls EXCEPT ![s] = call]
    /\ orderly' = (orderly /\ Quiet)
    /\ UNCHANGED <<rows, cache, lookups>>

\* createCompany
BeginCompany(s, u, rut) ==
    /\ RutAvailable(rut, company)
    /\ role[u] = "CLIENT" /\ u \notin DOMAIN company
    /\ Begin(s, [pc |-> "company", user |-> u, rut |-> rut])

\* createProfessionalProfile; the RUT is optional.
BeginProfile(s, u, rut) ==
    /\ u \notin DOMAIN profile
    /\ role[u] \in {"CLIENT", "INDEPENDENT_PRO"}
    /\ RutAvailable(rut, profile)
    /\ Begin(s, [pc |-> "profile", user |-> u, rut |-> rut, promotes |-> role[u] = "CLIENT"])

\* createEmployee
BeginEmployee(s, admin, u) ==
    /\ role[admin] = "COMPANY_ADMIN" /\ admin \in DOMAIN company /\ u # admin
    /\ role[u] = "CLIENT" /\ u \notin DOMAIN employer /\ u \notin DOMAIN profile
    /\ Begin(s, [pc |-> "employee", user |-> u, admin |-> admin])

\* The transaction is over.  The cached role is still to be forgotten when the
\* transaction has changed it: it may have been refused by a unique index.
Written(s, changed) ==
    /\ calls' = [calls EXCEPT ![s] =
                    IF changed THEN [pc |-> "invalidate", user |-> calls[s].user] ELSE Idle]
    /\ UNCHANGED <<cache, lookups, orderly>>

\* createCompanyWithAudit
CreateCompany(s) ==
    LET c == calls[s]
        refused == c.user \in DOMAIN company \/ c.rut \in RutsOf(company) IN
    /\ c.pc = "company"
    /\ company' = IF refused THEN company ELSE With(company, c.user, c.rut)
    /\ role' = IF refused THEN role ELSE [role EXCEPT ![c.user] = "COMPANY_ADMIN"]
    /\ Written(s, ~refused)
    /\ UNCHANGED <<profile, employer>>

\* createProfessionalProfileWithPostgis
CreateProfile(s) ==
    LET c == calls[s]
        refused == c.user \in DOMAIN profile \/ c.rut \in RutsOf(profile) IN
    /\ c.pc = "profile"
    /\ profile' = IF refused THEN profile ELSE With(profile, c.user, c.rut)
    /\ role' = IF ~refused /\ c.promotes THEN [role EXCEPT ![c.user] = "INDEPENDENT_PRO"] ELSE role
    /\ Written(s, ~refused /\ c.promotes)
    /\ UNCHANGED <<company, employer>>

\* linkUserAsCompanyEmployee: by id
LinkEmployee(s) ==
    LET c == calls[s] IN
    /\ c.pc = "employee"
    /\ employer' = With(employer, c.user, c.admin)
    /\ role' = [role EXCEPT ![c.user] = "COMPANY_EMPLOYEE"]
    /\ Written(s, TRUE)
    /\ UNCHANGED <<company, profile>>

\* Mutant: only an expired entry is looked up again.
InvalidateNothing(s) ==
    /\ calls[s].pc = "invalidate" /\ calls' = [calls EXCEPT ![s] = Idle]
    /\ UNCHANGED <<rows, cache, lookups, orderly>>

\* invalidateRoleCache
Invalidate(s) ==
    /\ calls[s].pc = "invalidate" /\ calls' = [calls EXCEPT ![s] = Idle]
    /\ cache' = [cache EXCEPT ![calls[s].user] = "none"]
    /\ UNCHANGED <<rows, lookups, orderly>>

\* The process dies, and its cache with it.
Dies ==
    /\ ~Quiet
    /\ calls' = [s \in Slots |-> Idle] /\ lookups' = [u \in Users |-> "none"]
    /\ cache' = [u \in Users |-> "none"]
    /\ UNCHANGED <<rows, orderly>>

\* resolveRole: a miss reads the row and then fills the cache.
Lookup(u) ==
    /\ cache[u] = "none" /\ lookups[u] = "none"
    /\ lookups' = [lookups EXCEPT ![u] = role[u]]
    /\ orderly' = (orderly /\ Quiet)
    /\ UNCHANGED <<rows, calls, cache>>

Store(u) ==
    /\ lookups[u] # "none" /\ lookups' = [lookups EXCEPT ![u] = "none"]
    /\ cache' = [cache EXCEPT ![u] = lookups[u]]
    /\ UNCHANGED <<rows, calls, orderly>>

\* The entry's expiresAt passes.
Expires(u) ==
    /\ cache[u] # "none" /\ cache' = [cache EXCEPT ![u] = "none"]
    /\ UNCHANGED <<rows, calls, lookups, orderly>>

Next ==
    \/ \E s \in Slots, u \in Users :
          \/ \E rut \in Ruts : BeginCompany(s, u, rut)
          \/ \E rut \in Ruts \cup {NoRut} : BeginProfile(s, u, rut)
          \/ \E admin \in Users : BeginEmployee(s, admin, u)
    \/ \E s \in Slots : CreateCompany(s) \/ CreateProfile(s) \/ LinkEmployee(s) \/ Invalidate(s)
    \/ Dies
    \/ \E u \in Users : Lookup(u) \/ Store(u) \/ Expires(u)

Spec == Init /\ [][Next]_vars

-----------------------------------------------------------------------------
TypeOK ==
    /\ role \in [Users -> Role]
    /\ DOMAIN company \subseteq Users /\ \A u \in DOMAIN company : company[u] \in Ruts
    /\ DOMAIN profile \subseteq Users /\ \A u \in DOMAIN profile : profile[u] \in Ruts \cup {NoRut}
    /\ DOMAIN employer \subseteq Users /\ \A u \in DOMAIN employer : employer[u] \in Users
    /\ cache \in [Users -> Role \cup {"none"}] /\ lookups \in [Users -> Role \cup {"none"}]
    /\ orderly \in BOOLEAN

\* A RUT belongs to one subject, although two tables hold RUTs; a user's role
\* says what the user owns; and a cached role is the user's role: as long as
\* no request has met another.
OneSubjectPerRut ==
    /\ RutsOf(company) \cap RutsOf(profile) = {}
    /\ \A f \in {company, profile} :
          \A u, v \in DOMAIN f : f[u] = f[v] /\ f[u] # NoRut => u = v
RoleSaysWhatIsOwned ==
    \A u \in Users :
        /\ role[u] = "COMPANY_ADMIN" <=> u \in DOMAIN company
        /\ role[u] = "INDEPENDENT_PRO" <=> u \in DOMAIN profile
        /\ role[u] = "COMPANY_EMPLOYEE" <=> u \in DOMAIN employer
CacheIsFresh == Quiet => \A u \in Users : cache[u] \in {"none", role[u]}
RegisteredOnce == orderly => OneSubjectPerRut /\ RoleSaysWhatIsOwned /\ CacheIsFresh
=============================================================================
