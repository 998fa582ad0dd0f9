------------------------------- MODULE Search -------------------------------
(***************************************************************************)
(* The search for professionals and companies around a point.               *)
(*                                                                         *)
(* One search runs four queries, each on what is committed when it runs:    *)
(* professionals, companies, and the count of each.  Both kinds are sorted  *)
(* by relevance and then distance and cut at the end of the page asked for; *)
(* the two lists are merged by distance alone and the page is cut out.  A    *)
(* behaviour is one search, whose pages the client turns while owners       *)
(* change their rows.                                                       *)
(*                                                                         *)
(* Abstractions: a service area is its distance to the point and whether    *)
(* its radius reaches the point; a text is how the query finds it: by its   *)
(* own words (exact), by a synonym (synonym), by likeness only (similar).   *)
(* The category filter is one more condition on the row and is left out.    *)
(***************************************************************************)
EXTENDS Naturals, Sequences, FiniteSets, Functions

CONSTANTS
    None,
    Professionals, Companies,
    Limits,         \* page sizes
    MaxPage         \* bound: pages turned

Subjects == Professionals \cup Companies

VARIABLES
    rows,           \* the subjects' rows
    enabled,        \* expansion is on for the platform (read at start)
    expansions,     \* cached terms of the query, or None
    search,         \* the search in progress
    shown,          \* history: what its earlier pages have shown
    met             \* history: rows or terms have changed since its first page

vars == <<rows, enabled, expansions, search, shown, met>>

Radius == 3         \* of the client, in the unit of the distances

Area(at, covers) == [at |-> at, covers |-> covers]
Row(areas, text) == [listed |-> TRUE, areas |-> areas, text |-> text]

\* Bound: the rows.  The last one has a near area that does not reach the
\* point and one that does from too far for the client.
Offers ==
    {Row({Area(1, TRUE)}, "similar"), Row({Area(1, TRUE)}, "exact"),
     Row({Area(2, TRUE)}, "exact"), Row({Area(3, TRUE)}, "synonym"),
     Row({Area(4, TRUE)}, "exact"), Row({Area(2, FALSE), Area(4, TRUE)}, "exact")}

Idle == [pc |-> "idle"]

Init ==
    /\ rows \in [Subjects -> Offers]
    /\ enabled \in BOOLEAN
    /\ expansions = None /\ search = Idle
    /\ shown = {} /\ met = FALSE

-----------------------------------------------------------------------------
(* SearchRepository                                                        *)

\* minDistanceSubquery: of the nearest area, whether it covers the point or not.
Distance(s) ==
    CHOOSE d \in {a.at : a \in rows[s].areas} : \A a \in rows[s].areas : d <= a.at

\* serviceAreaExistsClause
Covered(s) == \E a \in rows[s].areas : a.covers

FullText(s, terms) == rows[s].text = "exact" \/ (rows[s].text = "synonym" /\ "synonym" \in terms)

\* buildTextFilter: a full-text match of any term, or a text like the query.
TextMatches(s, terms) == terms = {} \/ FullText(s, terms) \/ rows[s].text = "similar"
Rank(s, terms) == IF terms = {} \/ FullText(s, terms) THEN 0 ELSE 1

\* The WHERE of both queries.
Matches(terms) ==
    {s \in Subjects : /\ rows[s].listed
                      /\ Covered(s) /\ Distance(s) <= Radius
                      /\ TextMatches(s, terms)}

ComesBefore(s, t, terms) ==
    \/ Rank(s, terms) < Rank(t, terms)
    \/ Rank(s, terms) = Rank(t, terms) /\ Distance(s) < Distance(t)

\* The first n of S, of whom nobody left for later comes before one taken;
\* those that tie come in any order.
FirstOf(S, n, terms) ==
    LET length == IF n < Cardinality(S) THEN n ELSE Cardinality(S) IN
    {q \in [1..length -> S] :
        /\ IsInjective(q)
        /\ \A i \in 1..length : \A s \in S \ {q[j] : j \in 1..i} : ~ComesBefore(s, q[i], terms)}

\* ORDER BY relevance_rank, distance_m LIMIT n
Find(kind, terms, n) ==
    {[i \in DOMAIN q |-> [id |-> q[i], at |-> Distance(q[i])]] :
        q \in FirstOf(Matches(terms) \cap kind, n, terms)}

Count(kind, terms) == Cardinality(Matches(terms) \cap kind)

-----------------------------------------------------------------------------
(* SearchQueryExpanderService                                              *)

\* callOpenAI puts the query first when it is not among the terms; a list that
\* names it only after the maxTerms kept, and so loses it, is left out.
Answers == {{"q"}, {"q", "synonym"}}

Expanding == search.pc = "expand"

\* The terms found; on a later page they may not be those of the first.
Terms(terms) ==
    /\ search' = [pc |-> "query", text |-> search.text, limit |-> search.limit, page |-> search.page,
                  terms |-> terms, found |-> <<>>, total |-> 0, next |-> "professionals"]
    /\ met' = (met \/ (search.page > 1 /\ terms # search.before))
    /\ UNCHANGED <<rows, enabled, shown>>

\* searchProfessionals without q, or with q and the expansion off.
Unexpanded ==
    /\ Expanding /\ (search.text => ~enabled)
    /\ Terms(IF search.text THEN {"q"} ELSE {}) /\ UNCHANGED expansions

\* expand: the cached answer.
Cached ==
    /\ Expanding /\ search.text /\ enabled /\ expansions # None
    /\ Terms(expansions) /\ UNCHANGED expansions

\* expand: a new answer, kept unless Redis fails; the cache was empty or
\* could not be read.
Expand(answer) ==
    /\ Expanding /\ search.text /\ enabled /\ Terms(answer)
    /\ expansions' \in {answer, expansions}

\* expand: the provider fails, or the breaker is open.
Fallback ==
    /\ Expanding /\ search.text /\ enabled /\ Terms({"q"}) /\ UNCHANGED expansions

\* The TTL of the cache.
Expires == expansions # None /\ expansions' = None /\ UNCHANGED <<rows, enabled, search, shown, met>>

-----------------------------------------------------------------------------
(* SearchService                                                           *)

Ask(text, limit, page, before) ==
    [pc |-> "expand", text |-> text, limit |-> limit, page |-> page, before |-> before]

Begin(text, limit) ==
    /\ search = Idle /\ search' = Ask(text, limit, 1, {})
    /\ UNCHANGED <<rows, enabled, expansions, shown, met>>

\* The client asks for the next page.  Bound: not of a search that has met a
\* change, of which nothing is promised.
Turn ==
    /\ search.pc = "answered" /\ search.page < MaxPage /\ ~met
    /\ search' = Ask(search.text, search.limit, search.page + 1, search.terms)
    /\ shown' = shown \cup Range(search.results)
    /\ UNCHANGED <<rows, enabled, expansions, met>>

Quiet == UNCHANGED <<rows, enabled, expansions, shown, met>>
Offset == (search.page - 1) * search.limit

\* Mutant: each kind skips the rows of the earlier pages in SQL.
FetchedFromOffset(kind) ==
    {SubSeq(q, Offset + 1, Len(q)) : q \in Find(kind, search.terms, Offset + search.limit)}

\* What the query of a kind returns: from its first row to the end of the page.
Fetched(kind) == Find(kind, search.terms, Offset + search.limit)

\* The four queries of Promise.all, in the order they are sent.
FindProfessionals ==
    /\ search.pc = "query" /\ search.next = "professionals"
    /\ \E q \in Fetched(Professionals) :
          search' = [search EXCEPT !.found = q, !.next = "companies"]
    /\ Quiet

FindCompanies ==
    /\ search.pc = "query" /\ search.next = "companies"
    /\ \E q \in Fetched(Companies) :
          search' = [search EXCEPT !.found = @ \o q, !.next = "countProfessionals"]
    /\ Quiet

CountProfessionals ==
    /\ search.pc = "query" /\ search.next = "countProfessionals"
    /\ search' = [search EXCEPT !.total = Count(Professionals, search.terms), !.next = "countCompanies"]
    /\ Quiet

\* mergeByDistance: a stable sort by distance.
Ahead(q, i) == {j \in DOMAIN q : q[j].at < q[i].at \/ (q[j].at = q[i].at /\ j < i)}
MergeByDistance(q) ==
    [k \in DOMAIN q |-> q[CHOOSE i \in DOMAIN q : Cardinality(Ahead(q, i)) = k - 1].id]

Slice(q, from, n) == [i \in {j \in 1..n : from + j \in DOMAIN q} |-> q[from + i]]

\* The last query, and the answer.
Answer ==
    /\ search.pc = "query" /\ search.next = "countCompanies"
    /\ search' = [pc |-> "answered", text |-> search.text, limit |-> search.limit, page |-> search.page,
                  terms |-> search.terms, total |-> search.total + Count(Companies, search.terms),
                  results |-> Slice(MergeByDistance(search.found), Offset, search.limit)]
    /\ Quiet

\* An owner switches availability or deletes the subject.  Bound: one change
\* meets a search; the changes before it are the initial states.
Toggle(s) ==
    /\ search # Idle /\ ~met
    /\ rows' = [rows EXCEPT ![s].listed = ~@]
    /\ met' = TRUE /\ shown' = {}
    /\ UNCHANGED <<enabled, expansions, search>>

Next ==
    \/ \E text \in BOOLEAN, limit \in Limits : Begin(text, limit)
    \/ Unexpanded \/ Cached \/ Fallback \/ Expires
    \/ \E answer \in Answers : Expand(answer)
    \/ FindProfessionals \/ FindCompanies \/ CountProfessionals \/ Answer
    \/ Turn
    \/ \E s \in Subjects : Toggle(s)

Spec == Init /\ [][Next]_vars

-----------------------------------------------------------------------------
AnyRow ==
    [listed : BOOLEAN, text : {"exact", "synonym", "similar"},
     areas : {{Area(1, TRUE)}, {Area(2, TRUE)}, {Area(3, TRUE)}, {Area(4, TRUE)},
              {Area(2, FALSE), Area(4, TRUE)}}]

TypeOK ==
    /\ rows \in [Subjects -> AnyRow]
    /\ enabled \in BOOLEAN /\ met \in BOOLEAN
    /\ expansions \in Answers \cup {None}
    /\ search.pc \in {"idle", "expand", "query", "answered"}
    /\ search.pc = "query" => search.found \in Seq([id : Subjects, at : 1..4])
    /\ search.pc = "answered" => /\ search.total <= Cardinality(Subjects)
                                 /\ IsInjective(search.results) /\ Range(search.results) \subseteq Subjects
    /\ shown \subseteq Subjects

Answered == search.pc = "answered" /\ ~met
Found == Matches(search.terms)
NoTies == \A s, t \in Found : Distance(s) = Distance(t) => s = t
OneRank == \A s, t \in Found : Rank(s, search.terms) = Rank(t, search.terms)
Nearer(s) == {t \in Found : Distance(t) < Distance(s)}

\* A page that no change has met, of subjects equally relevant and at
\* different distances, is the page of both kinds together, nearest first,
\* and its total is their number.
PageIsExact ==
    Answered /\ NoTies /\ OneRank =>
        /\ search.total = Cardinality(Found)
        /\ \A i \in 1..search.limit :
              \A s \in Found : Cardinality(Nearer(s)) = Offset + i - 1 =>
                  i \in DOMAIN search.results /\ search.results[i] = s
        /\ Range(search.results) \subseteq Found

\* The results are "ordenados por distancia" and total is the "Total de
\* resultados para la query (sin paginar)": who has turned enough pages of a
\* search that nothing has met has been shown that many.
PagesCoverTotal ==
    Answered /\ NoTies /\ search.page * search.limit >= search.total =>
        Cardinality(shown \cup Range(search.results)) = search.total
=============================================================================
