------------------------------- MODULE Queries -------------------------------
(***************************************************************************)
(* The read side: GET /api/search, GET /api/facets and the commands search *)
(* and dedup.  Each is a sequence of SELECTs, and each SELECT reads the    *)
(* tables as they are committed at that moment: nothing ties the answers   *)
(* given to one reader to one snapshot.                                    *)
(*                                                                         *)
(* The order of a list of results is left out, except where a limit cuts   *)
(* the list.                                                               *)
(***************************************************************************)
EXTENDS FormulaStore, Sequences, FiniteSets

CONSTANTS
    Readers,        \* the requests and command runs
    Requests,       \* what they may ask: [kind, cli, canonical, selected]
    Shares,         \* Shares[c]: canonical forms with a feature token of c
    Score,          \* Score[c][c2]: Jaccard of their features, scaled to Nat
    FuzzyLimit,     \* results returned; also the list limit of the filter
    CandidatePool,  \* BM25 candidates before they are ranked by Score
    DupLimit        \* groups dedup shows

Kinds == {"search", "facets", "dedup"}

\* ParseError: a formula to search for that canonical.Parse rejects.
Request == [kind : Kinds, cli : BOOLEAN, canonical : Canonicals \cup {ParseError},
            selected : Seq(FacetTags)]

\* A formula shares its tokens with itself, and no other is more similar to it;
\* another one may be as similar, and a formula may have no tokens at all.
ASSUME QueryAssumption ==
    /\ Requests \subseteq Request
    /\ Shares \in [Canonicals -> SUBSET Canonicals]
    /\ Score \in [Canonicals -> [Canonicals -> Nat]]
    /\ \A c \in Canonicals : Shares[c] # {} => c \in Shares[c]
    /\ \A c, other \in Canonicals : Shares[c] # {} => Score[c][other] <= Score[c][c]
    /\ FuzzyLimit \in Nat \ {0}
    /\ CandidatePool \in Nat
    /\ DupLimit \in Nat
    /\ Free \notin Readers

VARIABLE query   \* query[q]: how far q is, and what it has collected

-----------------------------------------------------------------------------
\* The SELECTs, on the tables d.

Chosen(selected) == {selected[k] : k \in DOMAIN selected}

SelectedRows(d, selected) == {x \in d.facets : x.facet \in Chosen(selected)}

\* Mutant: any of the selected facets will do.
FilterIdsAny(d, selected) ==
    IF selected = <<>> THEN Ids(d.formulas) ELSE Ids(SelectedRows(d, selected))

\* HAVING COUNT(DISTINCT facet) = len(selected); nothing selected, all ids.
FilterIds(d, selected) ==
    IF selected = <<>> THEN Ids(d.formulas)
    ELSE LET rows == SelectedRows(d, selected) IN
         {id \in Ids(rows) :
            Cardinality({x \in rows : x.id = id}) = Len(selected)}

FilterTotal(d, selected) == Cardinality(FilterIds(d, selected))

\* Mutant: the selected facets are offered again.
RefinementsAll(d, selected) ==
    LET rows == {x \in d.facets : x.id \in FilterIds(d, selected)} IN
    {<<tag, Cardinality({x \in rows : x.facet = tag})>> :
        tag \in {x.facet : x \in rows}}

\* The facets of the matching set that are not yet selected, with counts.
Refinements(d, selected) ==
    LET rows == {x \in d.facets \ SelectedRows(d, selected) :
                    x.id \in FilterIds(d, selected)}
    IN  {<<tag, Cardinality({x \in rows : x.facet = tag})>> :
            tag \in {x.facet : x \in rows}}

FilterList(d, selected) == {r \in d.formulas : r.id \in FilterIds(d, selected)}

SameSignature(d, c) == {r \in d.formulas : r.canonical = c}

\* formula_fts MATCH, joined with formulas.
Candidates(d, c) ==
    {r \in d.formulas : \E f \in d.fts : f.id = r.id /\ f.doc \in Shares[c]}

EntriesWith(d, c) == {r.entry : r \in SameSignature(d, c)}

SharedSignatures(d) == {c \in Canonicals : Cardinality(EntriesWith(d, c)) > 1}

\* Mutant: the sides are swapped.
EntrySidesSwapped(d, e) ==
    [s \in Sides |->
        LET rows == Conflicting(d, e, IF s = "lhs" THEN "rhs" ELSE "lhs") IN
        IF rows = {} THEN Blank ELSE (CHOOSE r \in rows : TRUE).text]

\* Both sides of an entry; Blank for one that is not there.
EntrySides(d, e) ==
    [s \in Sides |->
        LET rows == Conflicting(d, e, s) IN
        IF rows = {} THEN Blank ELSE (CHOOSE r \in rows : TRUE).text]

\* What is read of them: a SELECT that fails, a row that cannot be scanned and a
\* result that breaks off are ignored.
SidesRead(d, e) ==
    {[s \in Sides |-> IF s \in read THEN EntrySides(d, e)[s] ELSE Blank] :
        read \in SUBSET Sides}

\* Mutant: the list is cut before it is ranked.
BestAny(few, all, c) == TRUE

\* few of all, none of the others scoring higher for c.
Best(few, all, c) ==
    \A x \in few, y \in all \ few :
        Score[c][x.canonical] >= Score[c][y.canonical]

PoolSize == IF CandidatePool < FuzzyLimit THEN 5 * FuzzyLimit ELSE CandidatePool

\* n of the set S, or all of it.
UpTo(n, S) ==
    {few \in SUBSET S : \/ few = S /\ Cardinality(S) <= n
                        \/ Cardinality(few) = n}

-----------------------------------------------------------------------------

\* Rows sharing a signature are one result, shown as the first of them.
Result == [formula : Row, occurrences : SUBSET Row,
           identity : [Sides -> Texts \cup {Blank}]]

NoIdentity == [s \in Sides |-> Blank]

\* What collapse may return for firsts, one row of each signature in rows.
Firsts(rows) ==
    {few \in SUBSET rows :
        /\ \A x, y \in few : x.canonical = y.canonical => x = y
        /\ \A r \in rows : \E x \in few : x.canonical = r.canonical}

Collapsed(firsts, rows) ==
    {[formula |-> x, occurrences |-> SameSignature([formulas |-> rows], x.canonical),
      identity |-> NoIdentity] : x \in firsts}

Group == [signature : Canonicals, occurrences : SUBSET Row]

Nothing == [kind |-> "none"]

QueryState ==
    [pc      : {"idle", "open", "exact", "exactIds", "fuzzy", "ids", "total",
                "refine", "list", "shared", "groups", "done", "busyError", "failed"},
     request : Requests \cup {Nothing},
     total   : Nat,
     refine  : SUBSET (FacetTags \X Nat),
     found   : SUBSET Result,        \* results whose identity is not yet read
     shown   : SUBSET Result,        \* the results of the list being made
     exact   : SUBSET Result,        \* search: the exact results
     todo    : SUBSET Canonicals,    \* dedup: signatures not yet looked up
     groups  : SUBSET Group]

QueryInit ==
    query = [q \in Readers |->
               [pc |-> "idle", request |-> Nothing, total |-> 0, refine |-> {},
                found |-> {}, shown |-> {}, exact |-> {}, todo |-> {},
                groups |-> {}]]

FirstSelect(request) ==
    IF request.kind # "search" THEN "total"
    ELSE IF request.canonical = ParseError THEN "failed" ELSE "exact"

Received(q, request) ==
    query' = [query EXCEPT ![q] =
                [query[q] EXCEPT !.request = request,
                                 !.pc = IF request.cli THEN "open"
                                        ELSE FirstSelect(request)]]

QueryStart(q) ==
    /\ query[q].pc = "idle"
    /\ \E request \in Requests : Received(q, request)
    /\ UNCHANGED storeVars

\* A command opens the store itself, which needs the writer lock.
QueryOpen(q) ==
    /\ query[q].pc = "open"
    /\ CanWrite(q)
    /\ RecordLayout
    /\ query' = [query EXCEPT ![q].pc = FirstSelect(query[q].request)]
    /\ UNCHANGED <<db, txn, lock>>

QueryBusy(q) ==
    /\ query[q].pc = "open"
    /\ Busy(q)
    /\ query' = [query EXCEPT ![q].pc = "busyError"]
    /\ UNCHANGED storeVars

\* Exact and Fuzzy: the rows, ranked, collapsed and cut.
QueryExact(q) ==
    /\ query[q].pc = "exact"
    /\ LET rows == SameSignature(db, query[q].request.canonical) IN
       \E firsts \in Firsts(rows) :
         query' = [query EXCEPT ![q] =
                     [query[q] EXCEPT !.found = Collapsed(firsts, rows),
                                      !.pc = "exactIds"]]
    /\ UNCHANGED storeVars

QueryFuzzy(q) ==
    /\ query[q].pc = "fuzzy"
    /\ LET c == query[q].request.canonical IN
       \E pool \in UpTo(PoolSize, Candidates(db, c)) :
       \E firsts \in Firsts(pool) :
       \E few \in UpTo(FuzzyLimit, firsts) :
         /\ Best(few, firsts, c)
         /\ query' = [query EXCEPT ![q] =
                        [query[q] EXCEPT !.found = Collapsed(few, pool),
                                         !.pc = "ids"]]
    /\ UNCHANGED storeVars

\* Facets and Duplicates begin by counting.
QueryTotal(q) ==
    /\ query[q].pc = "total"
    /\ LET request == query[q].request
           facets == request.kind = "facets"
           n == IF facets THEN FilterTotal(db, request.selected)
                ELSE Cardinality(SharedSignatures(db))
       IN query' = [query EXCEPT ![q] =
                      [query[q] EXCEPT !.total = n,
                                       !.pc = IF facets THEN "refine" ELSE "shared"]]
    /\ UNCHANGED storeVars

QueryRefine(q) ==
    /\ query[q].pc = "refine"
    /\ query' = [query EXCEPT ![q] =
                   [query[q] EXCEPT
                      !.refine = Refinements(db, query[q].request.selected),
                      !.pc = IF query[q].total \in 1..FuzzyLimit THEN "list" ELSE "done"]]
    /\ UNCHANGED storeVars

QueryList(q) ==
    /\ query[q].pc = "list"
    /\ LET rows == FilterList(db, query[q].request.selected) IN
       \E firsts \in Firsts(rows) :
         query' = [query EXCEPT ![q] =
                     [query[q] EXCEPT !.found = Collapsed(firsts, rows),
                                      !.pc = "ids"]]
    /\ UNCHANGED storeVars

\* fillIdentities: one SELECT for each result; nothing tells one that failed.
FillIdentity(q) ==
    /\ query[q].pc \in {"exactIds", "ids"}
    /\ \E x \in query[q].found :
       \E identity \in SidesRead(db, x.formula.entry) :
         LET filled == [x EXCEPT !.identity = identity] IN
         query' = [query EXCEPT ![q] =
                     [query[q] EXCEPT !.found = query[q].found \ {x},
                                      !.shown = query[q].shown \cup {filled}]]
    /\ UNCHANGED storeVars

FilledExact(q) ==
    /\ query[q].pc = "exactIds"
    /\ query[q].found = {}
    /\ query' = [query EXCEPT ![q] =
                   [query[q] EXCEPT !.exact = query[q].shown, !.shown = {},
                                    !.pc = "fuzzy"]]
    /\ UNCHANGED storeVars

FilledAll(q) ==
    /\ query[q].pc = "ids"
    /\ query[q].found = {}
    /\ query' = [query EXCEPT ![q].pc = "done"]
    /\ UNCHANGED storeVars

\* Duplicates: the most shared signatures, then one SELECT for each.
QueryShared(q) ==
    /\ query[q].pc = "shared"
    /\ LET shared == SharedSignatures(db)
           size(c) == Cardinality(EntriesWith(db, c))
       IN \E few \in UpTo(DupLimit, shared) :
            /\ \A x \in few, y \in shared \ few : size(x) >= size(y)
            /\ query' = [query EXCEPT ![q] =
                           [query[q] EXCEPT !.todo = few, !.pc = "groups"]]
    /\ UNCHANGED storeVars

QueryGroup(q) ==
    /\ query[q].pc = "groups"
    /\ \E c \in query[q].todo :
         LET group == [signature |-> c, occurrences |-> SameSignature(db, c)] IN
         query' = [query EXCEPT ![q] =
                     [query[q] EXCEPT !.todo = query[q].todo \ {c},
                                      !.groups = query[q].groups \cup {group}]]
    /\ UNCHANGED storeVars

GroupsDone(q) ==
    /\ query[q].pc = "groups"
    /\ query[q].todo = {}
    /\ query' = [query EXCEPT ![q].pc = "done"]
    /\ UNCHANGED storeVars

\* Any other SELECT may fail, and with it the request or the command.  Without a
\* token to search by there is none.
SelectFails(q) ==
    /\ query[q].pc \in {"exact", "fuzzy", "total", "refine", "list", "shared", "groups"}
    /\ query[q].pc = "groups" => query[q].todo # {}
    /\ query[q].pc = "fuzzy" => Shares[query[q].request.canonical] # {}
    /\ query' = [query EXCEPT ![q].pc = "failed"]
    /\ UNCHANGED storeVars

QueryStep(q) ==
    \/ QueryOpen(q) \/ QueryBusy(q) \/ SelectFails(q)
    \/ QueryExact(q) \/ QueryFuzzy(q)
    \/ QueryTotal(q) \/ QueryRefine(q) \/ QueryList(q)
    \/ FillIdentity(q) \/ FilledExact(q) \/ FilledAll(q)
    \/ QueryShared(q) \/ QueryGroup(q) \/ GroupsDone(q)

QueryNext(q) == QueryStart(q) \/ QueryStep(q)

=============================================================================
