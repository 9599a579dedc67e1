------------------------------ MODULE MCWebPage ------------------------------
(***************************************************************************)
(* An instance of WebPage for TLC: three formulas, one of them added while *)
(* the page is open, and three requests of either kind.                    *)
(***************************************************************************)
EXTENDS WebPage, TLC

CONSTANTS e1, e2, e3, t1, t2, c1, c2, new, integral, bessel

MCCanon == new :> (t1 :> c1 @@ t2 :> c2)
MCFacetsOf == c1 :> {integral} @@ c2 :> {integral, bessel}
MCShares == c1 :> {c1} @@ c2 :> {c2}
MCScore == c1 :> (c1 :> 2 @@ c2 :> 1) @@ c2 :> (c1 :> 1 @@ c2 :> 2)

MCInitialTables ==
    Upserted(Upserted(EmptyTables, e1, "lhs", t1, c1), e2, "rhs", t2, c2)
MCArrivals == {[entry |-> e3, side |-> "lhs", text |-> t2, canonical |-> c2]}

ask(kind, c, selected) ==
    [kind |-> kind, cli |-> FALSE, canonical |-> c, selected |-> selected]

Selections == UNION {[1..n -> FacetTags] : n \in 0..2}

MCRequests == {ask("facets", c1, selected) : selected \in Selections}
                 \cup {ask("search", c, <<>>) : c \in {c1, ParseError}}

Symmetry == Permutations(Readers)

=============================================================================
