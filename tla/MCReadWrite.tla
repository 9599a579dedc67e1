---------------------------- MODULE MCReadWrite ----------------------------
(***************************************************************************)
(* Instances of ReadWrite for TLC: one corpus with a formula two entries   *)
(* share, and a reader.                                                    *)
(***************************************************************************)
EXTENDS ReadWrite, TLC

CONSTANTS e1, e2, t1, t2, t3, t4, t5, bad, c1, c2, c3, c4, c5, new, integral, bessel, i1

MCCanon ==
    new :> (t1 :> c1 @@ t2 :> c2 @@ t3 :> c3 @@ t4 :> c4 @@ t5 :> c5 @@ bad :> ParseError)

\* c2 has every facet c1 has.
MCFacetsOf == c1 :> {integral} @@ c2 :> {integral, bessel}
                @@ c3 :> {} @@ c4 :> {} @@ c5 :> {}

\* c3 and c4 are numbers, which have one token, one that c1 and c2 have too; c5 has
\* no tokens.
MCShares == [c \in {c1, c2, c3, c4} |-> {c1, c2, c3, c4}] @@ c5 :> {}
Alike(c) == c \in {c3, c4}
MCScore ==
    [c \in DOMAIN MCShares |-> [other \in DOMAIN MCShares |->
        IF c = other \/ (Alike(c) /\ Alike(other)) THEN 2
        ELSE IF other \in MCShares[c] THEN 1 ELSE 0]]

AllNew(processes) == [p \in processes |-> new]
IngestsNew == AllNew(Ingests)
ServersNew == AllNew(Posts)

item(e, s, t) == [entry |-> e, side |-> s, text |-> t]

\* Two entries have the same lhs, unless a request stores another one first.
MCCorpora == {<<item(e1, "rhs", t3), item(e2, "rhs", t4),
                item(e1, "lhs", t1), item(e2, "lhs", t1)>>}
MCSubmissions == {[entry |-> e2, lhs |-> t, rhs |-> Blank] : t \in {t2, t5}}

ask(kind, cli, c, selected) ==
    [kind |-> kind, cli |-> cli, canonical |-> c, selected |-> selected]

search(cli, c) == ask("search", cli, c, <<>>)
filter(selected) == ask("facets", FALSE, c1, selected)
dedup == ask("dedup", TRUE, c1, <<>>)

Unparsed == ask("search", FALSE, ParseError, <<>>)
AllRequests == {search(TRUE, c1), search(FALSE, c3), search(FALSE, c5), Unparsed, dedup,
                filter(<<integral>>), filter(<<integral, bessel>>),
                filter(<<integral, integral>>)}
OneFacet == {filter(<<integral>>)}

=============================================================================
