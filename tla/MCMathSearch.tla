---------------------------- MODULE MCMathSearch ----------------------------
(***************************************************************************)
(* Instances of MathSearch for TLC.  Two engines disagree about t1 only.   *)
(***************************************************************************)
EXTENDS MathSearch, TLC

CONSTANTS e1, e2, e3, t1, t2, bad, c1, c2, c3, old, new, integral, bessel,
          i1, i2

MCCanon ==
    old :> (t1 :> c1 @@ t2 :> c2 @@ bad :> ParseError)
    @@ new :> (t1 :> c3 @@ t2 :> c2 @@ bad :> ParseError)

MCFacetsOf == c1 :> {integral} @@ c2 :> {integral, bessel} @@ c3 :> {bessel}

\* Which process was built with which engine.
IngestsNew == [i \in Ingests |-> new]
IngestsMixed == [i \in Ingests |-> IF i = i1 THEN old ELSE new]
ServersNew == [p \in Posts |-> new]
ServersOld == [p \in Posts |-> old]

item(e, s, t) == [entry |-> e, side |-> s, text |-> t]
body(e, l, r) == [entry |-> e, lhs |-> l, rhs |-> r]

\* Three formulas to store and two sides to skip; a corpus that names one side
\* of an entry twice; a corpus with nothing to store.
MixedCorpus == <<item(e2, "lhs", t2), item(e1, "rhs", bad), item(e1, "lhs", t1),
                 item(e2, "rhs", Blank), item(e1, "rhs", t1)>>
RepeatingCorpus == <<item(e2, "lhs", t1), item(e2, "lhs", t2)>>
EmptyCorpus == <<item(e1, "lhs", Blank)>>

AllCorpora   == {MixedCorpus, RepeatingCorpus, EmptyCorpus}
PlainCorpora == {MixedCorpus}
SmallCorpora == {<<item(e1, "lhs", t1), item(e1, "rhs", t2)>>}

AllSubmissions == {body(e1, t1, t2), body(e1, t2, bad), body(e2, Blank, t1),
                   body(e2, Blank, Blank), body(Blank, t1, Blank)}
OtherEntry == {body(e3, t1, t2)}
FewSubmissions == {body(e1, t1, t2), body(e1, t2, bad), body(e1, t1, Blank)}

=============================================================================
