--------------------------- MODULE FeatureInputs ---------------------------
(***************************************************************************)
(* Features on every small input: texts are typed one character at a time, *)
(* terms built one head at a time, and what the package makes of them is   *)
(* compared with what it is for.                                           *)
(***************************************************************************)
EXTENDS Features

CONSTANTS
    Alphabet, MaxText,     \* texts: characters, and how many
    TermLeaves, TermHeads, \* terms: leaves, and heads
    MaxTerm,               \* heads put around a leaf
    MaxExponent            \* exponents: the largest numerator and denominator

\* Words are runs of letters.
ASSUME WordAssumption ==
    /\ Words \cap (Delimiters \cup DigitSet \cup {"#", "$", "/", "-", "\""}) = {}
    /\ {"Power", "v"} \subseteq Words

\* No head or leaf alone has the facet of a root.
RootFacets == {"fraction", "square-root", "nth-root"}

ASSUME FacetAssumption ==
    /\ \A op \in DOMAIN OpFacet : OpFacet[op] \notin RootFacets
    /\ \A leaf \in DOMAIN NamedFacet : NamedFacet[leaf] \notin RootFacets

\* What texts are made of.
Chars == Alphabet \cup Words \cup DigitSet \cup Delimiters \cup {"#", "$", "/", "-", "\""}

\* The leaves of go-canonical: v<n> or a name, a string in quotes, #<rat>, @<n> or
\* $<name>.
IsName(l) == l[1] \in Words /\ \A i \in DOMAIN l : l[i] \in Words \cup DigitSet
IsQuoted(l) ==
    /\ Len(l) > 2 /\ l[1] = "$" /\ l[2] = "\"" /\ l[Len(l)] = "\""
    /\ \A i \in 3..(Len(l) - 1) : l[i] # "\""
IsAtom(l) ==
    /\ l[1] \notin Words
    /\ \A i \in DOMAIN l : l[i] \notin Delimiters \cup {"\""}

ASSUME TermAssumption ==
    /\ TermHeads \subseteq Words
    /\ \A l \in TermLeaves :
         l \in Seq(Chars) \ {<<>>} /\ (IsName(l) \/ IsQuoted(l) \/ IsAtom(l))

ASSUME BoundAssumption == {MaxText, MaxTerm, MaxExponent} \subseteq Nat

VARIABLE item

-----------------------------------------------------------------------------
\* Inputs.

Text(s) == [what |-> "text", text |-> s]
Terms(t, u, heads) == [what |-> "terms", one |-> t, other |-> u, heads |-> heads]
Exponent(num, den) == [what |-> "exponent", num |-> num, den |-> den]

\* The texts of these terms, with commas between.
Listed(kids) ==
    LET listed[k \in 1..(Len(kids) + 1)] ==
            IF k > Len(kids) THEN <<>>
            ELSE kids[k].raw \o (IF k = Len(kids) THEN <<>> ELSE <<",">> \o listed[k + 1])
    IN  listed[1]

\* How go-canonical writes a term.
Bracketed(op, kids) == op \o <<"[">> \o Listed(kids) \o <<"]">>
Written(head, kids) == Node(<<head>>, kids, Bracketed(<<head>>, kids))

Leaves == {Leaf(l) : l \in TermLeaves}

ArgumentsOver(t) ==
    {<<>>, <<t>>} \cup {<<t, l>> : l \in Leaves} \cup {<<l, t>> : l \in Leaves}

TermsOver(t) ==
    UNION {{Written(h, kids) : kids \in ArgumentsOver(t)} : h \in TermHeads}

FeatureInit ==
    \/ item = Text(<<>>)
    \/ \E l, m \in Leaves : item = Terms(l, m, 0)
    \/ \E num \in -MaxExponent..MaxExponent, den \in 1..MaxExponent :
         item = Exponent(num, den)

Type ==
    /\ item.what = "text"
    /\ Len(item.text) < MaxText
    /\ \E c \in Alphabet : item' = Text(Append(item.text, c))

BuildTerms ==
    /\ item.what = "terms"
    /\ item.heads < MaxTerm
    /\ \E t \in TermsOver(item.one) :
       \E u \in {item.other} \cup TermsOver(item.other) :
         item' = Terms(t, u, item.heads + 1)

FeatureNext == Type \/ BuildTerms

FeatureSpec == FeatureInit /\ [][FeatureNext]_item

-----------------------------------------------------------------------------

\* A text without its blanks.
Dense(s) ==
    LET dense[k \in 0..Len(s)] ==
            IF k = 0 THEN <<>>
            ELSE IF s[k] = Blank THEN dense[k - 1] ELSE Append(dense[k - 1], s[k])
    IN  dense[Len(s)]

Number(n) == (IF n < 0 THEN <<"-">> ELSE <<>>) \o Decimal(IF n < 0 THEN -n ELSE n)

Rational(num, den) ==
    <<"#">> \o Number(num) \o (IF den = 1 THEN <<>> ELSE <<"/">> \o Number(den))

\* The reader of feature.go leaves nothing out and makes nothing up: blanks aside,
\* what it accepts is the text of the term it returns, and the text of each of its
\* subterms is that subterm, written out.
NothingDropped ==
    item.what = "text" =>
        \A n \in Parse(item.text) :
            /\ Dense(n.raw) = Dense(item.text)
            /\ \A t \in Subterms(n) :
                 Dense(t.raw) = Dense(IF IsLeaf(t) THEN t.leaf ELSE Bracketed(t.op, t.kids))

\* "It is quote-aware": the reader gets back every term go-canonical writes, with
\* the text of each subterm, strings that contain delimiters included.
ReadsBack ==
    item.what = "terms" => Parse(item.one.raw) = {item.one}

\* "Shared subexpressions": a formula is a candidate of every search for one of
\* its arguments, constants and variables included.
FoundByItsParts ==
    item.what = "terms" =>
        \A k \in Kids(item.one) : Matches(TokensFrom(k.raw), TokensFrom(item.one.raw))

\* The same term, or leaves of one class: two numbers, two variables, two strings.
Alike(t, u) ==
    \/ t = u
    \/ IsLeaf(t) /\ IsLeaf(u) /\ Generalize(t.leaf) = Generalize(u.leaf)

\* Two formulas are as similar as can be, for the ranking of fuzzy search, only if
\* they are the same: fingerprints tell apart what other tokens do not.  Formulas
\* that are leaves have none, and there it takes no more than one class: all lone
\* numbers are as similar as can be.
SameTokensSameTerm ==
    item.what = "terms" =>
        LET j == Jaccard(TokensFrom(item.one.raw), TokensFrom(item.other.raw)) IN
        j[1] = j[2] <=> Alike(item.one, item.other)

\* The facets of a power are those of its exponent as long as both numbers fit
\* into an int64, and none at all beyond.
RootFacetsExact ==
    item.what = "exponent" =>
        LET power == Written("Power", <<Leaf(<<"v", "1">>), Leaf(Rational(item.num, item.den))>>)
            read == FacetsFrom(power.raw)
            fits == {item.num, item.den} \subseteq Range64
            root == item.den = 2 /\ item.num \in {1, -1}
        IN
        /\ "fraction" \in read <=> fits /\ item.num < 0
        /\ "square-root" \in read <=> fits /\ root
        /\ "nth-root" \in read <=> fits /\ item.den > 1 /\ ~root

=============================================================================
