------------------------------ MODULE Features ------------------------------
(***************************************************************************)
(* Package feature: the reader of canonical forms, the feature tokens for  *)
(* fuzzy search and the facets for the filter.                             *)
(* FNV hashes are taken to be injective.                                   *)
(***************************************************************************)
EXTENDS Texts, FiniteSetsExt

CONSTANTS
    Words,        \* runs of letters
    OpFacet,      \* opFacet: a partial function from heads to facets
    NamedFacet,   \* the facets of $Pi, $E, ...: a partial function from leaves
    MaxInt        \* the largest int64

ASSUME FeatureAssumption == MaxInt \in Nat \ {0}

-----------------------------------------------------------------------------
\* Terms.  A leaf has no op, an operator no leaf; raw is what was read.

Leaf(leaf) == [op |-> <<>>, kids |-> <<>>, leaf |-> leaf, raw |-> leaf]
Node(op, kids, raw) == [op |-> op, kids |-> kids, leaf |-> <<>>, raw |-> raw]
IsLeaf(n) == n.op = <<>>
Kids(n) == {n.kids[i] : i \in DOMAIN n.kids}

\* A term is no deeper than its text is long.
Subterms(n) ==
    LET within[d \in 0..Len(n.raw)] ==
            IF d = 0 THEN {n} ELSE {n} \cup UNION {Kids(t) : t \in within[d - 1]}
    IN  within[Len(n.raw)]

\* The character at position p, or what no character is.
Peek(s, p) == IF p \in DOMAIN s THEN s[p] ELSE "end"

\* The first of these positions of s, or its end.
First(positions, s) == IF positions = {} THEN Len(s) + 1 ELSE Min(positions)

Blank == " "

Skip(s, p) == First({k \in p..Len(s) : s[k] # Blank}, s)
NameEnd(s, p) == First({k \in p..Len(s) : s[k] \notin Words \cup DigitSet}, s)
Find(s, p, chars) == First({k \in p..Len(s) : s[k] \in chars}, s)

Delimiters == {",", "[", "]", Blank}

\* Mutant: the reader stops at a delimiter inside quotes.
LeafEndUnquoted(s, p) == Find(s, p, Delimiters)

\* readLeaf: a quoted string may contain delimiters, and may lack its end.
LeafEnd(s, p) ==
    IF Peek(s, p) = "$" /\ Peek(s, p + 1) = "\""
    THEN LET quote == Find(s, p + 2, {"\""}) IN
         IF quote > Len(s) THEN quote ELSE quote + 1
    ELSE Find(s, p, Delimiters)

\* What was read up to pos: nothing if it is not a term.
Failure == [value |-> {}, pos |-> 0]
Success(value, pos) == [value |-> {value}, pos |-> pos]
ValueOf(read) == CHOOSE v \in read.value : TRUE

\* node: a name with arguments, a bare name, or an atom; args is what the loop of
\* node reads from each position.
ReadNode(s, args, p) ==
    LET start == Skip(s, p)
        named == Peek(s, start) \in Words
        end   == IF named THEN NameEnd(s, start) ELSE LeafEnd(s, start)
        token == SubSeq(s, start, end - 1)
        first == Skip(s, end + 1)
        kids  == IF Peek(s, first) = "]" THEN Success(<<>>, first) ELSE args[first]
        close == Skip(s, kids.pos)
    IN
    IF end = start THEN Failure
    ELSE IF ~named \/ Peek(s, end) # "[" THEN Success(Leaf(token), end)
    ELSE IF kids.value = {} \/ Peek(s, close) # "]" THEN Failure
    ELSE Success(Node(token, ValueOf(kids), SubSeq(s, start, close)), close + 1)

\* The arguments from kid on, up to the first that no comma follows.
ArgsAfter(s, args, kid) ==
    LET next == Skip(s, kid.pos)
        rest == IF Peek(s, next) = "," THEN args[next + 1] ELSE Success(<<>>, next)
    IN
    IF kid.value = {} \/ rest.value = {} THEN Failure
    ELSE Success(<<ValueOf(kid)>> \o ValueOf(rest), rest.pos)

ArgsFrom(s, args, p) == ArgsAfter(s, args, ReadNode(s, args, p))

ReadArgs(s) ==
    LET args[p \in 1..(Len(s) + 1)] == ArgsFrom(s, args, p) IN args

ReadTerm(s) == ReadNode(s, ReadArgs(s), 1)

\* Mutant: what follows the term is not looked at.
ParsePrefix(s) == ReadTerm(s).value

\* Parse: the set of the one term that s is, or empty.
Parse(s) ==
    LET read == ReadTerm(s) IN
    IF read.value # {} /\ Skip(s, read.pos) = Len(s) + 1 THEN read.value ELSE {}

-----------------------------------------------------------------------------
\* Tokens.  How often one occurs only ranks, and is left out.

\* generalize: numbers, variables, slots and strings are not told apart.
Generalize(leaf) ==
    CASE leaf = <<>> -> <<"?">>
      [] Peek(leaf, 1) = "#" -> <<"#num">>
      [] Peek(leaf, 1) = "v" -> <<"var">>
      [] Peek(leaf, 1) = "@" -> <<"slot">>
      [] Peek(leaf, 1) = "$" /\ Peek(leaf, 2) = "\"" -> <<"$str">>
      [] OTHER -> leaf

HeadLabel(n) == IF IsLeaf(n) THEN Generalize(n.leaf) ELSE n.op

\* Mutant: no fingerprint of the subterm.
FingerprintNone(n) == {}

Fingerprint(n) == {<<"s", n.raw>>}

\* The tokens of n itself: its head, its edges and paths, its fingerprint.
OwnTokens(n) ==
    IF IsLeaf(n) THEN {<<"l", Generalize(n.leaf)>>}
    ELSE {<<"op", n.op>>} \cup Fingerprint(n)
           \cup {<<"e", n.op, HeadLabel(k)>> : k \in Kids(n)}
           \cup UNION {{<<"p", n.op, k.op, HeadLabel(g)>> : g \in Kids(k)} : k \in Kids(n)}

\* Mutant: the arguments are not walked.
TokensTop(n) == OwnTokens(n)

Tokens(n) == UNION {OwnTokens(t) : t \in Subterms(n)}

\* TokensFrom: a text that is not a term has no tokens.
TokensFrom(s) == UNION {Tokens(n) : n \in Parse(s)}

\* MatchQuery asks for any of the distinct tokens; Document holds them all.
Matches(query, doc) == query \cap doc # {}

\* The similarity as a fraction, 1 for two empty lists.
Jaccard(a, b) ==
    IF a \cup b = {} THEN <<1, 1>> ELSE <<Cardinality(a \cap b), Cardinality(a \cup b)>>

-----------------------------------------------------------------------------
\* Facets.

Range64 == (-MaxInt - 1)..MaxInt

\* strconv.ParseInt: the set of the number s is, or empty.
ParseInt(s) ==
    LET signed == Peek(s, 1) \in {"+", "-"}
        digits == IF signed THEN Tail(s) ELSE s
        abs    == DecimalValue(digits)
    IN  IF digits = <<>> \/ \E i \in DOMAIN digits : digits[i] \notin DigitSet THEN {}
        ELSE {IF Peek(s, 1) = "-" THEN -abs ELSE abs} \cap Range64

\* Mutant: a fraction is read up to its bar.
ParseRatNumerator(leaf) ==
    IF Peek(leaf, 1) # "#" THEN {}
    ELSE ParseInt(SubSeq(leaf, 2, Find(leaf, 2, {"/"}) - 1)) \X {1}

\* parseRat: the set of the one <<num, den>> that leaf is, or empty.
ParseRat(leaf) ==
    LET bar == Find(leaf, 2, {"/"})
        num == ParseInt(SubSeq(leaf, 2, bar - 1))
        den == IF bar > Len(leaf) THEN {1}
               ELSE ParseInt(SubSeq(leaf, bar + 1, Len(leaf))) \ {0}
    IN  IF Peek(leaf, 1) # "#" THEN {} ELSE num \X den

IntegralFacets(n) ==
    {"integral", IF Len(n.kids) >= 3 THEN "definite-integral" ELSE "indefinite-integral"}

Derivative == <<"Derivative">>
IsDerivative(n) ==
    /\ n.kids # <<>>
    /\ LET head == n.kids[1] IN
       \/ head.op = Derivative
       \/ head.op = <<"Construct">> /\ head.kids # <<>> /\ head.kids[1].op = Derivative

ExponentFacets(num, den) ==
    {f \in {"fraction"} : num < 0}
      \cup IF den = 2 /\ num \in {1, -1} THEN {"square-root"}
           ELSE {f \in {"nth-root"} : den > 1}

PowerFacets(n) ==
    IF Len(n.kids) = 2 /\ IsLeaf(n.kids[2])
    THEN UNION {ExponentFacets(r[1], r[2]) : r \in ParseRat(n.kids[2].leaf)} ELSE {}

OwnFacets(n) ==
    IF IsLeaf(n) THEN {NamedFacet[l] : l \in {n.leaf} \cap DOMAIN NamedFacet}
    ELSE {OpFacet[op] : op \in {n.op} \cap DOMAIN OpFacet}
           \cup CASE n.op = <<"Integrate">> -> IntegralFacets(n)
                  [] n.op = <<"Construct">> -> {f \in {"derivative"} : IsDerivative(n)}
                  [] n.op = <<"Power">> -> PowerFacets(n)
                  [] OTHER -> {}

Facets(n) == UNION {OwnFacets(t) : t \in Subterms(n)}

FacetsFrom(s) == UNION {Facets(n) : n \in Parse(s)}

=============================================================================
