--------------------------- MODULE FeatureProofs ---------------------------
(***************************************************************************)
(* Theorems about the reader, the tokens and the facets of feature.go.     *)
(***************************************************************************)
EXTENDS FeatureInputs, SequenceTheorems, FiniteSetTheorems, TLAPS

-----------------------------------------------------------------------------
\* Numbers and recursive functions.

\* A set of natural numbers that is not empty has a least one.
LEMMA LeastOf ==
    ASSUME NEW T, T \subseteq Nat, T # {}
    PROVE  \E x \in T : \A y \in T : x <= y
<1> DEFINE R == OpToRel(<, Nat)
<1>1. IsWellFoundedOn(R, Nat)
  BY NatLessThanWellFounded
<1>2. ASSUME NEW x \in T, NEW y \in T, <<y, x>> \notin R
      PROVE  x <= y
  BY <1>2 DEF OpToRel
<1> HIDE DEF R
<1>3. PICK x \in T : \A y \in T : <<y, x>> \notin R
  BY <1>1, WFMin
<1> QED
  BY <1>2, <1>3

\* Induction up to n, on a set of numbers.
LEMMA UpTheNumbers ==
    ASSUME NEW n \in Nat, NEW T, 0 \in T,
           \A k \in 0..n : k \in T /\ k < n => k + 1 \in T
    PROVE  0..n \subseteq T
<1> DEFINE Left == {k \in 0..n : k \notin T}
<1>1. CASE Left # {}
  <2>0. Left \subseteq Nat
    OBVIOUS
  <2>1. PICK k \in Left : \A j \in Left : k <= j
    <3> HIDE DEF Left
    <3> QED
      BY <1>1, <2>0, LeastOf
  <2>2. k # 0 /\ k - 1 \in 0..n /\ k - 1 < n /\ k - 1 \notin Left
    BY <2>1
  <2>3. (k - 1) + 1 \in T
    BY <2>2
  <2> QED
    BY <2>1, <2>3
<1> QED
  BY <1>1

-----------------------------------------------------------------------------
\* Positions in a text.

\* What First returns: the least of the positions, or the end of the text.
LEMMA FirstIsLeast ==
    ASSUME NEW s \in Seq(Chars), NEW p \in 1..(Len(s) + 1), NEW P \in SUBSET (p..Len(s))
    PROVE  /\ First(P, s) \in p..(Len(s) + 1)
           /\ First(P, s) <= Len(s) => First(P, s) \in P
           /\ \A k \in p..(First(P, s) - 1) : k \notin P
<1>0. Len(s) \in Nat
  BY LenProperties
<1>1. CASE P = {}
  BY <1>0, <1>1 DEF First
<1>2. CASE P # {}
  <2>1. P \subseteq Nat
    BY <1>0
  <2>2. \E x \in P : \A y \in P : x <= y
    BY <1>2, <2>1, LeastOf
  <2>3. Min(P) \in P /\ \A y \in P : Min(P) <= y
    BY <2>2, Zenon DEF Min
  <2>4. First(P, s) = Min(P)
    BY <1>2 DEF First
  <2>5. First(P, s) \in P /\ \A y \in P : First(P, s) <= y
    BY <2>3, <2>4
  <2> DEFINE f == First(P, s)
  <2>6. f \in p..Len(s)
    BY <2>5
  <2>7. \A k \in p..(f - 1) : k \notin P
    BY <1>0, <2>5, <2>6
  <2> QED
    BY <1>0, <2>5, <2>6, <2>7
<1> QED
  BY <1>1, <1>2

\* What skip passes over is blank, and it stops at what is not.
LEMMA SkipBounds ==
    ASSUME NEW s \in Seq(Chars), NEW p \in 1..(Len(s) + 1)
    PROVE  /\ Skip(s, p) \in p..(Len(s) + 1)
           /\ Skip(s, p) <= Len(s) => s[Skip(s, p)] # Blank
           /\ \A k \in p..(Skip(s, p) - 1) : s[k] = Blank
<1> DEFINE P == {k \in p..Len(s) : s[k] # Blank}
<1>1. Skip(s, p) = First(P, s)
  BY DEF Skip
<1>2. P \in SUBSET (p..Len(s))
  OBVIOUS
<1>3. \A k \in p..Len(s) : k \in P <=> s[k] # Blank
  OBVIOUS
<1> HIDE DEF P
<1>4. /\ First(P, s) \in p..(Len(s) + 1)
      /\ First(P, s) <= Len(s) => First(P, s) \in P
      /\ \A k \in p..(First(P, s) - 1) : k \notin P
  BY <1>2, FirstIsLeast
<1>5. Len(s) \in Nat
  BY LenProperties
<1> DEFINE f == First(P, s)
<1> HIDE DEF f
<1>6. /\ f \in p..(Len(s) + 1)
      /\ f <= Len(s) => f \in P
      /\ \A k \in p..(f - 1) : k \notin P
  BY <1>4 DEF f
<1>7. \A k \in p..(f - 1) : k \in p..Len(s)
  BY <1>5, <1>6
<1>8. Skip(s, p) = f
  BY <1>1 DEF f
<1> QED
  BY <1>3, <1>5, <1>6, <1>7, <1>8

\* Nothing is skipped in front of what is not a blank.
LEMMA SkipNothing ==
    ASSUME NEW s \in Seq(Chars), NEW p \in 1..(Len(s) + 1),
           p <= Len(s) => s[p] # Blank
    PROVE  Skip(s, p) = p
<1> DEFINE f == Skip(s, p)
<1>1. /\ f \in p..(Len(s) + 1)
      /\ \A k \in p..(f - 1) : s[k] = Blank
  BY SkipBounds
<1>2. Len(s) \in Nat
  BY LenProperties
<1> HIDE DEF f
<1>3. f # p => p \in p..(f - 1)
  BY <1>1, <1>2
<1>4. f = p
  BY <1>1, <1>2, <1>3
<1> QED
  BY <1>4 DEF f

\* A name goes on to what is neither a letter nor a digit.
LEMMA NameEndBounds ==
    ASSUME NEW s \in Seq(Chars), NEW p \in 1..(Len(s) + 1)
    PROVE  /\ NameEnd(s, p) \in p..(Len(s) + 1)
           /\ NameEnd(s, p) <= Len(s) => s[NameEnd(s, p)] \notin Words \cup DigitSet
           /\ \A k \in p..(NameEnd(s, p) - 1) : s[k] \in Words \cup DigitSet
<1> DEFINE P == {k \in p..Len(s) : s[k] \notin Words \cup DigitSet}
<1>1. NameEnd(s, p) = First(P, s)
  BY DEF NameEnd
<1>2. P \in SUBSET (p..Len(s))
  OBVIOUS
<1>3. \A k \in p..Len(s) : k \in P <=> s[k] \notin Words \cup DigitSet
  OBVIOUS
<1> HIDE DEF P
<1>4. /\ First(P, s) \in p..(Len(s) + 1)
      /\ First(P, s) <= Len(s) => First(P, s) \in P
      /\ \A k \in p..(First(P, s) - 1) : k \notin P
  BY <1>2, FirstIsLeast
<1>5. Len(s) \in Nat
  BY LenProperties
<1> DEFINE f == First(P, s)
<1> HIDE DEF f
<1>6. /\ f \in p..(Len(s) + 1)
      /\ f <= Len(s) => f \in P
      /\ \A k \in p..(f - 1) : k \notin P
  BY <1>4 DEF f
<1>7. \A k \in p..(f - 1) : k \in p..Len(s)
  BY <1>5, <1>6
<1> QED
  BY <1>1, <1>3, <1>5, <1>6, <1>7 DEF f

\* Find stops at one of the characters, or at the end.
LEMMA FindBounds ==
    ASSUME NEW s \in Seq(Chars), NEW p \in 1..(Len(s) + 1), NEW chars
    PROVE  /\ Find(s, p, chars) \in p..(Len(s) + 1)
           /\ Find(s, p, chars) <= Len(s) => s[Find(s, p, chars)] \in chars
           /\ \A k \in p..(Find(s, p, chars) - 1) : s[k] \notin chars
<1> DEFINE P == {k \in p..Len(s) : s[k] \in chars}
<1>1. Find(s, p, chars) = First(P, s)
  BY DEF Find
<1>2. P \in SUBSET (p..Len(s))
  OBVIOUS
<1>3. \A k \in p..Len(s) : k \in P <=> s[k] \in chars
  OBVIOUS
<1> HIDE DEF P
<1>4. /\ First(P, s) \in p..(Len(s) + 1)
      /\ First(P, s) <= Len(s) => First(P, s) \in P
      /\ \A k \in p..(First(P, s) - 1) : k \notin P
  BY <1>2, FirstIsLeast
<1>5. Len(s) \in Nat
  BY LenProperties
<1> DEFINE f == First(P, s)
<1> HIDE DEF f
<1>6. /\ f \in p..(Len(s) + 1)
      /\ f <= Len(s) => f \in P
      /\ \A k \in p..(f - 1) : k \notin P
  BY <1>4 DEF f
<1>7. \A k \in p..(f - 1) : k \in p..Len(s)
  BY <1>5, <1>6
<1> QED
  BY <1>1, <1>3, <1>5, <1>6, <1>7 DEF f

\* Find stops at q if q is the first of the characters, or the end.
LEMMA FindIs ==
    ASSUME NEW s \in Seq(Chars), NEW p \in 1..(Len(s) + 1), NEW chars,
           NEW q \in p..(Len(s) + 1), q <= Len(s) => s[q] \in chars,
           \A k \in p..(q - 1) : s[k] \notin chars
    PROVE  Find(s, p, chars) = q
<1> DEFINE f == Find(s, p, chars)
<1>1. /\ f \in p..(Len(s) + 1)
      /\ f <= Len(s) => s[f] \in chars
      /\ \A k \in p..(f - 1) : s[k] \notin chars
  BY FindBounds
<1>2. Len(s) \in Nat
  BY LenProperties
<1> HIDE DEF f
<1>3. f = q
  BY <1>1, <1>2
<1> QED
  BY <1>3 DEF f

LEMMA BlankApart ==
    Blank \notin {",", "[", "]", "$", "\"", "#", "/", "-", "end"}
BY Zenon DEF Blank

-----------------------------------------------------------------------------
\* The reader is defined, and goes forward.

\* What is read from p: nothing, or something up to a later position.
Reading(s, r, p) ==
    r = Failure \/ \E v, e : e \in (p + 1)..(Len(s) + 1) /\ r = Success(v, e)

\* An atom ends behind its beginning, within the text.
LEMMA LeafEndBounds ==
    ASSUME NEW s \in Seq(Chars), NEW p \in 1..(Len(s) + 1)
    PROVE  LeafEnd(s, p) \in p..(Len(s) + 1)
<1>0. Len(s) \in Nat /\ DOMAIN s = 1..Len(s)
  BY LenProperties
<1>1. CASE Peek(s, p) = "$" /\ Peek(s, p + 1) = "\""
  <2>1. p + 1 \in 1..Len(s)
    BY <1>0, <1>1 DEF Peek
  <2> DEFINE quote == Find(s, p + 2, {"\""})
  <2>2. p + 2 \in 1..(Len(s) + 1)
    BY <1>0, <2>1
  <2>3. quote \in (p + 2)..(Len(s) + 1)
    BY <2>2, FindBounds
  <2>4. LeafEnd(s, p) = IF quote > Len(s) THEN quote ELSE quote + 1
    BY <1>1 DEF LeafEnd
  <2> HIDE DEF quote
  <2> QED
    BY <1>0, <2>3, <2>4
<1>2. CASE ~(Peek(s, p) = "$" /\ Peek(s, p + 1) = "\"")
  <2>1. LeafEnd(s, p) = Find(s, p, Delimiters)
    BY <1>2, Zenon DEF LeafEnd
  <2> QED
    BY <2>1, FindBounds
<1> QED
  BY <1>1, <1>2

\* Where the token at p begins and ends.
TokenEnd(s, start) ==
    IF Peek(s, start) \in Words THEN NameEnd(s, start) ELSE LeafEnd(s, start)

LEMMA TokenBounds ==
    ASSUME NEW s \in Seq(Chars), NEW p \in 1..(Len(s) + 1)
    PROVE  /\ Skip(s, p) \in p..(Len(s) + 1)
           /\ TokenEnd(s, Skip(s, p)) \in Skip(s, p)..(Len(s) + 1)
<1>0. Len(s) \in Nat
  BY LenProperties
<1> DEFINE start == Skip(s, p)
<1>1. start \in p..(Len(s) + 1)
  BY SkipBounds
<1> HIDE DEF start
<1>2. start \in 1..(Len(s) + 1)
  BY <1>0, <1>1
<1>3. TokenEnd(s, start) \in start..(Len(s) + 1)
  BY <1>2, NameEndBounds, LeafEndBounds DEF TokenEnd
<1> QED
  BY <1>1, <1>3 DEF start

\* The cases of node: no token, a leaf, a head that is not closed, a term.
ArgsBehind(s, args, first) ==
    IF Peek(s, first) = "]" THEN Success(<<>>, first) ELSE args[first]

NodeOf(s, start, end, kids, close) ==
    IF end = start THEN Failure
    ELSE IF ~(Peek(s, start) \in Words) \/ Peek(s, end) # "["
    THEN Success(Leaf(SubSeq(s, start, end - 1)), end)
    ELSE IF kids.value = {} \/ Peek(s, close) # "]" THEN Failure
    ELSE Success(Node(SubSeq(s, start, end - 1), ValueOf(kids),
                      SubSeq(s, start, close)), close + 1)

\* ReadNode, with its parts named.
LEMMA NodeCases ==
    ASSUME NEW s, NEW args, NEW p
    PROVE  LET start == Skip(s, p)
               end == TokenEnd(s, start)
               kids == ArgsBehind(s, args, Skip(s, end + 1))
           IN  ReadNode(s, args, p) = NodeOf(s, start, end, kids, Skip(s, kids.pos))
BY DEF ReadNode, TokenEnd, NodeOf, ArgsBehind

LEMMA SuccessFields ==
    ASSUME NEW v, NEW e
    PROVE  /\ Success(v, e).value = {v} /\ Success(v, e).pos = e
           /\ ValueOf(Success(v, e)) = v
<1>1. Success(v, e).value = {v} /\ Success(v, e).pos = e
  BY DEF Success
<1>2. (CHOOSE x \in {v} : TRUE) = v
  OBVIOUS
<1> QED
  BY <1>1, <1>2, Zenon DEF ValueOf

LEMMA FailureFields == Failure.value = {} /\ Failure.pos = 0
BY DEF Failure

\* Reading a term from p needs the arguments behind p only.
LEMMA NodeReads ==
    ASSUME NEW s \in Seq(Chars), NEW p \in 1..(Len(s) + 1), NEW args,
           \A q \in (p + 1)..(Len(s) + 1) : Reading(s, args[q], q)
    PROVE  /\ Reading(s, ReadNode(s, args, p), p)
           /\ \A more : (\A q \in (p + 1)..(Len(s) + 1) : more[q] = args[q])
                          => ReadNode(s, more, p) = ReadNode(s, args, p)
<1>1. Len(s) \in Nat /\ DOMAIN s = 1..Len(s)
  BY LenProperties
<1> DEFINE start == Skip(s, p)
           end   == TokenEnd(s, start)
           first == Skip(s, end + 1)
           Kid(a) == ArgsBehind(s, a, first)
           close(a) == Skip(s, Kid(a).pos)
<1>2. start \in p..(Len(s) + 1) /\ end \in start..(Len(s) + 1)
  BY TokenBounds
<1> HIDE DEF end, start
<1>3. \A a : ReadNode(s, a, p) = NodeOf(s, start, end, Kid(a), close(a))
  BY NodeCases, Zenon DEF start, end
<1>4. \A a : ReadNode(s, a, p) =
             IF end = start THEN Failure
             ELSE IF ~(Peek(s, start) \in Words) \/ Peek(s, end) # "["
             THEN Success(Leaf(SubSeq(s, start, end - 1)), end)
             ELSE IF Kid(a).value = {} \/ Peek(s, close(a)) # "]" THEN Failure
             ELSE Success(Node(SubSeq(s, start, end - 1), ValueOf(Kid(a)),
                               SubSeq(s, start, close(a))), close(a) + 1)
  BY <1>3, Zenon DEF NodeOf
<1>5. CASE end = start \/ Peek(s, start) \notin Words \/ Peek(s, end) # "["
  <2>1. \A a : ReadNode(s, a, p) = IF end = start THEN Failure
                                   ELSE Success(Leaf(SubSeq(s, start, end - 1)), end)
    BY <1>4, <1>5, Zenon
  <2>2. end # start => end \in (p + 1)..(Len(s) + 1)
    BY <1>1, <1>2
  <2>3. Reading(s, ReadNode(s, args, p), p)
    BY <2>1, <2>2, Zenon DEF Reading
  <2> QED
    BY <2>1, <2>3, Zenon
<1>6. CASE end # start /\ Peek(s, start) \in Words /\ Peek(s, end) = "["
  <2>1. end \in DOMAIN s
    BY <1>6 DEF Peek
  <2>2. end + 1 \in (p + 1)..(Len(s) + 1) /\ end + 1 \in 1..(Len(s) + 1)
    BY <1>1, <1>2, <2>1
  <2>3. first \in (end + 1)..(Len(s) + 1)
    BY <2>2, SkipBounds
  <2> HIDE DEF first
  <2>4. first \in (p + 1)..(Len(s) + 1)
    BY <1>1, <2>2, <2>3
  <2>5. Kid(args).value = {} \/ Kid(args).pos \in first..(Len(s) + 1)
    <3>1. CASE Peek(s, first) = "]"
      <4>1. Kid(args) = Success(<<>>, first)
        BY <3>1 DEF ArgsBehind
      <4> HIDE DEF Kid
      <4> QED
        BY <1>1, <2>4, <4>1, SuccessFields
    <3>2. CASE Peek(s, first) # "]"
      <4>1. Kid(args) = args[first]
        BY <3>2 DEF ArgsBehind
      <4>2. Reading(s, args[first], first)
        BY <2>4
      <4> HIDE DEF Kid
      <4>3. Kid(args) = Failure \/ \E v, e : e \in (first + 1)..(Len(s) + 1) /\ Kid(args) = Success(v, e)
        BY <4>1, <4>2 DEF Reading
      <4> QED
        BY <1>1, <2>4, <4>3, SuccessFields, FailureFields
    <3> QED
      BY <3>1, <3>2
  <2>6. Reading(s, ReadNode(s, args, p), p)
    <3>1. CASE Kid(args).value = {} \/ Peek(s, close(args)) # "]"
      BY <1>4, <1>6, <3>1, Zenon DEF Reading
    <3>2. CASE Kid(args).value # {} /\ Peek(s, close(args)) = "]"
      <4>1. close(args) \in DOMAIN s
        BY <3>2, Zenon DEF Peek
      <4>2. Kid(args).pos \in 1..(Len(s) + 1) /\ Kid(args).pos \in (p + 1)..(Len(s) + 1)
        BY <1>1, <2>4, <2>5, <3>2
      <4>3. close(args) \in Kid(args).pos..(Len(s) + 1)
        BY <4>2, SkipBounds
      <4> DEFINE c == close(args)
                 node == Node(SubSeq(s, start, end - 1), ValueOf(Kid(args)),
                              SubSeq(s, start, close(args)))
      <4>4. ReadNode(s, args, p) = Success(node, c + 1)
        BY <1>4, <1>6, <3>2, Zenon
      <4>5. c \in DOMAIN s /\ c \in Kid(args).pos..(Len(s) + 1)
        BY <4>1, <4>3
      <4> HIDE DEF node, c, close, Kid
      <4>6. c + 1 \in (p + 1)..(Len(s) + 1)
        BY <1>1, <4>2, <4>5
      <4> QED
        BY <4>4, <4>6, Zenon DEF Reading
    <3> QED
      BY <3>1, <3>2
  <2>7. ASSUME NEW more, \A q \in (p + 1)..(Len(s) + 1) : more[q] = args[q]
        PROVE  ReadNode(s, more, p) = ReadNode(s, args, p)
    <3>1. more[first] = args[first]
      BY <2>4, <2>7
    <3>2. Kid(more) = Kid(args)
      BY <3>1, Zenon DEF ArgsBehind
    <3> HIDE DEF Kid
    <3> QED
      BY <1>4, <3>2, Zenon
  <2> QED
    BY <2>6, <2>7, Zenon
<1> QED
  BY <1>5, <1>6, Zenon

\* So does reading the arguments from p.
LEMMA ArgsRead ==
    ASSUME NEW s \in Seq(Chars), NEW p \in 1..(Len(s) + 1), NEW args,
           \A q \in (p + 1)..(Len(s) + 1) : Reading(s, args[q], q)
    PROVE  /\ Reading(s, ArgsFrom(s, args, p), p)
           /\ \A more : (\A q \in (p + 1)..(Len(s) + 1) : more[q] = args[q])
                          => ArgsFrom(s, more, p) = ArgsFrom(s, args, p)
<1>0. Len(s) \in Nat /\ DOMAIN s = 1..Len(s)
  BY LenProperties
<1> DEFINE Rest(kid, a) ==
             IF Peek(s, Skip(s, kid.pos)) = "," THEN a[Skip(s, kid.pos) + 1]
             ELSE Success(<<>>, Skip(s, kid.pos))
           Both(kid, rest) ==
             IF kid.value = {} \/ rest.value = {} THEN Failure
             ELSE Success(<<ValueOf(kid)>> \o ValueOf(rest), rest.pos)
<1>1. \A a : ArgsFrom(s, a, p) = Both(ReadNode(s, a, p), Rest(ReadNode(s, a, p), a))
  BY DEF ArgsFrom, ArgsAfter
<1> DEFINE kid == ReadNode(s, args, p)
<1>2. Reading(s, kid, p)
  BY NodeReads
<1>3. \A more : (\A q \in (p + 1)..(Len(s) + 1) : more[q] = args[q])
                  => ReadNode(s, more, p) = kid
  BY NodeReads
<1> HIDE DEF kid
<1>4. CASE kid = Failure
  <2>1. \A rest : Both(kid, rest) = Failure
    BY <1>4, FailureFields, Zenon
  <2> HIDE DEF Rest, Both
  <2>2. ArgsFrom(s, args, p) = Failure
    BY <1>1, <2>1, Zenon DEF kid
  <2>3. \A more : (\A q \in (p + 1)..(Len(s) + 1) : more[q] = args[q])
                    => ArgsFrom(s, more, p) = Failure
    BY <1>1, <1>3, <2>1, Zenon
  <2> QED
    BY <2>2, <2>3, Zenon DEF Reading
<1>5. CASE kid # Failure
  <2>1. PICK v, e : e \in (p + 1)..(Len(s) + 1) /\ kid = Success(v, e)
    BY <1>2, <1>5 DEF Reading
  <2>2. kid.value = {v} /\ kid.pos = e
    BY <2>1, SuccessFields
  <2> DEFINE next == Skip(s, e)
  <2>3. e \in 1..(Len(s) + 1)
    BY <1>0, <2>1
  <2>4. next \in e..(Len(s) + 1)
    BY <2>3, SkipBounds
  <2> HIDE DEF next
  <2>5. next \in (p + 1)..(Len(s) + 1)
    BY <1>0, <2>1, <2>4
  <2>6. \A a : Rest(kid, a) = IF Peek(s, next) = "," THEN a[next + 1] ELSE Success(<<>>, next)
    BY <2>2 DEF next
  <2>7. ASSUME Peek(s, next) = ","
        PROVE  next + 1 \in (p + 1)..(Len(s) + 1)
    <3>1. next \in 1..Len(s)
      BY <1>0, <2>7, Zenon DEF Peek
    <3> QED
      BY <1>0, <2>5, <3>1
  <2>8. Rest(kid, args) = Failure
          \/ \E r, f : f \in (p + 1)..(Len(s) + 1) /\ Rest(kid, args) = Success(r, f)
    <3>1. CASE Peek(s, next) = ","
      <4>1. Rest(kid, args) = args[next + 1]
        BY <2>6, <3>1, Zenon
      <4>2. Reading(s, args[next + 1], next + 1)
        BY <2>7, <3>1
      <4>3. \A f : f \in ((next + 1) + 1)..(Len(s) + 1) => f \in (p + 1)..(Len(s) + 1)
        BY <1>0, <2>5
      <4> HIDE DEF Rest
      <4> QED
        BY <4>1, <4>2, <4>3, Zenon DEF Reading
    <3>2. CASE Peek(s, next) # ","
      <4>1. Rest(kid, args) = Success(<<>>, next)
        BY <2>6, <3>2, Zenon
      <4> QED
        BY <2>5, <4>1, Zenon
    <3> QED
      BY <3>1, <3>2
  <2> DEFINE rest == Rest(kid, args)
  <2>9. Reading(s, ArgsFrom(s, args, p), p)
    <3>1. ArgsFrom(s, args, p) = Both(kid, rest)
      BY <1>1, Zenon DEF kid
    <3>2. CASE rest = Failure
      <4>1. Both(kid, rest) = Failure
        BY <3>2, FailureFields, Zenon
      <4> QED
        BY <3>1, <4>1, Zenon DEF Reading
    <3>3. CASE rest # Failure
      <4>1. PICK r, f : f \in (p + 1)..(Len(s) + 1) /\ rest = Success(r, f)
        BY <2>8, <3>3
      <4>2. rest.value = {r} /\ rest.pos = f
        BY <4>1, SuccessFields
      <4> HIDE DEF rest
      <4>4. Both(kid, rest) = Success(<<ValueOf(kid)>> \o ValueOf(rest), f)
        BY <2>2, <4>2
      <4> QED
        BY <3>1, <4>1, <4>4, Zenon DEF Reading
    <3> QED
      BY <3>2, <3>3
  <2>10. ASSUME NEW more, \A q \in (p + 1)..(Len(s) + 1) : more[q] = args[q]
         PROVE  ArgsFrom(s, more, p) = ArgsFrom(s, args, p)
    <3>1. ReadNode(s, more, p) = kid
      BY <1>3, <2>10
    <3>2. Rest(kid, more) = Rest(kid, args)
      <4>1. Peek(s, next) = "," => more[next + 1] = args[next + 1]
        BY <2>7, <2>10
      <4> QED
        BY <2>6, <4>1, Zenon
    <3> HIDE DEF Rest, Both
    <3> QED
      BY <1>1, <3>1, <3>2, Zenon DEF kid
  <2> QED
    BY <2>9, <2>10, Zenon
<1> QED
  BY <1>4, <1>5, Zenon

\* What is read from the last n positions, whatever from the others.
Partial(s, n, args) ==
    /\ args = [p \in 1..(Len(s) + 1) |-> args[p]]
    /\ \A p \in (Len(s) + 2 - n)..(Len(s) + 1) :
         args[p] = ArgsFrom(s, args, p) /\ Reading(s, args[p], p)

\* From the last position on, what is read from each can be told.
LEMMA ArgsAreDefined ==
    ASSUME NEW s \in Seq(Chars)
    PROVE  \E args : Partial(s, Len(s) + 1, args)
<1>0. Len(s) \in Nat
  BY LenProperties
<1> DEFINE Defined == {n \in 0..(Len(s) + 1) : \E args : Partial(s, n, args)}
<1>1. 0 \in Defined
  <2> DEFINE args == [p \in 1..(Len(s) + 1) |-> Failure]
  <2>1. args = [p \in 1..(Len(s) + 1) |-> args[p]]
    OBVIOUS
  <2>2. (Len(s) + 2 - 0)..(Len(s) + 1) = {}
    BY <1>0
  <2> HIDE DEF args
  <2>3. Partial(s, 0, args)
    BY <2>1, <2>2, Zenon DEF Partial
  <2>4. 0 \in 0..(Len(s) + 1)
    BY <1>0
  <2> QED
    BY <2>3, <2>4
<1>2. ASSUME NEW n \in 0..(Len(s) + 1), n \in Defined, n < Len(s) + 1
      PROVE  n + 1 \in Defined
  <2>1. PICK args : Partial(s, n, args)
    BY <1>2
  <2> DEFINE p == Len(s) + 1 - n
             more == [args EXCEPT ![p] = ArgsFrom(s, args, p)]
  <2>2. p \in 1..(Len(s) + 1)
    BY <1>0, <1>2
  <2>3. args = [q \in 1..(Len(s) + 1) |-> args[q]]
    BY <2>1, Zenon DEF Partial
  <2>4. /\ more = [q \in 1..(Len(s) + 1) |-> more[q]]
        /\ more[p] = ArgsFrom(s, args, p)
        /\ \A q \in 1..(Len(s) + 1) : q # p => more[q] = args[q]
    <3> HIDE DEF p
    <3> QED
      BY <2>2, <2>3
  <2>5. \A q \in (p + 1)..(Len(s) + 1) : args[q] = ArgsFrom(s, args, q) /\ Reading(s, args[q], q)
    BY <1>0, <1>2, <2>1 DEF Partial
  <2> HIDE DEF more, p
  <2>6. \A q \in p..(Len(s) + 1) :
          /\ q \in 1..(Len(s) + 1)
          /\ \A r \in (q + 1)..(Len(s) + 1) : r \in (p + 1)..(Len(s) + 1) /\ more[r] = args[r]
    BY <1>0, <2>2, <2>4
  <2>7. ASSUME NEW q \in p..(Len(s) + 1)
        PROVE  more[q] = ArgsFrom(s, more, q) /\ Reading(s, more[q], q)
    <3>1. /\ Reading(s, ArgsFrom(s, args, q), q)
          /\ ArgsFrom(s, more, q) = ArgsFrom(s, args, q)
      BY <2>5, <2>6, ArgsRead
    <3>2. more[q] = ArgsFrom(s, args, q)
      BY <1>0, <2>2, <2>4, <2>5
    <3> QED
      BY <3>1, <3>2, Zenon
  <2>8. Len(s) + 2 - (n + 1) = p
    BY <1>0, <1>2 DEF p
  <2>9. Partial(s, n + 1, more)
    BY <2>4, <2>7, <2>8, Zenon DEF Partial
  <2>10. n + 1 \in 0..(Len(s) + 1)
    BY <1>0, <1>2
  <2> QED
    BY <2>9, <2>10
<1> HIDE DEF Defined
<1>3. Len(s) + 1 \in Defined
  <2>1. Len(s) + 1 \in Nat /\ Len(s) + 1 \in 0..(Len(s) + 1)
    BY <1>0
  <2>2. 0..(Len(s) + 1) \subseteq Defined
    BY <1>1, <1>2, <2>1, UpTheNumbers
  <2> QED
    BY <2>1, <2>2
<1> QED
  BY <1>3 DEF Defined

\* The recursive definition of ReadArgs defines what the loop of node reads.
LEMMA ReadArgsIs ==
    ASSUME NEW s \in Seq(Chars), NEW p \in 1..(Len(s) + 1)
    PROVE  /\ ReadArgs(s)[p] = ArgsFrom(s, ReadArgs(s), p)
           /\ Reading(s, ReadArgs(s)[p], p)
           /\ Reading(s, ReadNode(s, ReadArgs(s), p), p)
<1>0. Len(s) \in Nat
  BY LenProperties
<1>1. PICK args : Partial(s, Len(s) + 1, args)
  BY ArgsAreDefined
<1>2. Len(s) + 2 - (Len(s) + 1) = 1
  BY <1>0
<1>3. /\ args = [q \in 1..(Len(s) + 1) |-> args[q]]
      /\ \A q \in 1..(Len(s) + 1) : args[q] = ArgsFrom(s, args, q) /\ Reading(s, args[q], q)
  BY <1>1, <1>2, Zenon DEF Partial
<1>4. args = [q \in 1..(Len(s) + 1) |-> ArgsFrom(s, args, q)]
  BY <1>3
<1> DEFINE read == CHOOSE f : f = [q \in 1..(Len(s) + 1) |-> ArgsFrom(s, f, q)]
<1>5. read = [q \in 1..(Len(s) + 1) |-> ArgsFrom(s, read, q)]
  BY <1>4, Zenon
<1>6. ReadArgs(s) = read
  BY Zenon DEF ReadArgs
<1> HIDE DEF read
<1>7. \A q \in 1..(Len(s) + 1) : read[q] = ArgsFrom(s, read, q)
  BY <1>5
<1> DEFINE Fine == {n \in 0..(Len(s) + 1) :
                      \A q \in (Len(s) + 2 - n)..(Len(s) + 1) : Reading(s, read[q], q)}
<1>8. 0 \in Fine
  BY <1>0
<1>9. ASSUME NEW n \in 0..(Len(s) + 1), n \in Fine, n < Len(s) + 1
      PROVE  n + 1 \in Fine
  <2> DEFINE q == Len(s) + 1 - n
  <2>1. q \in 1..(Len(s) + 1) /\ n + 1 \in 0..(Len(s) + 1) /\ Len(s) + 2 - (n + 1) = q
    BY <1>0, <1>9
  <2>2. \A r \in (q + 1)..(Len(s) + 1) : Reading(s, read[r], r)
    BY <1>0, <1>9
  <2> HIDE DEF q
  <2>3. Reading(s, read[q], q)
    BY <1>7, <2>1, <2>2, ArgsRead
  <2>4. \A r \in q..(Len(s) + 1) : Reading(s, read[r], r)
    BY <1>0, <2>1, <2>2, <2>3
  <2> QED
    BY <2>1, <2>4
<1> HIDE DEF Fine
<1>10. Len(s) + 1 \in Fine
  <2>1. Len(s) + 1 \in Nat /\ Len(s) + 1 \in 0..(Len(s) + 1)
    BY <1>0
  <2>2. 0..(Len(s) + 1) \subseteq Fine
    BY <1>8, <1>9, <2>1, UpTheNumbers
  <2> QED
    BY <2>1, <2>2
<1>11. \A q \in 1..(Len(s) + 1) : Reading(s, read[q], q)
  BY <1>2, <1>10, Zenon DEF Fine
<1>12. \A q \in (p + 1)..(Len(s) + 1) : q \in 1..(Len(s) + 1)
  BY <1>0
<1>13. Reading(s, ReadNode(s, read, p), p)
  BY <1>11, <1>12, NodeReads
<1> QED
  BY <1>6, <1>7, <1>11, <1>13

-----------------------------------------------------------------------------
\* The reader gets back what is written.

\* The text r stands at position p of s; a term may end in front of position q.
Holds(s, p, r) ==
    /\ p + Len(r) - 1 <= Len(s)
    /\ \A i \in 1..Len(r) : s[p + i - 1] = r[i]

Ends(s, q) == q <= Len(s) => s[q] \in {",", "]"}

\* What a term, or an argument, begins with.
Begins(r) == r \in Seq(Chars) /\ Len(r) > 0 /\ r[1] \notin {Blank, "]"}

\* Wherever its text stands, the reader reads this term.
Reads(t) ==
    /\ Begins(t.raw)
    /\ \A s \in Seq(Chars), p \in Nat \ {0} :
         Holds(s, p, t.raw) /\ Ends(s, p + Len(t.raw))
           => ReadNode(s, ReadArgs(s), p) = Success(t, p + Len(t.raw))

\* Wherever this text stands with a bracket behind it, the reader reads these
\* arguments.
ReadsList(r, kids) ==
    /\ Begins(r)
    /\ \A s \in Seq(Chars), p \in Nat \ {0} :
         Holds(s, p, r) /\ p + Len(r) <= Len(s) /\ s[p + Len(r)] = "]"
           => ReadArgs(s)[p] = Success(kids, p + Len(r))

LEMMA DigitSetIs ==
    DigitSet = {"0", "1", "2", "3", "4", "5", "6", "7", "8", "9"}
<1>1. DOMAIN DigitSeq = 1..10
  BY DEF DigitSeq
<1>2. 1..10 = {1, 2, 3, 4, 5, 6, 7, 8, 9, 10}
  OBVIOUS
<1>3. /\ DigitSeq[1] = "0" /\ DigitSeq[2] = "1" /\ DigitSeq[3] = "2" /\ DigitSeq[4] = "3"
      /\ DigitSeq[5] = "4" /\ DigitSeq[6] = "5" /\ DigitSeq[7] = "6" /\ DigitSeq[8] = "7"
      /\ DigitSeq[9] = "8" /\ DigitSeq[10] = "9"
  BY DEF DigitSeq
<1>4. DigitSet = {DigitSeq[i] : i \in {1, 2, 3, 4, 5, 6, 7, 8, 9, 10}}
  BY <1>1, <1>2, Zenon DEF DigitSet
<1> QED
  BY <1>3, <1>4

\* No character is of two kinds.
LEMMA WordsApart ==
    /\ \A w \in Words : w \notin {",", "[", "]", Blank, "#", "$", "/", "-", "\""}
    /\ \A w \in Words : w \notin DigitSet
    /\ \A d \in DigitSet : d \notin {",", "[", "]", Blank, "#", "$", "/", "-", "\""}
<1>1. \A w \in Words : w \notin Delimiters \cup DigitSet \cup {"#", "$", "/", "-", "\""}
  BY WordAssumption
<1>2. DigitSet = {"0", "1", "2", "3", "4", "5", "6", "7", "8", "9"}
  BY DigitSetIs
<1>3. Blank \notin DigitSet
  BY <1>2, Zenon DEF Blank
<1>4. \A d \in DigitSet : d \notin {",", "[", "]", "#", "$", "/", "-", "\""}
  BY <1>2
<1>5. \A w \in Words : w \notin DigitSet /\ w \notin {"#", "$", "/", "-", "\""} /\ w \notin Delimiters
  BY <1>1
<1>6. \A w \in Words : w \notin {",", "[", "]", Blank}
  BY <1>5, Zenon DEF Delimiters
<1> QED
  BY <1>3, <1>4, <1>5, <1>6

\* Where a text stands, its part stands.
LEMMA HoldsParts ==
    ASSUME NEW s \in Seq(Chars), NEW p \in Nat \ {0},
           NEW a \in Seq(Chars), NEW b \in Seq(Chars), Holds(s, p, a \o b)
    PROVE  /\ Holds(s, p, a) /\ Holds(s, p + Len(a), b)
           /\ Len(a \o b) = Len(a) + Len(b) /\ a \o b \in Seq(Chars)
<1>1. /\ a \o b \in Seq(Chars)
      /\ Len(a \o b) = Len(a) + Len(b)
      /\ \A i \in 1..Len(a) + Len(b) :
           (a \o b)[i] = IF i <= Len(a) THEN a[i] ELSE b[i - Len(a)]
  BY ConcatProperties
<1>2. Len(a) \in Nat /\ Len(b) \in Nat /\ Len(s) \in Nat
  BY LenProperties
<1> DEFINE c == a \o b
<1>3. /\ p + (Len(a) + Len(b)) - 1 <= Len(s)
      /\ \A i \in 1..(Len(a) + Len(b)) : s[p + i - 1] = c[i]
  BY <1>1 DEF Holds
<1>4. \A i \in 1..(Len(a) + Len(b)) : c[i] = IF i <= Len(a) THEN a[i] ELSE b[i - Len(a)]
  BY <1>1
<1> HIDE DEF c
<1>5. Holds(s, p, a)
  <2>1. ASSUME NEW i \in 1..Len(a)
        PROVE  s[p + i - 1] = a[i]
    <3>1. i \in 1..(Len(a) + Len(b)) /\ i <= Len(a)
      BY <1>2
    <3> QED
      BY <1>3, <1>4, <3>1
  <2>2. p + Len(a) - 1 <= Len(s)
    BY <1>2, <1>3
  <2> QED
    BY <2>1, <2>2 DEF Holds
<1>6. ASSUME NEW i \in 1..Len(b)
      PROVE  s[p + Len(a) + i - 1] = b[i]
  <2> DEFINE j == Len(a) + i
  <2>1. j \in 1..(Len(a) + Len(b)) /\ j > Len(a) /\ j - Len(a) = i
    BY <1>2
  <2>2. s[p + j - 1] = b[j - Len(a)]
    <3> HIDE DEF j
    <3> QED
      BY <1>2, <1>3, <1>4, <2>1
  <2>3. p + j - 1 = p + Len(a) + i - 1
    BY <1>2
  <2> HIDE DEF j
  <2> QED
    BY <2>1, <2>2, <2>3
<1>7. Holds(s, p + Len(a), b)
  BY <1>2, <1>3, <1>6 DEF Holds
<1> QED
  BY <1>1, <1>5, <1>7

\* What is cut out of s where r stands is r.
LEMMA SubSeqHeld ==
    ASSUME NEW s \in Seq(Chars), NEW p \in Nat \ {0}, NEW r \in Seq(Chars), Holds(s, p, r),
           NEW e, e = p + Len(r) - 1
    PROVE  SubSeq(s, p, e) = r
<1>1. Len(r) \in Nat /\ Len(s) \in Nat /\ DOMAIN s = 1..Len(s) /\ \A i \in 1..Len(s) : s[i] \in Chars
  BY LenProperties, ElementOfSeq
<1>2. e \in Int /\ p \in Int /\ \A i \in p..e : s[i] \in Chars
  BY <1>1 DEF Holds
<1> DEFINE u == SubSeq(s, p, e)
<1>3. /\ u \in Seq(Chars)
      /\ Len(u) = IF p <= e THEN e - p + 1 ELSE 0
      /\ \A i \in 1..(e - p + 1) : u[i] = s[p + i - 1]
  BY <1>2, SubSeqProperties
<1> HIDE DEF u
<1>4. Len(u) = Len(r)
  BY <1>1, <1>3
<1>5. \A i \in 1..Len(u) : u[i] = r[i]
  BY <1>1, <1>3, <1>4 DEF Holds
<1>6. u = r
  BY <1>3, <1>4, <1>5, SeqEqual
<1> QED
  BY <1>6 DEF u

DelimitersAre == Delimiters = {",", "[", "]", Blank}

LEMMA DelimitersKnown == DelimitersAre
BY Zenon DEF Delimiters, DelimitersAre

\* What stands behind a term is not part of it.
LEMMA PeekBehind ==
    ASSUME NEW s \in Seq(Chars), NEW q \in Nat \ {0}, Ends(s, q)
    PROVE  Peek(s, q) \in {",", "]", "end"}
<1>1. Len(s) \in Nat /\ DOMAIN s = 1..Len(s)
  BY LenProperties
<1>2. CASE q \in DOMAIN s
  <2>1. Peek(s, q) = s[q] /\ q <= Len(s)
    BY <1>1, <1>2 DEF Peek
  <2> QED
    BY <2>1 DEF Ends
<1>3. CASE q \notin DOMAIN s
  <2>1. Peek(s, q) = "end"
    BY <1>3, Zenon DEF Peek
  <2> QED
    BY <2>1
<1> QED
  BY <1>2, <1>3

\* A leaf is read up to its end.
LEMMA LeafEndsAt ==
    ASSUME NEW l \in Seq(Chars), Len(l) > 0, IsName(l) \/ IsQuoted(l) \/ IsAtom(l),
           NEW s \in Seq(Chars), NEW p \in Nat \ {0}, Holds(s, p, l), Ends(s, p + Len(l))
    PROVE  TokenEnd(s, p) = p + Len(l)
<1>0. Len(s) \in Nat /\ DOMAIN s = 1..Len(s) /\ Len(l) \in Nat /\ DOMAIN l = 1..Len(l)
  BY LenProperties
<1> DEFINE q == p + Len(l)
<1>1. /\ q - 1 <= Len(s)
      /\ \A i \in 1..Len(l) : s[p + i - 1] = l[i]
  BY <1>0 DEF Holds
<1>2. q <= Len(s) => s[q] \in {",", "]"}
  BY DEF Ends
<1>3. /\ p \in 1..Len(s) /\ q \in p..(Len(s) + 1) /\ q \in 1..(Len(s) + 1) /\ q > p
  BY <1>0, <1>1
<1>4. ASSUME NEW k \in p..(q - 1)
      PROVE  k - p + 1 \in 1..Len(l) /\ s[k] = l[k - p + 1]
  <2>1. k - p + 1 \in 1..Len(l) /\ p + (k - p + 1) - 1 = k
    BY <1>0, <1>4
  <2> QED
    BY <1>1, <2>1
<1>5. s[p] = l[1] /\ Peek(s, p) = l[1]
  <2>1. p \in p..(q - 1) /\ p - p + 1 = 1
    BY <1>0, <1>3
  <2>2. s[p] = l[1]
    BY <1>4, <2>1
  <2> HIDE DEF q
  <2> QED
    BY <1>0, <1>3, <2>2 DEF Peek
<1> HIDE DEF q
<1>6. CASE IsName(l)
  <2>1. Peek(s, p) \in Words
    BY <1>5, <1>6 DEF IsName
  <2> DEFINE e == NameEnd(s, p)
  <2>2. /\ e \in p..(Len(s) + 1)
        /\ e <= Len(s) => s[e] \notin Words \cup DigitSet
        /\ \A k \in p..(e - 1) : s[k] \in Words \cup DigitSet
    <3>1. p \in 1..(Len(s) + 1)
      BY <1>0, <1>3
    <3> QED
      BY <3>1, NameEndBounds
  <2>3. TokenEnd(s, p) = e
    BY <2>1, Zenon DEF TokenEnd
  <2> HIDE DEF e
  <2>4. \A k \in p..(q - 1) : s[k] \in Words \cup DigitSet
    BY <1>0, <1>4, <1>6 DEF IsName
  <2>5. q <= Len(s) => s[q] \notin Words \cup DigitSet
    BY <1>2, WordsApart
  <2>6. ~(e < q)
    BY <1>0, <1>1, <1>3, <2>2, <2>4
  <2>7. ~(q < e)
    <3>1. q < e => q \in p..(e - 1) /\ q <= Len(s)
      BY <1>0, <1>3, <2>2
    <3> QED
      BY <2>2, <2>5, <3>1
  <2>8. e = q
    BY <1>0, <1>3, <2>2, <2>6, <2>7
  <2> QED
    BY <2>3, <2>8 DEF q
<1>7. CASE IsQuoted(l)
  <2>1. /\ Len(l) > 2 /\ l[1] = "$" /\ l[2] = "\"" /\ l[Len(l)] = "\""
        /\ \A i \in 3..(Len(l) - 1) : l[i] # "\""
    BY <1>7 DEF IsQuoted
  <2>2. Peek(s, p) = "$" /\ Peek(s, p) \notin Words
    <3>1. "$" \notin Words
      BY WordsApart
    <3> QED
      BY <1>5, <2>1, <3>1
  <2>3. p + 1 \in p..(q - 1) /\ p + 1 \in 1..Len(s) /\ (p + 1) - p + 1 = 2
    <3>1. Len(l) > 2
      BY <2>1
    <3> QED
      BY <1>0, <1>1, <1>3, <3>1 DEF q
  <2>4. Peek(s, p + 1) = "\""
    <3>1. s[p + 1] = l[2]
      BY <1>4, <2>3
    <3> QED
      BY <1>0, <2>1, <2>3, <3>1 DEF Peek
  <2>5. q - 1 \in (p + 2)..(Len(s) + 1) /\ q - 1 \in p..(q - 1) /\ (q - 1) - p + 1 = Len(l)
    <3>1. Len(l) > 2
      BY <2>1
    <3> QED
      BY <1>0, <1>1, <1>3, <3>1 DEF q
  <2>6. s[q - 1] = "\""
    BY <1>4, <2>1, <2>5
  <2>7. ASSUME NEW k \in (p + 2)..((q - 1) - 1)
        PROVE  s[k] \notin {"\""}
    <3>1. k \in p..(q - 1) /\ k - p + 1 \in 3..(Len(l) - 1)
      BY <1>0, <1>3, <2>7 DEF q
    <3> QED
      BY <1>4, <2>1, <3>1
  <2>8. p + 2 \in 1..(Len(s) + 1)
    BY <1>0, <1>3, <2>5
  <2>9. Find(s, p + 2, {"\""}) = q - 1
    BY <2>5, <2>6, <2>7, <2>8, FindIs
  <2>10. ~(q - 1 > Len(s)) /\ (q - 1) + 1 = q
    BY <1>0, <1>1, <1>3
  <2>11. LeafEnd(s, p) = q
    BY <2>2, <2>4, <2>9, <2>10 DEF LeafEnd
  <2> QED
    BY <2>2, <2>11 DEF TokenEnd, q
<1>8. CASE IsAtom(l)
  <2>1. \A k \in p..(q - 1) : s[k] \notin Delimiters \cup {"\""}
    BY <1>0, <1>4, <1>8 DEF IsAtom
  <2>2. Peek(s, p) \notin Words
    BY <1>5, <1>8 DEF IsAtom
  <2>3. Peek(s, p + 1) # "\""
    <3>1. CASE p + 1 \in p..(q - 1)
      <4>1. s[p + 1] # "\""
        BY <2>1, <3>1
      <4> QED
        BY <4>1 DEF Peek
    <3>2. CASE p + 1 \notin p..(q - 1)
      <4>1. p + 1 = q
        BY <1>3, <3>2
      <4>2. Peek(s, q) \in {",", "]", "end"}
        <5>1. q \in Nat \ {0} /\ Ends(s, q)
          BY <1>0 DEF q
        <5> QED
          BY <5>1, PeekBehind
      <4> QED
        BY <4>1, <4>2
    <3> QED
      BY <3>1, <3>2
  <2>4. q <= Len(s) => s[q] \in Delimiters
    BY <1>2, DelimitersKnown DEF DelimitersAre
  <2>5. \A k \in p..(q - 1) : s[k] \notin Delimiters
    BY <2>1
  <2>6. p \in 1..(Len(s) + 1)
    BY <1>0, <1>3
  <2>7. Find(s, p, Delimiters) = q
    BY <1>3, <2>4, <2>5, <2>6, FindIs
  <2>8. LeafEnd(s, p) = q
    BY <2>3, <2>7, Zenon DEF LeafEnd
  <2> QED
    BY <2>2, <2>8 DEF TokenEnd, q
<1> QED
  BY <1>6, <1>7, <1>8

\* A leaf is read, wherever its text stands.
LEMMA LeafReads ==
    ASSUME NEW l \in Seq(Chars), Len(l) > 0, IsName(l) \/ IsQuoted(l) \/ IsAtom(l)
    PROVE  Reads(Leaf(l))
<1>0. Len(l) \in Nat /\ DOMAIN l = 1..Len(l)
  BY LenProperties
<1>1. Leaf(l).raw = l
  BY DEF Leaf
<1>2. l[1] \notin {Blank, "]"}
  <2>1. CASE IsName(l)
    BY <2>1, WordsApart DEF IsName
  <2>2. CASE IsQuoted(l)
    BY <2>2, BlankApart DEF IsQuoted
  <2>3. CASE IsAtom(l)
    <3>1. 1 \in DOMAIN l
      BY <1>0
    <3> QED
      BY <2>3, <3>1, DelimitersKnown DEF IsAtom, DelimitersAre
  <2> QED
    BY <2>1, <2>2, <2>3
<1>3. ASSUME NEW s \in Seq(Chars), NEW p \in Nat \ {0}, Holds(s, p, l), Ends(s, p + Len(l))
      PROVE  ReadNode(s, ReadArgs(s), p) = Success(Leaf(l), p + Len(l))
  <2> DEFINE q == p + Len(l)
  <2>0. Len(s) \in Nat /\ DOMAIN s = 1..Len(s)
    BY LenProperties
  <2>1. p \in 1..Len(s) /\ p \in 1..(Len(s) + 1) /\ s[p] = l[1]
    <3>1. p + Len(l) - 1 <= Len(s) /\ \A i \in 1..Len(l) : s[p + i - 1] = l[i]
      BY <1>3 DEF Holds
    <3>2. 1 \in 1..Len(l) /\ p + 1 - 1 = p /\ p \in 1..Len(s)
      BY <1>0, <2>0, <3>1
    <3> QED
      BY <2>0, <3>1, <3>2
  <2>2. Skip(s, p) = p
    BY <1>2, <2>1, SkipNothing
  <2>3. TokenEnd(s, p) = q
    BY <1>3, LeafEndsAt
  <2>4. Peek(s, q) # "["
    <3>1. q \in Nat \ {0}
      BY <1>0
    <3>2. Peek(s, q) \in {",", "]", "end"}
      BY <1>3, <3>1, PeekBehind
    <3> QED
      BY <3>2
  <2>5. SubSeq(s, p, q - 1) = l
    BY <1>3, SubSeqHeld
  <2>6. q # p
    BY <1>0
  <2> HIDE DEF q
  <2>7. ReadNode(s, ReadArgs(s), p) = Success(Leaf(l), q)
    BY <2>2, <2>3, <2>4, <2>5, <2>6, NodeCases, Zenon DEF NodeOf
  <2> QED
    BY <2>7 DEF q
<1> QED
  BY <1>0, <1>1, <1>2, <1>3 DEF Reads, Begins

\* The loop of node after one argument: a bracket ends it, a comma goes on.
StepsTo(s, p, k, q) ==
    /\ s[q] = "]" => ReadArgs(s)[p] = Success(<<k>>, q)
    /\ \A r, e : s[q] = "," /\ ReadArgs(s)[q + 1] = Success(r, e)
                   => ReadArgs(s)[p] = Success(<<k>> \o r, e)

LEMMA ArgsStep ==
    ASSUME NEW s \in Seq(Chars), NEW p \in 1..(Len(s) + 1), NEW k, NEW q \in 1..Len(s),
           ReadNode(s, ReadArgs(s), p) = Success(k, q)
    PROVE  StepsTo(s, p, k, q)
<1>0. Len(s) \in Nat /\ DOMAIN s = 1..Len(s)
  BY LenProperties
<1>1. ReadArgs(s)[p] = ArgsFrom(s, ReadArgs(s), p)
  BY ReadArgsIs
<1> DEFINE kid == Success(k, q)
           args == ReadArgs(s)
           rest == IF Peek(s, Skip(s, q)) = "," THEN args[Skip(s, q) + 1]
                   ELSE Success(<<>>, Skip(s, q))
<1>2. kid.value = {k} /\ kid.pos = q /\ ValueOf(kid) = k
  BY SuccessFields
<1>3. args[p] = IF kid.value = {} \/ rest.value = {} THEN Failure
                ELSE Success(<<ValueOf(kid)>> \o ValueOf(rest), rest.pos)
  <2> HIDE DEF kid
  <2>1. ReadNode(s, args, p) = kid
    BY DEF kid
  <2>2. args[p] = ArgsFrom(s, args, p)
    BY <1>1
  <2> HIDE DEF args
  <2> QED
    BY <1>2, <2>1, <2>2, Zenon DEF ArgsFrom, ArgsAfter
<1>4. Peek(s, q) = s[q]
  BY <1>0 DEF Peek
<1>5. ASSUME s[q] # Blank
      PROVE  Skip(s, q) = q
  <2>1. q \in 1..(Len(s) + 1)
    BY <1>0
  <2> QED
    BY <1>5, <2>1, SkipNothing
<1> HIDE DEF kid, args
<1>6. ASSUME s[q] = "]"
      PROVE  args[p] = Success(<<k>>, q)
  <2>1. Skip(s, q) = q
    BY <1>5, <1>6, BlankApart
  <2>2. rest = Success(<<>>, q)
    BY <1>4, <1>6, <2>1
  <2>3. rest.value = {<<>>} /\ rest.pos = q /\ ValueOf(rest) = <<>>
    BY <2>2, SuccessFields
  <2> HIDE DEF rest
  <2>4. args[p] = Success(<<k>> \o <<>>, q)
    BY <1>2, <1>3, <2>3
  <2>5. <<k>> \in Seq({k})
    OBVIOUS
  <2>6. <<k>> \o <<>> = <<k>>
    BY <2>5, ConcatEmptySeq
  <2> QED
    BY <2>4, <2>6
<1>7. ASSUME NEW r, NEW e, s[q] = ",", args[q + 1] = Success(r, e)
      PROVE  args[p] = Success(<<k>> \o r, e)
  <2>1. Skip(s, q) = q
    BY <1>5, <1>7, BlankApart
  <2>2. rest = Success(r, e)
    <3>1. rest = IF Peek(s, q) = "," THEN args[q + 1] ELSE Success(<<>>, q)
      BY <2>1, Zenon
    <3>2. Peek(s, q) = ","
      BY <1>4, <1>7
    <3> HIDE DEF rest
    <3> QED
      BY <1>7, <3>1, <3>2, Zenon
  <2> HIDE DEF rest
  <2>3. rest.value = {r} /\ rest.pos = e /\ ValueOf(rest) = r
    BY <2>2, SuccessFields
  <2> QED
    BY <1>2, <1>3, <2>3
<1> QED
  BY <1>6, <1>7 DEF args, StepsTo

\* One argument is read, wherever its text stands between brackets.
LEMMA OneArgument ==
    ASSUME NEW k, Reads(k)
    PROVE  ReadsList(k.raw, <<k>>)
<1>1. Begins(k.raw)
  BY DEF Reads
<1>2. ASSUME NEW s \in Seq(Chars), NEW p \in Nat \ {0}, Holds(s, p, k.raw),
             p + Len(k.raw) <= Len(s), s[p + Len(k.raw)] = "]"
      PROVE  ReadArgs(s)[p] = Success(<<k>>, p + Len(k.raw))
  <2> DEFINE q == p + Len(k.raw)
  <2>1. Len(k.raw) \in Nat /\ Len(s) \in Nat
    BY <1>1, LenProperties DEF Begins
  <2>2. q \in 1..Len(s) /\ p \in 1..(Len(s) + 1)
    BY <1>2, <2>1
  <2>3. Ends(s, q)
    BY <1>2 DEF Ends
  <2>4. ReadNode(s, ReadArgs(s), p) = Success(k, q)
    BY <1>2, <2>3 DEF Reads
  <2>5. s[q] = "]"
    BY <1>2
  <2> HIDE DEF q
  <2>6. ReadArgs(s)[p] = Success(<<k>>, q)
    BY <2>2, <2>4, <2>5, ArgsStep DEF StepsTo
  <2> QED
    BY <2>6 DEF q
<1> QED
  BY <1>1, <1>2 DEF ReadsList

\* A text with a character and another text behind it.
Joins(all, a, c, b) == all = a \o (<<c>> \o b)

IsJoined(all, a, c, b) ==
    /\ all \in Seq(Chars) /\ Len(all) = Len(a) + 1 + Len(b)
    /\ Len(a) > 0 => all[1] = a[1]
    /\ \A s \in Seq(Chars), p \in Nat \ {0} :
         Holds(s, p, all) => /\ Holds(s, p, a)
                             /\ Holds(s, p + Len(a) + 1, b)
                             /\ s[p + Len(a)] = c

LEMMA TextsJoined ==
    ASSUME NEW a \in Seq(Chars), NEW c \in Chars, NEW b \in Seq(Chars),
           NEW all, Joins(all, a, c, b)
    PROVE  IsJoined(all, a, c, b)
<1>1. Len(a) \in Nat /\ Len(b) \in Nat
  <2>1. Len(a) \in Nat
    BY LenProperties
  <2>2. Len(b) \in Nat
    BY LenProperties
  <2> QED
    BY <2>1, <2>2
<1>2. PICK one : one = <<c>>
  OBVIOUS
<1>3. one \in Seq(Chars) /\ Len(one) = 1 /\ one[1] = c
  <2>1. one \in Seq(Chars)
    BY <1>2
  <2>2. Len(one) = 1 /\ one[1] = c
    BY <1>2
  <2> QED
    BY <2>1, <2>2
<1>4. PICK rest : rest = one \o b
  OBVIOUS
<1>5. rest \in Seq(Chars) /\ Len(rest) = Len(one) + Len(b)
  BY <1>3, <1>4, ConcatProperties
<1>6. all = a \o rest
  BY <1>2, <1>4 DEF Joins
<1>7. Len(rest) = 1 + Len(b)
  BY <1>3, <1>5
<1>8. ASSUME NEW s \in Seq(Chars), NEW p \in Nat \ {0}, Holds(s, p, all)
      PROVE  Holds(s, p, a) /\ Holds(s, p + Len(a) + 1, b) /\ s[p + Len(a)] = c
  <2> DEFINE q == p + Len(a)
  <2>1. q \in Nat \ {0}
    BY <1>1
  <2>2. Holds(s, p, a) /\ Holds(s, q, rest)
    BY <1>5, <1>8, <1>6, HoldsParts
  <2> HIDE DEF q
  <2>3. Holds(s, q, one) /\ Holds(s, q + Len(one), b)
    BY <1>3, <1>4, <2>1, <2>2, HoldsParts
  <2>4. Holds(s, q + 1, b)
    BY <1>3, <2>3
  <2>5. 1 \in 1..Len(one) /\ q + 1 - 1 = q
    BY <1>3, <2>1
  <2>6. s[q + 1 - 1] = one[1]
    BY <2>3, <2>5 DEF Holds
  <2>7. s[q] = c
    BY <1>3, <2>5, <2>6
  <2> QED
    BY <2>2, <2>4, <2>7 DEF q
<1>9. /\ all \in Seq(Chars) /\ Len(all) = Len(a) + Len(rest)
      /\ \A i \in 1..(Len(a) + Len(rest)) :
           all[i] = IF i <= Len(a) THEN a[i] ELSE rest[i - Len(a)]
  BY <1>5, <1>6, ConcatProperties
<1>10. Len(all) = Len(a) + 1 + Len(b)
  BY <1>1, <1>7, <1>9
<1>11. ASSUME Len(a) > 0
      PROVE  all[1] = a[1]
  <2>1. 1 \in 1..(Len(a) + Len(rest)) /\ 1 <= Len(a)
    BY <1>1, <1>7, <1>11
  <2> QED
    BY <1>9, <2>1
<1>12. /\ all \in Seq(Chars) /\ Len(all) = Len(a) + 1 + Len(b)
       /\ Len(a) > 0 => all[1] = a[1]
       /\ \A s \in Seq(Chars), p \in Nat \ {0} :
            Holds(s, p, all) => /\ Holds(s, p, a)
                                /\ Holds(s, p + Len(a) + 1, b)
                                /\ s[p + Len(a)] = c
  BY <1>8, <1>9, <1>10, <1>11
<1> QED
  BY <1>12 DEF IsJoined

\* So is one more, with a comma behind it.
LEMMA OneMoreArgument ==
    ASSUME NEW k, Reads(k), NEW r, NEW kids, ReadsList(r, kids)
    PROVE  ReadsList(k.raw \o (<<",">> \o r), <<k>> \o kids)
<1>1. PICK a : a = k.raw
  OBVIOUS
<1>2. PICK all : all = a \o (<<",">> \o r)
  OBVIOUS
<1>3. Begins(a) /\ Begins(r)
  BY <1>1 DEF Reads, ReadsList
<1>4. \A s \in Seq(Chars), p \in Nat \ {0} :
        Holds(s, p, a) /\ Ends(s, p + Len(a))
          => ReadNode(s, ReadArgs(s), p) = Success(k, p + Len(a))
  BY <1>1 DEF Reads
<1>5. /\ a \in Seq(Chars) /\ Len(a) > 0 /\ a[1] \notin {Blank, "]"}
      /\ r \in Seq(Chars) /\ Len(r) > 0
  BY <1>3 DEF Begins
<1>6. Len(a) \in Nat /\ Len(r) \in Nat
  BY <1>5, LenProperties
<1>7. /\ all \in Seq(Chars) /\ Len(all) = Len(a) + 1 + Len(r)
      /\ Len(a) > 0 => all[1] = a[1]
      /\ \A s \in Seq(Chars), p \in Nat \ {0} :
           Holds(s, p, all) => /\ Holds(s, p, a)
                               /\ Holds(s, p + Len(a) + 1, r)
                               /\ s[p + Len(a)] = ","
  <2>1. "," \in Chars
    BY DelimitersKnown DEF Chars, DelimitersAre
  <2>2. Joins(all, a, ",", r)
    BY <1>2 DEF Joins
  <2>3. IsJoined(all, a, ",", r)
    BY <1>5, <2>1, <2>2, TextsJoined
  <2> QED
    BY <2>3, Zenon DEF IsJoined
<1>8. Begins(all)
  <2>0. Len(all) = Len(a) + 1 + Len(r)
    BY <1>7
  <2>1. Len(all) > 0
    BY <1>6, <2>0
  <2> QED
    BY <1>5, <1>7, <2>1 DEF Begins
<1>9. ASSUME NEW s \in Seq(Chars), NEW p \in Nat \ {0}, Holds(s, p, all),
             p + Len(all) <= Len(s), s[p + Len(all)] = "]"
      PROVE  ReadArgs(s)[p] = Success(<<k>> \o kids, p + Len(all))
  <2> DEFINE q == p + Len(a)
  <2>1. Holds(s, p, a) /\ Holds(s, q + 1, r) /\ s[q] = ","
    BY <1>7, <1>9
  <2>2. Ends(s, q)
    BY <2>1 DEF Ends
  <2>3. ReadNode(s, ReadArgs(s), p) = Success(k, q)
    BY <1>4, <2>1, <2>2
  <2>4. Len(s) \in Nat
    BY LenProperties
  <2>5. /\ q \in 1..Len(s) /\ p \in 1..(Len(s) + 1)
        /\ q + 1 \in Nat \ {0} /\ (q + 1) + Len(r) = p + Len(all)
    <3>1. Len(all) = Len(a) + 1 + Len(r)
      BY <1>7
    <3>2. p + Len(all) <= Len(s)
      BY <1>9
    <3> QED
      BY <1>6, <2>4, <3>1, <3>2
  <2> HIDE DEF q
  <2>6. ReadArgs(s)[q + 1] = Success(kids, (q + 1) + Len(r))
    <3>1. (q + 1) + Len(r) <= Len(s) /\ s[(q + 1) + Len(r)] = "]"
      BY <1>9, <2>5
    <3> QED
      BY <2>1, <2>5, <3>1 DEF ReadsList
  <2>7. ReadArgs(s)[p] = Success(<<k>> \o kids, (q + 1) + Len(r))
    <3>1. q \in 1..Len(s) /\ p \in 1..(Len(s) + 1) /\ s[q] = ","
      BY <2>1, <2>5
    <3>2. StepsTo(s, p, k, q)
      BY <2>3, <3>1, ArgsStep
    <3> QED
      BY <2>6, <3>1, <3>2, Zenon DEF StepsTo
  <2> QED
    BY <2>5, <2>7
<1>10. ReadsList(all, <<k>> \o kids)
  BY <1>8, <1>9 DEF ReadsList
<1> QED
  BY <1>10, <1>1, <1>2

\* A head with arguments between brackets.
IsBracketed(raw, h, list) ==
    /\ raw \in Seq(Chars) /\ Len(raw) = Len(list) + 3 /\ raw[1] = h
    /\ \A s \in Seq(Chars), p \in Nat \ {0} :
         Holds(s, p, raw) => /\ Holds(s, p, <<h>>) /\ s[p] = h /\ s[p + 1] = "["
                             /\ Holds(s, p + 2, list)
                             /\ s[p + 2 + Len(list)] = "]"

LEMMA OneCharacter ==
    ASSUME NEW c \in Chars
    PROVE  /\ <<c>> \in Seq(Chars) /\ Len(<<c>>) = 1 /\ <<c>>[1] = c
           /\ \A s, p : p \in Nat /\ Holds(s, p, <<c>>) => s[p] = c
<1>1. <<c>> \in Seq(Chars)
  OBVIOUS
<1>2. Len(<<c>>) = 1 /\ <<c>>[1] = c
  OBVIOUS
<1>3. ASSUME NEW s, NEW p \in Nat, Holds(s, p, <<c>>)
      PROVE  s[p] = c
  <2>1. PICK one : one = <<c>>
    OBVIOUS
  <2>2. Len(one) = 1 /\ one[1] = c
    BY <2>1
  <2>3. \A i \in 1..Len(one) : s[p + i - 1] = one[i]
    BY <1>3, <2>1 DEF Holds
  <2>4. 1 \in 1..Len(one) /\ p + 1 - 1 = p
    BY <2>2
  <2>5. s[p + 1 - 1] = one[1]
    BY <2>3, <2>4
  <2> QED
    BY <2>2, <2>4, <2>5
<1> QED
  BY <1>1, <1>2, <1>3

LEMMA BracketsAround ==
    ASSUME NEW h \in Words, NEW list \in Seq(Chars)
    PROVE  IsBracketed(<<h>> \o <<"[">> \o list \o <<"]">>, h, list)
<1>1. h \in Chars /\ "[" \in Chars /\ "]" \in Chars
  BY DelimitersKnown DEF Chars, DelimitersAre
<1>2. PICK head : head = <<h>>
  OBVIOUS
<1>3. PICK open : open = <<"[">>
  OBVIOUS
<1>4. PICK shut : shut = <<"]">>
  OBVIOUS
<1>5. /\ head \in Seq(Chars) /\ Len(head) = 1 /\ head[1] = h
      /\ open \in Seq(Chars) /\ Len(open) = 1
      /\ shut \in Seq(Chars) /\ Len(shut) = 1
  BY <1>1, <1>2, <1>3, <1>4, OneCharacter
<1>6. \A s, p : p \in Nat =>
        /\ Holds(s, p, head) => s[p] = h
        /\ Holds(s, p, open) => s[p] = "["
        /\ Holds(s, p, shut) => s[p] = "]"
  BY <1>1, <1>2, <1>3, <1>4, OneCharacter
<1>7. PICK a : a = head \o open
  OBVIOUS
<1>8. PICK b : b = a \o list
  OBVIOUS
<1>9. PICK raw : raw = b \o shut
  OBVIOUS
<1>10. a \in Seq(Chars) /\ Len(a) = Len(head) + Len(open) /\ a[1] = h
  <2>1. /\ a \in Seq(Chars) /\ Len(a) = Len(head) + Len(open)
        /\ \A i \in 1..(Len(head) + Len(open)) :
             a[i] = IF i <= Len(head) THEN head[i] ELSE open[i - Len(head)]
    BY <1>5, <1>7, ConcatProperties
  <2>2. 1 \in 1..(Len(head) + Len(open)) /\ 1 <= Len(head)
    BY <1>5
  <2> QED
    BY <1>5, <2>1, <2>2
<1>11. Len(list) \in Nat
  BY LenProperties
<1>12. b \in Seq(Chars) /\ Len(b) = Len(a) + Len(list) /\ b[1] = h
  <2>0. a \in Seq(Chars)
    BY <1>10
  <2>1. /\ b \in Seq(Chars) /\ Len(b) = Len(a) + Len(list)
        /\ \A i \in 1..(Len(a) + Len(list)) :
             b[i] = IF i <= Len(a) THEN a[i] ELSE list[i - Len(a)]
    BY <1>8, <2>0, ConcatProperties
  <2>2. 1 \in 1..(Len(a) + Len(list)) /\ 1 <= Len(a)
    BY <1>5, <1>10, <1>11
  <2> QED
    BY <1>10, <2>1, <2>2
<1>13. raw \in Seq(Chars) /\ Len(raw) = Len(b) + Len(shut) /\ raw[1] = h
  <2>0. b \in Seq(Chars) /\ shut \in Seq(Chars)
    BY <1>5, <1>12
  <2>1. /\ raw \in Seq(Chars) /\ Len(raw) = Len(b) + Len(shut)
        /\ \A i \in 1..(Len(b) + Len(shut)) :
             raw[i] = IF i <= Len(b) THEN b[i] ELSE shut[i - Len(b)]
    BY <1>9, <2>0, ConcatProperties
  <2>2. 1 \in 1..(Len(b) + Len(shut)) /\ 1 <= Len(b)
    BY <1>5, <1>10, <1>11, <1>12
  <2> QED
    BY <1>12, <2>1, <2>2
<1>14. ASSUME NEW s \in Seq(Chars), NEW p \in Nat \ {0}, Holds(s, p, raw)
       PROVE  /\ Holds(s, p, head) /\ s[p] = h /\ s[p + 1] = "["
              /\ Holds(s, p + 2, list)
              /\ s[p + 2 + Len(list)] = "]"
  <2>1. Holds(s, p, b) /\ Holds(s, p + Len(b), shut)
    BY <1>5, <1>9, <1>12, <1>14, HoldsParts
  <2>2. Holds(s, p, a) /\ Holds(s, p + Len(a), list)
    BY <1>8, <1>10, <2>1, HoldsParts
  <2>3. Holds(s, p, head) /\ Holds(s, p + Len(head), open)
    BY <1>5, <1>7, <2>2, HoldsParts
  <2>4. Len(a) = 2 /\ p + Len(b) = p + 2 + Len(list) /\ p + 1 \in Nat /\ p + Len(b) \in Nat
    BY <1>5, <1>10, <1>11, <1>12
  <2>5. Holds(s, p + 1, open) /\ Holds(s, p + 2, list)
    BY <1>5, <2>2, <2>3, <2>4
  <2> QED
    BY <1>6, <2>1, <2>3, <2>4, <2>5
<1>15. Len(raw) = Len(list) + 3
  BY <1>5, <1>10, <1>11, <1>12, <1>13
<1>16. IsBracketed(raw, h, list)
  BY <1>2, <1>13, <1>14, <1>15 DEF IsBracketed
<1> QED
  BY <1>2, <1>3, <1>4, <1>7, <1>8, <1>9, <1>16

\* What the reader takes for these arguments, when a bracket follows.
InBrackets(list, kids) ==
    \/ list = <<>> /\ kids = <<>>
    \/ ReadsList(list, kids)

\* A term is read if its arguments are.
LEMMA TermReads ==
    ASSUME NEW h \in Words, NEW list \in Seq(Chars), NEW kids, InBrackets(list, kids),
           NEW raw, IsBracketed(raw, h, list)
    PROVE  Reads(Node(<<h>>, kids, raw))
<1> DEFINE t == Node(<<h>>, kids, raw)
<1>0. /\ raw \in Seq(Chars) /\ Len(raw) = Len(list) + 3 /\ raw[1] = h
      /\ Len(list) \in Nat
  BY LenProperties DEF IsBracketed
<1>1. t.raw = raw
  BY DEF Node
<1>2. Begins(raw)
  <2>1. h \notin {Blank, "]"}
    BY WordsApart
  <2>2. Len(raw) > 0 /\ raw \in Seq(Chars) /\ raw[1] = h
    BY <1>0
  <2> QED
    BY <2>1, <2>2 DEF Begins
<1>3. ASSUME NEW s \in Seq(Chars), NEW p \in Nat \ {0}, Holds(s, p, raw)
      PROVE  ReadNode(s, ReadArgs(s), p) = Success(t, p + Len(raw))
  <2> DEFINE c == p + 2 + Len(list)
  <2>0. Len(s) \in Nat /\ DOMAIN s = 1..Len(s)
    BY LenProperties
  <2>1. /\ Holds(s, p, <<h>>) /\ s[p] = h /\ s[p + 1] = "["
        /\ Holds(s, p + 2, list) /\ s[c] = "]"
    BY <1>3 DEF IsBracketed
  <2>2. p + Len(raw) - 1 <= Len(s)
    BY <1>3 DEF Holds
  <2>3. p \in 1..Len(s) /\ p + 1 \in 1..Len(s) /\ p + 2 \in 1..Len(s) /\ c \in 1..Len(s)
    BY <1>0, <2>0, <2>2
  <2>4. /\ c + 1 = p + Len(raw) /\ c = p + Len(raw) - 1 /\ p + 1 - 1 = p /\ (p + 1) + 1 = p + 2
        /\ p + 1 # p
    BY <1>0
  <2> HIDE DEF c
  <2>5. Skip(s, p) = p
    <3>0. h # Blank
      BY WordsApart
    <3>1. p \in 1..(Len(s) + 1) /\ s[p] # Blank
      BY <2>0, <2>1, <2>3, <3>0
    <3> QED
      BY <3>1, SkipNothing
  <2>6. Peek(s, p) \in Words
    BY <2>0, <2>1, <2>3 DEF Peek
  <2>7. NameEnd(s, p) = p + 1
    <3> DEFINE e == NameEnd(s, p)
    <3>1. p \in 1..(Len(s) + 1)
      BY <2>0, <2>3
    <3>2. /\ e \in p..(Len(s) + 1)
          /\ e <= Len(s) => s[e] \notin Words \cup DigitSet
          /\ \A k \in p..(e - 1) : s[k] \in Words \cup DigitSet
      BY <3>1, NameEndBounds
    <3> HIDE DEF e
    <3>3. e # p
      BY <2>1, <2>3, <3>2
    <3>4. "[" \notin Words \cup DigitSet
      BY WordsApart
    <3>5. ~(p + 1 < e)
      <4>1. p + 1 < e => p + 1 \in p..(e - 1)
        BY <2>0, <2>3, <3>2
      <4> QED
        BY <2>1, <3>2, <3>4, <4>1
    <3>6. e = p + 1
      BY <2>0, <2>3, <3>2, <3>3, <3>5
    <3> QED
      BY <3>6 DEF e
  <2>8. TokenEnd(s, p) = p + 1
    BY <2>6, <2>7, Zenon DEF TokenEnd
  <2>9. Peek(s, p + 1) = "["
    BY <2>0, <2>1, <2>3 DEF Peek
  <2>10. Skip(s, p + 2) = p + 2 /\ ArgsBehind(s, ReadArgs(s), p + 2) = Success(kids, c)
    <3>0. p + 2 \in 1..(Len(s) + 1) /\ p + 2 \in Nat \ {0} /\ Peek(s, p + 2) = s[p + 2]
      BY <2>0, <2>3 DEF Peek
    <3>1. CASE list = <<>> /\ kids = <<>>
      <4>1. c = p + 2
        BY <3>1 DEF c
      <4>2. s[p + 2] = "]"
        BY <2>1, <4>1
      <4>3. Skip(s, p + 2) = p + 2
        BY <3>0, <4>2, BlankApart, SkipNothing
      <4>4. ArgsBehind(s, ReadArgs(s), p + 2) = Success(<<>>, p + 2)
        BY <3>0, <4>2 DEF ArgsBehind
      <4> QED
        BY <3>1, <4>1, <4>3, <4>4
    <3>2. CASE ReadsList(list, kids)
      <4>1. Begins(list)
        BY <3>2 DEF ReadsList
      <4>2. s[p + 2] = list[1]
        <5>1. 1 \in 1..Len(list) /\ (p + 2) + 1 - 1 = p + 2
          BY <1>0, <4>1 DEF Begins
        <5>2. s[(p + 2) + 1 - 1] = list[1]
          BY <2>1, <5>1 DEF Holds
        <5> QED
          BY <5>1, <5>2
      <4>3. s[p + 2] # Blank /\ s[p + 2] # "]"
        BY <4>1, <4>2 DEF Begins
      <4>4. Skip(s, p + 2) = p + 2
        BY <3>0, <4>3, SkipNothing
      <4>5. ReadArgs(s)[p + 2] = Success(kids, c)
        <5>1. (p + 2) + Len(list) = c /\ c <= Len(s)
          BY <2>0, <2>3 DEF c
        <5> QED
          BY <2>1, <3>0, <3>2, <5>1 DEF ReadsList
      <4> QED
        BY <3>0, <4>3, <4>4, <4>5 DEF ArgsBehind
    <3> QED
      BY <3>1, <3>2 DEF InBrackets
  <2>11. Skip(s, c) = c /\ Peek(s, c) = "]"
    <3>1. c \in 1..(Len(s) + 1) /\ Peek(s, c) = "]"
      BY <2>0, <2>1, <2>3 DEF Peek
    <3> QED
      BY <2>1, <3>1, BlankApart, SkipNothing
  <2>12. SubSeq(s, p, p) = <<h>>
    <3>1. h \in Chars
      BY DEF Chars
    <3>2. PICK one : one = <<h>>
      OBVIOUS
    <3>3. one \in Seq(Chars) /\ Len(one) = 1
      BY <3>1, <3>2, OneCharacter
    <3>4. Holds(s, p, one)
      BY <2>1, <3>2
    <3>5. PICK e : e = p + Len(one) - 1
      OBVIOUS
    <3>6. SubSeq(s, p, e) = one
      <4>1. one \in Seq(Chars)
        BY <3>3
      <4> QED
        BY <3>4, <3>5, <4>1, SubSeqHeld
    <3>7. e = p
      BY <3>3, <3>5
    <3> QED
      BY <3>2, <3>6, <3>7
  <2>13. SubSeq(s, p, c) = raw
    BY <1>0, <1>3, <2>4, SubSeqHeld
  <2> DEFINE kid == Success(kids, c)
  <2>14. kid.value = {kids} /\ kid.pos = c /\ ValueOf(kid) = kids
    BY SuccessFields
  <2>15. kid.value # {}
    BY <2>14
  <2>16. ReadNode(s, ReadArgs(s), p) = NodeOf(s, p, p + 1, kid, c)
    <3>1. ReadNode(s, ReadArgs(s), p) =
            NodeOf(s, Skip(s, p), TokenEnd(s, Skip(s, p)),
                   ArgsBehind(s, ReadArgs(s), Skip(s, TokenEnd(s, Skip(s, p)) + 1)),
                   Skip(s, ArgsBehind(s, ReadArgs(s), Skip(s, TokenEnd(s, Skip(s, p)) + 1)).pos))
      BY NodeCases, Zenon
    <3> HIDE DEF kid
    <3>2. ArgsBehind(s, ReadArgs(s), p + 2) = kid
      BY <2>10 DEF kid
    <3> QED
      BY <2>4, <2>5, <2>8, <2>10, <2>11, <2>14, <3>1, <3>2
  <2> HIDE DEF kid
  <2>17. NodeOf(s, p, p + 1, kid, c) = Success(Node(<<h>>, kids, raw), c + 1)
    <3>1. SubSeq(s, p, p + 1 - 1) = <<h>>
      BY <2>4, <2>12
    <3>2. PICK q : q = p + 1
      OBVIOUS
    <3>3. q # p /\ Peek(s, q) = "[" /\ SubSeq(s, p, q - 1) = <<h>>
      BY <2>4, <2>9, <3>1, <3>2
    <3>4. ~(~(Peek(s, p) \in Words) \/ Peek(s, q) # "[")
      BY <2>6, <3>3
    <3>5. ~(kid.value = {} \/ Peek(s, c) # "]")
      BY <2>11, <2>15
    <3>6. NodeOf(s, p, q, kid, c) =
            Success(Node(SubSeq(s, p, q - 1), ValueOf(kid), SubSeq(s, p, c)), c + 1)
      BY <3>3, <3>4, <3>5, Zenon DEF NodeOf
    <3>7. NodeOf(s, p, q, kid, c) = Success(Node(<<h>>, kids, raw), c + 1)
      BY <2>13, <2>14, <3>3, <3>6, Zenon
    <3> QED
      BY <3>2, <3>7
  <2> QED
    BY <2>4, <2>16, <2>17
<1> QED
  BY <1>1, <1>2, <1>3 DEF Reads

\* What stands for the arguments from k on.
ListedFrom(kids, listed, k) ==
    IF k > Len(kids) THEN <<>>
    ELSE kids[k].raw \o (IF k = Len(kids) THEN <<>> ELSE <<",">> \o listed[k + 1])

IsListed(kids, listed) ==
    listed = [k \in 1..(Len(kids) + 1) |-> ListedFrom(kids, listed, k)]

\* The recursive definition of Listed defines something.
LEMMA ListedIs ==
    ASSUME NEW kids, Len(kids) \in Nat
    PROVE  \E listed : IsListed(kids, listed) /\ Listed(kids) = listed[1]
<1> DEFINE n == Len(kids)
           Upto(m, f) == /\ f = [k \in 1..(n + 1) |-> f[k]]
                         /\ \A k \in (n + 2 - m)..(n + 1) : f[k] = ListedFrom(kids, f, k)
           Defined == {m \in 0..(n + 1) : \E f : Upto(m, f)}
<1>1. 0 \in Defined
  <2> DEFINE f == [k \in 1..(n + 1) |-> <<>>]
  <2>1. f = [k \in 1..(n + 1) |-> f[k]]
    OBVIOUS
  <2>2. \A k \in (n + 2 - 0)..(n + 1) : f[k] = ListedFrom(kids, f, k)
    OBVIOUS
  <2> HIDE DEF f
  <2>3. Upto(0, f)
    BY <2>1, <2>2
  <2> QED
    BY <2>3
<1>2. ASSUME NEW m \in 0..(n + 1), m \in Defined, m < n + 1
      PROVE  m + 1 \in Defined
  <2>1. PICK f : Upto(m, f)
    BY <1>2
  <2> DEFINE q == n + 1 - m
             g == [f EXCEPT ![q] = ListedFrom(kids, f, q)]
  <2>2. q \in 1..(n + 1) /\ n + 2 - (m + 1) = q /\ n + 2 - m = q + 1
    BY <1>2
  <2> HIDE DEF q
  <2>3. DOMAIN f = 1..(n + 1)
    BY <2>1
  <2>4. g = [k \in 1..(n + 1) |-> IF k = q THEN ListedFrom(kids, f, q) ELSE f[k]]
    BY <2>3
  <2> HIDE DEF g
  <2>5. ASSUME NEW k \in q..(n + 1)
        PROVE  g[k] = ListedFrom(kids, g, k)
    <3>1. k \in 1..(n + 1)
      BY <2>2
    <3>2. ListedFrom(kids, g, k) = ListedFrom(kids, f, k)
      <4>1. k # Len(kids) /\ ~(k > Len(kids)) => g[k + 1] = f[k + 1]
        <5> SUFFICES ASSUME k # Len(kids), ~(k > Len(kids)) PROVE g[k + 1] = f[k + 1]
          OBVIOUS
        <5>1. k + 1 \in 1..(n + 1) /\ k + 1 # q
          BY <2>2, <3>1
        <5> QED
          BY <2>4, <5>1
      <4> QED
        BY <4>1, Zenon DEF ListedFrom
    <3>3. CASE k = q
      BY <2>4, <3>1, <3>2, <3>3
    <3>4. CASE k # q
      <4>1. k \in (q + 1)..(n + 1)
        BY <2>2, <3>4
      <4>2. f[k] = ListedFrom(kids, f, k)
        BY <2>1, <2>2, <4>1
      <4>3. g[k] = f[k]
        BY <2>4, <3>1, <3>4
      <4> QED
        BY <3>2, <4>2, <4>3
    <3> QED
      BY <3>3, <3>4
  <2>6. g = [k \in 1..(n + 1) |-> g[k]]
    BY <2>4
  <2>7. Upto(m + 1, g)
    BY <2>2, <2>5, <2>6
  <2>8. m + 1 \in 0..(n + 1)
    BY <1>2
  <2> HIDE DEF Upto
  <2> QED
    BY <2>7, <2>8
<1> HIDE DEF Defined
<1>3. n + 1 \in Defined
  <2>1. n + 1 \in Nat /\ n + 1 \in 0..(n + 1)
    OBVIOUS
  <2>2. 0..(n + 1) \subseteq Defined
    BY <1>1, <1>2, <2>1, UpTheNumbers
  <2> QED
    BY <2>1, <2>2
<1>4. PICK f : Upto(n + 1, f)
  BY <1>3 DEF Defined
<1>5. IsListed(kids, f)
  <2>1. \A k \in 1..(n + 1) : k \in (n + 2 - (n + 1))..(n + 1)
    OBVIOUS
  <2>2. f = [k \in 1..(n + 1) |-> f[k]] /\ \A k \in 1..(n + 1) : f[k] = ListedFrom(kids, f, k)
    BY <1>4, <2>1
  <2>3. f = [k \in 1..(n + 1) |-> ListedFrom(kids, f, k)]
    BY <2>2
  <2> QED
    BY <2>3 DEF IsListed
<1> DEFINE listed == CHOOSE g : g = [k \in 1..(Len(kids) + 1) |-> ListedFrom(kids, g, k)]
<1>6. listed = [k \in 1..(Len(kids) + 1) |-> ListedFrom(kids, listed, k)]
  BY <1>5, Zenon DEF IsListed
<1>7. Listed(kids) = listed[1]
  BY Zenon DEF Listed, ListedFrom
<1> HIDE DEF listed
<1> QED
  BY <1>6, <1>7, Zenon DEF IsListed

LEMMA ListedNone == Listed(<<>>) = <<>>
<1>1. PICK none : none = <<>>
  OBVIOUS
<1>2. Len(none) = 0
  BY <1>1
<1>3. PICK listed : IsListed(none, listed) /\ Listed(none) = listed[1]
  BY <1>2, ListedIs
<1>4. listed = [k \in 1..1 |-> ListedFrom(none, listed, k)]
  BY <1>2, <1>3 DEF IsListed
<1>5. listed[1] = ListedFrom(none, listed, 1)
  BY <1>4
<1>6. ListedFrom(none, listed, 1) = <<>>
  BY <1>2 DEF ListedFrom
<1> QED
  BY <1>1, <1>3, <1>5, <1>6

LEMMA ListedOne ==
    ASSUME NEW k, k.raw \in Seq(Chars)
    PROVE  Listed(<<k>>) = k.raw
<1>1. PICK one : one = <<k>>
  OBVIOUS
<1>2. Len(one) = 1 /\ one[1] = k
  BY <1>1
<1>3. PICK listed : IsListed(one, listed) /\ Listed(one) = listed[1]
  BY <1>2, ListedIs
<1>4. listed = [i \in 1..(1 + 1) |-> ListedFrom(one, listed, i)]
  BY <1>2, <1>3 DEF IsListed
<1>5. listed[1] = ListedFrom(one, listed, 1)
  BY <1>4
<1>6. ListedFrom(one, listed, 1) = k.raw \o <<>>
  <2>1. ~(1 > Len(one)) /\ 1 = Len(one)
    BY <1>2
  <2> QED
    BY <1>2, <2>1, Zenon DEF ListedFrom
<1>7. k.raw \o <<>> = k.raw
  BY ConcatEmptySeq
<1> QED
  BY <1>1, <1>3, <1>5, <1>6, <1>7

\* One argument more, and its comma.
LEMMA ListedMore ==
    ASSUME NEW N, NEW k \in N, NEW kids \in Seq(N), Len(kids) > 0
    PROVE  Listed(<<k>> \o kids) = k.raw \o (<<",">> \o Listed(kids))
<1> DEFINE n == Len(kids)
<1>0. n \in Nat
  BY LenProperties
<1>1. PICK one : one = <<k>>
  OBVIOUS
<1>2. one \in Seq(N) /\ Len(one) = 1 /\ one[1] = k
  BY <1>1
<1>3. PICK all : all = one \o kids
  OBVIOUS
<1>4. one \in Seq(N)
  BY <1>2
<1>5. /\ Len(all) = Len(one) + n
      /\ \A i \in 1..(Len(one) + n) : all[i] = IF i <= Len(one) THEN one[i] ELSE kids[i - Len(one)]
  BY <1>3, <1>4, ConcatProperties
<1>6. Len(all) = n + 1 /\ all[1] = k /\ \A i \in 1..n : all[i + 1] = kids[i]
  <2>1. Len(all) = n + 1
    BY <1>0, <1>2, <1>5
  <2>2. all[1] = k
    <3>1. 1 \in 1..(Len(one) + n) /\ 1 <= Len(one)
      BY <1>0, <1>2
    <3> QED
      BY <1>2, <1>5, <3>1
  <2>3. ASSUME NEW i \in 1..n
        PROVE  all[i + 1] = kids[i]
    <3>1. i + 1 \in 1..(Len(one) + n) /\ ~(i + 1 <= Len(one)) /\ i + 1 - Len(one) = i
      BY <1>0, <1>2
    <3>2. all[i + 1] = kids[i + 1 - Len(one)]
      BY <1>5, <3>1
    <3> QED
      BY <3>1, <3>2
  <2> QED
    BY <2>1, <2>2, <2>3
<1>7. PICK h : IsListed(kids, h) /\ Listed(kids) = h[1]
  BY <1>0, ListedIs
<1>8. PICK g : IsListed(all, g) /\ Listed(all) = g[1]
  <2>1. Len(all) \in Nat
    BY <1>0, <1>6
  <2> QED
    BY <2>1, ListedIs
<1>9. h = [i \in 1..(n + 1) |-> ListedFrom(kids, h, i)]
  BY <1>7 DEF IsListed
<1>10. g = [i \in 1..(n + 2) |-> ListedFrom(all, g, i)]
  <2>1. Len(all) + 1 = n + 2
    BY <1>0, <1>6
  <2> QED
    BY <1>8, <2>1, Zenon DEF IsListed
<1> DEFINE Same == {m \in 0..(n + 1) : \A i \in (n + 2 - m)..(n + 1) : g[i + 1] = h[i]}
<1>11. 0 \in Same
  BY <1>0
<1>12. ASSUME NEW m \in 0..(n + 1), m \in Same, m < n + 1
       PROVE  m + 1 \in Same
  <2> DEFINE q == n + 1 - m
  <2>1. /\ q \in 1..(n + 1) /\ q + 1 \in 1..(n + 2) /\ m + 1 \in 0..(n + 1)
        /\ n + 2 - (m + 1) = q /\ n + 2 - m = q + 1
    BY <1>0, <1>12
  <2>2. \A i \in (q + 1)..(n + 1) : g[i + 1] = h[i]
    BY <1>12, <2>1
  <2> HIDE DEF q, Same
  <2>3. h[q] = ListedFrom(kids, h, q) /\ g[q + 1] = ListedFrom(all, g, q + 1)
    BY <1>9, <1>10, <2>1
  <2>4. ListedFrom(all, g, q + 1) = ListedFrom(kids, h, q)
    <3>1. CASE q = n + 1
      <4>1. q + 1 > Len(all) /\ q > Len(kids)
        BY <1>0, <1>6, <3>1
      <4> QED
        BY <4>1, Zenon DEF ListedFrom
    <3>2. CASE q = n
      <4>1. ~(q + 1 > Len(all)) /\ ~(q > Len(kids)) /\ q + 1 = Len(all) /\ q = Len(kids)
        BY <1>0, <1>6, <3>2
      <4>2. all[q + 1] = kids[q]
        BY <1>6, <2>1, <3>2
      <4> QED
        BY <4>1, <4>2, Zenon DEF ListedFrom
    <3>3. CASE q < n
      <4>1. ~(q + 1 > Len(all)) /\ ~(q > Len(kids)) /\ q + 1 # Len(all) /\ q # Len(kids)
        BY <1>0, <1>6, <2>1, <3>3
      <4>2. all[q + 1] = kids[q] /\ q + 1 \in (q + 1)..(n + 1)
        BY <1>0, <1>6, <2>1, <3>3
      <4>3. g[(q + 1) + 1] = h[q + 1]
        BY <2>2, <4>2
      <4> QED
        BY <4>1, <4>2, <4>3, Zenon DEF ListedFrom
    <3> QED
      BY <1>0, <2>1, <3>1, <3>2, <3>3
  <2>5. \A i \in q..(n + 1) : i = q \/ i \in (q + 1)..(n + 1)
    BY <1>0, <2>1
  <2>6. \A i \in q..(n + 1) : g[i + 1] = h[i]
    BY <2>2, <2>3, <2>4, <2>5
  <2> QED
    BY <2>1, <2>6 DEF Same
<1> HIDE DEF Same
<1>13. n + 1 \in Same
  <2>1. n + 1 \in Nat /\ n + 1 \in 0..(n + 1)
    BY <1>0
  <2>2. 0..(n + 1) \subseteq Same
    BY <1>11, <1>12, <2>1, UpTheNumbers
  <2> QED
    BY <2>1, <2>2
<1>14. g[2] = h[1]
  <2>1. 1 \in (n + 2 - (n + 1))..(n + 1) /\ 1 + 1 = 2
    BY <1>0
  <2>2. g[1 + 1] = h[1]
    BY <1>13, <2>1 DEF Same
  <2> QED
    BY <2>1, <2>2
<1>15. g[1] = k.raw \o (<<",">> \o g[2])
  <2>1. 1 \in 1..(n + 2) /\ ~(1 > Len(all)) /\ 1 # Len(all) /\ 1 + 1 = 2
    BY <1>0, <1>6
  <2>2. g[1] = ListedFrom(all, g, 1)
    BY <1>10, <2>1
  <2>3. ListedFrom(all, g, 1) = all[1].raw \o (<<",">> \o g[1 + 1])
    BY <2>1, Zenon DEF ListedFrom
  <2> QED
    BY <1>6, <2>1, <2>2, <2>3
<1>16. Listed(all) = k.raw \o (<<",">> \o Listed(kids))
  BY <1>7, <1>8, <1>14, <1>15
<1> QED
  BY <1>1, <1>3, <1>16

\* The reader reads the text of such a term.
LEMMA ParsesItself ==
    ASSUME NEW t, Reads(t)
    PROVE  Parse(t.raw) = {t}
<1>1. PICK s : s = t.raw
  OBVIOUS
<1>2. /\ s \in Seq(Chars) /\ Len(s) > 0
      /\ \A r \in Seq(Chars), p \in Nat \ {0} :
           Holds(r, p, s) /\ Ends(r, p + Len(s))
             => ReadNode(r, ReadArgs(r), p) = Success(t, p + Len(s))
  BY <1>1 DEF Reads, Begins
<1>3. Len(s) \in Nat
  BY <1>2, LenProperties
<1>4. PICK e : e = 1 + Len(s)
  OBVIOUS
<1>5. Holds(s, 1, s) /\ Ends(s, 1 + Len(s))
  <2>1. \A i \in 1..Len(s) : s[1 + i - 1] = s[i]
    <3>1. \A i \in 1..Len(s) : 1 + i - 1 = i
      BY <1>3
    <3> QED
      BY <3>1
  <2>2. 1 + Len(s) - 1 <= Len(s)
    BY <1>3
  <2>3. Ends(s, 1 + Len(s))
    <3>1. ~(1 + Len(s) <= Len(s))
      BY <1>3
    <3> QED
      BY <3>1 DEF Ends
  <2> QED
    BY <2>1, <2>2, <2>3 DEF Holds
<1>6. ReadTerm(s) = Success(t, e)
  <2>1. 1 \in Nat \ {0}
    OBVIOUS
  <2>2. ReadNode(s, ReadArgs(s), 1) = Success(t, 1 + Len(s))
    BY <1>2, <1>5, <2>1
  <2> QED
    BY <1>4, <2>2 DEF ReadTerm
<1>7. Skip(s, e) = Len(s) + 1
  <2>1. e \in 1..(Len(s) + 1) /\ e = Len(s) + 1
    BY <1>3, <1>4
  <2>2. Skip(s, e) \in e..(Len(s) + 1)
    BY <1>2, <2>1, SkipBounds
  <2> QED
    BY <1>3, <2>1, <2>2
<1> DEFINE read == ReadTerm(s)
<1>8. read.value = {t} /\ read.pos = e
  BY <1>6, SuccessFields
<1>9. read.value # {}
  BY <1>8
<1>10. Parse(s) = IF read.value # {} /\ Skip(s, read.pos) = Len(s) + 1 THEN read.value ELSE {}
  BY Zenon DEF Parse
<1> HIDE DEF read
<1>11. Parse(s) = {t}
  BY <1>7, <1>8, <1>9, <1>10, Zenon
<1> QED
  BY <1>1, <1>11

\* The subterms of n are in every set with n that is closed under arguments.
WithinOf(n, within, d) ==
    IF d = 0 THEN {n} ELSE {n} \cup UNION {Kids(t) : t \in within[d - 1]}

IsWithin(n, within) == within = [d \in 0..Len(n.raw) |-> WithinOf(n, within, d)]

\* So does that of Subterms.
LEMMA WithinIs ==
    ASSUME NEW n, Len(n.raw) \in Nat
    PROVE  \E within : IsWithin(n, within) /\ Subterms(n) = within[Len(n.raw)]
<1> DEFINE l == Len(n.raw)
           Upto(m, f) == /\ f = [d \in 0..l |-> f[d]]
                         /\ \A d \in 0..m : f[d] = WithinOf(n, f, d)
           Defined == {m \in 0..l : \E f : Upto(m, f)}
<1>1. 0 \in Defined
  <2> DEFINE f == [d \in 0..l |-> {n}]
  <2>1. f = [d \in 0..l |-> f[d]] /\ f[0] = {n}
    OBVIOUS
  <2>2. WithinOf(n, f, 0) = {n}
    BY DEF WithinOf
  <2> HIDE DEF f
  <2>3. \A d \in 0..0 : d = 0
    OBVIOUS
  <2>4. Upto(0, f)
    BY <2>1, <2>2, <2>3
  <2> QED
    BY <2>4
<1>2. ASSUME NEW m \in 0..l, m \in Defined, m < l
      PROVE  m + 1 \in Defined
  <2>1. PICK f : Upto(m, f)
    BY <1>2
  <2> DEFINE g == [f EXCEPT ![m + 1] = WithinOf(n, f, m + 1)]
  <2>2. DOMAIN f = 0..l
    BY <2>1
  <2>3. g = [d \in 0..l |-> IF d = m + 1 THEN WithinOf(n, f, m + 1) ELSE f[d]]
    BY <2>2
  <2> HIDE DEF g
  <2>4. ASSUME NEW d \in 0..(m + 1)
        PROVE  g[d] = WithinOf(n, g, d)
    <3>1. d \in 0..l
      BY <1>2
    <3>2. WithinOf(n, g, d) = WithinOf(n, f, d)
      <4>1. d # 0 => g[d - 1] = f[d - 1]
        <5>1. d # 0 => d - 1 \in 0..l /\ d - 1 # m + 1
          BY <1>2
        <5> QED
          BY <2>3, <5>1
      <4> QED
        BY <4>1, Zenon DEF WithinOf
    <3>3. CASE d = m + 1
      BY <2>3, <3>1, <3>2, <3>3
    <3>4. CASE d # m + 1
      <4>1. d \in 0..m
        BY <3>4
      <4>2. f[d] = WithinOf(n, f, d)
        BY <2>1, <4>1
      <4>3. g[d] = f[d]
        BY <2>3, <3>1, <3>4
      <4> QED
        BY <3>2, <4>2, <4>3
    <3> QED
      BY <3>3, <3>4
  <2>5. g = [d \in 0..l |-> g[d]]
    BY <2>3
  <2>6. Upto(m + 1, g)
    BY <2>4, <2>5
  <2>7. m + 1 \in 0..l
    BY <1>2
  <2> HIDE DEF Upto
  <2> QED
    BY <2>6, <2>7
<1> HIDE DEF Defined
<1>3. l \in Defined
  <2>1. l \in Nat /\ l \in 0..l
    OBVIOUS
  <2>2. 0..l \subseteq Defined
    BY <1>1, <1>2, <2>1, UpTheNumbers
  <2> QED
    BY <2>1, <2>2
<1>4. PICK f : Upto(l, f)
  BY <1>3 DEF Defined
<1>5. f = [d \in 0..l |-> WithinOf(n, f, d)]
  BY <1>4
<1> DEFINE within == CHOOSE g : g = [d \in 0..Len(n.raw) |-> WithinOf(n, g, d)]
<1>6. within = [d \in 0..Len(n.raw) |-> WithinOf(n, within, d)]
  BY <1>5, Zenon
<1>7. Subterms(n) = within[Len(n.raw)]
  BY Zenon DEF Subterms, WithinOf
<1> HIDE DEF within
<1> QED
  BY <1>6, <1>7, Zenon DEF IsWithin

\* Subterms(n) has nothing but what belongs to n, and its arguments.
LEMMA SubtermsIn ==
    ASSUME NEW n, Len(n.raw) \in Nat, NEW U, n \in U, \A u \in U : Kids(u) \subseteq U
    PROVE  /\ Subterms(n) \subseteq U /\ n \in Subterms(n)
           /\ Len(n.raw) > 0 => Kids(n) \subseteq Subterms(n)
<1> DEFINE l == Len(n.raw)
<1>1. PICK within : IsWithin(n, within) /\ Subterms(n) = within[l]
  BY WithinIs
<1>2. \A d \in 0..l : within[d] = WithinOf(n, within, d)
  <2>1. within = [d \in 0..l |-> WithinOf(n, within, d)]
    BY <1>1 DEF IsWithin
  <2> QED
    BY <2>1
<1>3. \A d \in 0..l : n \in within[d]
  BY <1>2 DEF WithinOf
<1> DEFINE Inside == {d \in 0..l : within[d] \subseteq U}
<1>4. 0 \in Inside
  <2>1. 0 \in 0..l
    OBVIOUS
  <2>2. within[0] = {n}
    BY <1>2, <2>1 DEF WithinOf
  <2> QED
    BY <2>1, <2>2
<1>5. ASSUME NEW d \in 0..l, d \in Inside, d < l
      PROVE  d + 1 \in Inside
  <2>1. d + 1 \in 0..l /\ d + 1 # 0 /\ (d + 1) - 1 = d
    BY <1>5
  <2>2. within[d + 1] = {n} \cup UNION {Kids(t) : t \in within[d]}
    BY <1>2, <2>1 DEF WithinOf
  <2>3. \A t \in within[d] : Kids(t) \subseteq U
    BY <1>5
  <2>4. within[d + 1] \subseteq U
    BY <2>2, <2>3
  <2> QED
    BY <2>1, <2>4
<1> HIDE DEF Inside
<1>6. l \in Inside /\ l \in 0..l
  <2>1. l \in 0..l
    OBVIOUS
  <2>2. 0..l \subseteq Inside
    BY <1>4, <1>5, UpTheNumbers
  <2> QED
    BY <2>1, <2>2
<1>7. ASSUME l > 0
      PROVE  Kids(n) \subseteq within[l]
  <2>1. l - 1 \in 0..l /\ l # 0
    BY <1>7
  <2>2. within[l] = {n} \cup UNION {Kids(t) : t \in within[l - 1]}
    BY <1>2, <1>6, <2>1 DEF WithinOf
  <2>3. n \in within[l - 1]
    BY <1>3, <2>1
  <2> QED
    BY <2>2, <2>3
<1> QED
  BY <1>1, <1>3, <1>6, <1>7 DEF Inside

-----------------------------------------------------------------------------
\* What go-canonical writes is read back.

\* The terms in t: the reader reads every one of them, and t has the longest text.
\* If it is a leaf, there are no others.
Parts(t, U) ==
    /\ IsFiniteSet(U) /\ t \in U
    /\ IsLeaf(t) => Kids(t) = {}
    /\ \A u \in U : /\ Reads(u)
                    /\ Kids(u) \subseteq U
                    /\ u = t \/ Len(u.raw) < Len(t.raw)

Canonical(t) == \E U : Parts(t, U)

\* Such a term is read wherever its text stands.
LEMMA CanonicalReads ==
    ASSUME NEW t, Canonical(t)
    PROVE  Reads(t) /\ t.raw \in Seq(Chars) /\ Len(t.raw) \in Nat \ {0}
<1>1. PICK U : Parts(t, U)
  BY DEF Canonical
<1>2. Reads(t)
  BY <1>1 DEF Parts
<1>3. t.raw \in Seq(Chars) /\ Len(t.raw) > 0
  BY <1>2 DEF Reads, Begins
<1>4. Len(t.raw) \in Nat
  BY <1>3, LenProperties
<1> QED
  BY <1>2, <1>3, <1>4

LEMMA LeafParts ==
    ASSUME NEW l \in Seq(Chars), Len(l) > 0, IsName(l) \/ IsQuoted(l) \/ IsAtom(l)
    PROVE  Parts(Leaf(l), {Leaf(l)})
<1>1. Reads(Leaf(l))
  BY LeafReads
<1>2. Kids(Leaf(l)) = {}
  <2>1. PICK none : none = <<>>
    OBVIOUS
  <2>2. Leaf(l).kids = none /\ DOMAIN none = {}
    BY <2>1 DEF Leaf
  <2> QED
    BY <2>2 DEF Kids
<1>3. IsFiniteSet({Leaf(l)})
  BY FS_Singleton
<1> QED
  BY <1>1, <1>2, <1>3 DEF Parts

LEMMA LeavesAreCanonical ==
    ASSUME NEW l \in TermLeaves
    PROVE  Canonical(Leaf(l))
<1>1. l \in Seq(Chars) /\ l # <<>> /\ (IsName(l) \/ IsQuoted(l) \/ IsAtom(l))
  BY TermAssumption
<1>2. Len(l) > 0
  <2>1. Len(l) \in Nat
    BY <1>1, LenProperties
  <2>2. Len(l) # 0
    BY <1>1, EmptySeq
  <2> QED
    BY <2>1, <2>2
<1> QED
  BY <1>1, <1>2, LeafParts DEF Canonical

\* A head around such terms is one.
LEMMA WrittenParts ==
    ASSUME NEW h \in Words, NEW kids, NEW list \in Seq(Chars), Listed(kids) = list,
           InBrackets(list, kids), NEW V, IsFiniteSet(V),
           NEW t, t = Written(h, kids), Kids(t) \subseteq V,
           \A u \in V : Reads(u) /\ Kids(u) \subseteq V /\ Len(u.raw) <= Len(list)
    PROVE  Parts(t, V \cup {t})
<1>1. t = Node(<<h>>, kids, <<h>> \o <<"[">> \o list \o <<"]">>)
  BY DEF Written, Bracketed
<1>2. PICK raw : raw = <<h>> \o <<"[">> \o list \o <<"]">>
  OBVIOUS
<1>3. t = Node(<<h>>, kids, raw) /\ t.raw = raw
  BY <1>1, <1>2 DEF Node
<1>4. IsBracketed(raw, h, list)
  BY <1>2, BracketsAround
<1>5. Reads(t)
  BY <1>3, <1>4, TermReads
<1>6. Len(raw) = Len(list) + 3 /\ Len(list) \in Nat
  BY <1>4, LenProperties DEF IsBracketed
<1>7. ASSUME NEW u \in V
      PROVE  Len(u.raw) < Len(raw)
  <2>1. Reads(u) /\ Len(u.raw) <= Len(list)
    OBVIOUS
  <2>2. u.raw \in Seq(Chars)
    BY <2>1 DEF Reads, Begins
  <2>3. Len(u.raw) \in Nat
    BY <2>2, LenProperties
  <2> QED
    BY <1>6, <2>1, <2>3
<1>8. IsFiniteSet(V \cup {t}) /\ ~IsLeaf(t)
  <2>1. t.op = <<h>>
    BY <1>3 DEF Node
  <2>2. <<h>> # <<>>
    OBVIOUS
  <2> QED
    BY <2>1, <2>2, FS_AddElement, Zenon DEF IsLeaf
<1>9. ASSUME NEW u \in V \cup {t}
      PROVE  Reads(u) /\ Kids(u) \subseteq V \cup {t} /\ (u = t \/ Len(u.raw) < Len(t.raw))
  BY <1>3, <1>5, <1>7
<1> QED
  BY <1>8, <1>9 DEF Parts

\* A head without arguments is written with its brackets, too.
LEMMA WrittenAlone ==
    ASSUME NEW h \in Words
    PROVE  Parts(Written(h, <<>>), {Written(h, <<>>)})
<1>1. PICK t : t = Written(h, <<>>)
  OBVIOUS
<1>2. PICK none : none = <<>>
  OBVIOUS
<1>3. none \in Seq(Chars) /\ DOMAIN none = {}
  BY <1>2
<1>4. t = Written(h, none) /\ Listed(none) = none /\ InBrackets(none, none)
  BY <1>1, <1>2, ListedNone DEF InBrackets
<1>5. t.kids = none
  BY <1>4 DEF Written, Node
<1>6. Kids(t) = {}
  BY <1>3, <1>5 DEF Kids
<1>7. IsFiniteSet({})
  BY FS_EmptySet
<1>8. Parts(t, {} \cup {t})
  BY <1>3, <1>4, <1>6, <1>7, WrittenParts
<1>9. {} \cup {t} = {t}
  OBVIOUS
<1> QED
  BY <1>1, <1>8, <1>9

\* The terms in a list of arguments, which are read with their commas.
ListParts(kids, V) ==
    /\ Listed(kids) \in Seq(Chars)
    /\ ReadsList(Listed(kids), kids)
    /\ IsFiniteSet(V)
    /\ \A i \in DOMAIN kids : kids[i] \in V
    /\ \A u \in V : Reads(u) /\ Kids(u) \subseteq V /\ Len(u.raw) <= Len(Listed(kids))

\* An argument alone is a list.
LEMMA OnlyArgumentParts ==
    ASSUME NEW k, NEW U, Parts(k, U)
    PROVE  ListParts(<<k>>, U)
<1>1. PICK one : one = <<k>>
  OBVIOUS
<1>2. DOMAIN one = {1} /\ one[1] = k
  BY <1>1
<1>3. k \in U /\ IsFiniteSet(U) /\ Reads(k)
  BY DEF Parts
<1>4. k.raw \in Seq(Chars)
  BY <1>3 DEF Reads, Begins
<1>5. Listed(one) = k.raw
  BY <1>1, <1>4, ListedOne
<1>6. ReadsList(k.raw, one)
  BY <1>1, <1>3, OneArgument
<1>7. ASSUME NEW u \in U
      PROVE  Reads(u) /\ Kids(u) \subseteq U /\ Len(u.raw) <= Len(k.raw)
  <2>1. Reads(u) /\ Kids(u) \subseteq U /\ (u = k \/ Len(u.raw) < Len(k.raw))
    BY DEF Parts
  <2>2. u.raw \in Seq(Chars)
    BY <2>1 DEF Reads, Begins
  <2>3. Len(u.raw) \in Nat
    BY <2>2, LenProperties
  <2>4. Len(k.raw) \in Nat
    BY <1>4, LenProperties
  <2> QED
    BY <2>1, <2>3, <2>4
<1>8. ListParts(one, U)
  BY <1>2, <1>3, <1>4, <1>5, <1>6, <1>7 DEF ListParts
<1> QED
  BY <1>1, <1>8

\* One argument in front of a list makes a list.
LEMMA OneMoreArgumentParts ==
    ASSUME NEW S, NEW k \in S, NEW U, Parts(k, U),
           NEW kids \in Seq(S), Len(kids) > 0, NEW V, ListParts(kids, V)
    PROVE  ListParts(<<k>> \o kids, U \cup V)
<1>1. PICK list : list = Listed(kids)
  OBVIOUS
<1>2. /\ list \in Seq(Chars) /\ ReadsList(list, kids) /\ IsFiniteSet(V)
      /\ \A i \in DOMAIN kids : kids[i] \in V
      /\ \A u \in V : Reads(u) /\ Kids(u) \subseteq V /\ Len(u.raw) <= Len(list)
  BY <1>1 DEF ListParts
<1>3. k \in U /\ IsFiniteSet(U) /\ Reads(k)
  BY DEF Parts
<1>4. k.raw \in Seq(Chars)
  BY <1>3 DEF Reads, Begins
<1>5. PICK all : all = <<k>> \o kids
  OBVIOUS
<1>6. PICK text : text = k.raw \o (<<",">> \o list)
  OBVIOUS
<1>7. Listed(all) = text
  BY <1>1, <1>5, <1>6, ListedMore
<1>8. ReadsList(text, all)
  BY <1>2, <1>3, <1>5, <1>6, OneMoreArgument
<1>9. text \in Seq(Chars) /\ Len(text) = Len(k.raw) + 1 + Len(list)
  <2>1. "," \in Chars
    BY DelimitersKnown DEF Chars, DelimitersAre
  <2>2. Joins(text, k.raw, ",", list)
    BY <1>6 DEF Joins
  <2>3. IsJoined(text, k.raw, ",", list)
    BY <1>2, <1>4, <2>1, <2>2, TextsJoined
  <2> QED
    BY <2>3 DEF IsJoined
<1>10. Len(k.raw) \in Nat /\ Len(list) \in Nat
  <2>1. Len(k.raw) \in Nat
    BY <1>4, LenProperties
  <2>2. Len(list) \in Nat
    BY <1>2, LenProperties
  <2> QED
    BY <2>1, <2>2
<1>11. ASSUME NEW u \in U \cup V
       PROVE  Reads(u) /\ Kids(u) \subseteq U \cup V /\ Len(u.raw) <= Len(text)
  <2>1. /\ Reads(u) /\ Kids(u) \subseteq U \cup V
        /\ u = k \/ Len(u.raw) < Len(k.raw) \/ Len(u.raw) <= Len(list)
    BY <1>2 DEF Parts
  <2>2. u.raw \in Seq(Chars)
    BY <2>1 DEF Reads, Begins
  <2>3. PICK x, y, z : x = Len(u.raw) /\ y = Len(k.raw) /\ z = Len(list)
    OBVIOUS
  <2>4. x = y \/ x < y \/ x <= z
    BY <2>1, <2>3, Zenon
  <2>5. x \in Nat /\ y \in Nat /\ z \in Nat /\ Len(text) = y + 1 + z
    BY <1>9, <1>10, <2>2, <2>3, LenProperties
  <2>6. x <= y + 1 + z
    BY <2>4, <2>5
  <2> QED
    BY <2>1, <2>3, <2>5, <2>6
<1>12. \A i \in DOMAIN all : all[i] \in U \cup V
  <2>1. PICK one : one = <<k>>
    OBVIOUS
  <2>2. one \in Seq(S) /\ Len(one) = 1 /\ one[1] = k
    BY <2>1
  <2>3. all = one \o kids
    BY <1>5, <2>1
  <2>4. one \in Seq(S)
    BY <2>2
  <2>5. /\ all \in Seq(S) /\ Len(all) = Len(one) + Len(kids)
        /\ \A i \in 1..(Len(one) + Len(kids)) :
             all[i] = IF i <= Len(one) THEN one[i] ELSE kids[i - Len(one)]
    BY <2>3, <2>4, ConcatProperties
  <2>6. Len(kids) \in Nat /\ DOMAIN kids = 1..Len(kids)
    BY LenProperties
  <2>7. DOMAIN all = 1..(1 + Len(kids))
    BY <2>2, <2>5, LenProperties
  <2>8. ASSUME NEW i \in 1..(1 + Len(kids))
        PROVE  all[i] \in U \cup V
    <3>1. CASE i = 1
      BY <1>3, <2>2, <2>5, <3>1
    <3>2. CASE i # 1
      <4>1. ~(i <= Len(one)) /\ i - Len(one) \in 1..Len(kids)
        BY <2>2, <2>6, <3>2
      <4>2. all[i] = kids[i - Len(one)]
        BY <2>2, <2>5, <4>1
      <4> QED
        BY <1>2, <2>6, <4>1, <4>2
    <3> QED
      BY <3>1, <3>2
  <2> QED
    BY <2>7, <2>8
<1>13. IsFiniteSet(U \cup V)
  BY <1>2, <1>3, FS_Union
<1>14. ListParts(all, U \cup V)
  BY <1>7, <1>8, <1>9, <1>11, <1>12, <1>13 DEF ListParts
<1> QED
  BY <1>5, <1>14

\* Any number of arguments is read, by induction from the last of them.
LEMMA ArgumentsParts ==
    ASSUME NEW S, \A k \in S : Canonical(k), NEW kids \in Seq(S), Len(kids) > 0
    PROVE  \E V : ListParts(kids, V)
<1> DEFINE n == Len(kids)
           Read == {m \in 0..n : \A ks \in Seq(S) : Len(ks) = m /\ m > 0 => \E V : ListParts(ks, V)}
<1>0. n \in Nat
  BY LenProperties
<1>1. 0 \in Read
  BY <1>0
<1>2. ASSUME NEW m \in 0..n, m \in Read, m < n
      PROVE  m + 1 \in Read
  <2>1. ASSUME NEW ks \in Seq(S), Len(ks) = m + 1
        PROVE  \E V : ListParts(ks, V)
    <3>1. ks # <<>>
      BY <1>0, <2>1
    <3>2. PICK k, rest : k = Head(ks) /\ rest = Tail(ks)
      OBVIOUS
    <3>3. /\ k \in S /\ rest \in Seq(S) /\ Len(rest) = Len(ks) - 1
          /\ \A i \in 1..Len(rest) : rest[i] = ks[i + 1]
      BY <3>1, <3>2, HeadTailProperties
    <3>4. Len(rest) = m
      BY <1>0, <2>1, <3>3
    <3>5. ks = <<k>> \o rest
      <4>1. ks[1] = k
        BY <3>1, <3>2
      <4>2. PICK one : one = <<k>>
        OBVIOUS
      <4>3. one \in Seq(S) /\ Len(one) = 1 /\ one[1] = k
        BY <3>3, <4>2
      <4>4. PICK all : all = one \o rest
        OBVIOUS
      <4>5. one \in Seq(S)
        BY <4>3
      <4>6. /\ all \in Seq(S) /\ Len(all) = Len(one) + Len(rest)
            /\ \A i \in 1..(Len(one) + Len(rest)) :
                 all[i] = IF i <= Len(one) THEN one[i] ELSE rest[i - Len(one)]
        BY <3>3, <4>4, <4>5, ConcatProperties
      <4>7. Len(all) = Len(ks) /\ Len(ks) = m + 1
        BY <1>0, <2>1, <3>4, <4>3, <4>6
      <4>8. ASSUME NEW i \in 1..Len(ks)
            PROVE  all[i] = ks[i]
        <5>1. i \in 1..(Len(one) + Len(rest))
          BY <1>0, <3>4, <4>3, <4>7
        <5>2. CASE i = 1
          BY <4>1, <4>3, <4>6, <5>1, <5>2
        <5>3. CASE i # 1
          <6>1. ~(i <= Len(one)) /\ i - Len(one) \in 1..Len(rest) /\ i - Len(one) + 1 = i
            BY <1>0, <3>4, <4>3, <4>7, <5>3
          <6>2. all[i] = rest[i - Len(one)]
            BY <4>6, <5>1, <6>1
          <6> QED
            BY <3>3, <6>1, <6>2
        <5> QED
          BY <5>2, <5>3
      <4>9. all = ks
        BY <4>6, <4>7, <4>8, SeqEqual
      <4> QED
        BY <4>2, <4>4, <4>9
    <3>6. PICK U : Parts(k, U)
      BY <3>3 DEF Canonical
    <3>7. CASE m = 0
      <4>1. rest = <<>>
        BY <3>3, <3>4, <3>7, EmptySeq
      <4>2. <<k>> \o rest = <<k>>
        BY <4>1
      <4>3. ListParts(ks, U)
        BY <3>5, <3>6, <4>2, OnlyArgumentParts
      <4> QED
        BY <4>3
    <3>8. CASE m > 0
      <4>1. PICK V : ListParts(rest, V)
        BY <1>2, <3>3, <3>4, <3>8
      <4>2. ListParts(ks, U \cup V)
        BY <3>3, <3>4, <3>5, <3>6, <3>8, <4>1, OneMoreArgumentParts
      <4> QED
        BY <4>2
    <3> QED
      BY <3>7, <3>8
  <2>2. m + 1 \in 0..n
    BY <1>0, <1>2
  <2> QED
    BY <2>1, <2>2
<1> HIDE DEF Read
<1>3. 0..n \subseteq Read
  BY <1>0, <1>1, <1>2, UpTheNumbers
<1>4. n \in Read
  BY <1>0, <1>3
<1> QED
  BY <1>4 DEF Read

\* A head around a list of arguments.
LEMMA WrittenAround ==
    ASSUME NEW h \in Words, NEW kids, NEW V, ListParts(kids, V)
    PROVE  Parts(Written(h, kids), V \cup {Written(h, kids)})
<1>1. PICK list : list = Listed(kids)
  OBVIOUS
<1>2. /\ list \in Seq(Chars) /\ InBrackets(list, kids) /\ IsFiniteSet(V)
      /\ \A i \in DOMAIN kids : kids[i] \in V
      /\ \A u \in V : Reads(u) /\ Kids(u) \subseteq V /\ Len(u.raw) <= Len(list)
  BY <1>1 DEF ListParts, InBrackets
<1>3. PICK t : t = Written(h, kids)
  OBVIOUS
<1>4. t.kids = kids
  BY <1>3 DEF Written, Node
<1>5. Kids(t) \subseteq V
  BY <1>2, <1>4 DEF Kids
<1>6. Parts(t, V \cup {t})
  BY <1>1, <1>2, <1>3, <1>5, WrittenParts
<1> QED
  BY <1>3, <1>6

\* A head around any number of such terms is one.
LEMMA HeadsKeepCanonical ==
    ASSUME NEW S, \A k \in S : Canonical(k), NEW kids \in Seq(S), NEW h \in Words
    PROVE  Canonical(Written(h, kids))
<1>1. CASE kids = <<>>
  <2>1. Parts(Written(h, kids), {Written(h, kids)})
    BY <1>1, WrittenAlone
  <2> QED
    BY <2>1 DEF Canonical
<1>2. CASE kids # <<>>
  <2>1. Len(kids) > 0
    BY <1>2, EmptySeq, LenProperties
  <2>2. PICK V : ListParts(kids, V)
    BY <2>1, ArgumentsParts
  <2> QED
    BY <2>2, WrittenAround DEF Canonical
<1> QED
  BY <1>1, <1>2

\* A head around such terms, as BuildTerms puts it, is such a term.
LEMMA TermsOverAreCanonical ==
    ASSUME NEW t, Canonical(t), NEW w \in TermsOver(t)
    PROVE  Canonical(w)
<1>1. PICK h \in TermHeads : w \in {Written(h, kids) : kids \in ArgumentsOver(t)}
  BY DEF TermsOver
<1>2. PICK kids \in ArgumentsOver(t) : w = Written(h, kids)
  BY <1>1
<1>3. h \in Words
  BY TermAssumption
<1> DEFINE S == {t} \cup Leaves
<1>4. \A k \in S : Canonical(k)
  BY LeavesAreCanonical DEF Leaves
<1>5. kids \in Seq(S)
  <2>1. CASE kids = <<>>
    BY <2>1, EmptySeq
  <2>2. CASE kids = <<t>>
    BY <2>2
  <2>3. CASE \E l \in Leaves : kids = <<t, l>> \/ kids = <<l, t>>
    <3>1. PICK l \in Leaves : kids = <<t, l>> \/ kids = <<l, t>>
      BY <2>3
    <3>2. t \in S /\ l \in S
      OBVIOUS
    <3> HIDE DEF S
    <3>3. <<t, l>> \in Seq(S) /\ <<l, t>> \in Seq(S)
      BY <3>2
    <3> QED
      BY <3>1, <3>3
  <2> QED
    BY <2>1, <2>2, <2>3 DEF ArgumentsOver
<1> HIDE DEF S
<1> QED
  BY <1>2, <1>3, <1>4, <1>5, HeadsKeepCanonical

\* Items are texts of characters, terms that are read back, and fractions.
Fine(i) ==
    \/ \E s \in Seq(Chars) : i = Text(s)
    \/ \E t, u, heads : Canonical(t) /\ Canonical(u) /\ i = Terms(t, u, heads)
    \/ \E num \in Int, den \in Nat \ {0} : i = Exponent(num, den)

ItemIsFine == Fine(item)

\* Every input of FeatureSpec is one the code can be given.
THEOREM ItemsAreFine == FeatureSpec => []ItemIsFine
<1>1. FeatureInit => Fine(item)
  <2> SUFFICES ASSUME FeatureInit PROVE Fine(item)
    OBVIOUS
  <2>1. CASE item = Text(<<>>)
    <3>1. <<>> \in Seq(Chars)
      OBVIOUS
    <3> QED
      BY <2>1, <3>1, Zenon DEF Fine
  <2>2. CASE \E l, m \in Leaves : item = Terms(l, m, 0)
    <3>1. \A l \in Leaves : Canonical(l)
      BY LeavesAreCanonical DEF Leaves
    <3> QED
      BY <2>2, <3>1, Zenon DEF Fine
  <2>3. CASE \E num \in -MaxExponent..MaxExponent, den \in 1..MaxExponent :
               item = Exponent(num, den)
    <3>1. MaxExponent \in Nat
      BY BoundAssumption
    <3>2. (-MaxExponent..MaxExponent) \subseteq Int /\ (1..MaxExponent) \subseteq Nat \ {0}
      BY <3>1
    <3>3. \E num \in Int, den \in Nat \ {0} : item = Exponent(num, den)
      BY <2>3, <3>2, Zenon
    <3> QED
      BY <3>3, Zenon DEF Fine
  <2> QED
    BY <2>1, <2>2, <2>3, Zenon DEF FeatureInit
<1>2. Fine(item) /\ [FeatureNext]_item => Fine(item')
  <2> SUFFICES ASSUME Fine(item), [FeatureNext]_item PROVE Fine(item')
    OBVIOUS
  <2>1. CASE Type
    <3>1. PICK c \in Alphabet : item.what = "text" /\ item' = Text(Append(item.text, c))
      BY <2>1, Zenon DEF Type
    <3>2. \E s \in Seq(Chars) : item = Text(s)
      BY <3>1 DEF Fine, Terms, Exponent
    <3>3. PICK s \in Seq(Chars) : item = Text(s)
      BY <3>2
    <3>4. item.text = s
      BY <3>3 DEF Text
    <3>5. c \in Chars
      BY DEF Chars
    <3>6. Append(s, c) \in Seq(Chars)
      BY <3>5
    <3> QED
      BY <3>1, <3>4, <3>6, Zenon DEF Fine
  <2>2. CASE BuildTerms
    <3>1. PICK t \in TermsOver(item.one), u \in {item.other} \cup TermsOver(item.other) :
            item.what = "terms" /\ item' = Terms(t, u, item.heads + 1)
      BY <2>2, Zenon DEF BuildTerms
    <3>2. \E x, y, heads : Canonical(x) /\ Canonical(y) /\ item = Terms(x, y, heads)
      BY <3>1 DEF Fine, Text, Exponent
    <3>3. Canonical(item.one) /\ Canonical(item.other)
      BY <3>2 DEF Terms
    <3>4. Canonical(t) /\ Canonical(u)
      BY <3>1, <3>3, TermsOverAreCanonical
    <3> QED
      BY <3>1, <3>4, Zenon DEF Fine
  <2>3. CASE UNCHANGED item
    BY <2>3, Zenon
  <2> QED
    BY <2>1, <2>2, <2>3, Zenon DEF FeatureNext
<1>3. FeatureInit => ItemIsFine
  BY <1>1 DEF ItemIsFine
<1>4. ItemIsFine /\ [FeatureNext]_item => ItemIsFine'
  BY <1>2 DEF ItemIsFine
<1> QED
  BY <1>3, <1>4, PTL DEF FeatureSpec

\* The terms of an item, and nothing about the others.
LEMMA TermsAreCanonical ==
    ASSUME Fine(item), item.what = "terms"
    PROVE  Canonical(item.one) /\ Canonical(item.other)
<1>1. \E x, y, heads : Canonical(x) /\ Canonical(y) /\ item = Terms(x, y, heads)
  BY DEF Fine, Text, Exponent
<1> QED
  BY <1>1 DEF Terms

\* A term that go-canonical writes, strings with delimiters included, is read back by
\* Parse as it was, whatever its depth.
THEOREM ReadsBackHolds == FeatureSpec => []ReadsBack
<1>1. ItemIsFine => ReadsBack
  BY TermsAreCanonical, CanonicalReads, ParsesItself DEF ReadsBack, ItemIsFine
<1> QED
  BY <1>1, ItemsAreFine, PTL

-----------------------------------------------------------------------------
\* Tokens of what go-canonical writes.

LEMMA TokensRead ==
    ASSUME NEW t, NEW U, Parts(t, U), NEW u \in U
    PROVE  /\ TokensFrom(u.raw) = Tokens(u)
           /\ OwnTokens(u) \subseteq Tokens(u)
           /\ \A k \in Kids(u) : OwnTokens(k) \subseteq Tokens(u)
<1>1. Reads(u) /\ \A w \in U : Kids(w) \subseteq U
  BY DEF Parts
<1>2. u.raw \in Seq(Chars) /\ Len(u.raw) > 0
  BY <1>1 DEF Reads, Begins
<1>3. Len(u.raw) \in Nat
  BY <1>2, LenProperties
<1>4. TokensFrom(u.raw) = Tokens(u)
  <2>1. Parse(u.raw) = {u}
    BY <1>1, ParsesItself
  <2>2. {Tokens(n) : n \in {u}} = {Tokens(u)}
    OBVIOUS
  <2>3. UNION {Tokens(u)} = Tokens(u)
    OBVIOUS
  <2> QED
    BY <2>1, <2>2, <2>3, Zenon DEF TokensFrom
<1>5. u \in Subterms(u) /\ Kids(u) \subseteq Subterms(u)
  BY <1>1, <1>2, <1>3, SubtermsIn
<1>6. \A w \in Subterms(u) : OwnTokens(w) \subseteq Tokens(u)
  BY DEF Tokens
<1> QED
  BY <1>4, <1>5, <1>6

\* A search for any argument of a term has the term among its candidates.
LEMMA FoundByArguments ==
    ASSUME NEW t, Canonical(t), NEW k \in Kids(t)
    PROVE  Matches(TokensFrom(k.raw), TokensFrom(t.raw))
<1>1. PICK U : Parts(t, U)
  BY DEF Canonical
<1>2. t \in U /\ k \in U
  BY <1>1 DEF Parts
<1>3. TokensFrom(k.raw) = Tokens(k) /\ OwnTokens(k) \subseteq Tokens(k)
  BY <1>1, <1>2, TokensRead
<1>4. /\ TokensFrom(t.raw) = Tokens(t)
      /\ OwnTokens(k) \subseteq Tokens(t)
  BY <1>1, <1>2, TokensRead
<1>5. \E token : token \in OwnTokens(k)
  <2>1. CASE IsLeaf(k)
    BY <2>1, Zenon DEF OwnTokens
  <2>2. CASE ~IsLeaf(k)
    BY <2>2, Zenon DEF OwnTokens
  <2> QED
    BY <2>1, <2>2
<1> QED
  BY <1>3, <1>4, <1>5 DEF Matches

\* A search for any argument of a formula, a constant or a variable included,
\* has the formula among its candidates: MatchQuery asks for one of its tokens.
THEOREM FoundByItsPartsHolds == FeatureSpec => []FoundByItsParts
<1>1. ItemIsFine => FoundByItsParts
  BY TermsAreCanonical, FoundByArguments DEF FoundByItsParts, ItemIsFine
<1> QED
  BY <1>1, ItemsAreFine, PTL

\* The image of a finite set.
LEMMA ImageIsFinite ==
    ASSUME NEW S, IsFiniteSet(S), NEW f, f = [x \in S |-> f[x]]
    PROVE  IsFiniteSet({f[x] : x \in S})
<1> DEFINE T == {f[x] : x \in S}
<1>1. f \in Surjection(S, T)
  BY DEF Surjection
<1> QED
  BY <1>1, FS_Surjection

LEMMA OwnTokensFinite ==
    ASSUME NEW n, IsFiniteSet(Kids(n)), \A k \in Kids(n) : IsFiniteSet(Kids(k))
    PROVE  IsFiniteSet(OwnTokens(n))
<1>1. CASE IsLeaf(n)
  <2>1. OwnTokens(n) = {<<"l", Generalize(n.leaf)>>}
    BY <1>1, Zenon DEF OwnTokens
  <2> QED
    BY <2>1, FS_Singleton
<1>2. CASE ~IsLeaf(n)
  <2> DEFINE Edges == {<<"e", n.op, HeadLabel(k)>> : k \in Kids(n)}
             Path(k) == {<<"p", n.op, k.op, HeadLabel(g)>> : g \in Kids(k)}
             Paths == {Path(k) : k \in Kids(n)}
             Heads == {<<"op", n.op>>}
  <2>1. IsFiniteSet(Edges)
    <3> DEFINE f == [k \in Kids(n) |-> <<"e", n.op, HeadLabel(k)>>]
    <3>1. IsFiniteSet({f[k] : k \in Kids(n)})
      BY ImageIsFinite
    <3>2. Edges = {f[k] : k \in Kids(n)}
      OBVIOUS
    <3> QED
      BY <3>1, <3>2
  <2>2. ASSUME NEW k \in Kids(n)
        PROVE  IsFiniteSet(Path(k))
    <3> DEFINE f == [g \in Kids(k) |-> <<"p", n.op, k.op, HeadLabel(g)>>]
    <3>1. IsFiniteSet({f[g] : g \in Kids(k)})
      BY ImageIsFinite
    <3>2. Path(k) = {f[g] : g \in Kids(k)}
      OBVIOUS
    <3> QED
      BY <3>1, <3>2
  <2>3. IsFiniteSet(Paths) /\ \A T \in Paths : IsFiniteSet(T)
    <3> DEFINE f == [k \in Kids(n) |-> Path(k)]
    <3>1. IsFiniteSet({f[k] : k \in Kids(n)})
      BY ImageIsFinite
    <3>2. Paths = {f[k] : k \in Kids(n)}
      OBVIOUS
    <3>3. \A T \in Paths : IsFiniteSet(T)
      BY <2>2
    <3> QED
      BY <3>1, <3>2, <3>3
  <2>4. IsFiniteSet(UNION Paths)
    BY <2>3, FS_UNION
  <2>5. IsFiniteSet(Heads) /\ IsFiniteSet(Fingerprint(n))
    BY FS_Singleton DEF Fingerprint
  <2>6. OwnTokens(n) = Heads \cup Fingerprint(n) \cup Edges \cup UNION Paths
    BY <1>2, Zenon DEF OwnTokens
  <2> HIDE DEF Heads, Edges, Paths
  <2>7. IsFiniteSet(Heads \cup Fingerprint(n))
    BY <2>5, FS_Union
  <2>8. IsFiniteSet(Heads \cup Fingerprint(n) \cup Edges)
    BY <2>1, <2>7, FS_Union
  <2>9. IsFiniteSet(Heads \cup Fingerprint(n) \cup Edges \cup UNION Paths)
    BY <2>4, <2>8, FS_Union
  <2> QED
    BY <2>6, <2>9
<1> QED
  BY <1>1, <1>2

\* A term has finitely many tokens.
LEMMA TokensFinite ==
    ASSUME NEW t, Canonical(t)
    PROVE  IsFiniteSet(Tokens(t))
<1>1. PICK U : Parts(t, U)
  BY DEF Canonical
<1>2. IsFiniteSet(U) /\ t \in U /\ \A u \in U : Kids(u) \subseteq U
  BY <1>1 DEF Parts
<1>3. Len(t.raw) \in Nat
  BY CanonicalReads
<1>4. Subterms(t) \subseteq U
  BY <1>2, <1>3, SubtermsIn
<1>5. IsFiniteSet(Subterms(t))
  BY <1>2, <1>4, FS_Subset
<1>6. \A u \in U : IsFiniteSet(Kids(u))
  BY <1>2, FS_Subset
<1>7. \A u \in U : IsFiniteSet(OwnTokens(u))
  BY <1>2, <1>6, OwnTokensFinite
<1> DEFINE own == [u \in Subterms(t) |-> OwnTokens(u)]
           All == {own[u] : u \in Subterms(t)}
<1>8. IsFiniteSet(All)
  BY <1>5, ImageIsFinite
<1>9. \A T \in All : IsFiniteSet(T)
  BY <1>4, <1>7
<1>10. All = {OwnTokens(u) : u \in Subterms(t)}
  OBVIOUS
<1> HIDE DEF All
<1>11. IsFiniteSet(UNION All)
  BY <1>8, <1>9, FS_UNION
<1> QED
  BY <1>10, <1>11, Zenon DEF Tokens

\* A fingerprint is of the term itself or of a shorter one.
LEMMA FingerprintsOf ==
    ASSUME NEW t, Canonical(t), NEW raw, <<"s", raw>> \in Tokens(t)
    PROVE  raw = t.raw \/ Len(raw) < Len(t.raw)
<1>1. PICK U : Parts(t, U)
  BY DEF Canonical
<1>2. t \in U /\ \A u \in U : Kids(u) \subseteq U
  BY <1>1 DEF Parts
<1>3. Len(t.raw) \in Nat
  BY CanonicalReads
<1>4. Subterms(t) \subseteq U
  BY <1>2, <1>3, SubtermsIn
<1>5. PICK u \in Subterms(t) : <<"s", raw>> \in OwnTokens(u)
  BY DEF Tokens
<1>6. raw = u.raw
  <2>1. PICK token : token = <<"s", raw>>
    OBVIOUS
  <2>2. Len(token) = 2 /\ token[1] = "s" /\ token[2] = raw
    BY <2>1
  <2>3. \A v : token # <<"l", v>> /\ token # <<"op", v>>
    BY <2>2
  <2>4. \A v, w : token # <<"e", v, w>>
    BY <2>2
  <2>5. \A v, w, x : token # <<"p", v, w, x>>
    BY <2>2
  <2>6. \A v : token = <<"s", v>> => raw = v
    BY <2>2
  <2>7. CASE IsLeaf(u)
    BY <1>5, <2>1, <2>3, <2>7, Zenon DEF OwnTokens
  <2>8. CASE ~IsLeaf(u)
    <3>1. token \in {<<"op", u.op>>} \cup Fingerprint(u)
              \cup {<<"e", u.op, HeadLabel(k)>> : k \in Kids(u)}
              \cup UNION {{<<"p", u.op, k.op, HeadLabel(g)>> : g \in Kids(k)} : k \in Kids(u)}
      BY <1>5, <2>1, <2>8, Zenon DEF OwnTokens
    <3>2. token \in Fingerprint(u)
      BY <2>3, <2>4, <2>5, <3>1
    <3> QED
      BY <2>6, <3>2 DEF Fingerprint
  <2> QED
    BY <2>7, <2>8
<1>7. u = t \/ Len(u.raw) < Len(t.raw)
  BY <1>1, <1>4 DEF Parts
<1> QED
  BY <1>6, <1>7, Zenon

\* A term with a head has a fingerprint.
LEMMA HasFingerprint ==
    ASSUME NEW t, Canonical(t), ~IsLeaf(t)
    PROVE  <<"s", t.raw>> \in Tokens(t)
<1>1. <<"s", t.raw>> \in OwnTokens(t)
  BY Zenon DEF OwnTokens, Fingerprint
<1>2. PICK U : Parts(t, U)
  BY DEF Canonical
<1>3. t \in U
  BY <1>2 DEF Parts
<1>4. OwnTokens(t) \subseteq Tokens(t)
  BY <1>2, <1>3, TokensRead
<1> QED
  BY <1>1, <1>4

\* A leaf has one token, that of its class.
LEMMA LeafToken ==
    ASSUME NEW t, Canonical(t), IsLeaf(t)
    PROVE  Tokens(t) = {<<"l", Generalize(t.leaf)>>}
<1>1. PICK U : Parts(t, U)
  BY DEF Canonical
<1>2. Kids(t) = {}
  BY <1>1 DEF Parts
<1>3. Len(t.raw) \in Nat
  BY CanonicalReads
<1> DEFINE only == {t}
<1>4. t \in only /\ \A u \in only : Kids(u) \subseteq only
  BY <1>2
<1> HIDE DEF only
<1>5. Subterms(t) \subseteq only /\ t \in Subterms(t)
  BY <1>3, <1>4, SubtermsIn
<1>6. Subterms(t) = {t}
  BY <1>5 DEF only
<1>7. {OwnTokens(u) : u \in {t}} = {OwnTokens(t)} /\ UNION {OwnTokens(t)} = OwnTokens(t)
  OBVIOUS
<1> QED
  BY <1>6, <1>7, Zenon DEF Tokens, OwnTokens

\* Terms with each other's tokens are alike.  With heads, each text is among the texts
\* of the other term, hence no longer than its own, hence its own; a leaf has no
\* fingerprint, and one token.
LEMMA SameTokens ==
    ASSUME NEW t, Canonical(t), NEW u, Canonical(u)
    PROVE  Tokens(t) = Tokens(u) <=> Alike(t, u)
<1>1. ASSUME ~IsLeaf(t), ~IsLeaf(u), Tokens(t) = Tokens(u)
      PROVE  t = u
  <2>1. <<"s", t.raw>> \in Tokens(t) /\ <<"s", u.raw>> \in Tokens(u)
    BY <1>1, HasFingerprint
  <2>2. t.raw = u.raw \/ Len(t.raw) < Len(u.raw)
    BY <1>1, <2>1, FingerprintsOf
  <2>3. u.raw = t.raw \/ Len(u.raw) < Len(t.raw)
    BY <1>1, <2>1, FingerprintsOf
  <2>4. Len(t.raw) \in Nat /\ Len(u.raw) \in Nat
    BY CanonicalReads
  <2>5. ~(Len(t.raw) < Len(u.raw) /\ Len(u.raw) < Len(t.raw))
    BY <2>4
  <2>6. t.raw = u.raw
    BY <2>2, <2>3, <2>5, Zenon
  <2>7. Parse(t.raw) = {t} /\ Parse(u.raw) = {u}
    BY CanonicalReads, ParsesItself
  <2>8. {t} = {u}
    BY <2>6, <2>7
  <2> QED
    BY <2>8
<1>2. ASSUME NEW l, Canonical(l), IsLeaf(l), NEW n, Canonical(n), ~IsLeaf(n)
      PROVE  Tokens(l) # Tokens(n)
  <2>1. <<"s", n.raw>> \in Tokens(n)
    BY <1>2, HasFingerprint
  <2>2. Tokens(l) = {<<"l", Generalize(l.leaf)>>}
    BY <1>2, LeafToken
  <2>3. \A x, y : <<"s", x>> # <<"l", y>>
    OBVIOUS
  <2> QED
    BY <2>1, <2>2, <2>3
<1>3. ASSUME IsLeaf(t), IsLeaf(u)
      PROVE  Tokens(t) = Tokens(u) <=> Generalize(t.leaf) = Generalize(u.leaf)
  <2>1. PICK x, y : x = Generalize(t.leaf) /\ y = Generalize(u.leaf)
    OBVIOUS
  <2>2. Tokens(t) = {<<"l", x>>} /\ Tokens(u) = {<<"l", y>>}
    BY <1>3, <2>1, LeafToken
  <2>3. <<"l", x>> = <<"l", y>> <=> x = y
    OBVIOUS
  <2>4. \A v, w : {v} = {w} <=> v = w
    OBVIOUS
  <2>5. Tokens(t) = Tokens(u) <=> <<"l", x>> = <<"l", y>>
    BY <2>2, <2>4, Zenon
  <2> QED
    BY <2>1, <2>3, <2>5, Zenon
<1>4. CASE IsLeaf(t) /\ IsLeaf(u)
  BY <1>3, <1>4, Zenon DEF Alike
<1>5. CASE ~IsLeaf(t) /\ ~IsLeaf(u)
  BY <1>1, <1>5, Zenon DEF Alike
<1>6. CASE IsLeaf(t) /\ ~IsLeaf(u)
  BY <1>2, <1>6, Zenon DEF Alike
<1>7. CASE ~IsLeaf(t) /\ IsLeaf(u)
  BY <1>2, <1>7, Zenon DEF Alike
<1> QED
  BY <1>4, <1>5, <1>6, <1>7, Zenon

\* Fuzzy search rates two formulas as equal only if they are, or both are leaves of one
\* class: what go-canonical writes of different terms has different tokens.
THEOREM SameTokensSameTermHolds == FeatureSpec => []SameTokensSameTerm
<1>1. ItemIsFine => SameTokensSameTerm
  <2> SUFFICES ASSUME ItemIsFine, item.what = "terms",
                      NEW j, j = Jaccard(TokensFrom(item.one.raw), TokensFrom(item.other.raw))
               PROVE  j[1] = j[2] <=> Alike(item.one, item.other)
    BY Zenon DEF SameTokensSameTerm
  <2>1. Canonical(item.one) /\ Canonical(item.other)
    BY TermsAreCanonical DEF ItemIsFine
  <2>2. PICK t, u : t = item.one /\ u = item.other
    OBVIOUS
  <2>3. Canonical(t) /\ Canonical(u)
    BY <2>1, <2>2
  <2>4. TokensFrom(t.raw) = Tokens(t) /\ TokensFrom(u.raw) = Tokens(u)
    BY <2>3, TokensRead DEF Canonical, Parts
  <2>5. PICK a, b : a = Tokens(t) /\ b = Tokens(u)
    OBVIOUS
  <2>6. j = Jaccard(a, b)
    BY <2>2, <2>4, <2>5
  <2>7. IsFiniteSet(a) /\ IsFiniteSet(b)
    BY <2>3, <2>5, TokensFinite
  <2>8. ASSUME j[1] = j[2]
        PROVE  a = b
    <3>1. CASE a \cup b = {}
      BY <3>1
    <3>2. CASE a \cup b # {}
      <4>1. j = <<Cardinality(a \cap b), Cardinality(a \cup b)>>
        BY <2>6, <3>2 DEF Jaccard
      <4>2. Cardinality(a \cap b) = Cardinality(a \cup b)
        BY <2>8, <4>1
      <4>3. IsFiniteSet(a \cup b)
        BY <2>7, FS_Union
      <4>4. a \cap b \in SUBSET (a \cup b)
        OBVIOUS
      <4>5. a \cup b = a \cap b
        BY <4>2, <4>3, <4>4, FS_Subset
      <4> QED
        BY <4>5
    <3> QED
      BY <3>1, <3>2
  <2>9. ASSUME a = b
        PROVE  j[1] = j[2]
    <3>1. a \cap b = a \cup b
      BY <2>9
    <3>2. CASE a \cup b = {}
      BY <2>6, <3>2 DEF Jaccard
    <3>3. CASE a \cup b # {}
      BY <2>6, <3>1, <3>3 DEF Jaccard
    <3> QED
      BY <3>2, <3>3
  <2>10. a = b <=> Alike(t, u)
    BY <2>3, <2>5, SameTokens
  <2> QED
    BY <2>2, <2>8, <2>9, <2>10
<1> QED
  BY <1>1, ItemsAreFine, PTL

-----------------------------------------------------------------------------
\* Any number of arguments.

\* layers[d] are terms go-canonical writes that are no deeper than d: heads with any
\* number of arguments from the layer below.
AreLayers(layers) ==
    /\ \A t \in layers[0] :
         \E l \in Seq(Chars) \ {<<>>} : t = Leaf(l) /\ (IsName(l) \/ IsQuoted(l) \/ IsAtom(l))
    /\ \A d \in Nat : \A t \in layers[d + 1] :
         t \in layers[d] \/ \E h \in Words, kids \in Seq(layers[d]) : t = Written(h, kids)

LEMMA LayersAreCanonical ==
    ASSUME NEW layers, AreLayers(layers), NEW d \in Nat
    PROVE  \A t \in layers[d] : Canonical(t)
<1> DEFINE Fits == {e \in Nat : \A t \in layers[e] : Canonical(t)}
<1>1. 0 \in Fits
  <2> SUFFICES ASSUME NEW t \in layers[0] PROVE Canonical(t)
    OBVIOUS
  <2>1. PICK l \in Seq(Chars) \ {<<>>} : t = Leaf(l) /\ (IsName(l) \/ IsQuoted(l) \/ IsAtom(l))
    BY DEF AreLayers
  <2>2. Len(l) > 0
    BY EmptySeq
  <2>3. Parts(t, {t})
    BY <2>1, <2>2, LeafParts
  <2> QED
    BY <2>3 DEF Canonical
<1>2. ASSUME NEW e \in 0..d, e \in Fits, e < d
      PROVE  e + 1 \in Fits
  <2>1. ASSUME NEW t \in layers[e + 1]
        PROVE  Canonical(t)
    <3>1. \A k \in layers[e] : Canonical(k)
      BY <1>2
    <3>2. CASE t \in layers[e]
      BY <3>1, <3>2
    <3>3. CASE \E h \in Words, kids \in Seq(layers[e]) : t = Written(h, kids)
      BY <3>1, <3>3, HeadsKeepCanonical
    <3>4. e \in Nat
      OBVIOUS
    <3> QED
      BY <3>2, <3>3, <3>4 DEF AreLayers
  <2> QED
    BY <2>1
<1> HIDE DEF Fits
<1>3. 0..d \subseteq Fits
  BY <1>1, <1>2, UpTheNumbers
<1>4. d \in Fits
  BY <1>3
<1> QED
  BY <1>4 DEF Fits

\* The same for terms of every depth and every number of arguments: Parse reads back
\* what go-canonical writes, each argument finds the formula, and two formulas have the
\* same tokens only if they are the same, or both leaves of one class.
THEOREM AllWrittenTerms ==
    ASSUME NEW layers, AreLayers(layers), NEW d \in Nat, NEW t \in layers[d]
    PROVE  /\ Parse(t.raw) = {t}
           /\ \A k \in Kids(t) : Matches(TokensFrom(k.raw), TokensFrom(t.raw))
           /\ \A u \in layers[d] : TokensFrom(t.raw) = TokensFrom(u.raw) <=> Alike(t, u)
<1>1. \A u \in layers[d] : Canonical(u)
  BY LayersAreCanonical
<1>2. Parse(t.raw) = {t}
  BY <1>1, CanonicalReads, ParsesItself
<1>3. \A k \in Kids(t) : Matches(TokensFrom(k.raw), TokensFrom(t.raw))
  BY <1>1, FoundByArguments
<1>4. ASSUME NEW u \in layers[d]
      PROVE  TokensFrom(t.raw) = TokensFrom(u.raw) <=> Alike(t, u)
  <2>1. \A n : Canonical(n) => TokensFrom(n.raw) = Tokens(n)
    BY TokensRead DEF Canonical, Parts
  <2> QED
    BY <1>1, <2>1, SameTokens
<1> QED
  BY <1>2, <1>3, <1>4

-----------------------------------------------------------------------------
\* Numbers.

LEMMA DigitsKnown ==
    \A j \in 0..9 : DigitSeq[j + 1] \in DigitSet /\ DigitValue(DigitSeq[j + 1]) = j
<1>1. DOMAIN DigitSeq = 1..10
  BY DEF DigitSeq
<1>2. \A i, j \in 1..10 : DigitSeq[i] = DigitSeq[j] => i = j
  <2>1. 1..10 = {1, 2, 3, 4, 5, 6, 7, 8, 9, 10}
    OBVIOUS
  <2>2. /\ DigitSeq[1] = "0" /\ DigitSeq[2] = "1" /\ DigitSeq[3] = "2" /\ DigitSeq[4] = "3"
        /\ DigitSeq[5] = "4" /\ DigitSeq[6] = "5" /\ DigitSeq[7] = "6" /\ DigitSeq[8] = "7"
        /\ DigitSeq[9] = "8" /\ DigitSeq[10] = "9"
    BY DEF DigitSeq
  <2> QED
    BY <2>1, <2>2
<1>3. ASSUME NEW j \in 0..9
      PROVE  DigitSeq[j + 1] \in DigitSet /\ DigitValue(DigitSeq[j + 1]) = j
  <2>1. j + 1 \in 1..10 /\ (j + 1) - 1 = j
    OBVIOUS
  <2>2. DigitSeq[j + 1] \in DigitSet
    BY <1>1, <2>1 DEF DigitSet
  <2> DEFINE c == CHOOSE i \in DOMAIN DigitSeq : DigitSeq[i] = DigitSeq[j + 1]
  <2>3. c \in 1..10 /\ DigitSeq[c] = DigitSeq[j + 1]
    BY <1>1, <2>1, Zenon
  <2>4. DigitValue(DigitSeq[j + 1]) = c - 1
    BY Zenon DEF DigitValue
  <2> HIDE DEF c
  <2>5. c = j + 1
    BY <1>2, <2>1, <2>3
  <2> QED
    BY <2>1, <2>2, <2>4, <2>5
<1> QED
  BY <1>3

ValueUpTo(digits, value, k) ==
    IF k = 0 THEN 0 ELSE 10 * value[k - 1] + DigitValue(digits[k])

IsValue(digits, value) ==
    value = [k \in 0..Len(digits) |-> ValueUpTo(digits, value, k)]

\* That of DecimalValue defines the value of digits.
LEMMA ValueIs ==
    ASSUME NEW digits, Len(digits) \in Nat
    PROVE  \E value : IsValue(digits, value) /\ DecimalValue(digits) = value[Len(digits)]
<1> DEFINE l == Len(digits)
           Upto(m, f) == /\ f = [d \in 0..l |-> f[d]]
                         /\ \A d \in 0..m : f[d] = ValueUpTo(digits, f, d)
           Defined == {m \in 0..l : \E f : Upto(m, f)}
<1>1. 0 \in Defined
  <2> DEFINE f == [d \in 0..l |-> 0]
  <2>1. f = [d \in 0..l |-> f[d]] /\ f[0] = 0
    OBVIOUS
  <2>2. ValueUpTo(digits, f, 0) = 0
    BY DEF ValueUpTo
  <2> HIDE DEF f
  <2>3. \A d \in 0..0 : d = 0
    OBVIOUS
  <2>4. Upto(0, f)
    BY <2>1, <2>2, <2>3
  <2> QED
    BY <2>4
<1>2. ASSUME NEW m \in 0..l, m \in Defined, m < l
      PROVE  m + 1 \in Defined
  <2>1. PICK f : Upto(m, f)
    BY <1>2
  <2> DEFINE g == [f EXCEPT ![m + 1] = ValueUpTo(digits, f, m + 1)]
  <2>2. DOMAIN f = 0..l
    BY <2>1
  <2>3. g = [d \in 0..l |-> IF d = m + 1 THEN ValueUpTo(digits, f, m + 1) ELSE f[d]]
    BY <2>2
  <2> HIDE DEF g
  <2>4. ASSUME NEW d \in 0..(m + 1)
        PROVE  g[d] = ValueUpTo(digits, g, d)
    <3>1. d \in 0..l
      BY <1>2
    <3>2. ValueUpTo(digits, g, d) = ValueUpTo(digits, f, d)
      <4>1. d # 0 => g[d - 1] = f[d - 1]
        <5>1. d # 0 => d - 1 \in 0..l /\ d - 1 # m + 1
          BY <1>2
        <5> QED
          BY <2>3, <5>1
      <4> QED
        BY <4>1, Zenon DEF ValueUpTo
    <3>3. CASE d = m + 1
      BY <2>3, <3>1, <3>2, <3>3
    <3>4. CASE d # m + 1
      <4>1. d \in 0..m
        BY <3>4
      <4>2. f[d] = ValueUpTo(digits, f, d)
        BY <2>1, <4>1
      <4>3. g[d] = f[d]
        BY <2>3, <3>1, <3>4
      <4> QED
        BY <3>2, <4>2, <4>3
    <3> QED
      BY <3>3, <3>4
  <2>5. g = [d \in 0..l |-> g[d]]
    BY <2>3
  <2>6. Upto(m + 1, g)
    BY <2>4, <2>5
  <2>7. m + 1 \in 0..l
    BY <1>2
  <2> HIDE DEF Upto
  <2> QED
    BY <2>6, <2>7
<1> HIDE DEF Defined
<1>3. l \in Defined
  <2>1. l \in Nat /\ l \in 0..l
    OBVIOUS
  <2>2. 0..l \subseteq Defined
    BY <1>1, <1>2, <2>1, UpTheNumbers
  <2> QED
    BY <2>1, <2>2
<1>4. PICK f : Upto(l, f)
  BY <1>3 DEF Defined
<1>5. f = [d \in 0..l |-> ValueUpTo(digits, f, d)]
  BY <1>4
<1> DEFINE value == CHOOSE g : g = [d \in 0..Len(digits) |-> ValueUpTo(digits, g, d)]
<1>6. value = [d \in 0..Len(digits) |-> ValueUpTo(digits, value, d)]
  BY <1>5, Zenon
<1>7. DecimalValue(digits) = value[Len(digits)]
  BY Zenon DEF DecimalValue, ValueUpTo
<1> HIDE DEF value
<1> QED
  BY <1>6, <1>7, Zenon DEF IsValue

LEMMA ValueOfNoDigits == DecimalValue(<<>>) = 0
<1>1. PICK none : none = <<>>
  OBVIOUS
<1>2. Len(none) = 0
  BY <1>1
<1>3. PICK value : IsValue(none, value) /\ DecimalValue(none) = value[0]
  BY <1>2, ValueIs
<1>4. value = [k \in 0..0 |-> ValueUpTo(none, value, k)]
  BY <1>2, <1>3 DEF IsValue
<1>5. value[0] = ValueUpTo(none, value, 0)
  BY <1>4
<1> QED
  BY <1>1, <1>3, <1>5 DEF ValueUpTo

\* One more digit.
LEMMA ValueAppended ==
    ASSUME NEW D, NEW a \in Seq(D), NEW d \in D
    PROVE  DecimalValue(a \o <<d>>) = 10 * DecimalValue(a) + DigitValue(d)
<1>1. PICK one : one = <<d>>
  OBVIOUS
<1>2. one \in Seq(D) /\ Len(one) = 1 /\ one[1] = d
  BY <1>1
<1>3. PICK b : b = a \o one
  OBVIOUS
<1>4. one \in Seq(D)
  BY <1>2
<1>5. /\ Len(b) = Len(a) + Len(one)
      /\ \A i \in 1..(Len(a) + Len(one)) : b[i] = IF i <= Len(a) THEN a[i] ELSE one[i - Len(a)]
  BY <1>3, <1>4, ConcatProperties
<1> DEFINE n == Len(a)
<1>6. n \in Nat
  BY LenProperties
<1>7. Len(b) = n + 1 /\ b[n + 1] = d /\ \A i \in 1..n : b[i] = a[i]
  <2>1. Len(b) = n + 1
    BY <1>2, <1>5
  <2>2. b[n + 1] = d
    <3>1. n + 1 \in 1..(Len(a) + Len(one)) /\ ~(n + 1 <= Len(a)) /\ (n + 1) - Len(a) = 1
      BY <1>2, <1>6
    <3>2. b[n + 1] = one[(n + 1) - Len(a)]
      BY <1>5, <3>1
    <3> QED
      BY <1>2, <3>1, <3>2
  <2>3. ASSUME NEW i \in 1..n
        PROVE  b[i] = a[i]
    <3>1. i \in 1..(Len(a) + Len(one)) /\ i <= Len(a)
      BY <1>2, <1>6
    <3> QED
      BY <1>5, <3>1
  <2> QED
    BY <2>1, <2>2, <2>3
<1>8. PICK v : IsValue(a, v) /\ DecimalValue(a) = v[n]
  BY <1>6, ValueIs
<1>9. PICK w : IsValue(b, w) /\ DecimalValue(b) = w[n + 1]
  <2>1. Len(b) \in Nat
    BY <1>6, <1>7
  <2> QED
    BY <1>7, <2>1, ValueIs
<1>10. v = [k \in 0..n |-> ValueUpTo(a, v, k)]
  BY <1>8 DEF IsValue
<1>11. w = [k \in 0..(n + 1) |-> ValueUpTo(b, w, k)]
  BY <1>7, <1>9 DEF IsValue
<1> DEFINE Same == {k \in 0..n : w[k] = v[k]}
<1>12. 0 \in Same
  <2>1. 0 \in 0..n /\ 0 \in 0..(n + 1)
    BY <1>6
  <2>2. v[0] = ValueUpTo(a, v, 0) /\ w[0] = ValueUpTo(b, w, 0)
    BY <1>10, <1>11, <2>1
  <2> QED
    BY <2>1, <2>2 DEF ValueUpTo
<1>13. ASSUME NEW k \in 0..n, k \in Same, k < n
       PROVE  k + 1 \in Same
  <2>1. /\ k + 1 \in 0..n /\ k + 1 \in 0..(n + 1) /\ k + 1 \in 1..n /\ k + 1 # 0
        /\ (k + 1) - 1 = k
    BY <1>6, <1>13
  <2>2. v[k + 1] = ValueUpTo(a, v, k + 1) /\ w[k + 1] = ValueUpTo(b, w, k + 1)
    BY <1>10, <1>11, <2>1
  <2>3. w[k] = v[k] /\ b[k + 1] = a[k + 1]
    BY <1>7, <1>13, <2>1
  <2>4. ValueUpTo(a, v, k + 1) = ValueUpTo(b, w, k + 1)
    BY <2>1, <2>3, Zenon DEF ValueUpTo
  <2> QED
    BY <2>1, <2>2, <2>4
<1> HIDE DEF Same
<1>14. n \in Same
  <2>1. n \in 0..n
    BY <1>6
  <2>2. 0..n \subseteq Same
    BY <1>6, <1>12, <1>13, UpTheNumbers
  <2> QED
    BY <2>1, <2>2
<1>15. w[n] = v[n]
  BY <1>14 DEF Same
<1>16. w[n + 1] = 10 * w[n] + DigitValue(d)
  <2>1. n + 1 \in 0..(n + 1) /\ n + 1 # 0 /\ (n + 1) - 1 = n
    BY <1>6
  <2>2. w[n + 1] = ValueUpTo(b, w, n + 1)
    BY <1>11, <2>1
  <2>3. ValueUpTo(b, w, n + 1) = 10 * w[(n + 1) - 1] + DigitValue(b[n + 1])
    BY <2>1, Zenon DEF ValueUpTo
  <2> QED
    BY <1>7, <2>1, <2>2, <2>3
<1> QED
  BY <1>1, <1>3, <1>8, <1>9, <1>15, <1>16

DecimalUpTo(decimal, k) ==
    IF k < 10 THEN <<DigitSeq[k + 1]>>
    ELSE decimal[k \div 10] \o <<DigitSeq[(k % 10) + 1]>>

IsDecimal(n, decimal) == decimal = [k \in 0..n |-> DecimalUpTo(decimal, k)]

\* The recursive definition of Decimal defines the digits of a number.
LEMMA DecimalIs ==
    ASSUME NEW n \in Nat
    PROVE  \E decimal : IsDecimal(n, decimal) /\ Decimal(n) = decimal[n]
<1> DEFINE Upto(m, f) == /\ f = [d \in 0..n |-> f[d]]
                         /\ \A d \in 0..m : f[d] = DecimalUpTo(f, d)
           Defined == {m \in 0..n : \E f : Upto(m, f)}
<1>1. 0 \in Defined
  <2> DEFINE f == [d \in 0..n |-> DecimalUpTo(<<>>, 0)]
  <2>1. f = [d \in 0..n |-> f[d]] /\ f[0] = DecimalUpTo(<<>>, 0)
    OBVIOUS
  <2> HIDE DEF f
  <2>2. DecimalUpTo(f, 0) = DecimalUpTo(<<>>, 0)
    BY DEF DecimalUpTo
  <2>3. \A d \in 0..0 : d = 0
    OBVIOUS
  <2>4. Upto(0, f)
    BY <2>1, <2>2, <2>3
  <2> QED
    BY <2>4
<1>2. ASSUME NEW m \in 0..n, m \in Defined, m < n
      PROVE  m + 1 \in Defined
  <2>1. PICK f : Upto(m, f)
    BY <1>2
  <2> DEFINE g == [f EXCEPT ![m + 1] = DecimalUpTo(f, m + 1)]
  <2>2. DOMAIN f = 0..n
    BY <2>1
  <2>3. g = [d \in 0..n |-> IF d = m + 1 THEN DecimalUpTo(f, m + 1) ELSE f[d]]
    BY <2>2
  <2> HIDE DEF g
  <2>4. ASSUME NEW d \in 0..(m + 1)
        PROVE  g[d] = DecimalUpTo(g, d)
    <3>1. d \in 0..n
      BY <1>2
    <3>2. DecimalUpTo(g, d) = DecimalUpTo(f, d)
      <4>1. ~(d < 10) => g[d \div 10] = f[d \div 10]
        <5>1. ~(d < 10) => d \div 10 \in 0..n /\ d \div 10 # m + 1
          BY <1>2
        <5> QED
          BY <2>3, <5>1
      <4> QED
        BY <4>1, Zenon DEF DecimalUpTo
    <3>3. CASE d = m + 1
      BY <2>3, <3>1, <3>2, <3>3
    <3>4. CASE d # m + 1
      <4>1. d \in 0..m
        BY <3>4
      <4>2. f[d] = DecimalUpTo(f, d)
        BY <2>1, <4>1
      <4>3. g[d] = f[d]
        BY <2>3, <3>1, <3>4
      <4> QED
        BY <3>2, <4>2, <4>3
    <3> QED
      BY <3>3, <3>4
  <2>5. g = [d \in 0..n |-> g[d]]
    BY <2>3
  <2>6. Upto(m + 1, g)
    BY <2>4, <2>5
  <2>7. m + 1 \in 0..n
    BY <1>2
  <2> HIDE DEF Upto
  <2> QED
    BY <2>6, <2>7
<1> HIDE DEF Defined
<1>3. n \in Defined
  <2>1. n \in 0..n
    OBVIOUS
  <2>2. 0..n \subseteq Defined
    BY <1>1, <1>2, UpTheNumbers
  <2> QED
    BY <2>1, <2>2
<1>4. PICK f : Upto(n, f)
  BY <1>3 DEF Defined
<1>5. f = [d \in 0..n |-> DecimalUpTo(f, d)]
  BY <1>4
<1> DEFINE decimal == CHOOSE g : g = [d \in 0..n |-> DecimalUpTo(g, d)]
<1>6. decimal = [d \in 0..n |-> DecimalUpTo(decimal, d)]
  BY <1>5, Zenon
<1>7. Decimal(n) = decimal[n]
  BY Zenon DEF Decimal, DecimalUpTo
<1> HIDE DEF decimal
<1> QED
  BY <1>6, <1>7, Zenon DEF IsDecimal

\* Digits, at least one, and what they are the digits of.
WrittenAs(digits, n) ==
    digits \in Seq(DigitSet) /\ Len(digits) > 0 /\ DecimalValue(digits) = n

\* A number is read back from its digits.
LEMMA DecimalReadBack ==
    ASSUME NEW n \in Nat
    PROVE  WrittenAs(Decimal(n), n)
<1>1. PICK decimal : IsDecimal(n, decimal) /\ Decimal(n) = decimal[n]
  BY DecimalIs
<1>2. \A k \in 0..n : decimal[k] = DecimalUpTo(decimal, k)
  <2>1. decimal = [k \in 0..n |-> DecimalUpTo(decimal, k)]
    BY <1>1 DEF IsDecimal
  <2> QED
    BY <2>1
<1> DEFINE Fit == {m \in 0..n : \A k \in 0..m : WrittenAs(decimal[k], k)}
<1>3. ASSUME NEW j \in 0..9
      PROVE  WrittenAs(<<DigitSeq[j + 1]>>, j)
  <2>1. PICK d : d = DigitSeq[j + 1]
    OBVIOUS
  <2>2. d \in DigitSet /\ DigitValue(d) = j
    BY <2>1, DigitsKnown
  <2>3. PICK none : none = <<>>
    OBVIOUS
  <2>4. none \in Seq(DigitSet) /\ DecimalValue(none) = 0
    BY <2>3, ValueOfNoDigits
  <2>5. DecimalValue(none \o <<d>>) = 10 * DecimalValue(none) + DigitValue(d)
    BY <2>2, <2>4, ValueAppended
  <2>6. none \o <<d>> = <<d>>
    BY <2>3
  <2>7. DecimalValue(<<d>>) = j
    <3>1. DecimalValue(none \o <<d>>) = 10 * 0 + j
      BY <2>2, <2>4, <2>5, Zenon
    <3>2. 10 * 0 + j = j
      OBVIOUS
    <3> QED
      BY <2>6, <3>1, <3>2, Zenon
  <2>8. <<d>> \in Seq(DigitSet) /\ Len(<<d>>) > 0
    BY <2>2
  <2> QED
    BY <2>1, <2>7, <2>8 DEF WrittenAs
<1>4. ASSUME NEW k \in 0..n, \A i \in 0..(k - 1) : WrittenAs(decimal[i], i)
      PROVE  WrittenAs(decimal[k], k)
  <2>1. CASE k < 10
    <3>0. k \in 0..9
      BY <2>1
    <3>1. decimal[k] = <<DigitSeq[k + 1]>>
      BY <1>2, <2>1, Zenon DEF DecimalUpTo
    <3> QED
      BY <1>3, <3>0, <3>1
  <2>2. CASE ~(k < 10)
    <3>1. PICK q, r : q = k \div 10 /\ r = k % 10
      OBVIOUS
    <3>2. q \in 0..(k - 1) /\ r \in 0..9 /\ 10 * q + r = k
      BY <2>2, <3>1
    <3>3. decimal[k] = decimal[q] \o <<DigitSeq[r + 1]>>
      BY <1>2, <2>2, <3>1 DEF DecimalUpTo
    <3>4. PICK a, d : a = decimal[q] /\ d = DigitSeq[r + 1]
      OBVIOUS
    <3>5. a \in Seq(DigitSet) /\ Len(a) > 0 /\ DecimalValue(a) = q
      BY <1>4, <3>2, <3>4 DEF WrittenAs
    <3>6. d \in DigitSet /\ DigitValue(d) = r
      BY <3>2, <3>4, DigitsKnown
    <3>7. DecimalValue(a \o <<d>>) = 10 * DecimalValue(a) + DigitValue(d)
      BY <3>5, <3>6, ValueAppended
    <3>8. DecimalValue(a \o <<d>>) = k
      BY <3>2, <3>5, <3>6, <3>7
    <3>9. a \o <<d>> \in Seq(DigitSet) /\ Len(a \o <<d>>) > 0
      <4>1. PICK one : one = <<d>>
        OBVIOUS
      <4>2. one \in Seq(DigitSet)
        BY <3>6, <4>1
      <4>3. Len(one) = 1
        BY <4>1
      <4>4. a \in Seq(DigitSet)
        BY <3>5
      <4>5. a \o one \in Seq(DigitSet) /\ Len(a \o one) = Len(a) + Len(one)
        BY <4>2, <4>4, ConcatProperties
      <4>6. Len(a) \in Nat
        BY <4>4, LenProperties
      <4>7. Len(a) + Len(one) > 0
        BY <4>3, <4>6
      <4> QED
        BY <4>1, <4>5, <4>7
    <3> QED
      BY <3>3, <3>4, <3>8, <3>9 DEF WrittenAs
  <2> QED
    BY <2>1, <2>2
<1>5. 0 \in Fit
  <2>1. 0 \in 0..n /\ \A i \in 0..(0 - 1) : WrittenAs(decimal[i], i)
    OBVIOUS
  <2>2. WrittenAs(decimal[0], 0)
    BY <1>4, <2>1
  <2>3. \A k \in 0..0 : k = 0
    OBVIOUS
  <2> QED
    BY <2>1, <2>2, <2>3
<1>6. ASSUME NEW m \in 0..n, m \in Fit, m < n
      PROVE  m + 1 \in Fit
  <2>1. m + 1 \in 0..n /\ (m + 1) - 1 = m
    BY <1>6
  <2>2. \A k \in 0..m : WrittenAs(decimal[k], k)
    BY <1>6
  <2>3. WrittenAs(decimal[m + 1], m + 1)
    BY <1>4, <2>1, <2>2
  <2>4. \A k \in 0..(m + 1) : k \in 0..m \/ k = m + 1
    BY <2>1
  <2>5. \A k \in 0..(m + 1) : WrittenAs(decimal[k], k)
    BY <2>2, <2>3, <2>4
  <2> QED
    BY <2>1, <2>5
<1> HIDE DEF Fit
<1>7. n \in Fit
  <2>1. n \in 0..n
    OBVIOUS
  <2>2. 0..n \subseteq Fit
    BY <1>5, <1>6, UpTheNumbers
  <2> QED
    BY <2>1, <2>2
<1>8. WrittenAs(decimal[n], n)
  BY <1>7 DEF Fit
<1> QED
  BY <1>1, <1>8

Signs == DigitSet \cup {"-"}

LEMMA Consed ==
    ASSUME NEW S, NEW c \in S, NEW d \in Seq(S), NEW s, s = <<c>> \o d
    PROVE  /\ s \in Seq(S) /\ Len(s) = Len(d) + 1 /\ s[1] = c
           /\ \A i \in 1..Len(d) : s[i + 1] = d[i]
           /\ Tail(s) = d /\ s # <<>>
<1>1. PICK one : one = <<c>>
  OBVIOUS
<1>2. one \in Seq(S)
  BY <1>1
<1>3. Len(one) = 1 /\ one[1] = c
  BY <1>1
<1>4. /\ s \in Seq(S) /\ Len(s) = Len(one) + Len(d)
      /\ \A i \in 1..(Len(one) + Len(d)) : s[i] = IF i <= Len(one) THEN one[i] ELSE d[i - Len(one)]
  BY <1>1, <1>2, ConcatProperties
<1>5. Len(d) \in Nat
  BY LenProperties
<1>6. Len(s) = Len(d) + 1
  BY <1>3, <1>4, <1>5
<1>7. s[1] = c
  <2>1. 1 \in 1..(Len(one) + Len(d)) /\ 1 <= Len(one)
    BY <1>3, <1>5
  <2> QED
    BY <1>3, <1>4, <2>1
<1>8. ASSUME NEW i \in 1..Len(d)
      PROVE  s[i + 1] = d[i]
  <2>1. i + 1 \in 1..(Len(one) + Len(d)) /\ ~(i + 1 <= Len(one)) /\ i + 1 - Len(one) = i
    BY <1>3, <1>5
  <2>2. s[i + 1] = d[i + 1 - Len(one)]
    BY <1>4, <2>1
  <2> QED
    BY <2>1, <2>2
<1>9. s # <<>>
  <2>1. Len(s) # 0
    BY <1>5, <1>6
  <2> QED
    BY <2>1, EmptySeq
<1>10. s \in Seq(S)
  BY <1>4
<1>11. Tail(s) = d
  <2>1. PICK t : t = Tail(s)
    OBVIOUS
  <2>2. t \in Seq(S) /\ Len(t) = Len(s) - 1 /\ \A i \in 1..Len(t) : t[i] = s[i + 1]
    BY <1>9, <1>10, <2>1, HeadTailProperties
  <2>3. Len(t) = Len(d)
    BY <1>5, <1>6, <2>2
  <2>4. \A i \in 1..Len(t) : t[i] = d[i]
    BY <1>8, <2>2, <2>3
  <2>5. t = d
    BY <2>2, <2>3, <2>4, SeqEqual
  <2> QED
    BY <2>1, <2>5
<1> QED
  BY <1>6, <1>7, <1>8, <1>9, <1>10, <1>11

LEMMA SignsApart == "-" \notin DigitSet /\ "+" \notin DigitSet
BY DigitSetIs

\* strconv.ParseInt gives every number back, unless it overflows.
LEMMA NumberRead ==
    ASSUME NEW n \in Int
    PROVE  /\ Number(n) \in Seq(Signs) /\ Len(Number(n)) > 0
           /\ ParseInt(Number(n)) = {n} \cap Range64
<1>1. CASE n < 0
  <2>1. PICK m : m = -n
    OBVIOUS
  <2>2. m \in Nat /\ n = -m
    BY <1>1, <2>1
  <2>3. PICK d : d = Decimal(m)
    OBVIOUS
  <2>4. d \in Seq(DigitSet) /\ Len(d) > 0 /\ DecimalValue(d) = m
    BY <2>2, <2>3, DecimalReadBack DEF WrittenAs
  <2>5. PICK s : s = <<"-">> \o d
    OBVIOUS
  <2>6. Number(n) = s
    BY <1>1, <2>1, <2>3, <2>5, Zenon DEF Number
  <2>7. "-" \in Signs /\ d \in Seq(Signs)
    BY <2>4, SeqMonotonic DEF Signs
  <2>8. s \in Seq(Signs) /\ Len(s) = Len(d) + 1 /\ s[1] = "-" /\ Tail(s) = d /\ s # <<>>
    BY <2>5, <2>7, Consed
  <2>9. Len(d) \in Nat /\ \A i \in DOMAIN d : d[i] \in DigitSet
    BY <2>4, LenProperties, ElementOfSeq
  <2>10. Peek(s, 1) = "-"
    <3>1. Len(s) \in Nat /\ DOMAIN s = 1..Len(s)
      BY <2>8, LenProperties
    <3>2. 1 \in DOMAIN s
      BY <2>8, <2>9, <3>1
    <3> QED
      BY <2>8, <3>2 DEF Peek
  <2>11. d # <<>>
    BY <2>4
  <2>12. ParseInt(s) = {-m} \cap Range64
    <3>1. Peek(s, 1) \in {"+", "-"}
      BY <2>10
    <3>2. ~(d = <<>> \/ \E i \in DOMAIN d : d[i] \notin DigitSet)
      BY <2>9, <2>11
    <3>3. ParseInt(s) = {-DecimalValue(d)} \cap Range64
      BY <2>8, <2>10, <3>1, <3>2, Zenon DEF ParseInt
    <3> QED
      BY <2>4, <3>3
  <2>13. Len(s) > 0
    BY <2>8, <2>9
  <2> QED
    BY <2>2, <2>6, <2>8, <2>12, <2>13
<1>2. CASE ~(n < 0)
  <2>1. n \in Nat
    BY <1>2
  <2>2. PICK d : d = Decimal(n)
    OBVIOUS
  <2>3. d \in Seq(DigitSet) /\ Len(d) > 0 /\ DecimalValue(d) = n
    BY <2>1, <2>2, DecimalReadBack DEF WrittenAs
  <2>4. Number(n) = d
    <3>1. Number(n) = <<>> \o d
      BY <1>2, <2>2, Zenon DEF Number
    <3>2. d \in Seq(DigitSet)
      BY <2>3
    <3>3. <<>> \o d = d
      BY <3>2, ConcatEmptySeq
    <3> QED
      BY <3>1, <3>3
  <2>5. Len(d) \in Nat /\ DOMAIN d = 1..Len(d) /\ \A i \in DOMAIN d : d[i] \in DigitSet
    BY <2>3, LenProperties, ElementOfSeq
  <2>6. Peek(d, 1) \in DigitSet
    <3>1. 1 \in DOMAIN d
      BY <2>3, <2>5
    <3> QED
      BY <2>5, <3>1 DEF Peek
  <2>7. Peek(d, 1) \notin {"+", "-"}
    BY <2>6, SignsApart
  <2>8. d # <<>>
    BY <2>3
  <2>9. ParseInt(d) = {n} \cap Range64
    <3>1. ~(d = <<>> \/ \E i \in DOMAIN d : d[i] \notin DigitSet)
      BY <2>5, <2>8
    <3>2. Peek(d, 1) # "-"
      BY <2>7
    <3>3. ParseInt(d) = {DecimalValue(d)} \cap Range64
      BY <2>7, <3>1, <3>2, Zenon DEF ParseInt
    <3> QED
      BY <2>3, <3>3
  <2>10. d \in Seq(Signs)
    BY <2>3, SeqMonotonic DEF Signs
  <2> QED
    BY <2>3, <2>4, <2>9, <2>10
<1> QED
  BY <1>1, <1>2

\* What rationals are written with.
Marks == Signs \cup {"#", "/"}

LEMMA MarksApart ==
    /\ Marks \subseteq Chars /\ "/" \notin Signs
    /\ \A c \in Marks : c \notin Delimiters \cup {"\""}
<1>1. Marks \subseteq Chars
  BY DEF Marks, Signs, Chars
<1>2. "/" \notin DigitSet
  BY WordsApart
<1>3. \A d \in DigitSet : d \notin {",", "[", "]", Blank, "\""}
  BY WordsApart
<1>4. \A c \in {"-", "#", "/"} : c \notin {",", "[", "]", Blank, "\""}
  BY BlankApart
<1>5. "/" \notin Signs
  BY <1>2 DEF Signs
<1>6. \A c \in Marks : c \notin {",", "[", "]", Blank, "\""}
  BY <1>3, <1>4 DEF Marks, Signs
<1> QED
  BY <1>1, <1>5, <1>6, DelimitersKnown DEF DelimitersAre

\* Both numbers are within an int64.
Fits(num, den) == {num, den} \subseteq Range64

LEMMA MarksAreAtoms ==
    ASSUME NEW l \in Seq(Marks), Len(l) > 0, l[1] = "#"
    PROVE  l \in Seq(Chars) /\ IsAtom(l) /\ Peek(l, 1) = "#"
<1>1. Len(l) \in Nat /\ DOMAIN l = 1..Len(l) /\ \A i \in DOMAIN l : l[i] \in Marks
  BY LenProperties, ElementOfSeq
<1>2. l \in Seq(Chars)
  BY MarksApart, SeqMonotonic
<1>3. \A i \in DOMAIN l : l[i] \notin Delimiters \cup {"\""}
  BY <1>1, MarksApart
<1>4. l[1] \notin Words
  BY WordsApart
<1>5. 1 \in DOMAIN l
  BY <1>1
<1> QED
  BY <1>2, <1>3, <1>4, <1>5 DEF IsAtom, Peek

\* A fraction written by go-canonical is read back, unless it overflows.
LEMMA RationalRead ==
    ASSUME NEW num \in Int, NEW den \in Nat \ {0}, NEW l, l = Rational(num, den)
    PROVE  /\ l \in Seq(Chars) /\ Len(l) > 0 /\ IsAtom(l)
           /\ ParseRat(l) = IF Fits(num, den) THEN {<<num, den>>} ELSE {}
<1>1. PICK N : N = Number(num)
  OBVIOUS
<1>2. PICK b : b = <<"#">> \o N
  OBVIOUS
<1>3. PICK t : t = IF den = 1 THEN <<>> ELSE <<"/">> \o Number(den)
  OBVIOUS
<1>4. l = b \o t
  BY <1>1, <1>2, <1>3, Zenon DEF Rational
<1>5. N \in Seq(Signs) /\ Len(N) > 0 /\ ParseInt(N) = {num} \cap Range64
  BY <1>1, NumberRead
<1>6. N \in Seq(Marks) /\ Len(N) \in Nat /\ \A i \in 1..Len(N) : N[i] \in Signs
  BY <1>5, LenProperties, ElementOfSeq, SeqMonotonic DEF Marks
<1>7. /\ b \in Seq(Marks) /\ Len(b) = Len(N) + 1 /\ b[1] = "#"
      /\ \A i \in 1..Len(N) : b[i + 1] = N[i]
      /\ Tail(b) = N /\ b # <<>>
  <2>1. "#" \in Marks /\ N \in Seq(Marks)
    BY <1>6 DEF Marks
  <2> QED
    BY <1>2, <2>1, Consed
<1>8. SubSeq(b, 2, Len(b)) = N
  <2>1. b \in Seq(Marks) /\ b # <<>>
    BY <1>7
  <2> QED
    BY <1>7, <2>1, TailIsSubSeq
<1>9. Len(b) \in Nat /\ Len(b) >= 2
  BY <1>5, <1>6, <1>7
<1>10. \A k \in 2..Len(b) : b[k] # "/"
  <2> SUFFICES ASSUME NEW k \in 2..Len(b) PROVE b[k] # "/"
    OBVIOUS
  <2>1. k - 1 \in 1..Len(N) /\ (k - 1) + 1 = k
    BY <1>6, <1>7
  <2>2. b[(k - 1) + 1] = N[k - 1]
    BY <1>7, <2>1
  <2>3. b[k] \in Signs
    BY <1>6, <2>1, <2>2
  <2> QED
    BY <2>3, MarksApart
<1>11. 1 \in Range64 /\ \A x \in Range64 : x \in Int
  BY FeatureAssumption DEF Range64
<1>12. ASSUME NEW bar, NEW right, bar = Find(l, 2, {"/"}), SubSeq(l, 2, bar - 1) = N,
              Peek(l, 1) = "#", right = {den} \cap Range64,
              right = IF bar > Len(l) THEN {1} ELSE ParseInt(SubSeq(l, bar + 1, Len(l))) \ {0}
       PROVE  ParseRat(l) = IF Fits(num, den) THEN {<<num, den>>} ELSE {}
  <2>1. ParseRat(l) = ParseInt(N) \X right
    <3>1. ParseRat(l) = ParseInt(SubSeq(l, 2, bar - 1))
                          \X (IF bar > Len(l) THEN {1}
                              ELSE ParseInt(SubSeq(l, bar + 1, Len(l))) \ {0})
      BY <1>12, Zenon DEF ParseRat
    <3> QED
      BY <1>12, <3>1, Zenon
  <2>2. ParseRat(l) = ({num} \cap Range64) \X ({den} \cap Range64)
    BY <1>5, <1>12, <2>1, Zenon
  <2>3. CASE Fits(num, den)
    <3>1. {num} \cap Range64 = {num} /\ {den} \cap Range64 = {den}
      BY <2>3 DEF Fits
    <3>2. {num} \X {den} = {<<num, den>>}
      OBVIOUS
    <3> QED
      BY <2>2, <2>3, <3>1, <3>2, Zenon
  <2>4. CASE ~Fits(num, den)
    <3>1. {num} \cap Range64 = {} \/ {den} \cap Range64 = {}
      BY <2>4 DEF Fits
    <3>2. \A S, T : S = {} \/ T = {} => S \X T = {}
      OBVIOUS
    <3> QED
      BY <2>2, <2>4, <3>1, <3>2, Zenon
  <2> QED
    BY <2>3, <2>4
<1>13. CASE den = 1
  <2>1. l = b
    <3>1. b \in Seq(Marks)
      BY <1>7
    <3>2. b \o <<>> = b
      BY <3>1, ConcatEmptySeq
    <3> QED
      BY <1>3, <1>4, <1>13, <3>2
  <2>2. l \in Seq(Marks) /\ Len(l) > 0 /\ l[1] = "#"
    BY <1>7, <1>9, <2>1
  <2>3. l \in Seq(Chars) /\ IsAtom(l) /\ Peek(l, 1) = "#"
    BY <2>2, MarksAreAtoms
  <2>4. PICK bar : bar = Len(l) + 1
    OBVIOUS
  <2>5. Find(l, 2, {"/"}) = bar
    <3>1. 2 \in 1..(Len(l) + 1) /\ bar \in 2..(Len(l) + 1) /\ ~(bar <= Len(l))
      BY <1>9, <2>1, <2>4
    <3>2. \A k \in 2..(bar - 1) : l[k] \notin {"/"}
      BY <1>9, <1>10, <2>1, <2>4
    <3> QED
      BY <2>3, <3>1, <3>2, FindIs
  <2>6. SubSeq(l, 2, bar - 1) = N
    <3>1. bar - 1 = Len(b)
      BY <1>9, <2>1, <2>4
    <3> QED
      BY <1>8, <2>1, <3>1
  <2>7. {den} \cap Range64 = {1} /\ bar > Len(l)
    BY <1>9, <1>11, <1>13, <2>1, <2>4
  <2>8. ParseRat(l) = IF Fits(num, den) THEN {<<num, den>>} ELSE {}
    BY <1>12, <2>3, <2>5, <2>6, <2>7
  <2> QED
    BY <2>2, <2>3, <2>8
<1>14. CASE den # 1
  <2>1. PICK D : D = Number(den)
    OBVIOUS
  <2>2. D \in Seq(Signs) /\ Len(D) > 0 /\ ParseInt(D) = {den} \cap Range64
    <3>1. den \in Int
      OBVIOUS
    <3> QED
      BY <2>1, <3>1, NumberRead
  <2>3. D \in Seq(Marks)
    BY <2>2, SeqMonotonic DEF Marks
  <2>4. Len(D) \in Nat
    BY <2>3, LenProperties
  <2>5. t = <<"/">> \o D
    BY <1>3, <1>14, <2>1
  <2>6. t \in Seq(Marks) /\ Len(t) = Len(D) + 1 /\ t[1] = "/" /\ Tail(t) = D /\ t # <<>>
    <3>1. "/" \in Marks
      BY DEF Marks
    <3> QED
      BY <2>3, <2>5, <3>1, Consed
  <2>7. t \in Seq(Marks) /\ b \in Seq(Marks)
    BY <1>7, <2>6
  <2>8. /\ l \in Seq(Marks) /\ Len(l) = Len(b) + Len(t)
        /\ \A i \in 1..(Len(b) + Len(t)) : l[i] = IF i <= Len(b) THEN b[i] ELSE t[i - Len(b)]
    BY <1>4, <2>7, ConcatProperties
  <2>9. Len(t) \in Nat /\ Len(t) >= 2
    BY <2>2, <2>4, <2>6
  <2>10. l[1] = "#"
    <3>1. 1 \in 1..(Len(b) + Len(t)) /\ 1 <= Len(b)
      BY <1>9, <2>9
    <3> QED
      BY <1>7, <2>8, <3>1
  <2>11. Len(l) > 0
    BY <1>9, <2>8, <2>9
  <2>12. l \in Seq(Chars) /\ IsAtom(l) /\ Peek(l, 1) = "#"
    BY <2>8, <2>10, <2>11, MarksAreAtoms
  <2>13. PICK bar : bar = Len(b) + 1
    OBVIOUS
  <2>14. Find(l, 2, {"/"}) = bar
    <3>1. 2 \in 1..(Len(l) + 1) /\ bar \in 2..(Len(l) + 1)
      BY <1>9, <2>8, <2>9, <2>13
    <3>2. l[bar] = "/"
      <4>1. bar \in 1..(Len(b) + Len(t)) /\ ~(bar <= Len(b)) /\ bar - Len(b) = 1
        BY <1>9, <2>9, <2>13
      <4>2. l[bar] = t[bar - Len(b)]
        BY <2>8, <4>1
      <4> QED
        BY <2>6, <4>1, <4>2
    <3>3. ASSUME NEW k \in 2..(bar - 1)
          PROVE  l[k] \notin {"/"}
      <4>1. k \in 1..(Len(b) + Len(t)) /\ k <= Len(b) /\ k \in 2..Len(b)
        BY <1>9, <2>9, <2>13
      <4>2. l[k] = b[k]
        BY <2>8, <4>1
      <4> QED
        BY <1>10, <4>1, <4>2
    <3> QED
      BY <2>12, <3>1, <3>2, <3>3, FindIs
  <2>15. SubSeq(l, 2, bar - 1) = N
    <3>1. 2 \in 1..Len(b) /\ Len(b) \in 1..Len(b) /\ bar - 1 = Len(b)
      BY <1>9, <2>13
    <3>2. SubSeq(b \o t, 2, Len(b)) = SubSeq(b, 2, Len(b))
      BY <2>7, <3>1, SubSeqOfConcat1
    <3> QED
      BY <1>4, <1>8, <3>1, <3>2
  <2>16. SubSeq(l, bar + 1, Len(l)) = D
    <3>1. PICK m, n : m = bar + 1 /\ n = Len(l)
      OBVIOUS
    <3>2. /\ m \in (Len(b) + 1)..(Len(b) + Len(t)) /\ n \in (Len(b) + 1)..(Len(b) + Len(t))
          /\ m - Len(b) = 2 /\ n - Len(b) = Len(t)
      BY <1>9, <2>8, <2>9, <2>13, <3>1
    <3>3. SubSeq(b \o t, m, n) = SubSeq(t, m - Len(b), n - Len(b))
      BY <2>7, <3>2, SubSeqOfConcat2
    <3>4. SubSeq(t, 2, Len(t)) = Tail(t)
      BY <2>6, <2>7, TailIsSubSeq
    <3> QED
      BY <1>4, <2>6, <3>1, <3>2, <3>3, <3>4
  <2>17. ~(bar > Len(l)) /\ ({den} \cap Range64) \ {0} = {den} \cap Range64
    BY <1>9, <2>8, <2>9, <2>13
  <2>18. ParseRat(l) = IF Fits(num, den) THEN {<<num, den>>} ELSE {}
    <3>1. PICK right : right = {den} \cap Range64
      OBVIOUS
    <3>2. right = IF bar > Len(l) THEN {1} ELSE ParseInt(SubSeq(l, bar + 1, Len(l))) \ {0}
      BY <2>2, <2>16, <2>17, <3>1, Zenon
    <3> QED
      BY <1>12, <2>12, <2>14, <2>15, <3>1, <3>2
  <2> QED
    BY <2>11, <2>12, <2>18
<1> QED
  BY <1>13, <1>14

-----------------------------------------------------------------------------
\* Facets.

\* The root facets of a power are its own.
LEMMA PowerOwnFacets ==
    ASSUME NEW num \in Int, NEW den \in Nat \ {0}, NEW l, l = Rational(num, den),
           NEW v, NEW t, t = Written("Power", <<v, Leaf(l)>>), NEW f \in RootFacets
    PROVE  f \in OwnFacets(t) <=> Fits(num, den) /\ f \in ExponentFacets(num, den)
<1>1. PICK kids : kids = <<v, Leaf(l)>>
  OBVIOUS
<1>2. t.op = <<"Power">> /\ t.kids = kids
  BY <1>1 DEF Written, Node
<1>3. Len(kids) = 2 /\ kids[2] = Leaf(l)
  BY <1>1
<1>4. Leaf(l).op = <<>> /\ Leaf(l).leaf = l
  BY DEF Leaf
<1>5. IsLeaf(Leaf(l))
  BY <1>4 DEF IsLeaf
<1>6. PowerFacets(t) = UNION {ExponentFacets(r[1], r[2]) : r \in ParseRat(l)}
  BY <1>2, <1>3, <1>4, <1>5, Zenon DEF PowerFacets
<1>7. ParseRat(l) = IF Fits(num, den) THEN {<<num, den>>} ELSE {}
  BY RationalRead
<1>8. f \in PowerFacets(t) <=> Fits(num, den) /\ f \in ExponentFacets(num, den)
  <2>1. CASE Fits(num, den)
    <3>1. PICK r : r = <<num, den>>
      OBVIOUS
    <3>2. r[1] = num /\ r[2] = den
      BY <3>1
    <3>3. PowerFacets(t) = UNION {ExponentFacets(x[1], x[2]) : x \in {r}}
      BY <1>6, <1>7, <2>1, <3>1, Zenon
    <3>4. {ExponentFacets(x[1], x[2]) : x \in {r}} = {ExponentFacets(r[1], r[2])}
      OBVIOUS
    <3>5. \A S : UNION {S} = S
      OBVIOUS
    <3>6. PowerFacets(t) = ExponentFacets(r[1], r[2])
      BY <3>3, <3>4, <3>5, Zenon
    <3> QED
      BY <2>1, <3>2, <3>6
  <2>2. CASE ~Fits(num, den)
    <3>1. PowerFacets(t) = UNION {ExponentFacets(x[1], x[2]) : x \in {}}
      BY <1>6, <1>7, <2>2, Zenon
    <3> QED
      BY <2>2, <3>1
  <2> QED
    BY <2>1, <2>2
<1>9. ~IsLeaf(t)
  BY <1>2 DEF IsLeaf
<1>10. <<"Power">> # <<"Integrate">> /\ <<"Power">> # <<"Construct">>
  OBVIOUS
<1>11. OwnFacets(t) = {OpFacet[op] : op \in {t.op} \cap DOMAIN OpFacet} \cup PowerFacets(t)
  <2>1. PICK more : more = CASE t.op = <<"Integrate">> -> IntegralFacets(t)
                             [] t.op = <<"Construct">> -> {x \in {"derivative"} : IsDerivative(t)}
                             [] t.op = <<"Power">> -> PowerFacets(t)
                             [] OTHER -> {}
    OBVIOUS
  <2>2. more = PowerFacets(t)
    BY <1>2, <1>10, <2>1
  <2>3. OwnFacets(t) = {OpFacet[op] : op \in {t.op} \cap DOMAIN OpFacet} \cup more
    BY <1>9, <2>1, Zenon DEF OwnFacets
  <2> QED
    BY <2>2, <2>3
<1>12. f \notin {OpFacet[op] : op \in {t.op} \cap DOMAIN OpFacet}
  BY FacetAssumption
<1> QED
  BY <1>8, <1>11, <1>12

\* A leaf has no facet of a root.
LEMMA LeafFacets ==
    ASSUME NEW l, NEW f \in RootFacets
    PROVE  f \notin OwnFacets(Leaf(l))
<1>1. IsLeaf(Leaf(l))
  BY DEF IsLeaf, Leaf
<1>2. OwnFacets(Leaf(l)) = {NamedFacet[x] : x \in {Leaf(l).leaf} \cap DOMAIN NamedFacet}
  BY <1>1, Zenon DEF OwnFacets
<1> QED
  BY <1>2, FacetAssumption

LEMMA FirstVariable ==
    ASSUME NEW l, l = <<"v", "1">>
    PROVE  l \in Seq(Chars) /\ Len(l) > 0 /\ IsName(l)
<1>1. "v" \in Words /\ "1" \in DigitSet
  BY WordAssumption, DigitSetIs
<1>2. "v" \in Chars /\ "1" \in Chars
  BY <1>1 DEF Chars
<1>3. l \in Seq(Chars)
  BY <1>2
<1>4. Len(l) = 2 /\ DOMAIN l = {1, 2} /\ l[1] = "v" /\ l[2] = "1"
  OBVIOUS
<1> QED
  BY <1>1, <1>3, <1>4 DEF IsName

\* The facets of a power of the first variable.
LEMMA PowerFacetsRead ==
    ASSUME NEW num \in Int, NEW den \in Nat \ {0}, NEW t,
           t = Written("Power", <<Leaf(<<"v", "1">>), Leaf(Rational(num, den))>>),
           NEW f \in RootFacets
    PROVE  f \in FacetsFrom(t.raw) <=> Fits(num, den) /\ f \in ExponentFacets(num, den)
<1>1. PICK n : n = <<"v", "1">>
  OBVIOUS
<1>2. PICK v : v = Leaf(n)
  OBVIOUS
<1>3. PICK l : l = Rational(num, den)
  OBVIOUS
<1>4. PICK r : r = Leaf(l)
  OBVIOUS
<1>5. t = Written("Power", <<v, r>>)
  BY <1>1, <1>2, <1>3, <1>4
<1>6. Parts(v, {v})
  <2>1. n \in Seq(Chars) /\ Len(n) > 0 /\ IsName(n)
    BY <1>1, FirstVariable
  <2> QED
    BY <1>2, <2>1, LeafParts
<1>7. Parts(r, {r})
  <2>1. l \in Seq(Chars) /\ Len(l) > 0 /\ IsAtom(l)
    BY <1>3, RationalRead
  <2> QED
    BY <1>4, <2>1, LeafParts
<1>8. Parts(t, ({v} \cup {r}) \cup {t})
  <2>1. "Power" \in Words
    BY WordAssumption
  <2>2. PICK last : last = <<r>>
    OBVIOUS
  <2>3. ListParts(last, {r})
    BY <1>7, <2>2, OnlyArgumentParts
  <2>4. last \in Seq({v, r}) /\ Len(last) > 0 /\ v \in {v, r}
    BY <2>2
  <2>5. ListParts(<<v>> \o last, {v} \cup {r})
    BY <1>6, <2>3, <2>4, OneMoreArgumentParts
  <2>6. <<v, r>> = <<v>> \o last
    BY <2>2
  <2> QED
    BY <1>5, <2>1, <2>5, <2>6, WrittenAround
<1>9. PICK U : U = ({v} \cup {r}) \cup {t}
  OBVIOUS
<1>10. t \in U /\ \A u \in U : Kids(u) \subseteq U
  BY <1>8, <1>9 DEF Parts
<1>11. Canonical(t)
  BY <1>8 DEF Canonical
<1>12. Reads(t) /\ Len(t.raw) \in Nat /\ Len(t.raw) > 0
  BY <1>11, CanonicalReads
<1>13. Subterms(t) \subseteq U /\ t \in Subterms(t)
  BY <1>10, <1>12, SubtermsIn
<1>14. FacetsFrom(t.raw) = Facets(t)
  <2>1. Parse(t.raw) = {t}
    BY <1>12, ParsesItself
  <2>2. {Facets(x) : x \in {t}} = {Facets(t)}
    OBVIOUS
  <2>3. UNION {Facets(t)} = Facets(t)
    OBVIOUS
  <2> QED
    BY <2>1, <2>2, <2>3, Zenon DEF FacetsFrom
<1>15. f \notin OwnFacets(v) /\ f \notin OwnFacets(r)
  BY <1>2, <1>4, LeafFacets
<1>16. f \in Facets(t) <=> f \in OwnFacets(t)
  <2>1. \A x \in Subterms(t) : x = v \/ x = r \/ x = t
    BY <1>9, <1>13
  <2>2. f \in Facets(t) <=> \E x \in Subterms(t) : f \in OwnFacets(x)
    BY DEF Facets
  <2> QED
    BY <1>13, <1>15, <2>1, <2>2, Zenon
<1>17. f \in OwnFacets(t) <=> Fits(num, den) /\ f \in ExponentFacets(num, den)
  BY <1>3, <1>4, <1>5, PowerOwnFacets
<1> QED
  BY <1>14, <1>16, <1>17

\* The facets of a power are those of its exponent, for every numerator and
\* denominator: none at all as soon as one of them overflows.
THEOREM RootFacetsExactHolds == FeatureSpec => []RootFacetsExact
<1>1. ItemIsFine => RootFacetsExact
  <2> SUFFICES ASSUME ItemIsFine, item.what = "exponent" PROVE RootFacetsExact
    BY DEF RootFacetsExact
  <2>1. \E num \in Int, den \in Nat \ {0} : item = Exponent(num, den)
    BY DEF ItemIsFine, Fine, Text, Terms
  <2>2. PICK num \in Int, den \in Nat \ {0} : item = Exponent(num, den)
    BY <2>1
  <2>3. item.num = num /\ item.den = den
    BY <2>2 DEF Exponent
  <2>4. PICK power : power = Written("Power", <<Leaf(<<"v", "1">>), Leaf(Rational(num, den))>>)
    OBVIOUS
  <2>5. PICK read : read = FacetsFrom(power.raw)
    OBVIOUS
  <2>6. \A f \in RootFacets : f \in read <=> Fits(num, den) /\ f \in ExponentFacets(num, den)
    BY <2>4, <2>5, PowerFacetsRead
  <2>8. /\ "fraction" \in read <=> Fits(num, den) /\ "fraction" \in ExponentFacets(num, den)
        /\ "square-root" \in read <=> Fits(num, den) /\ "square-root" \in ExponentFacets(num, den)
        /\ "nth-root" \in read <=> Fits(num, den) /\ "nth-root" \in ExponentFacets(num, den)
    BY <2>6 DEF RootFacets
  <2>9. /\ "fraction" \in ExponentFacets(num, den) <=> num < 0
        /\ "square-root" \in ExponentFacets(num, den) <=> den = 2 /\ num \in {1, -1}
        /\ "nth-root" \in ExponentFacets(num, den) <=> den > 1 /\ ~(den = 2 /\ num \in {1, -1})
    BY DEF ExponentFacets
  <2>10. /\ "fraction" \in read <=> Fits(num, den) /\ num < 0
         /\ "square-root" \in read <=> Fits(num, den) /\ (den = 2 /\ num \in {1, -1})
         /\ "nth-root" \in read <=> Fits(num, den) /\ den > 1 /\ ~(den = 2 /\ num \in {1, -1})
    BY <2>8, <2>9, Zenon
  <2> QED
    BY <2>3, <2>4, <2>5, <2>10, Zenon DEF RootFacetsExact, Fits
<1> QED
  BY <1>1, ItemsAreFine, PTL

-----------------------------------------------------------------------------
\* Texts without their blanks.

DenseUpTo(s, dense, k) ==
    IF k = 0 THEN <<>>
    ELSE IF s[k] = Blank THEN dense[k - 1] ELSE Append(dense[k - 1], s[k])

IsDense(s, dense) == dense = [k \in 0..Len(s) |-> DenseUpTo(s, dense, k)]

\* The recursive definition of Dense defines something.
LEMMA DenseIs ==
    ASSUME NEW s, Len(s) \in Nat
    PROVE  \E dense : IsDense(s, dense) /\ Dense(s) = dense[Len(s)]
<1> DEFINE l == Len(s)
           Upto(m, f) == /\ f = [d \in 0..l |-> f[d]]
                         /\ \A d \in 0..m : f[d] = DenseUpTo(s, f, d)
           Defined == {m \in 0..l : \E f : Upto(m, f)}
<1>1. 0 \in Defined
  <2> DEFINE f == [d \in 0..l |-> <<>>]
  <2>1. f = [d \in 0..l |-> f[d]] /\ f[0] = <<>>
    OBVIOUS
  <2>2. DenseUpTo(s, f, 0) = <<>>
    BY DEF DenseUpTo
  <2> HIDE DEF f
  <2>3. \A d \in 0..0 : d = 0
    OBVIOUS
  <2>4. Upto(0, f)
    BY <2>1, <2>2, <2>3
  <2> QED
    BY <2>4
<1>2. ASSUME NEW m \in 0..l, m \in Defined, m < l
      PROVE  m + 1 \in Defined
  <2>1. PICK f : Upto(m, f)
    BY <1>2
  <2> DEFINE g == [f EXCEPT ![m + 1] = DenseUpTo(s, f, m + 1)]
  <2>2. DOMAIN f = 0..l
    BY <2>1
  <2>3. g = [d \in 0..l |-> IF d = m + 1 THEN DenseUpTo(s, f, m + 1) ELSE f[d]]
    BY <2>2
  <2> HIDE DEF g
  <2>4. ASSUME NEW d \in 0..(m + 1)
        PROVE  g[d] = DenseUpTo(s, g, d)
    <3>1. d \in 0..l
      BY <1>2
    <3>2. DenseUpTo(s, g, d) = DenseUpTo(s, f, d)
      <4>1. d # 0 => g[d - 1] = f[d - 1]
        <5>1. d # 0 => d - 1 \in 0..l /\ d - 1 # m + 1
          BY <1>2
        <5> QED
          BY <2>3, <5>1
      <4> QED
        BY <4>1, Zenon DEF DenseUpTo
    <3>3. CASE d = m + 1
      BY <2>3, <3>1, <3>2, <3>3
    <3>4. CASE d # m + 1
      <4>1. d \in 0..m
        BY <3>4
      <4>2. f[d] = DenseUpTo(s, f, d)
        BY <2>1, <4>1
      <4>3. g[d] = f[d]
        BY <2>3, <3>1, <3>4
      <4> QED
        BY <3>2, <4>2, <4>3
    <3> QED
      BY <3>3, <3>4
  <2>5. g = [d \in 0..l |-> g[d]]
    BY <2>3
  <2>6. Upto(m + 1, g)
    BY <2>4, <2>5
  <2>7. m + 1 \in 0..l
    BY <1>2
  <2> HIDE DEF Upto
  <2> QED
    BY <2>6, <2>7
<1> HIDE DEF Defined
<1>3. l \in Defined
  <2>1. l \in Nat /\ l \in 0..l
    OBVIOUS
  <2>2. 0..l \subseteq Defined
    BY <1>1, <1>2, <2>1, UpTheNumbers
  <2> QED
    BY <2>1, <2>2
<1>4. PICK f : Upto(l, f)
  BY <1>3 DEF Defined
<1>5. f = [d \in 0..l |-> DenseUpTo(s, f, d)]
  BY <1>4
<1> DEFINE dense == CHOOSE g : g = [d \in 0..Len(s) |-> DenseUpTo(s, g, d)]
<1>6. dense = [d \in 0..Len(s) |-> DenseUpTo(s, dense, d)]
  BY <1>5, Zenon
<1>7. Dense(s) = dense[Len(s)]
  BY Zenon DEF Dense, DenseUpTo
<1> HIDE DEF dense
<1> QED
  BY <1>6, <1>7, Zenon DEF IsDense

LEMMA DenseOfNothing == Dense(<<>>) = <<>>
<1>1. PICK none : none = <<>>
  OBVIOUS
<1>2. Len(none) = 0
  BY <1>1
<1>3. PICK dense : IsDense(none, dense) /\ Dense(none) = dense[0]
  BY <1>2, DenseIs
<1>4. dense = [k \in 0..0 |-> DenseUpTo(none, dense, k)]
  BY <1>2, <1>3 DEF IsDense
<1>5. dense[0] = DenseUpTo(none, dense, 0)
  BY <1>4
<1> QED
  BY <1>1, <1>3, <1>5 DEF DenseUpTo

\* One more character.
LEMMA DenseAppended ==
    ASSUME NEW a \in Seq(Chars), NEW d \in Chars
    PROVE  Dense(a \o <<d>>) = IF d = Blank THEN Dense(a) ELSE Append(Dense(a), d)
<1>1. PICK one : one = <<d>>
  OBVIOUS
<1>2. one \in Seq(Chars) /\ Len(one) = 1 /\ one[1] = d
  BY <1>1
<1>3. PICK b : b = a \o one
  OBVIOUS
<1>4. one \in Seq(Chars)
  BY <1>2
<1>5. /\ Len(b) = Len(a) + Len(one)
      /\ \A i \in 1..(Len(a) + Len(one)) : b[i] = IF i <= Len(a) THEN a[i] ELSE one[i - Len(a)]
  BY <1>3, <1>4, ConcatProperties
<1> DEFINE n == Len(a)
<1>6. n \in Nat
  BY LenProperties
<1>7. Len(b) = n + 1 /\ b[n + 1] = d /\ \A i \in 1..n : b[i] = a[i]
  <2>1. Len(b) = n + 1
    BY <1>2, <1>5
  <2>2. b[n + 1] = d
    <3>1. n + 1 \in 1..(Len(a) + Len(one)) /\ ~(n + 1 <= Len(a)) /\ (n + 1) - Len(a) = 1
      BY <1>2, <1>6
    <3>2. b[n + 1] = one[(n + 1) - Len(a)]
      BY <1>5, <3>1
    <3> QED
      BY <1>2, <3>1, <3>2
  <2>3. ASSUME NEW i \in 1..n
        PROVE  b[i] = a[i]
    <3>1. i \in 1..(Len(a) + Len(one)) /\ i <= Len(a)
      BY <1>2, <1>6
    <3> QED
      BY <1>5, <3>1
  <2> QED
    BY <2>1, <2>2, <2>3
<1>8. PICK v : IsDense(a, v) /\ Dense(a) = v[n]
  BY <1>6, DenseIs
<1>9. PICK w : IsDense(b, w) /\ Dense(b) = w[n + 1]
  <2>1. Len(b) \in Nat
    BY <1>6, <1>7
  <2> QED
    BY <1>7, <2>1, DenseIs
<1>10. v = [k \in 0..n |-> DenseUpTo(a, v, k)]
  BY <1>8 DEF IsDense
<1>11. w = [k \in 0..(n + 1) |-> DenseUpTo(b, w, k)]
  BY <1>7, <1>9 DEF IsDense
<1> DEFINE Same == {k \in 0..n : w[k] = v[k]}
<1>12. 0 \in Same
  <2>1. 0 \in 0..n /\ 0 \in 0..(n + 1)
    BY <1>6
  <2>2. v[0] = DenseUpTo(a, v, 0) /\ w[0] = DenseUpTo(b, w, 0)
    BY <1>10, <1>11, <2>1
  <2> QED
    BY <2>1, <2>2 DEF DenseUpTo
<1>13. ASSUME NEW k \in 0..n, k \in Same, k < n
       PROVE  k + 1 \in Same
  <2>1. /\ k + 1 \in 0..n /\ k + 1 \in 0..(n + 1) /\ k + 1 \in 1..n /\ k + 1 # 0
        /\ (k + 1) - 1 = k
    BY <1>6, <1>13
  <2>2. v[k + 1] = DenseUpTo(a, v, k + 1) /\ w[k + 1] = DenseUpTo(b, w, k + 1)
    BY <1>10, <1>11, <2>1
  <2>3. w[k] = v[k] /\ b[k + 1] = a[k + 1]
    BY <1>7, <1>13, <2>1
  <2>4. DenseUpTo(a, v, k + 1) = DenseUpTo(b, w, k + 1)
    BY <2>1, <2>3, Zenon DEF DenseUpTo
  <2> QED
    BY <2>1, <2>2, <2>4
<1> HIDE DEF Same
<1>14. n \in Same
  <2>1. n \in 0..n
    BY <1>6
  <2>2. 0..n \subseteq Same
    BY <1>6, <1>12, <1>13, UpTheNumbers
  <2> QED
    BY <2>1, <2>2
<1>15. w[n] = v[n]
  BY <1>14 DEF Same
<1>16. w[n + 1] = IF d = Blank THEN w[n] ELSE Append(w[n], d)
  <2>1. n + 1 \in 0..(n + 1) /\ n + 1 # 0 /\ (n + 1) - 1 = n
    BY <1>6
  <2>2. w[n + 1] = DenseUpTo(b, w, n + 1)
    BY <1>11, <2>1
  <2>3. DenseUpTo(b, w, n + 1) =
          IF b[n + 1] = Blank THEN w[(n + 1) - 1] ELSE Append(w[(n + 1) - 1], b[n + 1])
    BY <2>1, Zenon DEF DenseUpTo
  <2> QED
    BY <1>7, <2>1, <2>2, <2>3
<1>17. Dense(b) = IF d = Blank THEN Dense(a) ELSE Append(Dense(a), d)
  BY <1>8, <1>9, <1>15, <1>16
<1> QED
  BY <1>1, <1>3, <1>17

Regrouped(a, b, c) == (a \o b) \o c = a \o (b \o c)

LEMMA ConcatRegrouped ==
    ASSUME NEW a \in Seq(Chars), NEW b \in Seq(Chars), NEW c \in Seq(Chars)
    PROVE  Regrouped(a, b, c)
BY ConcatAssociative DEF Regrouped

\* What is left of a text is a text.
LEMMA DenseConcat ==
    ASSUME NEW a \in Seq(Chars), NEW b \in Seq(Chars)
    PROVE  /\ Dense(a) \in Seq(Chars) /\ Dense(b) \in Seq(Chars)
           /\ a \o b \in Seq(Chars)
           /\ Dense(a \o b) = Dense(a) \o Dense(b)
<1>1. ASSUME NEW c \in Seq(Chars), Dense(c) \in Seq(Chars),
             NEW d \in Seq(Chars), NEW k \in 0..Len(d)
      PROVE  /\ Dense(SubSeq(d, 1, k)) \in Seq(Chars)
             /\ Dense(c \o SubSeq(d, 1, k)) = Dense(c) \o Dense(SubSeq(d, 1, k))
  <2>0. Len(d) \in Nat
    BY LenProperties
  <2> DEFINE Good == {i \in 0..Len(d) :
                        /\ Dense(SubSeq(d, 1, i)) \in Seq(Chars)
                        /\ Dense(c \o SubSeq(d, 1, i)) = Dense(c) \o Dense(SubSeq(d, 1, i))}
  <2>1. 0 \in Good
    <3>1. PICK none : none = <<>>
      OBVIOUS
    <3>2. SubSeq(d, 1, 0) = none /\ none \in Seq(Chars)
      BY <3>1, SubSeqEmpty
    <3>3. Dense(none) = none
      BY <3>1, DenseOfNothing
    <3>4. c \o none = c /\ Dense(c) \o none = Dense(c)
      BY <1>1, <3>1, ConcatEmptySeq
    <3>5. 0 \in 0..Len(d)
      BY <2>0
    <3> QED
      BY <3>2, <3>3, <3>4, <3>5
  <2>2. ASSUME NEW i \in 0..Len(d), i \in Good, i < Len(d)
        PROVE  i + 1 \in Good
    <3>1. /\ i + 1 \in 0..Len(d) /\ 1 \in 1..Len(d) /\ i + 1 \in 1..Len(d)
          /\ (i + 1) - 1 = i
      BY <2>0, <2>2
    <3>2. PICK x : x = d[i + 1]
      OBVIOUS
    <3>3. x \in Chars
      BY <3>1, <3>2, ElementOfSeq
    <3>4. PICK u : u = SubSeq(d, 1, i)
      OBVIOUS
    <3>5. u \in Seq(Chars)
      <4>1. \A j \in 1..i : d[j] \in Chars
        BY <2>0, ElementOfSeq
      <4> QED
        BY <3>4, <4>1, SubSeqProperties
    <3>6. SubSeq(d, 1, i + 1) = u \o <<x>>
      BY <3>1, <3>2, <3>4, SubSeqRecursiveSecond
    <3>7. Dense(u) \in Seq(Chars) /\ Dense(c \o u) = Dense(c) \o Dense(u)
      BY <2>2, <3>4
    <3>8. PICK one : one = <<x>>
      OBVIOUS
    <3>9. one \in Seq(Chars)
      BY <3>3, <3>8
    <3>10. (c \o u) \o one = c \o (u \o one)
      <4>1. Regrouped(c, u, one)
        BY <3>5, <3>9, ConcatRegrouped
      <4> QED
        BY <4>1, Zenon DEF Regrouped
    <3>11. c \o u \in Seq(Chars)
      BY <3>5, ConcatProperties
    <3>12. Dense(u \o one) = IF x = Blank THEN Dense(u) ELSE Append(Dense(u), x)
      BY <3>3, <3>5, <3>8, DenseAppended
    <3>13. Dense((c \o u) \o one) = IF x = Blank THEN Dense(c \o u) ELSE Append(Dense(c \o u), x)
      BY <3>3, <3>8, <3>11, DenseAppended
    <3>14. PICK v : v = Dense(c)
      OBVIOUS
    <3>15. PICK w : w = Dense(u)
      OBVIOUS
    <3>16. v \in Seq(Chars) /\ w \in Seq(Chars)
      BY <1>1, <3>7, <3>14, <3>15
    <3>17. v \o w \in Seq(Chars)
      BY <3>16, ConcatProperties
    <3>18. Append(w, x) = w \o one /\ Append(v \o w, x) = (v \o w) \o one
      BY <3>3, <3>8, <3>16, <3>17, AppendIsConcat
    <3>19. (v \o w) \o one = v \o (w \o one)
      <4>1. v \in Seq(Chars)
        BY <3>16
      <4>2. w \in Seq(Chars)
        BY <3>16
      <4>3. Regrouped(v, w, one)
        BY <3>9, <4>1, <4>2, ConcatRegrouped
      <4> QED
        BY <4>3, Zenon DEF Regrouped
    <3>20. Append(w, x) \in Seq(Chars)
      BY <3>3, <3>16, AppendProperties
    <3>21. /\ Dense(u \o one) \in Seq(Chars)
           /\ Dense(c \o (u \o one)) = v \o Dense(u \o one)
      <4>1. CASE x = Blank
        BY <3>7, <3>10, <3>12, <3>13, <3>14, <3>15, <3>16, <4>1
      <4>2. CASE x # Blank
        <5>1. Dense(u \o one) = Append(w, x) /\ Dense((c \o u) \o one) = Append(Dense(c \o u), x)
          BY <3>12, <3>13, <3>15, <4>2
        <5> QED
          BY <3>7, <3>10, <3>14, <3>15, <3>18, <3>19, <3>20, <5>1
      <4> QED
        BY <4>1, <4>2
    <3> QED
      BY <3>1, <3>6, <3>8, <3>14, <3>21
  <2> HIDE DEF Good
  <2>3. 0..Len(d) \subseteq Good
    BY <2>0, <2>1, <2>2, UpTheNumbers
  <2> QED
    BY <2>3 DEF Good
<1>2. ASSUME NEW d \in Seq(Chars)
      PROVE  Dense(d) \in Seq(Chars)
  <2>1. PICK none : none = <<>>
    OBVIOUS
  <2>2. none \in Seq(Chars) /\ Dense(none) = none
    BY <2>1, DenseOfNothing
  <2>3. none \in Seq(Chars) /\ Dense(none) \in Seq(Chars)
    BY <2>2
  <2>4. Len(d) \in 0..Len(d)
    BY LenProperties
  <2>5. SubSeq(d, 1, Len(d)) = d
    BY SubSeqFull
  <2>6. Dense(SubSeq(d, 1, Len(d))) \in Seq(Chars)
    BY <1>1, <2>3, <2>4, Zenon
  <2> QED
    BY <2>5, <2>6, Zenon
<1>3. Dense(a) \in Seq(Chars) /\ Dense(b) \in Seq(Chars)
  BY <1>2
<1>4. Len(b) \in 0..Len(b) /\ SubSeq(b, 1, Len(b)) = b
  BY LenProperties, SubSeqFull
<1>5. Dense(a \o b) = Dense(a) \o Dense(b)
  <2>1. Dense(a \o SubSeq(b, 1, Len(b))) = Dense(a) \o Dense(SubSeq(b, 1, Len(b)))
    BY <1>1, <1>3, <1>4, Zenon
  <2> QED
    BY <1>4, <2>1
<1>6. a \o b \in Seq(Chars)
  BY ConcatProperties
<1> QED
  BY <1>3, <1>5, <1>6

LEMMA DenseOne ==
    ASSUME NEW d \in Chars
    PROVE  /\ <<d>> \in Seq(Chars)
           /\ Dense(<<d>>) = IF d = Blank THEN <<>> ELSE <<d>>
<1>1. PICK none : none = <<>>
  OBVIOUS
<1>2. none \in Seq(Chars) /\ Dense(none) = none
  BY <1>1, DenseOfNothing
<1>3. Dense(none \o <<d>>) = IF d = Blank THEN Dense(none) ELSE Append(Dense(none), d)
  BY <1>2, DenseAppended
<1>4. none \o <<d>> = <<d>> /\ Append(none, d) = <<d>>
  BY <1>1
<1> QED
  BY <1>1, <1>2, <1>3, <1>4

\* The text from p up to q.
Chunk(s, p, q) == SubSeq(s, p, q - 1)

\* A text from p to r is that from p to q and that from q to r.
LEMMA Chunks ==
    ASSUME NEW s \in Seq(Chars), NEW p \in 1..(Len(s) + 1), NEW q \in p..(Len(s) + 1),
           NEW r \in q..(Len(s) + 1)
    PROVE  /\ Chunk(s, p, q) \in Seq(Chars)
           /\ Dense(Chunk(s, p, q)) \in Seq(Chars)
           /\ Dense(Chunk(s, p, r)) = Dense(Chunk(s, p, q)) \o Dense(Chunk(s, q, r))
<1>0. Len(s) \in Nat
  BY LenProperties
<1>1. \A i, j \in 1..(Len(s) + 1) : Chunk(s, i, j) \in Seq(Chars)
  <2>1. ASSUME NEW i \in 1..(Len(s) + 1), NEW j \in 1..(Len(s) + 1)
        PROVE  Chunk(s, i, j) \in Seq(Chars)
    <3>1. i \in Int /\ j - 1 \in Int /\ \A k \in i..(j - 1) : k \in 1..Len(s)
      BY <1>0
    <3>2. \A k \in i..(j - 1) : s[k] \in Chars
      BY <3>1, ElementOfSeq
    <3> QED
      BY <3>1, <3>2, SubSeqProperties DEF Chunk
  <2> QED
    BY <2>1
<1>2. q \in 1..(Len(s) + 1) /\ r \in 1..(Len(s) + 1)
  BY <1>0
<1>3. q - 1 \in (p - 1)..Len(s) /\ r - 1 \in (q - 1)..Len(s) /\ (q - 1) + 1 = q
  BY <1>0
<1>4. Chunk(s, p, q) \o Chunk(s, q, r) = Chunk(s, p, r)
  <2>1. SubSeq(s, p, q - 1) \o SubSeq(s, (q - 1) + 1, r - 1) = SubSeq(s, p, r - 1)
    BY <1>3, ConcatAdjacentSubSeq
  <2> QED
    BY <1>3, <2>1 DEF Chunk
<1>5. Chunk(s, p, q) \in Seq(Chars) /\ Chunk(s, q, r) \in Seq(Chars)
  BY <1>1, <1>2
<1>6. Dense(Chunk(s, p, q) \o Chunk(s, q, r)) = Dense(Chunk(s, p, q)) \o Dense(Chunk(s, q, r))
  BY <1>5, DenseConcat
<1>7. Dense(Chunk(s, p, q)) \in Seq(Chars)
  BY <1>5, DenseConcat
<1> QED
  BY <1>4, <1>5, <1>6, <1>7

\* One character.
LEMMA ChunkOne ==
    ASSUME NEW s \in Seq(Chars), NEW p \in 1..Len(s)
    PROVE  Dense(Chunk(s, p, p + 1)) = IF s[p] = Blank THEN <<>> ELSE <<s[p]>>
<1>0. Len(s) \in Nat /\ s[p] \in Chars
  BY LenProperties, ElementOfSeq
<1>1. p \in p..Len(s) /\ (p + 1) - 1 = p /\ p - 1 \in Int /\ p \in Int /\ p - 1 < p
  BY <1>0
<1>2. PICK one : one = <<s[p]>>
  OBVIOUS
<1>3. SubSeq(s, p, p) = SubSeq(s, p, p - 1) \o one
  BY <1>1, <1>2, SubSeqRecursiveSecond
<1>4. SubSeq(s, p, p - 1) = <<>>
  BY <1>1, SubSeqEmpty
<1>5. one \in Seq(Chars)
  BY <1>0, <1>2
<1>6. <<>> \o one = one
  BY <1>5, ConcatEmptySeq
<1>7. Chunk(s, p, p + 1) = one
  BY <1>1, <1>3, <1>4, <1>6 DEF Chunk
<1> QED
  BY <1>0, <1>2, <1>7, DenseOne

LEMMA ChunkNone ==
    ASSUME NEW s, NEW p \in Nat
    PROVE  Dense(Chunk(s, p, p)) = <<>>
<1>1. p \in Int /\ p - 1 \in Int /\ p - 1 < p
  OBVIOUS
<1>2. Chunk(s, p, p) = <<>>
  BY <1>1, SubSeqEmpty DEF Chunk
<1> QED
  BY <1>2, DenseOfNothing

\* Nothing is left of blanks.
LEMMA ChunkSkipped ==
    ASSUME NEW s \in Seq(Chars), NEW p \in 1..(Len(s) + 1)
    PROVE  Dense(Chunk(s, p, Skip(s, p))) = <<>>
<1>0. Len(s) \in Nat
  BY LenProperties
<1> DEFINE f == Skip(s, p)
           n == f - p
<1>1. f \in p..(Len(s) + 1) /\ \A k \in p..(f - 1) : s[k] = Blank
  BY SkipBounds
<1> HIDE DEF f
<1> DEFINE Gone == {i \in 0..n : Dense(Chunk(s, p, p + i)) = <<>>}
<1>2. n \in Nat /\ p + n = f
  BY <1>0, <1>1
<1>3. 0 \in Gone
  <2>1. 0 \in 0..n /\ p + 0 = p /\ p \in Nat
    BY <1>2
  <2>2. Dense(Chunk(s, p, p + 0)) = <<>>
    BY <2>1, ChunkNone
  <2> QED
    BY <2>1, <2>2
<1>4. ASSUME NEW i \in 0..n, i \in Gone, i < n
      PROVE  i + 1 \in Gone
  <2>1. PICK q : q = p + i
    OBVIOUS
  <2>2. /\ i + 1 \in 0..n /\ p + (i + 1) = q + 1 /\ q \in p..(f - 1) /\ q \in 1..Len(s)
        /\ q \in p..(Len(s) + 1) /\ q + 1 \in q..(Len(s) + 1)
    BY <1>0, <1>1, <1>2, <1>4, <2>1
  <2>3. Dense(Chunk(s, p, q)) = <<>>
    BY <1>4, <2>1
  <2>4. Dense(Chunk(s, q, q + 1)) = <<>>
    BY <1>1, <2>2, ChunkOne
  <2>5. Dense(Chunk(s, p, q + 1)) = Dense(Chunk(s, p, q)) \o Dense(Chunk(s, q, q + 1))
    BY <2>2, Chunks
  <2>6. <<>> \o <<>> = <<>>
    OBVIOUS
  <2>7. Dense(Chunk(s, p, p + (i + 1))) = <<>>
    BY <2>2, <2>3, <2>4, <2>5, <2>6
  <2> QED
    BY <2>2, <2>7
<1> HIDE DEF Gone
<1>5. n \in Gone
  <2>1. n \in 0..n
    BY <1>2
  <2>2. 0..n \subseteq Gone
    BY <1>2, <1>3, <1>4, UpTheNumbers
  <2> QED
    BY <2>1, <2>2
<1>6. Dense(Chunk(s, p, f)) = <<>>
  BY <1>2, <1>5 DEF Gone
<1> QED
  BY <1>6 DEF f

\* Blanks in front of a text and behind it do not matter.
LEMMA BlanksAround ==
    ASSUME NEW s \in Seq(Chars), NEW p \in 1..(Len(s) + 1), NEW q \in p..(Len(s) + 1)
    PROVE  /\ q >= Skip(s, p) => Dense(Chunk(s, p, q)) = Dense(Chunk(s, Skip(s, p), q))
           /\ Dense(Chunk(s, p, Skip(s, q))) = Dense(Chunk(s, p, q))
<1>0. Len(s) \in Nat
  BY LenProperties
<1>1. PICK f : f = Skip(s, p)
  OBVIOUS
<1>2. PICK g : g = Skip(s, q)
  OBVIOUS
<1>3. q \in 1..(Len(s) + 1)
  BY <1>0
<1>4. f \in p..(Len(s) + 1) /\ g \in q..(Len(s) + 1)
  BY <1>1, <1>2, <1>3, SkipBounds
<1>5. Dense(Chunk(s, p, f)) = <<>> /\ Dense(Chunk(s, q, g)) = <<>>
  BY <1>1, <1>2, <1>3, ChunkSkipped
<1>6. ASSUME q >= f
      PROVE  Dense(Chunk(s, p, q)) = Dense(Chunk(s, f, q))
  <2>1. q \in f..(Len(s) + 1) /\ f \in 1..(Len(s) + 1) /\ q \in q..(Len(s) + 1)
    BY <1>0, <1>4, <1>6
  <2>2. Dense(Chunk(s, p, q)) = Dense(Chunk(s, p, f)) \o Dense(Chunk(s, f, q))
    BY <1>4, <2>1, Chunks
  <2>3. Dense(Chunk(s, f, q)) \in Seq(Chars)
    BY <2>1, Chunks
  <2>4. <<>> \o Dense(Chunk(s, f, q)) = Dense(Chunk(s, f, q))
    BY <2>3, ConcatEmptySeq
  <2> QED
    BY <1>5, <2>2, <2>4
<1>7. Dense(Chunk(s, p, g)) = Dense(Chunk(s, p, q))
  <2>1. Dense(Chunk(s, p, g)) = Dense(Chunk(s, p, q)) \o Dense(Chunk(s, q, g))
    BY <1>4, Chunks
  <2>2. Dense(Chunk(s, p, q)) \in Seq(Chars)
    BY <1>4, Chunks
  <2>3. Dense(Chunk(s, p, q)) \o <<>> = Dense(Chunk(s, p, q))
    BY <2>2, ConcatEmptySeq
  <2> QED
    BY <1>5, <2>1, <2>3
<1> QED
  BY <1>1, <1>2, <1>6, <1>7

-----------------------------------------------------------------------------
\* The reader leaves nothing out.

\* The text of a term is that term, written out.
WrittenOut(u) ==
    /\ u.raw \in Seq(Chars)
    /\ Dense(u.raw) = Dense(IF IsLeaf(u) THEN u.leaf ELSE Bracketed(u.op, u.kids))

AllWrittenOut(U) == \A u \in U : WrittenOut(u) /\ Kids(u) \subseteq U

\* From p up to e there is the text of t, or of these arguments.
TermAt(s, p, t, e) ==
    /\ e \in (p + 1)..(Len(s) + 1)
    /\ t.raw \in Seq(Chars)
    /\ Dense(Chunk(s, p, e)) = Dense(t.raw)
    /\ \E U : AllWrittenOut(U) /\ t \in U

ArgumentsAt(s, p, kids, e) ==
    /\ e \in (p + 1)..(Len(s) + 1)
    /\ Listed(kids) \in Seq(Chars)
    /\ Dense(Chunk(s, p, e)) = Dense(Listed(kids))
    /\ \E U : AllWrittenOut(U) /\ kids \in Seq(U) /\ Len(kids) > 0

NodeFaithful(s, p, r) ==
    r = Failure \/ \E t, e : TermAt(s, p, t, e) /\ r = Success(t, e)

ArgsFaithful(s, p, r) ==
    r = Failure \/ \E kids, e : ArgumentsAt(s, p, kids, e) /\ r = Success(kids, e)

\* A leaf is the text it was read from.
LEMMA LeafAt ==
    ASSUME NEW s \in Seq(Chars), NEW p \in 1..(Len(s) + 1), NEW start, start = Skip(s, p),
           NEW end \in start..(Len(s) + 1), end # start
    PROVE  TermAt(s, p, Leaf(Chunk(s, start, end)), end)
<1>0. Len(s) \in Nat
  BY LenProperties
<1>1. start \in p..(Len(s) + 1)
  BY SkipBounds
<1>2. /\ start \in 1..(Len(s) + 1) /\ end \in p..(Len(s) + 1) /\ end >= start
      /\ end \in (p + 1)..(Len(s) + 1) /\ end \in end..(Len(s) + 1)
  BY <1>0, <1>1
<1>3. PICK l : l = Chunk(s, start, end)
  OBVIOUS
<1>4. l \in Seq(Chars)
  BY <1>2, <1>3, Chunks
<1>5. Dense(Chunk(s, p, end)) = Dense(l)
  BY <1>2, <1>3, BlanksAround
<1>6. PICK t : t = Leaf(l)
  OBVIOUS
<1>7. t.raw = l /\ t.leaf = l /\ t.op = <<>> /\ t.kids = <<>>
  BY <1>6 DEF Leaf
<1>8. IsLeaf(t)
  BY <1>7 DEF IsLeaf
<1>9. Kids(t) = {}
  <2>1. DOMAIN t.kids = {}
    BY <1>7
  <2> QED
    BY <2>1 DEF Kids
<1>10. WrittenOut(t)
  BY <1>4, <1>7, <1>8 DEF WrittenOut
<1>11. AllWrittenOut({t})
  BY <1>9, <1>10 DEF AllWrittenOut
<1>12. TermAt(s, p, t, end)
  BY <1>2, <1>4, <1>5, <1>7, <1>11 DEF TermAt
<1> QED
  BY <1>3, <1>6, <1>12

\* A head, a bracket, arguments and a bracket: kids is what stands between.
LEMMA OperatorAt ==
    ASSUME NEW s \in Seq(Chars), NEW p \in 1..(Len(s) + 1), NEW start, start = Skip(s, p),
           NEW end \in start..Len(s), end # start, s[end] = "[",
           NEW close \in (end + 1)..Len(s), s[close] = "]",
           NEW kids, Listed(kids) \in Seq(Chars),
           Dense(Chunk(s, end + 1, close)) = Dense(Listed(kids)),
           NEW U, AllWrittenOut(U), Kids(Node(<<>>, kids, <<>>)) \subseteq U
    PROVE  TermAt(s, p, Node(Chunk(s, start, end), kids, Chunk(s, start, close + 1)), close + 1)
<1>0. Len(s) \in Nat
  BY LenProperties
<1>1. start \in p..(Len(s) + 1)
  BY SkipBounds
<1>2. /\ start \in 1..(Len(s) + 1) /\ end \in start..(Len(s) + 1)
      /\ end \in 1..Len(s) /\ end \in 1..(Len(s) + 1) /\ end + 1 \in end..(Len(s) + 1)
      /\ end + 1 \in 1..(Len(s) + 1) /\ end + 1 \in start..(Len(s) + 1)
      /\ close \in 1..Len(s) /\ close \in (end + 1)..(Len(s) + 1) /\ close \in start..(Len(s) + 1)
      /\ close + 1 \in close..(Len(s) + 1) /\ close + 1 \in p..(Len(s) + 1)
      /\ close + 1 >= start /\ close + 1 \in (p + 1)..(Len(s) + 1)
      /\ close + 1 \in start..(Len(s) + 1) /\ close + 1 \in (close + 1)..(Len(s) + 1)
  BY <1>0, <1>1
<1>3. PICK op : op = Chunk(s, start, end)
  OBVIOUS
<1>4. PICK raw : raw = Chunk(s, start, close + 1)
  OBVIOUS
<1>5. PICK list : list = Listed(kids)
  OBVIOUS
<1>6. op \in Seq(Chars)
  BY <1>2, <1>3, Chunks
<1>7. raw \in Seq(Chars)
  BY <1>2, <1>4, Chunks
<1>8. list \in Seq(Chars)
  BY <1>5
<1>9. PICK open : open = <<"[">>
  OBVIOUS
<1>10. PICK shut : shut = <<"]">>
  OBVIOUS
<1>11. "[" \in Chars /\ "]" \in Chars
  BY Zenon DEF Chars, Delimiters
<1>12. open \in Seq(Chars) /\ Dense(open) = open
  BY <1>9, <1>11, DenseOne, BlankApart
<1>13. shut \in Seq(Chars) /\ Dense(shut) = shut
  BY <1>10, <1>11, DenseOne, BlankApart
<1>14. Dense(Chunk(s, end, end + 1)) = open
  BY <1>2, <1>9, ChunkOne, BlankApart
<1>15. Dense(Chunk(s, close, close + 1)) = shut
  BY <1>2, <1>10, ChunkOne, BlankApart
<1>16. Dense(Chunk(s, start, end + 1)) = Dense(op) \o open
  BY <1>2, <1>3, <1>14, Chunks
<1>17. Dense(Chunk(s, start, close)) = (Dense(op) \o open) \o Dense(list)
  <2>1. start \in 1..(Len(s) + 1) /\ end + 1 \in start..(Len(s) + 1)
    BY <1>2
  <2>2. close \in (end + 1)..(Len(s) + 1)
    BY <1>2
  <2>3. Dense(Chunk(s, start, close))
          = Dense(Chunk(s, start, end + 1)) \o Dense(Chunk(s, end + 1, close))
    BY <2>1, <2>2, Chunks
  <2> QED
    BY <1>5, <1>16, <2>3
<1>18. Dense(raw) = ((Dense(op) \o open) \o Dense(list)) \o shut
  <2>1. start \in 1..(Len(s) + 1) /\ close \in start..(Len(s) + 1)
    BY <1>2
  <2>2. close + 1 \in close..(Len(s) + 1)
    BY <1>2
  <2>3. Dense(Chunk(s, start, close + 1))
          = Dense(Chunk(s, start, close)) \o Dense(Chunk(s, close, close + 1))
    BY <2>1, <2>2, Chunks
  <2> QED
    BY <1>4, <1>15, <1>17, <2>3, Zenon
<1>19. op \o open \in Seq(Chars) /\ Dense(op \o open) = Dense(op) \o open
  <2>1. open \in Seq(Chars)
    BY <1>12
  <2>2. op \o open \in Seq(Chars) /\ Dense(op \o open) = Dense(op) \o Dense(open)
    BY <1>6, <2>1, DenseConcat
  <2> QED
    BY <1>12, <2>2, Zenon
<1>20. /\ (op \o open) \o list \in Seq(Chars)
       /\ Dense((op \o open) \o list) = (Dense(op) \o open) \o Dense(list)
  <2>1. op \o open \in Seq(Chars)
    BY <1>19
  <2> QED
    BY <1>8, <1>19, <2>1, DenseConcat
<1>21. Dense(((op \o open) \o list) \o shut) = ((Dense(op) \o open) \o Dense(list)) \o shut
  <2>1. (op \o open) \o list \in Seq(Chars)
    BY <1>20
  <2>2. shut \in Seq(Chars)
    BY <1>13
  <2> QED
    BY <1>13, <1>20, <2>1, <2>2, DenseConcat
<1>22. Bracketed(op, kids) = ((op \o open) \o list) \o shut
  BY <1>5, <1>9, <1>10 DEF Bracketed
<1>23. PICK t : t = Node(op, kids, raw)
  OBVIOUS
<1>24. t.raw = raw /\ t.op = op /\ t.kids = kids
  BY <1>23 DEF Node
<1>25. ~IsLeaf(t)
  <2>1. start \in Int /\ end - 1 \in Int /\ \A k \in start..(end - 1) : k \in 1..Len(s)
    BY <1>0, <1>2
  <2>2. \A k \in start..(end - 1) : s[k] \in Chars
    BY <2>1, ElementOfSeq
  <2>3. Len(op) = IF start <= end - 1 THEN (end - 1) - start + 1 ELSE 0
    BY <1>3, <2>1, <2>2, SubSeqProperties DEF Chunk
  <2>4. Len(op) # 0
    BY <1>2, <2>3
  <2>5. op # <<>>
    BY <2>4
  <2> QED
    BY <1>24, <2>5 DEF IsLeaf
<1>26. Dense(raw) = Dense(Bracketed(op, kids))
  BY <1>18, <1>21, <1>22
<1>27. WrittenOut(t)
  BY <1>7, <1>24, <1>25, <1>26 DEF WrittenOut
<1>28. Kids(t) \subseteq U
  <2>1. Node(<<>>, kids, <<>>).kids = kids
    BY DEF Node
  <2> QED
    BY <1>24, <2>1 DEF Kids
<1>29. AllWrittenOut(U \cup {t})
  BY <1>27, <1>28 DEF AllWrittenOut
<1>30. t \in U \cup {t}
  OBVIOUS
<1>31. Dense(Chunk(s, p, close + 1)) = Dense(raw)
  BY <1>2, <1>4, BlanksAround
<1>32. TermAt(s, p, t, close + 1)
  BY <1>2, <1>7, <1>24, <1>29, <1>30, <1>31 DEF TermAt
<1> QED
  BY <1>3, <1>4, <1>23, <1>32

\* A term is the text it was read from, if the arguments behind its head are.
LEMMA NodeIsFaithful ==
    ASSUME NEW s \in Seq(Chars), NEW p \in 1..(Len(s) + 1), NEW args,
           \A q \in (p + 1)..(Len(s) + 1) : ArgsFaithful(s, q, args[q])
    PROVE  NodeFaithful(s, p, ReadNode(s, args, p))
<1>0. Len(s) \in Nat /\ DOMAIN s = 1..Len(s)
  BY LenProperties
<1> DEFINE start == Skip(s, p)
           end   == TokenEnd(s, start)
           first == Skip(s, end + 1)
           kids  == ArgsBehind(s, args, first)
           close == Skip(s, kids.pos)
<1>1. start \in p..(Len(s) + 1) /\ end \in start..(Len(s) + 1)
  BY TokenBounds
<1>2. ReadNode(s, args, p) = NodeOf(s, start, end, kids, close)
  BY NodeCases, Zenon
<1> HIDE DEF close, kids, first, end
<1>3. ReadNode(s, args, p) =
        IF end = start THEN Failure
        ELSE IF ~(Peek(s, start) \in Words) \/ Peek(s, end) # "["
        THEN Success(Leaf(SubSeq(s, start, end - 1)), end)
        ELSE IF kids.value = {} \/ Peek(s, close) # "]" THEN Failure
        ELSE Success(Node(SubSeq(s, start, end - 1), ValueOf(kids),
                          SubSeq(s, start, close)), close + 1)
  BY <1>2, Zenon DEF NodeOf
<1>4. SubSeq(s, start, end - 1) = Chunk(s, start, end)
  BY DEF Chunk
<1>5. CASE end = start
  BY <1>3, <1>5, Zenon DEF NodeFaithful
<1>6. CASE end # start /\ (~(Peek(s, start) \in Words) \/ Peek(s, end) # "[")
  <2>1. ReadNode(s, args, p) = Success(Leaf(Chunk(s, start, end)), end)
    BY <1>3, <1>4, <1>6, Zenon
  <2>2. TermAt(s, p, Leaf(Chunk(s, start, end)), end)
    BY <1>1, <1>6, LeafAt
  <2> QED
    BY <2>1, <2>2, Zenon DEF NodeFaithful
<1>7. CASE /\ end # start /\ Peek(s, start) \in Words /\ Peek(s, end) = "["
           /\ kids.value # {} /\ Peek(s, close) = "]"
  <2>1. end \in DOMAIN s /\ s[end] = "["
    BY <1>7 DEF Peek
  <2>2. end \in start..Len(s) /\ end + 1 \in 1..(Len(s) + 1)
    BY <1>0, <1>1, <2>1
  <2>3. first \in (end + 1)..(Len(s) + 1)
    BY <2>2, SkipBounds DEF first
  <2>4. first \in (p + 1)..(Len(s) + 1) /\ first \in 1..(Len(s) + 1)
    BY <1>0, <1>1, <2>2, <2>3
  <2>5. close \in DOMAIN s /\ s[close] = "]"
    BY <1>7 DEF Peek
  <2>6. \E list, e, U :
          /\ kids = Success(list, e) /\ e \in first..(Len(s) + 1)
          /\ Listed(list) \in Seq(Chars)
          /\ Dense(Chunk(s, first, e)) = Dense(Listed(list))
          /\ AllWrittenOut(U) /\ Kids(Node(<<>>, list, <<>>)) \subseteq U
    <3>1. CASE Peek(s, first) = "]"
      <4>1. PICK none : none = <<>>
        OBVIOUS
      <4>2. kids = Success(none, first)
        BY <3>1, <4>1 DEF kids, ArgsBehind
      <4>3. Listed(none) \in Seq(Chars) /\ Listed(none) = <<>>
        <5>1. none \in Seq(Chars) /\ Listed(none) = none
          BY <4>1, ListedNone
        <5> QED
          BY <4>1, <5>1
      <4>4. first \in Nat
        BY <1>0, <2>4
      <4>5. Dense(Chunk(s, first, first)) = Dense(Listed(none))
        BY <4>3, <4>4, ChunkNone, DenseOfNothing
      <4>6. AllWrittenOut({})
        BY DEF AllWrittenOut
      <4>7. Kids(Node(<<>>, none, <<>>)) = {}
        <5>1. DOMAIN none = {}
          BY <4>1
        <5>2. Node(<<>>, none, <<>>).kids = none
          BY DEF Node
        <5> QED
          BY <5>1, <5>2 DEF Kids
      <4>8. first \in first..(Len(s) + 1)
        BY <1>0, <2>4
      <4> QED
        BY <4>2, <4>3, <4>5, <4>6, <4>7, <4>8
    <3>2. CASE Peek(s, first) # "]"
      <4>1. kids = args[first]
        BY <3>2 DEF kids, ArgsBehind
      <4>2. ArgsFaithful(s, first, kids)
        BY <2>4, <4>1
      <4>3. kids # Failure
        BY <1>7, FailureFields
      <4>4. PICK list, e : ArgumentsAt(s, first, list, e) /\ kids = Success(list, e)
        BY <4>2, <4>3 DEF ArgsFaithful
      <4>5. /\ e \in (first + 1)..(Len(s) + 1)
            /\ Listed(list) \in Seq(Chars)
            /\ Dense(Chunk(s, first, e)) = Dense(Listed(list))
        BY <4>4 DEF ArgumentsAt
      <4>6. PICK U : AllWrittenOut(U) /\ list \in Seq(U) /\ Len(list) > 0
        BY <4>4 DEF ArgumentsAt
      <4>7. Kids(Node(<<>>, list, <<>>)) \subseteq U
        <5>1. Node(<<>>, list, <<>>).kids = list
          BY DEF Node
        <5>2. \A i \in DOMAIN list : list[i] \in U
          BY <4>6, LenProperties, ElementOfSeq
        <5> QED
          BY <5>1, <5>2 DEF Kids
      <4>8. e \in first..(Len(s) + 1)
        BY <1>0, <2>4, <4>5
      <4> QED
        BY <4>4, <4>5, <4>6, <4>7, <4>8
    <3> QED
      BY <3>1, <3>2
  <2>7. PICK list, e, U :
          /\ kids = Success(list, e) /\ e \in first..(Len(s) + 1)
          /\ Listed(list) \in Seq(Chars)
          /\ Dense(Chunk(s, first, e)) = Dense(Listed(list))
          /\ AllWrittenOut(U) /\ Kids(Node(<<>>, list, <<>>)) \subseteq U
    BY <2>6
  <2>8. kids.pos = e /\ ValueOf(kids) = list
    BY <2>7, SuccessFields
  <2>9. close = Skip(s, e) /\ e \in 1..(Len(s) + 1)
    BY <1>0, <2>4, <2>7, <2>8 DEF close
  <2>10. close \in e..(Len(s) + 1)
    BY <2>9, SkipBounds
  <2>11. close \in (end + 1)..Len(s) /\ close \in first..(Len(s) + 1) /\ close >= first
    <3>1. close \in 1..Len(s)
      BY <1>0, <2>5
    <3>2. end \in Nat /\ first \in Nat /\ e \in Nat /\ first >= end + 1 /\ e >= first /\ close >= e
      BY <1>0, <2>2, <2>3, <2>4, <2>9, <2>7, <2>10
    <3> QED
      BY <1>0, <3>1, <3>2
  <2>12. close \in (end + 1)..(Len(s) + 1)
    BY <1>0, <2>11
  <2>13. Dense(Chunk(s, end + 1, close)) = Dense(Listed(list))
    <3>1. Dense(Chunk(s, end + 1, close)) = Dense(Chunk(s, first, close))
      BY <2>2, <2>11, <2>12, BlanksAround DEF first
    <3>2. Dense(Chunk(s, first, close)) = Dense(Chunk(s, first, e))
      BY <2>4, <2>7, <2>9, BlanksAround
    <3> QED
      BY <2>7, <3>1, <3>2
  <2>14. TermAt(s, p, Node(Chunk(s, start, end), list, Chunk(s, start, close + 1)), close + 1)
    <3>1. end \in start..Len(s) /\ end # start /\ s[end] = "["
      BY <1>7, <2>1, <2>2
    <3>2. close \in (end + 1)..Len(s) /\ s[close] = "]"
      BY <2>5, <2>11
    <3>3. Listed(list) \in Seq(Chars)
      BY <2>7
    <3>4. AllWrittenOut(U) /\ Kids(Node(<<>>, list, <<>>)) \subseteq U
      BY <2>7
    <3>5. PICK b : b = start
      OBVIOUS
    <3>6. b = Skip(s, p)
      BY <3>5
    <3>7. TermAt(s, p, Node(Chunk(s, b, end), list, Chunk(s, b, close + 1)), close + 1)
      <4> HIDE DEF start
      <4> QED
        BY <2>13, <3>1, <3>2, <3>3, <3>4, <3>5, <3>6, OperatorAt
    <3> QED
      BY <3>5, <3>7
  <2>15. SubSeq(s, start, close) = Chunk(s, start, close + 1)
    <3>1. close \in Int
      BY <1>0, <2>5
    <3>2. (close + 1) - 1 = close
      BY <3>1
    <3> QED
      BY <3>2, Zenon DEF Chunk
  <2>16. ReadNode(s, args, p) =
           Success(Node(Chunk(s, start, end), list, Chunk(s, start, close + 1)), close + 1)
    BY <1>3, <1>4, <1>7, <2>8, <2>15, Zenon
  <2> QED
    BY <2>14, <2>16, Zenon DEF NodeFaithful
<1>8. CASE /\ end # start /\ Peek(s, start) \in Words /\ Peek(s, end) = "["
           /\ (kids.value = {} \/ Peek(s, close) # "]")
  BY <1>3, <1>8, Zenon DEF NodeFaithful
<1> QED
  BY <1>5, <1>6, <1>7, <1>8

\* So are the arguments.
LEMMA ArgsAreFaithful ==
    ASSUME NEW s \in Seq(Chars), NEW p \in 1..(Len(s) + 1), NEW args,
           \A q \in (p + 1)..(Len(s) + 1) : ArgsFaithful(s, q, args[q])
    PROVE  ArgsFaithful(s, p, ArgsFrom(s, args, p))
<1>0. Len(s) \in Nat /\ DOMAIN s = 1..Len(s)
  BY LenProperties
<1> DEFINE kid == ReadNode(s, args, p)
           next == Skip(s, kid.pos)
           rest == IF Peek(s, next) = "," THEN args[next + 1] ELSE Success(<<>>, next)
<1>1. ArgsFrom(s, args, p) =
        IF kid.value = {} \/ rest.value = {} THEN Failure
        ELSE Success(<<ValueOf(kid)>> \o ValueOf(rest), rest.pos)
  BY DEF ArgsFrom, ArgsAfter
<1>2. NodeFaithful(s, p, kid)
  BY NodeIsFaithful
<1>3. rest = IF Peek(s, next) = "," THEN args[next + 1] ELSE Success(<<>>, next)
  OBVIOUS
<1> HIDE DEF rest, next, kid
<1>4. CASE kid.value = {} \/ rest.value = {}
  BY <1>1, <1>4, Zenon DEF ArgsFaithful
<1>5. CASE kid.value # {} /\ rest.value # {}
  <2>1. kid # Failure
    BY <1>5, FailureFields
  <2>2. PICK t, e : TermAt(s, p, t, e) /\ kid = Success(t, e)
    BY <1>2, <2>1 DEF NodeFaithful
  <2>3. kid.pos = e /\ ValueOf(kid) = t
    BY <2>2, SuccessFields
  <2>4. /\ e \in (p + 1)..(Len(s) + 1) /\ t.raw \in Seq(Chars)
        /\ Dense(Chunk(s, p, e)) = Dense(t.raw)
    BY <2>2 DEF TermAt
  <2>5. PICK U : AllWrittenOut(U) /\ t \in U
    BY <2>2 DEF TermAt
  <2>6. next = Skip(s, e) /\ e \in 1..(Len(s) + 1) /\ e \in p..(Len(s) + 1)
    BY <1>0, <2>3, <2>4 DEF next
  <2>7. next \in e..(Len(s) + 1)
    BY <2>6, SkipBounds
  <2>8. next \in (p + 1)..(Len(s) + 1)
    BY <1>0, <2>4, <2>7
  <2>9. Dense(Chunk(s, p, next)) = Dense(t.raw)
    BY <2>4, <2>6, BlanksAround
  <2>10. PICK one : one = <<t>>
    OBVIOUS
  <2>11. one \in Seq(U) /\ Len(one) = 1
    BY <2>5, <2>10
  <2>12. CASE Peek(s, next) = ","
    <3>1. next \in DOMAIN s /\ s[next] = ","
      BY <2>12 DEF Peek
    <3>2. /\ next \in 1..Len(s) /\ next + 1 \in (p + 1)..(Len(s) + 1) /\ next \in p..(Len(s) + 1)
          /\ next + 1 \in next..(Len(s) + 1) /\ next + 1 \in p..(Len(s) + 1)
      <4>1. next \in 1..Len(s)
        BY <1>0, <3>1
      <4>2. p \in Nat /\ next \in Nat /\ next >= p + 1
        BY <1>0, <2>8
      <4> QED
        BY <1>0, <4>1, <4>2
    <3>3. ArgsFaithful(s, next + 1, rest)
      BY <1>3, <2>12, <3>2
    <3>4. rest # Failure
      BY <1>5, FailureFields
    <3>5. PICK r, f : ArgumentsAt(s, next + 1, r, f) /\ rest = Success(r, f)
      BY <3>3, <3>4 DEF ArgsFaithful
    <3>6. /\ f \in ((next + 1) + 1)..(Len(s) + 1) /\ Listed(r) \in Seq(Chars)
          /\ Dense(Chunk(s, next + 1, f)) = Dense(Listed(r))
      BY <3>5 DEF ArgumentsAt
    <3>7. PICK V : AllWrittenOut(V) /\ r \in Seq(V) /\ Len(r) > 0
      BY <3>5 DEF ArgumentsAt
    <3>8. rest.pos = f /\ ValueOf(rest) = r
      BY <3>5, SuccessFields
    <3> DEFINE W == U \cup V
    <3>9. AllWrittenOut(W) /\ t \in W
      BY <2>5, <3>7 DEF AllWrittenOut
    <3>10. r \in Seq(W)
      BY <3>7, SeqMonotonic
    <3>11. one \in Seq(W)
      BY <2>11, SeqMonotonic
    <3> HIDE DEF W
    <3>12. one \o r \in Seq(W) /\ Len(one \o r) > 0
      <4>1. one \o r \in Seq(W) /\ Len(one \o r) = Len(one) + Len(r) /\ Len(r) \in Nat
        BY <3>10, <3>11, ConcatProperties, LenProperties
      <4> QED
        BY <2>11, <4>1
    <3>13. Listed(one \o r) = t.raw \o (<<",">> \o Listed(r))
      BY <2>10, <3>7, <3>9, <3>10, ListedMore
    <3>14. PICK comma : comma = <<",">>
      OBVIOUS
    <3>15. "," \in Chars
      BY Zenon DEF Chars, Delimiters
    <3>16. comma \in Seq(Chars) /\ Dense(comma) = comma
      BY <3>14, <3>15, DenseOne, BlankApart
    <3>17. Dense(Chunk(s, next, next + 1)) = comma
      BY <3>1, <3>2, <3>14, ChunkOne, BlankApart
    <3>18. PICK a : a = t.raw
      OBVIOUS
    <3>19. PICK b : b = Listed(r)
      OBVIOUS
    <3>20. a \in Seq(Chars)
      BY <2>4, <3>18
    <3>21. b \in Seq(Chars)
      BY <3>6, <3>19
    <3>22. comma \in Seq(Chars)
      BY <3>16
    <3>23. comma \o b \in Seq(Chars) /\ Dense(comma \o b) = comma \o Dense(b) /\ Dense(b) \in Seq(Chars)
      <4>1. /\ comma \o b \in Seq(Chars) /\ Dense(b) \in Seq(Chars)
            /\ Dense(comma \o b) = Dense(comma) \o Dense(b)
        BY <3>21, <3>22, DenseConcat
      <4> QED
        BY <3>16, <4>1, Zenon
    <3>24. comma \o b \in Seq(Chars)
      BY <3>23
    <3>25. /\ a \o (comma \o b) \in Seq(Chars) /\ Dense(a) \in Seq(Chars)
           /\ Dense(a \o (comma \o b)) = Dense(a) \o (comma \o Dense(b))
      <4>1. PICK c : c = comma \o b
        OBVIOUS
      <4>2. c \in Seq(Chars)
        BY <3>24, <4>1
      <4>3. /\ a \o c \in Seq(Chars) /\ Dense(a) \in Seq(Chars)
            /\ Dense(a \o c) = Dense(a) \o Dense(c)
        BY <3>20, <4>2, DenseConcat
      <4> QED
        BY <3>23, <4>1, <4>3, Zenon
    <3>26. Dense(Chunk(s, p, next + 1)) = Dense(a) \o comma
      BY <2>9, <3>2, <3>17, <3>18, Chunks
    <3>27. Dense(Chunk(s, p, f)) = (Dense(a) \o comma) \o Dense(b)
      <4>1. f \in (next + 1)..(Len(s) + 1)
        BY <1>0, <3>2, <3>6
      <4> QED
        BY <3>2, <3>6, <3>19, <3>26, <4>1, Chunks
    <3>28. PICK x : x = Dense(a)
      OBVIOUS
    <3>29. PICK y : y = Dense(b)
      OBVIOUS
    <3>30. x \in Seq(Chars)
      BY <3>25, <3>28
    <3>31. y \in Seq(Chars)
      BY <3>23, <3>29
    <3>32. (x \o comma) \o y = x \o (comma \o y)
      <4>1. Regrouped(x, comma, y)
        BY <3>22, <3>30, <3>31, ConcatRegrouped
      <4> QED
        BY <4>1, Zenon DEF Regrouped
    <3>33. Listed(one \o r) = a \o (comma \o b)
      BY <3>13, <3>14, <3>18, <3>19
    <3>34. Dense(Chunk(s, p, f)) = Dense(Listed(one \o r))
      BY <3>25, <3>27, <3>28, <3>29, <3>32, <3>33
    <3>35. f \in (p + 1)..(Len(s) + 1)
      BY <1>0, <2>8, <3>6
    <3>36. Listed(one \o r) \in Seq(Chars)
      BY <3>25, <3>33
    <3>37. ArgumentsAt(s, p, one \o r, f)
      BY <3>9, <3>12, <3>34, <3>35, <3>36 DEF ArgumentsAt
    <3>38. ArgsFrom(s, args, p) = Success(one \o r, f)
      BY <1>1, <1>5, <2>3, <2>10, <3>8, Zenon
    <3> QED
      BY <3>37, <3>38, Zenon DEF ArgsFaithful
  <2>13. CASE Peek(s, next) # ","
    <3>1. rest = Success(<<>>, next)
      BY <1>3, <2>13, Zenon
    <3>2. rest.pos = next /\ ValueOf(rest) = <<>>
      BY <3>1, SuccessFields
    <3>3. one \o <<>> = one
      BY <2>11, ConcatEmptySeq
    <3>4. Listed(one) = t.raw
      BY <2>4, <2>10, ListedOne
    <3>5. ArgumentsAt(s, p, one, next)
      BY <2>4, <2>5, <2>8, <2>9, <2>11, <3>4 DEF ArgumentsAt
    <3>6. ArgsFrom(s, args, p) = Success(one \o <<>>, next)
      BY <1>1, <1>5, <2>3, <2>10, <3>2, Zenon
    <3> QED
      BY <3>3, <3>5, <3>6 DEF ArgsFaithful
  <2> QED
    BY <2>12, <2>13
<1> QED
  BY <1>4, <1>5

\* Every term the loop of node can meet is faithful to the text.
LEMMA ReadingIsFaithful ==
    ASSUME NEW s \in Seq(Chars), NEW p \in 1..(Len(s) + 1)
    PROVE  NodeFaithful(s, p, ReadNode(s, ReadArgs(s), p))
<1>0. Len(s) \in Nat
  BY LenProperties
<1> DEFINE n == Len(s) + 1
           args == ReadArgs(s)
           Faithful == {m \in 0..n : \A q \in (n + 1 - m)..n : ArgsFaithful(s, q, args[q])}
<1>1. 0 \in Faithful
  BY <1>0
<1>2. ASSUME NEW m \in 0..n, m \in Faithful, m < n
      PROVE  m + 1 \in Faithful
  <2> DEFINE q == n - m
  <2>1. q \in 1..(Len(s) + 1) /\ m + 1 \in 0..n /\ n + 1 - (m + 1) = q /\ n + 1 - m = q + 1
    BY <1>0, <1>2
  <2>2. \A r \in (q + 1)..(Len(s) + 1) : ArgsFaithful(s, r, args[r])
    BY <1>2, <2>1
  <2> HIDE DEF q
  <2>3. args[q] = ArgsFrom(s, args, q)
    BY <2>1, ReadArgsIs
  <2> HIDE DEF args
  <2>4. ArgsFaithful(s, q, args[q])
    BY <2>1, <2>2, <2>3, ArgsAreFaithful
  <2>5. \A r \in q..n : r = q \/ r \in (q + 1)..(Len(s) + 1)
    BY <1>0, <2>1
  <2>6. \A r \in q..n : ArgsFaithful(s, r, args[r])
    BY <2>2, <2>4, <2>5
  <2> QED
    BY <2>1, <2>6
<1> HIDE DEF Faithful
<1>3. n \in Faithful
  <2>1. n \in Nat /\ n \in 0..n
    BY <1>0
  <2> HIDE DEF n
  <2>2. 0..n \subseteq Faithful
    BY <1>1, <1>2, <2>1, UpTheNumbers
  <2> QED
    BY <2>1, <2>2
<1>4. \A q \in 1..n : ArgsFaithful(s, q, args[q])
  <2>1. n + 1 - n = 1
    BY <1>0
  <2> QED
    BY <1>3, <2>1 DEF Faithful
<1>5. \A q \in (p + 1)..(Len(s) + 1) : q \in 1..n
  BY <1>0
<1> HIDE DEF args
<1>6. NodeFaithful(s, p, ReadNode(s, args, p))
  BY <1>4, <1>5, NodeIsFaithful
<1> QED
  BY <1>6 DEF args

\* What Parse accepts.
LEMMA ParsedIsFaithful ==
    ASSUME NEW s \in Seq(Chars), NEW n \in Parse(s)
    PROVE  /\ Dense(n.raw) = Dense(s)
           /\ \A t \in Subterms(n) : WrittenOut(t)
<1>0. Len(s) \in Nat
  BY LenProperties
<1>1. PICK read : read = ReadNode(s, ReadArgs(s), 1)
  OBVIOUS
<1>2. Parse(s) = IF read.value # {} /\ Skip(s, read.pos) = Len(s) + 1 THEN read.value ELSE {}
  BY <1>1 DEF Parse, ReadTerm
<1>3. read.value # {} /\ Skip(s, read.pos) = Len(s) + 1 /\ n \in read.value
  BY <1>2
<1>4. 1 \in 1..(Len(s) + 1)
  BY <1>0
<1>5. NodeFaithful(s, 1, read)
  BY <1>1, <1>4, ReadingIsFaithful
<1>6. read # Failure
  BY <1>3, FailureFields
<1>7. PICK t, e : TermAt(s, 1, t, e) /\ read = Success(t, e)
  BY <1>5, <1>6 DEF NodeFaithful
<1>8. n = t /\ read.pos = e
  BY <1>3, <1>7, SuccessFields
<1>9. /\ e \in (1 + 1)..(Len(s) + 1) /\ n.raw \in Seq(Chars)
      /\ Dense(Chunk(s, 1, e)) = Dense(n.raw)
  BY <1>7, <1>8 DEF TermAt
<1>10. PICK U : AllWrittenOut(U) /\ n \in U
  BY <1>7, <1>8 DEF TermAt
<1>11. Dense(Chunk(s, 1, Len(s) + 1)) = Dense(n.raw)
  <2>1. e \in 1..(Len(s) + 1)
    BY <1>0, <1>9
  <2>2. Dense(Chunk(s, 1, Skip(s, e))) = Dense(Chunk(s, 1, e))
    BY <1>4, <2>1, BlanksAround
  <2> QED
    BY <1>3, <1>8, <1>9, <2>2
<1>12. Chunk(s, 1, Len(s) + 1) = s
  <2>1. (Len(s) + 1) - 1 = Len(s)
    BY <1>0
  <2> QED
    BY <2>1, SubSeqFull DEF Chunk
<1>13. Len(n.raw) \in Nat
  BY <1>9, LenProperties
<1>14. \A u \in U : Kids(u) \subseteq U
  BY <1>10 DEF AllWrittenOut
<1>15. Subterms(n) \subseteq U
  BY <1>10, <1>13, <1>14, SubtermsIn
<1> QED
  BY <1>10, <1>11, <1>12, <1>15 DEF AllWrittenOut

\* The reader of feature.go leaves nothing out and makes nothing up, whatever the
\* text: what it accepts is the text of the term it returns, blanks aside, and so
\* are the texts of all subterms.
THEOREM NothingDroppedHolds == FeatureSpec => []NothingDropped
<1>1. ItemIsFine => NothingDropped
  <2> SUFFICES ASSUME ItemIsFine, item.what = "text", NEW n \in Parse(item.text)
               PROVE  /\ Dense(n.raw) = Dense(item.text)
                      /\ \A t \in Subterms(n) :
                           Dense(t.raw) = Dense(IF IsLeaf(t) THEN t.leaf
                                                ELSE Bracketed(t.op, t.kids))
    BY DEF NothingDropped
  <2>1. PICK s \in Seq(Chars) : item = Text(s)
    BY DEF ItemIsFine, Fine, Terms, Exponent
  <2>2. item.text = s
    BY <2>1 DEF Text
  <2>3. n \in Parse(s)
    BY <2>2
  <2>4. Dense(n.raw) = Dense(s) /\ \A t \in Subterms(n) : WrittenOut(t)
    BY <2>3, ParsedIsFaithful
  <2> QED
    BY <2>2, <2>4 DEF WrittenOut
<1> QED
  BY <1>1, ItemsAreFine, PTL

=============================================================================
