---------------------------- MODULE LatexPrinter ----------------------------
(***************************************************************************)
(* Package latexfmt: from an expression as go-canonical parses it to LaTeX *)
(* that shows it.  The text is a sequence of TeX tokens, a number one per  *)
(* digit; blanks and thin spaces, which show nothing, are left out.        *)
(***************************************************************************)
EXTENDS Texts, SequencesExt

CONSTANTS
    Greek,           \* greek: a partial function from names to TeX tokens
    GreekCapital,    \* greekCapital, likewise
    Escapes,         \* names \[Inner]: [inner, lower case, that after Capital]
    StringAtoms,     \* what is between the quotes of a string atom
    Letters,         \* the names that are one letter
    ConstantTex,     \* constName: a partial function from constants to tokens
    FuncNames,       \* funcNames: a partial function from heads to tokens
    SubscriptFuncs,  \* subscriptFuncs, likewise
    None             \* no expression

precRel   == 10
precPlus  == 20
precTimes == 40
precPow   == 60
precAtom  == 100

-----------------------------------------------------------------------------
\* Expressions, before normalization.

Const(num, den) == [kind |-> "const", num |-> num, den |-> den]
Var(name)       == [kind |-> "free", name |-> name]
Sym(name)       == [kind |-> "sym", name |-> name]
Op(op, kids)    == [kind |-> "op", op |-> op, bind |-> "", kids |-> kids]
Binder(op, bind, kids) == [kind |-> "op", op |-> op, bind |-> bind, kids |-> kids]

IsConst(e)    == e.kind = "const"
IsNegative(e) == IsConst(e) /\ e.num < 0
IsOp(e, op, arity) == e.kind = "op" /\ e.op = op /\ Len(e.kids) = arity
Negated(e)    == Const(-e.num, e.den)

-----------------------------------------------------------------------------
\* Tokens.

MinusSign(negative) == IF negative THEN <<"-">> ELSE <<>>
Braced(tex) == <<"{">> \o tex \o <<"}">>
Paren(tex)  == <<"\\left(">> \o tex \o <<"\\right)">>
Frac(num, den) == <<"\\frac">> \o Braced(num) \o Braced(den)
Root(tex)   == <<"\\sqrt">> \o Braced(tex)

Upright(command, name) == <<command, "{", name, "}">>

Symbol(name) ==
    LET escaped == name \in DOMAIN Escapes
        capital == IF escaped THEN Escapes[name].capital ELSE ""
        plain   == IF escaped THEN Escapes[name].lower ELSE name
    IN
    CASE capital \in DOMAIN GreekCapital -> <<GreekCapital[capital]>>
      [] capital \notin DOMAIN GreekCapital /\ plain \in DOMAIN Greek -> <<Greek[plain]>>
      [] OTHER -> IF escaped THEN Upright("\\mathrm", Escapes[name].inner)
                  ELSE IF name = "" THEN <<>>
                  ELSE IF name \in Letters THEN <<name>>
                  ELSE Upright("\\mathrm", name)

ConstName(name) ==
    IF name \in DOMAIN StringAtoms THEN Upright("\\text", StringAtoms[name])
    ELSE IF name \in DOMAIN ConstantTex THEN <<ConstantTex[name]>>
    ELSE Upright("\\mathrm", name)

-----------------------------------------------------------------------------
\* render returns TeX and how tightly it binds.

Rendered(tex, prec) == [tex |-> tex, prec |-> prec]

RECURSIVE Render(_)

LaTeX(e) == Render(e).tex

\* Mutant: arguments are never bracketed.
ArgLoose(e, need) == LaTeX(e)

\* arg: wrapped in brackets if it binds less tightly than its context needs.
Arg(e, need) ==
    LET r == Render(e) IN IF r.prec < need THEN Paren(r.tex) ELSE r.tex

Joined(parts, separator) ==
    FoldLeft(LAMBDA all, p : IF all = <<>> THEN p ELSE all \o separator \o p,
             <<>>, parts)

JoinArgs(kids) == Joined([i \in DOMAIN kids |-> LaTeX(kids[i])], <<",">>)
JoinRel(kids, rel) ==
    Joined([i \in DOMAIN kids |-> Arg(kids[i], precRel + 1)], <<rel>>)

\* The value is printed as an atom, with its sign.
RenderRat(e) ==
    LET abs == IF e.num < 0 THEN -e.num ELSE e.num IN
    MinusSign(e.num < 0) \o
        (IF e.den = 1 THEN Decimal(abs) ELSE Frac(Decimal(abs), Decimal(e.den)))

\* signedTerm and the loop of renderPlus.
SignedTerm(e) ==
    IF IsNegative(e) THEN [sign |-> <<"-">>, tex |-> RenderRat(Negated(e))]
    ELSE IF IsOp(e, "Minus", 1)
    THEN [sign |-> <<"-">>, tex |-> Arg(e.kids[1], precPlus + 1)]
    ELSE [sign |-> <<"+">>, tex |-> Arg(e, precPlus)]

RenderPlus(kids) ==
    LET term(i) == LET t == SignedTerm(kids[i]) IN
                   IF i = 1 /\ t.sign = <<"+">> THEN t.tex ELSE t.sign \o t.tex
    IN  FlattenSeq([i \in DOMAIN kids |-> term(i)])

IsFractionBase(e) ==
    IF IsConst(e) THEN e.den # 1 ELSE IsOp(e, "Divide", 2)

RenderPower(base, exp) ==
    LET is(num, den) == IsConst(exp) /\ exp.num = num /\ exp.den = den IN
    IF is(1, 2) THEN Rendered(Root(LaTeX(base)), precAtom)
    ELSE IF is(-1, 2) THEN Rendered(Frac(<<"1">>, Root(LaTeX(base))), precAtom)
    ELSE IF is(-1, 1) THEN Rendered(Frac(<<"1">>, Arg(base, precPow)), precAtom)
    ELSE Rendered((IF IsFractionBase(base) THEN Paren(LaTeX(base))
                   ELSE Arg(base, precPow)) \o <<"^">> \o Braced(LaTeX(exp)), precPow)

\* A dot keeps two digits apart.
JoinProduct(parts) ==
    FoldLeft(LAMBDA all, p :
               IF all # <<>> /\ p # <<>> /\ {Last(all), Head(p)} \subseteq DigitSet
               THEN all \o <<"\\cdot">> \o p ELSE all \o p,
             <<>>, parts)

\* A factor of renderTimes, its minus signs pulled out, in the numerator or, if it
\* is a reciprocal power, in the denominator.  -1 leaves only its sign.
RECURSIVE Factor(_)
Factor(f) ==
    IF IsOp(f, "Minus", 1) THEN LET g == Factor(f.kids[1]) IN [g EXCEPT !.negative = ~@]
    ELSE IF IsNegative(f)
    THEN [negative |-> TRUE, den |-> <<>>,
          num |-> IF f.num = -1 /\ f.den = 1 THEN <<>> ELSE <<RenderRat(Negated(f))>>]
    ELSE IF IsOp(f, "Power", 2) /\ IsNegative(f.kids[2])
    THEN LET exp == Negated(f.kids[2]) IN
         [negative |-> FALSE, num |-> <<>>,
          den |-> <<IF exp = Const(1, 1) THEN Arg(f.kids[1], precPow)
                    ELSE RenderPower(f.kids[1], exp).tex>>]
    ELSE [negative |-> FALSE, num |-> <<Arg(f, precTimes)>>, den |-> <<>>]

RenderTimes(kids) ==
    LET factors == [i \in DOMAIN kids |-> Factor(kids[i])]
        num == JoinProduct(FlattenSeq([i \in DOMAIN kids |-> factors[i].num]))
        den == FlattenSeq([i \in DOMAIN kids |-> factors[i].den])
        top == IF num = <<>> THEN <<"1">> ELSE num
        odd == Len(SelectSeq(factors, LAMBDA f : f.negative)) % 2 = 1
    IN  MinusSign(odd) \o (IF den = <<>> THEN top ELSE Frac(top, JoinProduct(den)))

\* Kids are [lower, upper, body], or [body].
RenderBinder(e) ==
    LET k == e.kids
        v == Symbol(e.bind)
        integral == e.op = "Integrate"
        sign == CASE integral -> <<"\\int">> [] e.op = "Sum" -> <<"\\sum">>
                  [] e.op = "Product" -> <<"\\prod">>
        from == IF integral THEN LaTeX(k[1]) ELSE v \o <<"=">> \o LaTeX(k[1])
        bounds == CASE Len(k) = 3 -> <<"_">> \o Braced(from)
                                        \o <<"^">> \o Braced(LaTeX(k[2]))
                    [] Len(k) = 1 -> IF integral THEN <<>> ELSE <<"_">> \o Braced(v)
    IN  IF Len(k) \notin {1, 3} THEN sign
        ELSE sign \o bounds \o Arg(k[Len(k)], precTimes)
               \o (IF integral THEN <<"d">> \o v ELSE <<>>)

Applied(tex, kids) == Rendered(tex \o Paren(JoinArgs(kids)), precPow)

\* The relations, and what encloses one argument or two.
Relations ==
    [Equal |-> "=", Unequal |-> "\\neq", Less |-> "<", LessEqual |-> "\\leq",
     Greater |-> ">", GreaterEqual |-> "\\geq"]
Enclosing ==
    [Abs |-> <<"\\left|", "\\right|">>,
     Floor |-> <<"\\left\\lfloor", "\\right\\rfloor">>,
     Ceiling |-> <<"\\left\\lceil", "\\right\\rceil">>]
Stacked == [Divide |-> "\\frac", Binomial |-> "\\binom"]

\* The cases of renderOp; a head with another number of arguments falls through
\* to the names and, at last, to \operatorname.
RenderOp(e) ==
    LET k == e.kids
        is(op, arity) == IsOp(e, op, arity)
    IN
    CASE e.op = "Plus" -> Rendered(RenderPlus(k), precPlus)
      [] is("Subtract", 2) ->
           Rendered(Arg(k[1], precPlus) \o <<"-">> \o Arg(k[2], precPlus + 1), precPlus)
      [] is("Minus", 1) -> Rendered(<<"-">> \o Arg(k[1], precPlus + 1), precPlus)
      [] e.op = "Times" -> Rendered(RenderTimes(k), precTimes)
      [] is("Power", 2) -> RenderPower(k[1], k[2])
      [] is("Exp", 1) -> Rendered(<<"e", "^">> \o Braced(LaTeX(k[1])), precPow)
      [] is("Sqrt", 1) -> Rendered(Root(LaTeX(k[1])), precAtom)
      [] is("Factorial", 1) -> Rendered(Arg(k[1], precPow) \o <<"!">>, precPow)
      [] is("Subscript", 2) ->
           Rendered(Arg(k[1], precAtom) \o <<"_">> \o Braced(LaTeX(k[2])), precPow)
      [] e.op \in DOMAIN Stacked /\ Len(k) = 2 ->
           Rendered(<<Stacked[e.op]>> \o Braced(LaTeX(k[1])) \o Braced(LaTeX(k[2])), precAtom)
      [] e.op \in DOMAIN Enclosing /\ Len(k) = 1 ->
           Rendered(<<Enclosing[e.op][1]>> \o LaTeX(k[1]) \o <<Enclosing[e.op][2]>>, precAtom)
      [] e.op \in {"Integrate", "Sum", "Product"} -> Rendered(RenderBinder(e), precTimes)
      [] e.op \in DOMAIN Relations -> Rendered(JoinRel(k, Relations[e.op]), precRel)
      [] is("Rule", 2) -> Rendered(LaTeX(k[1]) \o <<"\\to">> \o LaTeX(k[2]), precRel)
      [] is("Log", 2) ->
           Rendered(<<"\\log", "_">> \o Braced(LaTeX(k[1])) \o Arg(k[2], precPow), precPow)
      [] OTHER ->
           IF e.op \in DOMAIN FuncNames THEN Applied(<<FuncNames[e.op]>>, k)
           ELSE IF e.op \in DOMAIN SubscriptFuncs /\ k # <<>>
           THEN Applied(<<SubscriptFuncs[e.op], "_">> \o Braced(LaTeX(k[1])), Tail(k))
           ELSE Applied(Upright("\\operatorname", e.op), k)

Render(e) ==
    CASE e.kind = "const" -> Rendered(RenderRat(e), precAtom)
      [] e.kind = "free"  -> Rendered(Symbol(e.name), precAtom)
      [] e.kind = "sym"   -> Rendered(ConstName(e.name), precAtom)
      [] e.kind = "op"    -> RenderOp(e)
      [] OTHER            -> Rendered(<<>>, precAtom)

\* What is stored of an entry; None for a side that is missing or not parsed.
Identity(lhs, rhs) ==
    LET tex(e) == IF e = None THEN <<>> ELSE LaTeX(e)
    IN  tex(lhs) \o (IF lhs # None /\ rhs # None THEN <<"=">> ELSE <<>>) \o tex(rhs)

=============================================================================
