---------------------------- MODULE Expressions ----------------------------
(***************************************************************************)
(* Features and LatexPrinter on every small input: the inputs of           *)
(* FeatureInputs, and formulas built one head at a time, of which is       *)
(* compared what they mean with what the printer shows.                    *)
(***************************************************************************)
EXTENDS FeatureInputs, LatexPrinter

CONSTANTS
    FormulaAtoms,    \* formulas: constants and variables
    OuterAtoms,      \* those that stand beside a formula with a head
    Unary, Binary,   \* heads of formulas
    Bound,           \* the variable of sums and products
    Modulus, Assigned \* the values of names, modulo a prime

-----------------------------------------------------------------------------
\* Inputs.

Formula(e, heads) == [what |-> "formula", formula |-> e, heads |-> heads]

FormulasOver(e, beside) ==
    {Op(h, <<e>>) : h \in Unary}
      \cup {Op(h, <<e, a>>) : h \in Binary, a \in beside}
      \cup {Op(h, <<a, e>>) : h \in Binary, a \in beside}
      \cup {Binder(h, Bound, <<e>>) : h \in {"Sum", "Product", "Integrate"}}
      \cup {Binder("Sum", Bound, <<Const(2, 1), Const(3, 1), e>>)}

Simple == UNION {FormulasOver(a, FormulaAtoms) : a \in FormulaAtoms}
Formulas == FormulaAtoms \cup Simple \cup UNION {FormulasOver(e, OuterAtoms) : e \in Simple}

Init == FeatureInit \/ \E a \in FormulaAtoms : item = Formula(a, 0)

BuildFormula ==
    /\ item.what = "formula"
    /\ item.heads < 2
    /\ \E e \in FormulasOver(item.formula,
                             IF item.heads = 0 THEN FormulaAtoms ELSE OuterAtoms) :
         item' = Formula(e, item.heads + 1)

Next == FeatureNext \/ BuildFormula

Spec == Init /\ [][Next]_item

-----------------------------------------------------------------------------
\* What formulas mean.

Reciprocal == [x \in 0..(Modulus - 1) |->
              IF x = 0 THEN 0 ELSE CHOOSE y \in 1..(Modulus - 1) : (x * y) % Modulus = 1]

\* Some value for each head and arguments.
Mixed(seed, args) == FoldLeft(LAMBDA n, a : (31 * n + a * a + 7) % Modulus, seed, args)

\* Some power: the negative ones are inverses.
Positive(b, v) == IF v = 1 THEN b ELSE (b * b * b + 7 * v * b + v * v + 5) % Modulus
Raised(b, v) == IF 2 * v < Modulus THEN Positive(b, v)
                ELSE Reciprocal[Positive(b, Modulus - v)]

Half == (Modulus + 1) \div 2

RECURSIVE Value(_)
Value(e) ==
    LET v == [i \in DOMAIN e.kids |-> Value(e.kids[i])]
        neg(x) == (Modulus - x) % Modulus
    IN
    CASE e.kind = "const" -> (e.num * Reciprocal[e.den]) % Modulus
      [] e.kind # "op" -> Assigned[e.name]
      [] e.kind = "op" ->
           CASE e.op = "Plus" -> (v[1] + v[2]) % Modulus
             [] e.op = "Subtract" -> (v[1] + neg(v[2])) % Modulus
             [] e.op = "Minus" -> neg(v[1])
             [] e.op = "Times" -> (v[1] * v[2]) % Modulus
             [] e.op = "Divide" -> (v[1] * Reciprocal[v[2]]) % Modulus
             [] e.op = "Power" -> Raised(v[1], v[2])
             [] e.op = "Sqrt" -> Raised(v[1], Half)
             [] e.op = "Exp" -> Raised(Assigned["E"], v[1])
             [] OTHER -> Mixed(Assigned[e.op], v)

-----------------------------------------------------------------------------

(***************************************************************************)
(* The printer counts these among products or atoms, although a reader     *)
(* takes less, or more, to belong to them: a negative number and a base-b  *)
(* logarithm that is raised to a power or has a factorial; in a product, a *)
(* product with a sign, and a sum or a product sign that is not last.      *)
(***************************************************************************)
Operand(e) == IF e.op \in {"Power", "Factorial"} THEN {e.kids[1]} ELSE {}
Factors(e) == IF e.op = "Times" THEN DOMAIN e.kids ELSE {}
Signed(e) == e.kind = "op" /\ e.op = "Times" /\ Head(LaTeX(e)) = "-"

RECURSIVE Bare(_)
Bare(e) ==
    /\ e.kind = "op"
    /\ \/ \E x \in Operand(e) : IsNegative(x) \/ IsOp(x, "Log", 2)
       \/ \E i \in Factors(e) :
            \/ Signed(e.kids[i])
            \/ i < Len(e.kids) /\ e.kids[i].kind = "op" /\ e.kids[i].op \in {"Sum", "Product"}
       \/ \E i \in DOMAIN e.kids : Bare(e.kids[i])

Printed == {<<LaTeX(f), Value(f)>> : f \in {f \in Formulas : ~Bare(f)}}

\* With these apart, the printer of latex.go never prints two formulas with
\* different values alike: every bracket that is needed is there.
PrintedApart ==
    item.what = "formula" /\ ~Bare(item.formula) =>
        LET tex == LaTeX(item.formula)
            value == Value(item.formula)
        IN  \A p \in Printed : p[1] = tex => p[2] = value

\* "Always complete and correct": what the printer prints alike means the same.
PrintedCorrectly ==
    item.what = "formula" =>
        \A f \in Formulas : LaTeX(f) = LaTeX(item.formula) =>
                               Value(f) = Value(item.formula)

=============================================================================
