--------------------------- MODULE MCExpressions ---------------------------
(***************************************************************************)
(* An instance of Expressions for TLC.                                     *)
(***************************************************************************)
EXTENDS Expressions, TLC

MCGreek == "alpha" :> "\\alpha"
MCGreekCapital == "omega" :> "\\Omega"
MCEscapes ==
    "\\[Alpha]" :> [inner |-> "Alpha", lower |-> "alpha", capital |-> ""]
    @@ "\\[CapitalOmega]" :> [inner |-> "CapitalOmega", lower |-> "capitalomega",
                              capital |-> "omega"]
    @@ "\\[Foo]" :> [inner |-> "Foo", lower |-> "foo", capital |-> ""]
MCStringAtoms == "\"x\"" :> "x"
MCConstantTex == "Pi" :> "\\pi" @@ "E" :> "e"
MCFuncNames == "Sin" :> "\\sin" @@ "Log" :> "\\ln"
MCSubscriptFuncs == "BesselJ" :> "J"

MCOpFacet == <<"Sum">> :> "sum" @@ <<"Sin">> :> "trigonometric"
MCNamedFacet == <<"$", "Pi">> :> "has-pi"

MCAlphabet == {"F", "1", "#", "$", "\"", "[", "]", ",", " "}
\* Two numbers, which generalize to one token, and a name that is also a head.
MCTermLeaves == {<<"#", "1">>, <<"#", "0">>, <<"v", "1">>, <<"F">>,
                 <<"$", "\"", "f", ",", "]", " ", "\"">>}

MCFormulaAtoms == {Var("a"), Var("\\[CapitalOmega]"), Const(2, 1), Const(22, 1), Const(-1, 1),
                   Const(-1, 2)}
PlainAtoms == {Var("a"), Const(2, 1)}
MCOuterAtoms == {Var("a"), Const(2, 1)}

MCAssigned ==
    "a" :> 17 @@ "\\[CapitalOmega]" :> 29 @@ "k" :> 41 @@ "E" :> 53 @@ "Pi" :> 71
    @@ "Factorial" :> 3 @@ "Log" :> 5 @@ "Sin" :> 11 @@ "Sum" :> 13
    @@ "Product" :> 19 @@ "Integrate" :> 23 @@ "Equal" :> 37
    @@ "Abs" :> 43 @@ "Binomial" :> 47 @@ "BesselJ" :> 59 @@ "Subscript" :> 61

=============================================================================
