SPECIFICATION Spec

CONSTANTS
    Greek <- MCGreek
    GreekCapital <- MCGreekCapital
    Escapes <- MCEscapes
    StringAtoms <- MCStringAtoms
    Letters = {"a", "b", "k"}
    ConstantTex <- MCConstantTex
    FuncNames <- MCFuncNames
    SubscriptFuncs <- MCSubscriptFuncs
    None = None
    Words = {"F", "f", "v", "Power", "G", "Pi"}
    OpFacet <- MCOpFacet
    NamedFacet <- MCNamedFacet
    MaxInt = 11
    Alphabet <- MCAlphabet
    MaxText = 5
    TermLeaves <- MCTermLeaves
    TermHeads = {"F"}
    MaxTerm = 2
    MaxExponent = 13
    FormulaAtoms <- MCFormulaAtoms
    OuterAtoms <- MCOuterAtoms
    Unary = {"Minus", "Sqrt", "Exp", "Factorial", "Sin", "Abs"}
    Binary = {"Plus", "Times", "Subtract", "Divide", "Power", "Log", "Equal",
              "Binomial", "BesselJ", "Subscript"}
    Bound = "k"
    Modulus = 211
    Assigned <- MCAssigned

INVARIANTS
    NothingDropped
    ReadsBack
    FoundByItsParts
    SameTokensSameTerm
    RootFacetsExact
    PrintedApart

CHECK_DEADLOCK FALSE
