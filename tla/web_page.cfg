SPECIFICATION PageSpec

CONSTANTS
    e1 = e1
    e2 = e2
    e3 = e3
    t1 = t1
    t2 = t2
    c1 = c1
    c2 = c2
    new = new
    integral = integral
    bessel = bessel
    EntryIds = {e1, e2, e3}
    Texts = {t1, t2}
    Engines = {new}
    Canonicals = {c1, c2}
    FacetTags = {integral, bessel}
    Canon <- MCCanon
    FacetsOf <- MCFacetsOf
    ParseError = ParseError
    Blank = Blank
    None = None
    Free = Free
    ContentlessDelete = FALSE
    Readers = {q1, q2, q3}
    Requests <- MCRequests
    Shares <- MCShares
    Score <- MCScore
    FuzzyLimit = 1
    CandidatePool = 3
    DupLimit = 1
    InitialTables <- MCInitialTables
    Arrivals <- MCArrivals
    NoReader = NoReader

SYMMETRY Symmetry

INVARIANTS
    PageTypeOK
    ChipsCurrent
    ListMatchesChips
    NoDeadEnd
    PaneIsLastSearch
    LabelMatchesLast

CHECK_DEADLOCK FALSE
