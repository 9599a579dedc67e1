SPECIFICATION Spec

CONSTANTS
    e1 = e1
    e2 = e2
    e3 = e3
    t1 = t1
    t2 = t2
    bad = bad
    c1 = c1
    c2 = c2
    c3 = c3
    old = old
    new = new
    integral = integral
    bessel = bessel
    i1 = i1
    i2 = i2
    EntryIds = {e1, e2}
    Texts = {t1, t2, bad}
    Canonicals = {c1, c2, c3}
    FacetTags = {integral, bessel}
    Canon <- MCCanon
    FacetsOf <- MCFacetsOf
    ParseError = ParseError
    Blank = Blank
    None = None
    Free = Free
    Engines = {old, new}
    ContentlessDelete = FALSE
    Ingests = {i1}
    Corpora <- AllCorpora
    IngestEngine <- IngestsMixed
    BatchSize = 2
    MaxRuns = 2
    Posts = {p1, p2}
    Submissions <- FewSubmissions
    ServerEngine <- ServersNew

INVARIANTS
    NothingSkipped
    AcknowledgedKept

PROPERTIES
    WedgedForever
    ImplementsSearchIndex

CHECK_DEADLOCK FALSE
