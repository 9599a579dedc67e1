SPECIFICATION RWSpec

CONSTANTS
    e1 = e1
    e2 = e2
    t1 = t1
    t2 = t2
    t3 = t3
    t4 = t4
    t5 = t5
    bad = bad
    c1 = c1
    c2 = c2
    c3 = c3
    c4 = c4
    c5 = c5
    new = new
    integral = integral
    bessel = bessel
    i1 = i1
    EntryIds = {e1, e2}
    Texts = {t1, t2, t3, t4, t5, bad}
    Engines = {new}
    Canonicals = {c1, c2, c3, c4, c5}
    FacetTags = {integral, bessel}
    Canon <- MCCanon
    FacetsOf <- MCFacetsOf
    ParseError = ParseError
    Blank = Blank
    None = None
    Free = Free
    ContentlessDelete = FALSE
    Ingests = {i1}
    Corpora <- MCCorpora
    IngestEngine <- IngestsNew
    BatchSize = 1
    MaxRuns = 2
    Posts = {p1}
    Submissions <- MCSubmissions
    ServerEngine <- ServersNew
    Readers = {q1}
    Requests <- AllRequests
    Shares <- MCShares
    Score <- MCScore
    FuzzyLimit = 1
    CandidatePool = 2
    DupLimit = 1

INVARIANTS
    RWTypeOK
    HitsCarrySelected
    IdentityShowsHit
    ExactAlsoFuzzy
    CountsAreThere
    GroupsWholeOrGone

CHECK_DEADLOCK FALSE
