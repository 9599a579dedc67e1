SPECIFICATION Spec

CONSTANTS
    Requests = {r1, r2, r3, r4, r5}
    home = home
    office = office
    ada = ada
    bob = bob
    Callers <- MixedCallers
    Anonymous = Anonymous
    ConfigRate = 1
    ConfigBurst = 2
    DefaultRate = 1
    IdleLimit = 1
    AuthEnabled = TRUE
    PrivilegedExempt = TRUE
    None = None
    MaxPause = 1
    MaxTime = 5

SYMMETRY Symmetry

INVARIANTS
    TypeOK
    RateBound
    MapIsRecent

PROPERTIES
    ImplementsTokenBucket

CHECK_DEADLOCK FALSE
