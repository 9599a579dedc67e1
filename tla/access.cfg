SPECIFICATION Spec

CONSTANTS
    ada = ada
    google = google
    apple = apple
    Browsers = {b1, b2}
    SignIns = {s1, s2}
    Callbacks = {k1, k2}
    Writes = {w1}
    Providers = {google, apple}
    People = {sam}
    Users = {ada}
    Entries = {e1}
    Command = Command
    Configs <- MCConfigs
    NoSecret = NoSecret
    key = key
    Secrets = {NoSecret, key}
    NoToken = NoToken
    None = None
    TTL = 2
    CookieAge = 1
    MaxLogins = 1
    MaxTime = 2

SYMMETRY Symmetry

INVARIANTS
    TypeOK
    WriterWasEntitled
    CompletesWhereStarted

PROPERTIES
    ClosedMeansClosed

CHECK_DEADLOCK FALSE
