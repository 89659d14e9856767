CONSTANTS
    Models = {c1, h1}
    Core = {c1}
    Hub = {h1}
    UrlLengths <- Lengths
    Comps = {k1, k2}
    NoOne = NoOne
    Permits = 1
    RateLimit = 1
    MaxCalls = 2
SPECIFICATION Spec
INVARIANTS
    TypeOK
    PanicOnlyAfterTimeout
    SummaryAddsUp
    SuccessIsPublished
CHECK_DEADLOCK FALSE
