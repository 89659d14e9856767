CONSTANTS
    Models = {c1, h1}
    Core = {c1}
    Hub = {h1}
    UrlLengths <- Lengths
    Comps = {k1}
    NoOne = NoOne
    Permits = 1
    RateLimit = 1
    MaxCalls = 1
SPECIFICATION Spec
INVARIANT TimeoutIsPerModel
CHECK_DEADLOCK FALSE
