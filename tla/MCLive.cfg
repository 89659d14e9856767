CONSTANTS
    Models = {h1, h2}
    Core = {}
    Hub = {h1, h2}
    UrlLengths <- TenParts
    Comps = {k1}
    NoOne = NoOne
    Permits = 1
    RateLimit = 1
    MaxCalls = 1
    Subjects = {s1}
    Queues = {q1}
    Callers = {p1}
    Forwarders = {f1}
    Managers = {m1, m2}
    BufferSize = 1
    MaxMsgs <- ThreeInAll
    MaxSubs = 1
SPECIFICATION LiveSpec
INVARIANT RateRespected
PROPERTIES
    CallReturns
    GenerationEnds
    CallsReturn
    DeliveryEnds
CHECK_DEADLOCK FALSE
