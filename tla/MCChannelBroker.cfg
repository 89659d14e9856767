CONSTANTS
    Subjects = {s1}
    Queues = {q1, q2}
    Callers = {p1}
    Forwarders = {f1}
    Managers = {m1}
    NoOne = NoOne
    BufferSize = 1
    MaxMsgs <- ThreeInAll
    MaxSubs = 2
SPECIFICATION Spec
INVARIANTS
    TypeOK
    NoPanic
    ChannelsTracked
    ExactlyOnceInOrder
    PublishReport
PROPERTY ImplementsMailboxes
CHECK_DEADLOCK FALSE
