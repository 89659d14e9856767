CONSTANTS
    Subjects = {s1}
    Queues = {q1}
    Callers = {p1}
    Forwarders = {}
    Managers = {m1}
    NoOne = NoOne
    BufferSize = 1
    MaxMsgs <- ThreeInAll
    MaxSubs = 1
SPECIFICATION FairSpec
PROPERTY UnsubscribeEndsDelivery
CHECK_DEADLOCK FALSE
