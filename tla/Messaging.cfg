CONSTANTS
    Subjects = {s1}
    Waiters = {w1, w2}
    Streams = {c1, c2}
    Unsubscribers = {u1}
    Forwarders = {f1}
    MaxMsgs = 3
    Subscribers = {b1, b2}
    Submitters = {p1, p2}
    BufLens = {0, 1}
    MaxBroadcasts = 2
    MaxEvents = 2
    MaxChanges = 3
SPECIFICATION MessagingSpec
INVARIANTS
    TypesOK
    OwnMessage
    UnsubscribeComplete
    ExactDelivery
PROPERTIES
    CallsReturn
CHECK_DEADLOCK FALSE
