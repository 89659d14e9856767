CONSTANTS
    Subjects = {s1}
    Waiters = {w1}
    Streams = {}
    Unsubscribers = {}
    Forwarders = {}
    MaxMsgs = 2
SPECIFICATION Spec
INVARIANT SingleShot
CHECK_DEADLOCK FALSE
