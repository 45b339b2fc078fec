CONSTANTS
    i1 = i1
    i2 = i2
    i3 = i3
    p1 = p1
    p2 = p2
    Intents = {i1}
    Social = {i1}
    Payloads = {p1}
    PayloadOf <- SamePayload
    Commands = {c1, c2}
    TTL = 1
    CommitStale = 2
    Horizon = 2
    MaxEntries = 1
    Never = Never
    Gone = Gone
SPECIFICATION Spec
PROPERTY
    CompletedStaysCompleted
CHECK_DEADLOCK FALSE
