SPECIFICATION FairSpec
CONSTANTS
    Messages = {k1, k2, k3, e1}
    Docs = {d1}
    Contents = {s1}
    Containers = {k1, k2, k3}
    Workers = {w1}
    Asked = {{"chunks"}}
    OwnPidNamespace = FALSE
    MaxAttempts = 2
    Faults = {"expiry", "kill", "crash"}
    MaxFaults = 1
    None = None
INVARIANTS
    TypeOK
    CacheWhole
    NotLostBetween
    DbIsCurrent
    ForcedIsFresh
PROPERTIES
    EventuallyIndexed
CHECK_DEADLOCK FALSE
