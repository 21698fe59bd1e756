SPECIFICATION Spec
CONSTANTS
    Messages = {k1, k2}
    Docs = {d1}
    Contents = {s1}
    Containers = {k1, k2}
    Workers = {w1}
    Asked = {{"chunks"}}
    OwnPidNamespace = TRUE
    MaxAttempts = 2
    Faults = {"expiry"}
    MaxFaults = 1
    None = None
INVARIANTS
    CacheWhole
CHECK_DEADLOCK FALSE
