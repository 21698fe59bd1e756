SPECIFICATION FairSpec
CONSTANTS
    Messages = {m1, m2}
    Clients = {c1}
    Files = {f1, f2, f3, f4, f5, f6, f7}
    None = None
    MaxAttempts = 2
    MaxMessages = 0
    Options = {"should_stop"}
    Faults = {"backlog", "expiry", "crash"}
    MaxFaults = 2
PROPERTIES
    EventuallySettled
    StopTerminates
    KeepsPromise
CHECK_DEADLOCK FALSE
