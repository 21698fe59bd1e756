SPECIFICATION Spec
CONSTANTS
    Messages = {m1}
    Clients = {c1, c2}
    Files = {f1, f2, f3, f4, f5}
    None = None
    MaxAttempts = 2
    MaxMessages = 3
    Options = {"max_messages", "idle_timeout"}
    Faults = {"backlog", "expiry", "crash"}
    MaxFaults = 2
INVARIANTS
    NoMessageLost
    Exclusive
    AttemptsReal
    ParkedAfterTries
CHECK_DEADLOCK FALSE
