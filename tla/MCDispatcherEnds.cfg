SPECIFICATION Spec
CONSTANTS
    m1 = m1  m2 = m2  m3 = m3
    Messages = {m1, m2, m3}
    Docs <- TwoAndNone
    Unreadable = {}
    Preloaded = {m1, m2, m3}
    Handles = {h1, h2, h3}
    MaxInFlight = 2
    BatchSize = 2
    MaxAttempts = 2
    MaxMessages = 3
    AckOn = "exit"
    Options = {"task_timeout", "max_messages", "idle_timeout", "should_stop"}
    Faults = {"expiry", "status"}
    MaxFaults = 1
INVARIANTS
    ExitLeavesNothing
    IdleExitDrained
    LimitHolds
    CapHolds
PROPERTIES
    NoNewWorkOnceStopping
CHECK_DEADLOCK FALSE
