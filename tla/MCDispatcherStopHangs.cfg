SPECIFICATION FairSpec
CONSTANTS
    m1 = m1  m2 = m2  m3 = m3
    Messages = {m1}
    Docs <- Two
    Unreadable = {}
    Preloaded = {m1}
    Handles = {h1, h2}
    MaxInFlight = 1
    BatchSize = 2
    MaxAttempts = 2
    MaxMessages = 0
    AckOn = "exit"
    Options = {"task_timeout", "should_stop"}
    Faults = {}
    MaxFaults = 0
PROPERTIES
    StopTerminates
CHECK_DEADLOCK FALSE
