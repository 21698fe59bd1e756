SPECIFICATION Spec
CONSTANTS
    m1 = m1  m2 = m2  m3 = m3
    Messages = {m1, m2, m3}
    Docs <- TwoAndOne
    Unreadable = {m3}
    MaxInFlight = 2
    BatchSize = 2
    Modes = {"exit", "launch"}
    Limits = {1, 2}
    TaskTimeout = 2
    Margin = 1
    MaxReceives = 2
    MaxFaults = 1
INVARIANTS
    OutlivesItsTasks
    NoneSentBackUntried
PROPERTIES
    KeepsPromise
CHECK_DEADLOCK FALSE
