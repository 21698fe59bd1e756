SPECIFICATION FairSpec
CONSTANTS
    m1 = m1  m2 = m2  m3 = m3
    Messages = {m1, m2}
    Docs <- TwoAndOne
    Unreadable = {m2}
    Preloaded = {m1}
    Handles = {h1, h2, h3}
    MaxInFlight = 1
    BatchSize = 2
    MaxAttempts = 2
    MaxMessages = 0
    AckOn = "exit"
    Options = {"task_timeout"}
    Faults = {"expiry", "crash", "cancel", "launch", "status", "poll", "spec"}
    MaxFaults = 2
INVARIANTS
    NoMessageLost
    ParkedForGood
    Bookkeeping
    SettledOnce
    DeliveriesBounded
    CapHolds
PROPERTIES
    KeepsPromise
    EventuallySettled
