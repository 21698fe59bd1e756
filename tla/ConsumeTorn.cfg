SPECIFICATION FairSpec
CONSTANTS
    Messages = {m1}
    Clients = {c1}
    Files = {f1, f2, f3, f4, f5}
    None = None
    MaxAttempts = 2
    MaxMessages = 0
    Options = {}
    Faults = {"crash"}
    MaxFaults = 1
PROPERTIES
    EverySettled
