SPECIFICATION FairSpec
CONSTANTS
    Backends = {"docker", "dockerKeep", "process", "ecs", "k8s"}
    MaxTasks = 3
    Faults = {"launch", "poll", "wedged", "cancel", "lost", "crash"}
    MaxFaults = 2
INVARIANTS
    VerdictTrue
    OneContainer
    NothingKept
PROPERTIES
    KeepsPromise
    EventuallyTold
    NothingRunsOn
CHECK_DEADLOCK FALSE
