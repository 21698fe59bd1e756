SPECIFICATION FairSpec
CONSTANTS
    old = old  new = new  w1 = w1  w2 = w2  c1 = c1
    Docs = {d1}
    Profiles = {old, new}
    Active = new
    Size <- Sizes
    Vectors <- Passages
    Workers = {w1, w2}
    ProfileOf <- Started
    Callers = {c1}
    MaxAttempts = 2
    MaxParses = 2
    MaxEvents = 1
    None = None
    TokenBudget = 6
    Lengths = {0, 1, 2, 3, 4, 7}
INVARIANTS
    IndInv
    OneBuild
    EmbeddingSound
PROPERTIES
    OneCommit
    StaleConverges
CHECK_DEADLOCK FALSE
