SPECIFICATION FairSpec
CONSTANTS
    Keys = {k1}
    Workers = {w1}
    Goroutines = {g1}
    NoKey = NoKey
    MaxRetries = 1
    ChanCap = 1
    MaxVersion = 2
    MaxStsVersion = 1
    MaxNotes = 2
    MaxRestarts = 1
PROPERTIES
    ChangesAreObserved
    SyncsKeepComing
    ImplementsKeyedSync
CHECK_DEADLOCK FALSE
