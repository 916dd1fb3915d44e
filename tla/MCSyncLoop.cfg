SPECIFICATION Spec
CONSTANTS
    Keys = {k1}
    Workers = {w1, w2}
    Goroutines = {g1, g2}
    NoKey = NoKey
    MaxRetries = 2
    ChanCap = 1
    MaxVersion = 2
    MaxStsVersion = 2
    MaxNotes = 2
    MaxRestarts = 1
SYMMETRY Symmetry
INVARIANTS
    TypeOK
    OneSyncPerKey
    QueueDiscipline
    NoLostEvent
    RetryPending
CHECK_DEADLOCK FALSE
