SPECIFICATION FairSpec
CONSTANTS
    r1 = r1
    r2 = r2
    Nobody = Nobody
    Replicas = {r1, r2}
    LeaseDuration = 5
    RenewDeadline = 2
    TryTime = 1
    OperatorLists <- Lists
    MaxFaults = 3
INVARIANTS
    OneOperator
    LeaseDiscipline
PROPERTIES
    Settles
