SPECIFICATION FairSpec
CONSTANTS
    NodeOf <- SpreadNodes
    Alike = {}
    MinMasters = 3
    Sizes = {6, 8}
    Strategies <- AutoOnly
    FaultSteps <- ProbeOnly
    MaxFaults = 1
    MaxBreaks = 0
    MaxEdits = 0
    ScaleIn = FALSE
    MaxRestarts = 0
PROPERTIES
    RecoveryIsReported
