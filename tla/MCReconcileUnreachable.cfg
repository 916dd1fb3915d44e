SPECIFICATION Spec
CONSTANTS
    NodeOf <- SpreadNodes
    Alike = {}
    MinMasters = 3
    Sizes = {6, 8}
    Strategies <- AutoOnly
    FaultSteps <- AddSlaveOnly
    MaxFaults = 1
    MaxBreaks = 0
    MaxEdits = 1
    ScaleIn = FALSE
    MaxRestarts = 0
INVARIANTS
    UnreachablePhase
