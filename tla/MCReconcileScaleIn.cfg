SPECIFICATION Spec
CONSTANTS
    NodeOf <- SpreadNodes
    Alike = {}
    MinMasters = 3
    Sizes = {6, 8}
    Strategies <- AutoOnly
    FaultSteps <- NoSteps
    MaxFaults = 0
    MaxBreaks = 0
    MaxEdits = 1
    ScaleIn = TRUE
    MaxRestarts = 0
INVARIANTS
    ClusterKeepsItsPods
