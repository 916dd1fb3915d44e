SPECIFICATION Spec
CONSTANTS
    NodeOf <- OwnNodes
    Alike = {}
    MinMasters = 3
    Sizes = {6, 8}
    Strategies <- AutoOnly
    FaultSteps <- ReplicateOnly
    MaxFaults = 1
    MaxBreaks = 0
    MaxEdits = 0
    ScaleIn = FALSE
    MaxRestarts = 0
INVARIANTS
    PlanningEnds
