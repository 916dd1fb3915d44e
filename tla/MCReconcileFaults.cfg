SPECIFICATION Spec
CONSTANTS
    NodeOf <- SpreadNodes
    Alike = {}
    MinMasters = 3
    Sizes = {6, 8}
    Strategies <- AllStrategies
    FaultSteps <- AllSteps
    MaxFaults = 1
    MaxBreaks = 1
    MaxEdits = 1
    ScaleIn = FALSE
    MaxRestarts = 0
INVARIANTS
    OneCluster
    EachSlaveItsMaster
    StatusIsTrue
    ClusterKeepsItsPods
CHECK_DEADLOCK FALSE
