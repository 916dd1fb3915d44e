SPECIFICATION FairSpec
CONSTANTS
    NodeOf <- SpreadNodes
    Alike = {}
    MinMasters = 3
    Sizes = {6, 8}
    Strategies <- AutoOnly
    FaultSteps <- CreateSteps
    MaxFaults = 2
    MaxBreaks = 0
    MaxEdits = 1
    ScaleIn = FALSE
    MaxRestarts = 2
INVARIANTS
    TypeOK
    HalfAreMasters
    RunningSurvivesCrashes
    PlanningEnds
    StatusIsTrue
PROPERTIES
    ImplementsTopology
    Converges
