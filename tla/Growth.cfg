SPECIFICATION Spec
CONSTANTS
    Nodes = {1, 2, 3}
    Sizes = {6, 8}
INVARIANTS
    TopologyIsBalanced
    PlanCompletes
    MastersAreSpread
