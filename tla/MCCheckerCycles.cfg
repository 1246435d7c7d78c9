SPECIFICATION FairSpec
CONSTANTS
    NodeCount = 3
    MaxIterations = 2
    Definitions <- SmallDefinitions
INVARIANTS
    CyclesThroughBodies
CHECK_DEADLOCK FALSE
