SPECIFICATION DocumentsSpec
CONSTANTS
    NodeCount = 4
    MaxIterations = 2
    Definitions <- SmallDefinitions
    FlowCount = 3
    Keys = {1, 2, 3}
    MaxDepth = 3
    FlowSystems <- SmallSystems
    Hosts = {1, 2}
    MaxKey = 1
    MaxOpen = 3
INVARIANTS
    ReadsFindProducers
    WarningsExact
    CyclesReported
    RunsAsChecked
    EffectsAccounted
PROPERTIES
    Ends
    SegmentRight
CHECK_DEADLOCK FALSE
