SPECIFICATION FairSpec
CONSTANTS
    None = None
    Slot = {s1, s2, s3, s4}
    Key = {k1, k2}
INVARIANTS
    HoldingExact
PROPERTIES
    FreeExact
    ImplementsFifo
    TurnComes
CHECK_DEADLOCK FALSE
