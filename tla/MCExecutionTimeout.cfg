SPECIFICATION Spec
CONSTANTS
    Length = 3
INVARIANTS
    ChainBounded
CHECK_DEADLOCK FALSE
