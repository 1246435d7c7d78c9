SPECIFICATION FairSpec
CONSTANTS
    Unbounded = Unbounded
    HighWaters = {1}
    MaxWrites = 2
PROPERTIES
    ParkedSettles
CHECK_DEADLOCK FALSE
