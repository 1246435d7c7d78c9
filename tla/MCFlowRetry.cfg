SPECIFICATION FairSpec
CONSTANTS
    main = main
    sub = sub
    leaf = leaf
    nA = nA
    nB = nB
    nC = nC
    nE = nE
    nX = nX
    None = None
    Flow = {main}
    Node = {nA, nB, nE, nX}
    Root = main
    Def <- RetryDef
    MaxSteps = 4
    MaxDepth = 1
    Delays = {1, 2}
    Horizon = 5
    MaxCrashes = 2
    MaxSkew = 1
INVARIANTS
    TypeOK
    WriteAhead
    ReplaysBounded
    RetryWorthWaiting
    Recoverable
PROPERTIES
    KeysNameOneEntry
    StartsInTime
    Settles
    AbortStops
