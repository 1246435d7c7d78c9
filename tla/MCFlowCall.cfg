SPECIFICATION Spec
CONSTANTS
    main = main
    sub = sub
    leaf = leaf
    nA = nA
    nB = nB
    nC = nC
    nE = nE
    nX = nX
    None = None
    Flow = {main, sub, leaf}
    Node = {nA, nB, nC, nE, nX}
    Root = main
    Def <- CallDef
    MaxSteps = 10
    MaxDepth = 3
    Delays = {1, 2}
    Horizon = 4
    MaxCrashes = 1
    MaxSkew = 0
INVARIANTS
    CallsRight
