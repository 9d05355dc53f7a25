CONSTANTS
    Size = 3
    TMax = 4
    CarefulErase = TRUE
    PoolTMax = 7
    Guards = 2
    Keys = {"k1", "k2", "k3"}
    Mapped = {"m1", "m2"}
    HashBits = 4
    LoadFactors = {5, 10}
    MaxContainer = 3
    Elements = {"x", "y"}
    num_bits = 1
    MaxSegments = 4
    MaxLength = 3
    Vertices = {1, 2, 3, 4, 5, 6}
    Edges <- MCEdges
    Costs <- MCCosts
    Estimates = {0, 2, 7}
    Start = 1
    Goals = {5, 6}
    MaxNodes = 9
SPECIFICATION MCSpec
CHECK_DEADLOCK FALSE
INVARIANT SetSound
INVARIANT HandlesSound
INVARIANT TableSound
INVARIANT SegmentsSound
INVARIANT Optimal
INVARIANT NodesAccounted
PROPERTY Terminates
