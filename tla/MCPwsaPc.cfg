SPECIFICATION Spec
CONSTANTS
    Worker = {w1, w2, w3}
    leader = w1
    Waiting = Waiting
    Blocked = Blocked
    SplitCutoff = 1
    PollCutoff = 1
    Vertex <- DiamondVertex
    NoVertex = NoVertex
    Neighbors <- DiamondNeighbors
    source = 0
    destination = 3
    Heuristic <- DiamondHeuristic
    MaxWeight = 3
    IntMax = 13
INVARIANTS
    TypeOK
    PathsReachSource
    PathMeasured
    NoDuplicateWork
    NoVertexLost
    NoOverflow
PROPERTIES
    ImplementsTree
    DestinationFound
