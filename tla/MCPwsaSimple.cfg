SPECIFICATION SimpleSpec
CONSTANTS
    Worker = {w1, w2}
    leader = w1
    Waiting = Waiting
    Blocked = Blocked
    SplitCutoff = 1
    PollCutoff = 1
    Vertex <- DiamondVertex
    NoVertex = NoVertex
    Neighbors <- CutNeighbors
    source = 0
    destination = 3
    Heuristic <- CutHeuristic
    MaxWeight = 3
    IntMax = 13
INVARIANT SimpleNoVertexLost
PROPERTIES
    Exhausts
    ThiefServed
