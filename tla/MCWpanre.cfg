SPECIFICATION Spec
CONSTANTS
    Worker = {w1, w2, w3}
    leader = w1
    Free = Free
    Vertex <- DiamondVertex
    NoVertex = NoVertex
    Neighbors <- DiamondNeighbors
    source = 0
    destination = 3
    Heuristic <- DiamondHeuristic
    MaxWeight = 3
    IntMax = 13
INVARIANTS
    ExpandedOnce
PROPERTIES
    ImplementsTree
    DestinationFound
