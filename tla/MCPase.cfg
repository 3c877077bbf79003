SPECIFICATION Spec
CONSTANTS
    Worker = {w1, w2, w3}
    leader = w1
    Free = Free
    Vertex <- FanVertex
    NoVertex = NoVertex
    Neighbors <- FanNeighbors
    source = 0
    destination = 4
    Heuristic <- FanHeuristic
    Estimate <- FanEstimate
    MaxWeight = 3
    IntMax = 20
INVARIANTS
    IteratorsValid
    ClaimedAreOptimal
PROPERTIES
    ImplementsTree
    DestinationFound
