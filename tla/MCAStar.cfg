SPECIFICATION Spec
CONSTANTS
    Vertex <- RingVertex
    NoVertex = NoVertex
    Neighbors <- RingNeighbors
    source = 0
    destination = 7
    Destinations <- RingVertex
    Heuristic <- RingHeuristic
    Estimates <- RingEstimates
    MaxWeight = 3
    IntMax = 31
INVARIANTS
    ExpandedAreOptimal
PROPERTIES
    DestinationFound
