SPECIFICATION Spec
CONSTANTS
    Worker = {w1, w2, w3}
    Vertex <- DetourVertex
    NoVertex = NoVertex
    Neighbors <- DetourNeighbors
    source = 0
    destination = 4
    Heuristic <- DetourHeuristic
    Estimate <- DetourEstimate
    MaxWeight = 6
    IntMax = 63
    InitialEps = 2
    DecEps = 1
    FinalEps = 1
    FirstSolution = {TRUE, FALSE}
INVARIANTS
    NoLostWakeup
    QueuesSound
PROPERTIES
    OnlyLastIsDropped
    ImplementsTree
    SearchReturns
