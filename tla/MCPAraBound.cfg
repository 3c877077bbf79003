SPECIFICATION SafetySpec
CONSTANTS
    Worker = {w1, w2}
    Vertex <- DetourVertex
    NoVertex = NoVertex
    Neighbors <- DetourNeighbors
    source = 0
    destination = 4
    Heuristic <- DetourHeuristic
    Estimate <- DetourEstimate
    MaxWeight = 6
    IntMax = 63
    InitialEps = 2
    DecEps = 1
    FinalEps = 1
    FirstSolution = {TRUE, FALSE}
INVARIANT
    BoundHonoured
