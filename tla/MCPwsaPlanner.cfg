SPECIFICATION Spec
CONSTANTS
    w1 = w1
    w2 = w2
    Main = Main
    Worker <- MCWorker
    Thread <- MCThread
    LOG_MIN_VEC_SIZE = 1
    Vertex <- ForkVertex
    NoVertex = NoVertex
    Neighbors <- ForkNeighbors
    source = 0
    destination = 4
    Heuristic <- ForkHeuristic
    MaxWeight = 2
    IntMax = 15
INVARIANTS
    PointersStable
    PathReported
PROPERTIES
    ImplementsTree
    PlanReturns
