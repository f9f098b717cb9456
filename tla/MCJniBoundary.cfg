SPECIFICATION BoundarySpec
CONSTANTS
    t1 = t1
    t2 = t2
    a1 = a1
    a2 = a2
    a3 = a3
    Threads <- MCThreads
    Arrays <- MCArrays
    Values = {0, 1}
    NParams = 2
    Shapes <- MCShapes
    Compute <- MCCompute
    MaxCalls = 1
SYMMETRY Symmetry
INVARIANTS
    TypeOK
    ResultsAreOwnUnlessShared
PROPERTIES
    IsAtomic
\* Threads that share a Hash stop once they have made their calls.
CHECK_DEADLOCK FALSE
