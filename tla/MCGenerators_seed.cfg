SPECIFICATION GeneratorsSpec
CONSTANTS
    t1 = t1
    t2 = t2
    Threads <- TwoThreads
    Closers <- TwoThreads
    DrawSize = 2
    Fds = {0, 1, 2}
    Kernels = {TRUE}
    DeviceMayFail = FALSE
    MaxCalls = 1
    PoolWords = 2
    InternalCalls = 4
INVARIANTS
    Seeded
SYMMETRY ThreadSymmetry
\* A thread stops once it has made its calls, all of them when the process ends.
CHECK_DEADLOCK FALSE
