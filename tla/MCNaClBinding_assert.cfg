SPECIFICATION BindingSpec
CONSTANTS
    t1 = t1
    t2 = t2
    t3 = t3
    h1 = h1
    NoThread = NoThread
    NoHandler = NoHandler
    Handlers <- OneHandler
    Threads <- ThreeThreads
    Misusers <- OneThread
    LockFailers <- NoThreads
    NoInitializer = NoInitializer
    EntropyMayFail = FALSE
    MaxCalls = 2
INVARIANTS
    AssertLockedIsClear
