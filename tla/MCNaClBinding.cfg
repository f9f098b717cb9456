SPECIFICATION BindingFair
CONSTANTS
    t1 = t1
    t2 = t2
    t3 = t3
    h1 = h1
    NoThread = NoThread
    NoHandler = NoHandler
    Handlers <- OneHandler
    NoInitializer = NoInitializer
    Threads <- ThreeThreads
    Misusers <- OneThread
    LockFailers <- OneThread
    EntropyMayFail = TRUE
    MaxCalls = 2
INVARIANTS
    TypeOK
    MutualExclusion
    InitOnce
    InitCompletes
    NoSpuriousFailure
    InstanceIsUsable
PROPERTIES
    CallsEnd
