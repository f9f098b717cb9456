SPECIFICATION Spec
CONSTANTS
    PageSize = 4
    CanarySize = 3
    WordSize = 64
    LastPage = 9
    Sizes <- SomeSizes
    Counts = {0, 2}
    MprotectMayFail = TRUE
    MaxBlocks = 2
INVARIANTS
    BlockIsWhole
    OverrunFaults
    DamageIsNoticed
    NothingLeaks
\* The process may end.
CHECK_DEADLOCK FALSE
