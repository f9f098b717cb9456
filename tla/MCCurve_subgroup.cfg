SPECIFICATION Spec
CONSTANTS
    P = 109
    Cap = 128
    LowByte = 32
    A = 25
    D = 92
    L = 13
    BaseY = 12
    Bits = 16
    Strides = {}
    Group <- MCGroup
    aslide <- mcslide
    W21 = 6
    C21 <- MCC21
    W25 = 5
    W51 = 11
    C19 = 3
    Factors21 = {107, 317, 733, 4211, 31039, 1453181}
    Factors25 = {5, 1871, 2207, 2621, 665789}
    Hash <- MCHash
    Answer <- MCAnswer
    Inputs <- MCPoints
INVARIANT OnlyMainSubgroupConverts
