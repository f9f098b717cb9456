SPECIFICATION Spec
CONSTANTS
    Rounds = 3
    CounterBits = 6
    MidRound <- MCMid
    FinalRound <- MCFinal
    SubWord <- MCSub
    AesTable <- MCMid
    AegisMax = 14
    SBox <- MCFinal
    StreamRounds = 4
    ChaChaTurns <- MCChaChaTurns
    SalsaTurns <- MCSalsaTurns
    Sigma <- MCSigma
    PolyOf <- MCPolyOf
    Public <- MCPublic
    Shared <- MCShared
    BlakeNonce <- MCBlakeNonce
    HashedSeed <- MCHashedSeed
    MaxText = 30
    Clamp32 <- MCClamp32
    Clamp64 <- MCClamp64
    BlockMixed <- MCBlockMixed
    Blake <- MCBlake
    Argon2Limits <- MCArgon2Limits
    PwLimits <- MCPwLimits
    HashBytes = 4
    StrBytes = 30
    PrfOf <- MCPrfOf
    Digest <- MCDigest
    LowOrder <- MCLowOrder
    Answer <- MCAnswer
    Inputs <- MCSignedChars
INVARIANTS
    ComparisonsAreRight
