SPECIFICATION Spec
CONSTANTS
    h1 = h1
    h2 = h2
    p1 = p1
    a1 = a1
    a2 = a2
    NoHeader = NoHeader
    Payloads <- OnePayload
    Headers <- TwoHeaders
    AdditionalData <- TwoAds
    Tags <- SomeTags
    CounterMod = 3
    MaxPush = 4
    MaxRekey = 1
INVARIANTS
    TypeOK
    NonceIsFresh
    NextIsAcceptable
    FinalIsGenuine
PROPERTIES
    IsFifo
