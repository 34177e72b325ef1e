SPECIFICATION Spec
CONSTANTS
    W = 2
    WireWindow = 8
    EpochMod = 3
    RekeyAfter = 3
    ClientSeals = 11
    ServerSeals = 0
    MaxSeals <- SealBounds
INVARIANTS
    TypeOK
    NonceUnique
    EpochsInStep
    WindowsExact
    AdjacentEpochsOpen
    DistantEpochsClosed
    PeekMatchesSeal
PROPERTIES
    AtMostOnce
    RatchetMovesOnProof
