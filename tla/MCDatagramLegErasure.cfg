SPECIFICATION Spec
CONSTANTS
    W = 1
    WireWindow = 4
    EpochMod = 3
    RekeyAfter = 1
    ClientSeals = 2
    ServerSeals = 0
    MaxSeals <- SealBounds
INVARIANT
    PastChainsErased
