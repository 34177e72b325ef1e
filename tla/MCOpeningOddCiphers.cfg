SPECIFICATION Spec
CONSTANTS
    Noise = 7
    ClientSalt = 101
    ServerSalt = 102
    ClientKey = 103
    ServerKey = 104
    Tag = 105
    Owned = 106
    Other = 107
    ServerProfiles <- MCServerProfiles
    GreaseSets <- MCGreaseSets
    ShuffleDraws <- MCShuffleDraws
    DecoyDomains <- MCDecoyDomains
    SniChoices <- MCSniChoices
    StrangerCipherLens = {3}
INVARIANT
    ParseStaysInside
CHECK_DEADLOCK FALSE
