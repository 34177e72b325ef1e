SPECIFICATION Spec
CONSTANTS
    W = 4
    WireWindow = 8
    EpochMod = 3
    RekeyAfter = 12
INVARIANTS
    TypeOK
    WindowExact
    ExpandIsNearest
    InWindowOpens
PROPERTY
    AtMostOnce
