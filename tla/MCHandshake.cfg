SPECIFICATION Spec
CONSTANTS
    None = None
    c1 = c1
    c2 = c2
    s1 = s1
    s2 = s2
    Clients = {c1}
    Servers = {s1, s2}
    AuthWindow = 1
    EpochMod = 256
    MaxTicks = 2
    MaxRewrites = 2
    MaxEvents = 3
SYMMETRY Interchangeable
INVARIANTS
    TypeOK
    KeyAgreement
    SharedKeysBindConversation
    KeysSeparate
    EphemeralKeyGone
    TimelyHelloAccepted
PROPERTIES
    AcceptsOnlyTagged
    KeysWrittenOnce
CHECK_DEADLOCK FALSE
