SPECIFICATION Spec
CONSTANTS
    None = None
    c1 = c1
    c2 = c2
    s1 = s1
    s2 = s2
    Clients = {c1}
    Servers = {s1, s2}
    AuthWindow = 1
    EpochMod = 256
    MaxTicks = 1
    MaxRewrites = 0
    MaxEvents = 1
INVARIANT
    HelloOpensOneConnection
CHECK_DEADLOCK FALSE
