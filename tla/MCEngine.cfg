CONSTANTS
    c1 = c1
    c2 = c2
    pinning = pinning
    Conns = {c1, c2}
    Hosts = {pinning}
    PassthroughHosts = {}
    MaxStarts = 2
    MaxTx = 2
SPECIFICATION Spec
SYMMETRY ConnSymmetry
CHECK_DEADLOCK FALSE
INVARIANTS
    TypeOK
    OneStory
    StoredWhenAnnounced
PROPERTY PromiseKept
