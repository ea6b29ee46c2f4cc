\* Two commands and a handshake at a time, a cache of one leaf, every fault.
CONSTANTS
    Tasks = {c1, c2, m1}
    Callers = {c1, c2}
    Savers = {c1}
    Hosts = {h1, h2}
    NumGens = 2
    CacheCap = 1
    MaxPort = 2
    Faults = TRUE
SPECIFICATION Spec
SYMMETRY HostSymmetry
INVARIANTS TypeOK KeyBehindCert LeavesChain GivenIsSigner OneListener HandshakeNeverLoads SavedIsKept
    NoDeadlock EveryPathGoesOn
CHECK_DEADLOCK FALSE
