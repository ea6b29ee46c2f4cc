CONSTANTS
    c1 = c1
    pinning = pinning
    listed = listed
    Conns = {c1}
    Hosts = {pinning, listed}
    PassthroughHosts = {listed}
    MaxStarts = 1
    MaxTx = 1
SPECIFICATION FairSpec
CHECK_DEADLOCK FALSE
PROPERTY EveryExchangeRecorded
