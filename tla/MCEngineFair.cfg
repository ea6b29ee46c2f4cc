CONSTANTS
    c1 = c1
    pinning = pinning
    listed = listed
    Conns = {c1}
    Hosts = {pinning, listed}
    PassthroughHosts = {listed}
    MaxStarts = 1
    MaxTx = 2
SPECIFICATION FairSpec
CHECK_DEADLOCK FALSE
PROPERTIES
    StopDrains
    AnsweredIsRecorded
