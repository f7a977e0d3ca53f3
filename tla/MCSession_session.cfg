CONSTANTS
    s1 = s1  s2 = s2  w1 = w1  w2 = w2
    Senders <- TwoSenders
    Workers <- TwoWorkers
    MaxSendMsg = 1
    MaxCalls = 2
SPECIFICATION FairSpec
INVARIANTS TypeOK BuffersSafe  NoStrandedPacket RefsCountHolders
PROPERTY SessionProgress
CHECK_DEADLOCK FALSE
