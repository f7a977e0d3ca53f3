CONSTANTS
    s1 = s1  s2 = s2  w1 = w1  w2 = w2
    Senders <- OneSender
    Workers <- TwoWorkers
    MaxSendMsg = 1
    MaxCalls = 1
SPECIFICATION FairSpec
PROPERTY DisconnectReleases
CHECK_DEADLOCK FALSE
