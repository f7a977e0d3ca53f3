CONSTANTS
    t1 = t1  t2 = t2  t3 = t3
    n1 = n1  n2 = n2  c1 = c1  c2 = c2  c3 = c3  c4 = c4
    w1 = w1  w2 = w2  h1 = h1  h2 = h2  h3 = h3  s1 = s1  s2 = s2
    Null = Null  Nobody = Nobody  NoMsg = NoMsg  Main = Main  Invalid = Invalid
    Workers <- TwoWorkers
    Sockets <- ThreeHandles
    Sessions <- TwoSessions
    MaxClients = 1
    MaxStarts = 2
    Callers <- TwoThreads
    Nodes <- TwoNodes
    Stamps = 4
    Chunks <- FourChunks
    ChunkSize = 2
    Slots = 3
    Batch = 2
    MaxMessages = 4
    MaxFileSize = 3
    Lengths = {1, 2, 3}
    MaxTime = 1
    MaxTotal = 12
    PoolWorkers = {1, 2}
    Releases = 1
    MaxJobs = 2
    Lockers <- ThreeThreads
    MaxDepth = 2
    Overlap = FALSE
    MaxInits = 5
    Samples = 3
    Second = 2
    MaxWindowTime = 12
    MaxRecords = 4
SPECIFICATION EngineSpec
INVARIANTS TypesOK NodesConserved ChunksRecycledOnce LogKeepsMessages TokenPerJob 
           ServerAccepts WindowCounts
PROPERTY EngineProgress
CHECK_DEADLOCK FALSE
