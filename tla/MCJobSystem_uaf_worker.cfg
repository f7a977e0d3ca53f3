CONSTANTS
    o1 = o1  o2 = o2  t1 = t1  t2 = t2  p1 = p1  p2 = p2
    Objects <- OneObject
    JobThreads <- TwoThreads
    Posters <- OnePoster
    None = None
    MaxJobs = 1
SPECIFICATION Spec
INVARIANT WorkersTouchLiveObjects
CHECK_DEADLOCK FALSE
