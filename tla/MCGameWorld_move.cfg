CONSTANTS
    o1 = o1  o2 = o2  a = a  b = b  ta = ta  tb = tb  c1 = c1  c2 = c2
    Objects <- OneObject
    Scenes <- TwoScenes
    GameThreads <- TwoThreads
    SceneThread <- OwnThreads
    Callers <- TwoCallers
    None = None
    MaxCalls = 2
    TakeTurns = FALSE
SPECIFICATION Spec
INVARIANT ScenesOnOwnThread
CHECK_DEADLOCK FALSE
