CONSTANTS
    Target = 3
    MaxDrops = 6
    MaxRefused = 2
    u1 = u1  u2 = u2  sc1 = sc1  sc2 = sc2
    Null = Null  Cleaning = Cleaning
    Size = 8
    HeaderSize = 3
    LengthSize = 2
    MaxPacketSize = 9
    MaxLoop = 2
    Lengths = {3, 4, 8, 10}
    Ids = {1, 2}
    Handled = {1}
    MaxPackets = 3
    Players = {1, 2}
    Points = {0, 1, 2}
    Asks = {1}
    MaxMoves = 1
    Slots = {1, 2}
    Users <- TwoUsers
    MaxSends = 2
    Gap = FALSE
    MaxSubscribes = 3
    MaxInvokes = 3
    MaxDepth = 2
    Scenes <- TwoScenes
    Step = 2
    MaxTime = 4
    MaxFrames = 3
SPECIFICATION ProgramsSpec
INVARIANTS TypesOK EveryConnectionAccounted NoLostSignal PacketsAsSent
            EchoMatches SubscribersCalledOnce FixedUpdatesKeepTime
PROPERTY ProgramsProgress
CHECK_DEADLOCK FALSE
