SPECIFICATION FairSpec
CONSTANTS
    Tiles <- Panel
    Rects <- CornerAndAll
    SmallRects <- CornerOnly
    Spots = {"here"}
    Sessions = 2
    MaxFrames = 3
    Room = 2
PROPERTY EveryFrameShown
CHECK_DEADLOCK FALSE
