SPECIFICATION FairSpec
CONSTANTS
    Tiles <- Panel
    Rects <- CornerAndAll
    SmallRects <- CornerOnly
    Spots = {"here"}
    Sessions = 2
    MaxFrames = 3
    Room = 2
INVARIANTS TypeOK NothingForgotten CursorAgrees NeverInVain
PROPERTIES RefusedOnlyBehindDead MirrorSpec ShownUnlessSkipped
CHECK_DEADLOCK FALSE
