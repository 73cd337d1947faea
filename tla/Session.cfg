SPECIFICATION FairSpec
CONSTANTS
    PanelW = 2
    PanelH = 3
    SrcSizes <- WideAndSmall
    UpdateRects <- Near
    MaxRects = 2
    Requested = "Auto"
    Vncast = TRUE
    AutoRotate = FALSE
    BlitOf <- NoTilts
    TouchCells <- NoCells
INVARIANTS TypeOK NoLostDamage AsleepIsUpToDate
PROPERTIES EventuallyShown IdleWhenQuiet
CHECK_DEADLOCK FALSE
