SPECIFICATION Spec
CONSTANTS
    PanelW = 2
    PanelH = 3
    SrcSizes <- Wide
    UpdateRects <- NearAndFar
    MaxRects = 2
    Requested = "Auto"
    Vncast = TRUE
    AutoRotate = FALSE
    BlitOf <- NoTilts
    TouchCells <- NoCells
INVARIANT NoLostDamage
CHECK_DEADLOCK FALSE
