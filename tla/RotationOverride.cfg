SPECIFICATION Spec
CONSTANTS
    PanelW = 2
    PanelH = 3
    SrcSizes <- Wide
    UpdateRects <- Near
    MaxRects = 1
    Requested = "Auto"
    Vncast = TRUE
    AutoRotate = TRUE
    BlitOf <- Tilts
    TouchCells <- NoCells
INVARIANT AutoRotateWins
CHECK_DEADLOCK FALSE
