SPECIFICATION Spec
CONSTANTS
    PanelW = 2
    PanelH = 3
    SrcSizes <- Wide
    UpdateRects <- Near
    MaxRects = 1
    Requested = "LandscapeCCW"
    Vncast = FALSE
    AutoRotate = TRUE
    BlitOf <- Tilts
    TouchCells <- NoCells
INVARIANT TurnRaceHeals
CHECK_DEADLOCK FALSE
