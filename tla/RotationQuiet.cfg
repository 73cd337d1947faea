SPECIFICATION FairSpec
CONSTANTS
    PanelW = 2
    PanelH = 3
    SrcSizes <- Wide
    UpdateRects <- FullOnly
    MaxRects = 1
    Requested = "LandscapeCCW"
    Vncast = TRUE
    AutoRotate = TRUE
    BlitOf <- Tilts
    TouchCells <- NoCells
PROPERTY RotationLands
CHECK_DEADLOCK FALSE
