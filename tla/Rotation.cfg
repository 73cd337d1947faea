SPECIFICATION Spec
CONSTANTS
    PanelW = 2
    PanelH = 3
    SrcSizes <- Wide
    UpdateRects <- Far
    MaxRects = 1
    Requested = "Auto"
    Vncast = FALSE
    AutoRotate = TRUE
    BlitOf <- Tilts
    TouchCells <- NoCells
INVARIANTS PresentedExactly
PROPERTIES DamageLostOnlyByFlushOrRace
CHECK_DEADLOCK FALSE
