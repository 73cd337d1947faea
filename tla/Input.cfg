SPECIFICATION Spec
CONSTANTS
    PanelW = 2
    PanelH = 3
    SrcSizes <- Wide
    UpdateRects <- Far
    MaxRects = 2
    Requested = "LandscapeCCW"
    Vncast = FALSE
    AutoRotate = FALSE
    BlitOf <- NoTilts
    TouchCells <- Corner
INVARIANTS PresentedExactly
PROPERTIES DamageLostOnlyByFlushOrRace TouchHitsShownPixel DisplaySpec
CHECK_DEADLOCK FALSE
