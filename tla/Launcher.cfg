SPECIFICATION FairSpec
CONSTANT MaxRuns = 3
INVARIANTS TypeOK OnlyWhileServed OneVnsee CastIsFullscreen
PROPERTIES ReplacedOnlyWhenDead FullscreenEnds
CHECK_DEADLOCK FALSE
