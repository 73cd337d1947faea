SPECIFICATION FairSpec
CONSTANTS
    Clients = {c1, c2}
    Keys = {k1}
    MaxControllers = 2
    MaxUpdates = 1
INVARIANTS TypeOK BackendLives MatchedUp DeadOnlyByRace OneDeadlock
PROPERTY LetGo
CHECK_DEADLOCK FALSE
