SPECIFICATION Spec
CONSTANTS
    Instances = {a, b}
    a = a
    b = b
    Hall = 4
    Present <- Existing
    Parsable <- Readable
    Original <- OrdinaryValues
    Faults = {"kill", "power"}
SYMMETRY Runs
INVARIANTS TypeOK LeftAsFound SilentWhileRunning
CHECK_DEADLOCK FALSE
