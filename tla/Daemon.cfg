SPECIFICATION Spec
CONSTANTS
    Lines = {1, 2, 3}
    LogOf <- LogOfThree
    Noise = {}
    MaxPoll = 2
    Chunk = 1
    BufMax = 2
    MaxInode <- RotateExtended
    Faults = {"outage", "rotate", "remove", "crash"}
INVARIANTS TypeOK Conservation SavedIsSafe
CHECK_DEADLOCK FALSE
