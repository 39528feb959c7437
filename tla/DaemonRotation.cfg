SPECIFICATION Spec
CONSTANTS
    Lines = {1, 2, 3}
    LogOf <- LogOfThree
    Noise = {1}
    MaxPoll = 2
    Chunk = 1
    BufMax = 3
    MaxInode <- RotateExtended
    Faults = {"rotate"}
INVARIANT Conservation
CHECK_DEADLOCK FALSE
