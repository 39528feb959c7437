SPECIFICATION FairSpec
CONSTANTS
    Lines = {1, 2, 3}
    LogOf <- LogOfThree
    Noise = {1}
    MaxPoll = 2
    Chunk = 1
    BufMax = 2
    MaxInode <- RotateExtended
    Faults = {"outage", "disable", "signal"}
INVARIANT Conservation
 
CHECK_DEADLOCK FALSE
