SPECIFICATION FairSpec
CONSTANTS
    RetryMax = 1
    QueueMax = 3
    Threshold = 2
    Files = 2
    MaxLate = 1
    MaxUpd = 2
    Versions = 2
    MaxEvents = 3
    Null = Null
INVARIANTS TypeOK  FilesWhole
 
CHECK_DEADLOCK FALSE
