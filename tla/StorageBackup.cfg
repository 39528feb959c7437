SPECIFICATION Spec
CONSTANTS
    r1 = r1  r2 = r2  r3 = r3
    w1 = w1  w2 = w2
    Rows = {r1, r2, r3}
    MonthOf <- RowMonths
    MaxMonth = 5
    MaxNow = 3
    FirstMonth = 2
    Retention = 1
    Future = 0
    Chunk = 1
    Workers = {w1}
    MaxFailures = 0
PROPERTY DroppedWasBackedUp
CHECK_DEADLOCK FALSE
