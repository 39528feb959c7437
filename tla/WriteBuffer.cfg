SPECIFICATION FairSpec
CONSTANTS
    r1 = r1  r2 = r2  r3 = r3  r4 = r4
    d1 = d1  d2 = d2
    k1 = k1  k2 = k2  k3 = k3
    q1 = q1  q2 = q2
    Rows <- RowsOfThree
    Owner <- OwnerOfThree
    Key <- KeyOfThree
    Devices = {d1, d2}
    Keys = {k1, k3}
    Requests = {q1, q2}
    Flusher = flusher
    Stopper = stopper
    MaxSize = 2
    MaxPending = 2
    MaxAttempts = 2
    MaxBatch = 2
    DbFaults = TRUE
INVARIANTS TypeOK Ownership Accounting Conservation BufferBounded ExitReport
PROPERTIES Settles Delivers
CHECK_DEADLOCK FALSE
