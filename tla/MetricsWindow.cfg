SPECIFICATION Spec
CONSTANTS
    w1 = w1  w2 = w2  f1 = f1  s1 = s1  c1 = c1
    Rows = {f1, s1}
    Row <- RowOf
    Workers = {w1}
    Bucket = 2
    Interval = 1
    Window = 6
    BaseGap = 5
    Lag = 1
    Skew = 1
    ProbeWindow = 2
    Cfg <- Small
    SlowPctMin = 3
    Past <- PastUsual
    Pasts <- PastsUpToFour
    MaxRows = 2
    LastLog = 2
    MaxDelay = 3
    MaxTime = 8
    MaxMutings = 0
PROPERTY RerunsAgree
CHECK_DEADLOCK FALSE
