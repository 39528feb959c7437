SPECIFICATION ParserSpec
CONSTANTS
    p1 = p1  p2 = p2  p3 = p3  f1 = f1  a1 = a1  a2 = a2
    Pids = {p1, p2, p3}
    Accounts = {a1, a2}
    Files = {f1}
    Outcomes = {"done", "aborted", "refused", "missing", "malformed", "anonymous"}
    Simple <- SomeCommands
    MaxSessions = 2
    MaxLinesPerPoll = 3
    BatchSize = 2
    MaxLines = 5
    MaxUpsets = 1
    Nothing = Nothing
INVARIANTS ParserTypeOK   BulkCompletes
SYMMETRY PidSymmetry
CHECK_DEADLOCK FALSE
