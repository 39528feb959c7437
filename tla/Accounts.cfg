SPECIFICATION Spec
CONSTANTS
    a1 = a1  a2 = a2  c1 = c1  q1 = q1  q2 = q2
    Admins = {a1, a2}
    Customers = {c1}
    Boot = a1
    Keys = {k1}
    Reqs = {q1, q2}
    MaxAttempts = 2
    MaxBegun = 5
    None = None
SYMMETRY ReqSymmetry
INVARIANTS TypeOK  KeyKeepsRole
PROPERTY StaleWritesHarmless
CHECK_DEADLOCK FALSE
