SPECIFICATION Spec
CONSTANTS
    q1 = q1
    q2 = q2
    t1 = t1
    n1 = n1
    root = root
    guest = guest
    NoKey = NoKey
    NoTask = NoTask
    NoName = NoName
    Requests = {q1, q2}
    Stored = {t1}
    Keys = {root, guest}
    Issued = {root}
    ScopeOf <- Scopes
    Names = {n1}
    Burst = 2
SYMMETRY Symmetry
INVARIANTS UnknownIs404
CHECK_DEADLOCK FALSE
