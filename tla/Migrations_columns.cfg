SPECIFICATION Spec
CONSTANTS
    t1 = t1
    t2 = t2
    n1 = n1
    n2 = n2
    p1 = p1
    p2 = p2
    NoTask = NoTask
    NoBlob = NoBlob
    Ids = {t1, t2}
    Names = {n1, n2}
    Payloads = {p1, p2}
    MaxRows = 3
    MaxRuns = 6
    Transactional = TRUE
SYMMETRY Symmetry
INVARIANTS ColumnsKept
CHECK_DEADLOCK FALSE
