SPECIFICATION Spec
CONSTANTS
    q1 = q1
    q2 = q2
    t1 = t1
    d1 = d1
    w1 = w1
    Nobody = Nobody
    NoTask = NoTask
    NoRun = NoRun
    Tasks = {t1}
    Requests = {q1, q2}
    Deleters = {d1}
    Workers = {w1}
    Endings = {"done", "failed", "timeout", "unstarted"}
    QueueSize = 1
    PoolSize = 4
    Unreadable = {}
    Malformed = {}
    MayRaise = TRUE
    RowLocks = FALSE
SYMMETRY Symmetry
INVARIANTS NoOrphanRows
CHECK_DEADLOCK FALSE
