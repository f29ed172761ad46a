SPECIFICATION Spec
CONSTANTS
    q1 = q1
    q2 = q2
    q3 = q3
    t1 = t1
    t2 = t2
    d1 = d1
    w1 = w1
    Nobody = Nobody
    NoTask = NoTask
    NoRun = NoRun
    Tasks = {t1, t2}
    Requests = {q1, q2, q3}
    Deleters = {d1}
    Workers = {w1}
    Endings = {"done", "failed", "timeout", "unstarted"}
    QueueSize = 1
    PoolSize = 2
    Unreadable = {}
    Malformed = {}
    MayRaise = TRUE
    RowLocks = TRUE
SYMMETRY Symmetry
INVARIANTS NeverInterleaved NoOrphanRows NothingLeaks
CHECK_DEADLOCK FALSE
