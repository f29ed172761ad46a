SPECIFICATION Spec
CONSTANTS
    q1 = q1
    t1 = t1
    w1 = w1
    Nobody = Nobody
    NoTask = NoTask
    NoRun = NoRun
    Tasks = {t1}
    Requests = {q1}
    Deleters = {}
    Workers = {w1}
    Endings = {"done", "failed", "timeout", "unstarted"}
    QueueSize = 1
    PoolSize = 2
    Unreadable = {}
    Malformed = {}
    MayRaise = TRUE
    RowLocks = TRUE
SYMMETRY Symmetry
INVARIANTS TimeoutMeansTimeout
CHECK_DEADLOCK FALSE
