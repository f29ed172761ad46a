SPECIFICATION Spec
CONSTANTS
    q1 = q1
    q2 = q2
    q3 = q3
    q4 = q4
    t1 = t1
    t2 = t2
    w1 = w1
    Nobody = Nobody
    NoTask = NoTask
    NoRun = NoRun
    Tasks = {t1, t2}
    Requests = {q1, q2, q3, q4}
    Deleters = {}
    Workers = {w1}
    Endings = {"done", "failed", "timeout", "unstarted"}
    QueueSize = 1
    PoolSize = 2
    Unreadable = {}
    Malformed = {}
    MayRaise = FALSE
    RowLocks = FALSE
SYMMETRY Symmetry
INVARIANTS LostOnlyWithTask
CHECK_DEADLOCK FALSE
