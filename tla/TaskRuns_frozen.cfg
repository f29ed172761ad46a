SPECIFICATION FairSpec
CONSTANTS
    q1 = q1
    q2 = q2
    q3 = q3
    q4 = q4
    t1 = t1
    w1 = w1
    Nobody = Nobody
    NoTask = NoTask
    NoRun = NoRun
    Tasks = {t1}
    Requests = {q1, q2, q3, q4}
    Deleters = {}
    Workers = {w1}
    Endings = {"done", "failed", "timeout", "unstarted"}
    QueueSize = 1
    PoolSize = 6
    Unreadable = {}
    Malformed = {}
    MayRaise = FALSE
    RowLocks = TRUE
PROPERTIES Answered
CHECK_DEADLOCK FALSE
