SPECIFICATION FairSpec
CONSTANTS
    q1 = q1
    q2 = q2
    q3 = q3
    t1 = t1
    t2 = t2
    d1 = d1
    w1 = w1
    w2 = w2
    Nobody = Nobody
    NoTask = NoTask
    NoRun = NoRun
    Tasks = {t1, t2}
    Requests = {q1, q2, q3}
    Deleters = {d1}
    Workers = {w1, w2}
    Endings = {"done", "unstarted"}
    QueueSize = 1
    PoolSize = 4
    Unreadable = {t2}
    Malformed = {q1}
    MayRaise = TRUE
    RowLocks = FALSE
PROPERTIES Answered AcceptedIsRecorded
CHECK_DEADLOCK FALSE
