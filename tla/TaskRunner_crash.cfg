SPECIFICATION FairSpec
CONSTANTS
    r1 = r1
    r2 = r2
    r3 = r3
    w1 = w1
    Shutdown = Shutdown
    NoRun = NoRun
    Runs = {r1, r2, r3}
    Workers = {w1}
    QueueBoundMultiplier = 2
    Malformed = {r1}
    RecorderMayFail = FALSE
PROPERTIES AcceptedIsSettled
CHECK_DEADLOCK FALSE
