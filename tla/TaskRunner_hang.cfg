SPECIFICATION FairSpec
CONSTANTS
    r1 = r1
    r2 = r2
    r3 = r3
    r4 = r4
    w1 = w1
    Shutdown = Shutdown
    NoRun = NoRun
    Runs = {r1, r2, r3, r4}
    Workers = {w1}
    QueueBoundMultiplier = 2
    Malformed = {r1}
    RecorderMayFail = FALSE
PROPERTIES CloseTerminates
CHECK_DEADLOCK FALSE
