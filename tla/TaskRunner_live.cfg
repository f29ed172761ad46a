SPECIFICATION FairSpec
CONSTANTS
    r1 = r1
    r2 = r2
    r3 = r3
    w1 = w1
    Shutdown = Shutdown
    NoRun = NoRun
    Runs = {r1, r2, r3}
    Workers = {w1}
    QueueBoundMultiplier = 1
    Malformed = {}
    RecorderMayFail = TRUE
PROPERTIES AcceptedIsSettled BlockedReturns CloseTerminates
CHECK_DEADLOCK FALSE
