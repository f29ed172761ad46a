SPECIFICATION Spec
CONSTANTS
    r1 = r1
    r2 = r2
    r3 = r3
    r4 = r4
    w1 = w1
    w2 = w2
    Shutdown = Shutdown
    NoRun = NoRun
    Runs = {r1, r2, r3, r4}
    Workers = {w1, w2}
    QueueBoundMultiplier = 1
    Malformed = {r4}
    RecorderMayFail = TRUE
SYMMETRY Symmetry
INVARIANTS ChildOwned ConcurrencyBound JoinAccounting GracefulDrain NoLostWakeup
PROPERTIES QuietAfterClose ImplementsLifecycle
CHECK_DEADLOCK FALSE
