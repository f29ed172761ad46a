SPECIFICATION Spec
CONSTANTS
    q1 = q1
    q2 = q2
    Requests = {q1, q2}
    Revoker = Revoker
    Nobody = Nobody
    Capacity = 1
    Scale = 2
    Refill = 1
    TicksPerSecond = 1
    MaxClock = 2
    RowLocks = FALSE
    RoundsTokens = FALSE
    Zone = 0
SYMMETRY Symmetry
INVARIANTS WindowBound
CHECK_DEADLOCK FALSE
