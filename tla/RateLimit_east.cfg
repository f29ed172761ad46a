SPECIFICATION Spec
CONSTANTS
    q1 = q1
    q2 = q2
    q3 = q3
    Requests = {q1, q2, q3}
    Revoker = Revoker
    Nobody = Nobody
    Capacity = 1
    Scale = 1
    Refill = 1
    TicksPerSecond = 1
    MaxClock = 2
    RowLocks = TRUE
    RoundsTokens = TRUE
    Zone = 2
SYMMETRY Symmetry
INVARIANTS WindowBound
CHECK_DEADLOCK FALSE
