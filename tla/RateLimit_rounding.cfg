SPECIFICATION Spec
CONSTANTS
    q1 = q1
    q2 = q2
    q3 = q3
    q4 = q4
    Requests = {q1, q2, q3, q4}
    Revoker = Revoker
    Nobody = Nobody
    Capacity = 2
    Scale = 5
    Refill = 3
    TicksPerSecond = 1
    MaxClock = 3
    RowLocks = TRUE
    RoundsTokens = TRUE
    Zone = 0
SYMMETRY Symmetry
INVARIANTS ExactWindowBound
CHECK_DEADLOCK FALSE
