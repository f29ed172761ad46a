SPECIFICATION FairSpec
CONSTANTS
    q1 = q1
    q2 = q2
    q3 = q3
    Requests = {q1, q2, q3}
    Revoker = Revoker
    Nobody = Nobody
    Capacity = 2
    Scale = 3
    Refill = 2
    TicksPerSecond = 1
    MaxClock = 4
    RowLocks = TRUE
    RoundsTokens = TRUE
    Zone = 0
INVARIANTS WindowBound RetryAfterSuffices
PROPERTIES ImplementsBucket DenialJustified QuietAfterRevoke RequestAnswered
CHECK_DEADLOCK FALSE
