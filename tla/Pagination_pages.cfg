SPECIFICATION Spec
CONSTANTS
    Ids = {1, 2, 3, 4}
    MaxTime = 1
    Limits = {1, 2}
    Filtered = TRUE
INVARIANTS NewestFirst WalkComplete
PROPERTIES CursorPromisesMore
CHECK_DEADLOCK FALSE
