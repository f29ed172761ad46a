SPECIFICATION ProbeSpec
CONSTANTS
    t1 = t1
    t2 = t2
    n1 = n1
    p1 = p1
    p2 = p2
    probe1 = probe1
    NoTask = NoTask
    NoBlob = NoBlob
    Ids = {t1, t2}
    Names = {n1}
    Payloads = {p1, p2}
    MaxRows = 2
    MaxRuns = 3
    Transactional = TRUE
    Probes = {probe1}
    PoolSize = 2
    ScriptsFound = FALSE
PROPERTIES ReadyFromAnywhere
CHECK_DEADLOCK FALSE
