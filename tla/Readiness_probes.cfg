SPECIFICATION ProbeSpec
CONSTANTS
    t1 = t1
    t2 = t2
    n1 = n1
    n2 = n2
    p1 = p1
    p2 = p2
    probe1 = probe1
    NoTask = NoTask
    NoBlob = NoBlob
    Ids = {t1, t2}
    Names = {n1, n2}
    Payloads = {p1, p2}
    MaxRows = 3
    MaxRuns = 4
    Transactional = TRUE
    Probes = {probe1}
    PoolSize = 1
    ScriptsFound = TRUE
INVARIANTS FirstResultKept ReadyMeansMigrated
PROPERTIES VerdictFollows
CHECK_DEADLOCK FALSE
