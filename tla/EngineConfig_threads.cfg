SPECIFICATION Spec
CONSTANTS
    th1 = th1
    th2 = th2
    e1 = e1
    e2 = e2
    plain = plain
    secret = secret
    Masked = Masked
    Nobody = Nobody
    None = None
    Threads = {th1, th2}
    Engines = {e1, e2}
    Urls = {plain, secret}
    Secret = {secret}
    MaxCalls = 4
INVARIANTS GlobalsAgree NoneOnlyAfterReset ReplacedIsDisposed
PROPERTIES ReplacedForCause
CHECK_DEADLOCK FALSE
