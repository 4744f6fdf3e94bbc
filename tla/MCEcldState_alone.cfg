\* One task alone on two keys, the node relaying what it can.
SPECIFICATION FairSpec
CONSTANTS
    t1 = t1  t2 = t2  k1 = k1  k2 = k2  alice = alice  bob = bob  None = None
    Keys = {k1, k2}
    Tasks = {t1}
    Fibers = {1}
    Callers = {alice}
    Caller <- OneCaller
    Calls <- TwoKeys
    MAX_COMMITS_PER_TASK = 4
    Attempts = 3
    LocalApply = FALSE
    Failures = FALSE
    MaxCalls = 4
PROPERTIES
    ImplementsRegister
    AckedCommitsLand
\* A payload may stop calling, and its calls are bounded.
CHECK_DEADLOCK FALSE
