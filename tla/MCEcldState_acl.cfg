\* Two tasks of different callers share, revoke, transfer and pin commits to one key.
SPECIFICATION Spec
CONSTANTS
    t1 = t1  t2 = t2  k1 = k1  k2 = k2  alice = alice  bob = bob  None = None
    Keys = {k1}
    Tasks = {t1, t2}
    Fibers = {1}
    Callers = {alice, bob}
    Caller <- TwoCallers
    Calls <- AclCalls
    MAX_COMMITS_PER_TASK = 2
    Attempts = 3
    LocalApply = FALSE
    Failures = FALSE
    MaxCalls = 2
INVARIANTS
    ChainReadsRespectAcl
    PinnedNonceUsedOnce
\* A payload may stop calling, and its calls are bounded.
CHECK_DEADLOCK FALSE
