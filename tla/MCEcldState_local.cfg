\* The local emulator: commits applied at once, concurrent calls retried.
SPECIFICATION Spec
CONSTANTS
    t1 = t1  t2 = t2  k1 = k1  k2 = k2  alice = alice  bob = bob  None = None
    Keys = {k1}
    Tasks = {t1}
    Fibers = {1, 2, 3}
    Callers = {alice}
    Caller <- OneCaller
    Calls <- PinnedCommits
    MAX_COMMITS_PER_TASK = 5
    Attempts = 3
    LocalApply = TRUE
    Failures = FALSE
    MaxCalls = 3
INVARIANTS
    NoUpdateLost
\* A payload may stop calling, and its calls are bounded.
CHECK_DEADLOCK FALSE
