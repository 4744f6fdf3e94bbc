\* Two sequential tasks on one key, awaits failing, the node relaying in any order.
SPECIFICATION Spec
CONSTANTS
    t1 = t1  t2 = t2  k1 = k1  k2 = k2  alice = alice  bob = bob  None = None
    Keys = {k1}
    Tasks = {t1, t2}
    Fibers = {1}
    Callers = {alice}
    Caller <- OneCaller
    Calls <- GetCommit
    MAX_COMMITS_PER_TASK = 2
    Attempts = 3
    LocalApply = FALSE
    Failures = TRUE
    MaxCalls = 2
INVARIANTS
    ChainReadsKeepUpdates
    LossOnlyBehindOwnRefusal
    NonceCopyAgrees
PROPERTIES
    ResultsAdvance
\* A payload may stop calling, and its calls are bounded.
CHECK_DEADLOCK FALSE
