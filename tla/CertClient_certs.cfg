\* The client's own grace periods, in polls; a poll may come one late.
SPECIFICATION FairSpec
CONSTANTS
    CHAIN_ROW_GRACE = 18
    RESUBMIT_GRACE = 6
    AnswerLag = 6
    MaxSleep = 2
    MaxFailures = 2
    MaxFaults = 2
INVARIANTS WatchedIsNotPosted
PROPERTIES FailureIsReal EventuallySaved
