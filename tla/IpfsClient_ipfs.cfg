SPECIFICATION FairSpec
CONSTANTS
    RETRY_COUNT = 10
    maxRetries = 5
    Chunks = 2
    None = None
INVARIANTS BodyOnce PublishedIsStored DownloadIsWhole
PROPERTIES ChildrenEnd
