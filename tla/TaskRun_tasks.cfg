\* Every command on every network; two callers, three requests to the local API.
SPECIFICATION FairSpec
CONSTANTS
    Requests = {q1, q2, q3}
    Callers = {alice, bob}
    Default = dev
    None = None
INVARIANTS
    ExitZeroMeansSuccess
    RunsItsNetworksZone
    AloneSeesItsCaller
PROPERTIES
    EveryRunEnds
\* A command ends, and the local API waits when no request comes.
CHECK_DEADLOCK FALSE
