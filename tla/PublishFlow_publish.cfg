\* Publishes of two builds, with faults, on every kind of network.
SPECIFICATION FairSpec
CONSTANTS
    Us = Us  Other = Other  None = None
    Networks = {"testnet", "self", "selfV1", "mainnet"}
    MaxBuilds = 2
    MaxFaults = 1
    MaxChanges = 1
    RewardAddress = TRUE
    Validators = 2
INVARIANTS
    CertificateIsItsBuilds
    BoundBeforeDisclosed
    RerunsRenderTheSameCompose
    SuccessIsComplete
    HarvestFindsItsSession
PROPERTIES
    RerunsComplete
    KeptUntilCertified
\* The last build may be published.
CHECK_DEADLOCK FALSE
