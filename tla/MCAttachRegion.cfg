SPECIFICATION Spec
CONSTANTS
    Inventories <- MCInventories
    Sources <- MCSources
    NodeStates <- MCNodeStates
    Databases <- MCDatabases
    TaggedRuns = FALSE
    MaxRuns = 3
    MaxEvents = 1
CHECK_DEADLOCK FALSE
INVARIANTS
    TypeOK
    RefusedMeansChanged
    NeverWithoutHash
PROPERTIES
    JoinedOnce
    AdviceLeavesOnlyFlags
    NotLockedOut
    AppliedIsReviewed
    CertificateFitsDomain
    AgentHostIsTheNodes
    NothingAfterTheStop
    ImmutableKeysKept
