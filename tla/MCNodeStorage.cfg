SPECIFICATION FairSpec
CONSTANTS
    DataMount = "data"
    BindTargets <- MCBindTargets
    InitialNodes <- MCInitialNodes
    LosesHandlers = FALSE
    MaxDeaths = 2
    MaxBoots = 2
    MaxVisits = 1
INVARIANTS
    TypeOK
    WritesToDataDisk
    PassedStaysReady
PROPERTIES
    NothingHidden
    PromiseKept
    FreshNodeFinishes
