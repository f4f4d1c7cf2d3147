SPECIFICATION Spec
CONSTANTS
    DataMount = "data"
    BindTargets <- MCBindTargets
    InitialNodes <- MCInitialNodes
    LosesHandlers = TRUE
    MaxDeaths = 1
    MaxBoots = 0
    MaxVisits = 1
INVARIANTS
    WritesToDataDisk
