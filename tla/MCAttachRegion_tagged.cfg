SPECIFICATION Spec
CONSTANTS
    Inventories <- MCInventories
    Sources <- MCSources
    NodeStates <- MCNodeStates
    Databases <- MCDatabases
    TaggedRuns = TRUE
    MaxRuns = 2
    MaxEvents = 1
CHECK_DEADLOCK FALSE
INVARIANT NeverWithoutHash
