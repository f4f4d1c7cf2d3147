SPECIFICATION Spec
CONSTANTS
    h1 = h1
    h2 = h2
    old = old
    new = new
    lock = lock
    shut = shut
    NoTable = NoTable
    Hosts = {h1}
    Tables = {old, new, lock, shut}
    LetsIn = {old, new}
    Narrowed = {new, lock}
    LetsRunIn = {new, lock}
    MaxRuns = 3
    MaxFaults = 1
    MaxBoots = 0
CHECK_DEADLOCK FALSE
INVARIANTS
    SkipsOnlyTheKeptTable
