SPECIFICATION Spec
CONSTANTS
    h1 = h1
    h2 = h2
    old = old
    new = new
    lock = lock
    shut = shut
    NoTable = NoTable
    Hosts = {h1, h2}
    Tables = {old, lock, shut}
    LetsIn = {old}
    Narrowed = {lock}
    LetsRunIn = {lock}
    MaxRuns = 2
    MaxFaults = 1
    MaxBoots = 1
SYMMETRY HostSymmetry
CHECK_DEADLOCK FALSE
INVARIANTS
    TypeOK
    PassedHostKeepsItsTable
    RollbackKeepsAFirewall
