SPECIFICATION FairSpec
CONSTANTS
    t1 = t1
    t2 = t2
    s1 = s1
    restartAgent = restartAgent
    applyFirewall = applyFirewall
    Tenants = {t1, t2}
    System = {s1}
    Active = {t1, t2}
    Rerun = {restartAgent}
    SelfHeal = {applyFirewall}
    MaxFaults = 3
    MaxExternal = 0
INVARIANTS
    TypeOK
    HeldWhileUnfinished
    DownOnlyWhileHeld
    ExactRestore
PROPERTIES
    DockerdNeverRestartsUnderTenants
    StartedStaysUp
    AutoReleaseOnlyUntouched
    UnfinishedCycleEnds
