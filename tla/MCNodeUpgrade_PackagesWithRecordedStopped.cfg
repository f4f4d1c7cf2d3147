SPECIFICATION Spec
CONSTANTS
    t1 = t1
    t2 = t2
    s1 = s1
    restartAgent = restartAgent
    applyFirewall = applyFirewall
    Tenants = {t1, t2}
    System = {s1}
    Active = {t1, t2}
    Rerun = {restartAgent}
    SelfHeal = {applyFirewall}
    MaxFaults = 2
    MaxExternal = 2
PROPERTIES
    PackagesWithRecordedStopped
