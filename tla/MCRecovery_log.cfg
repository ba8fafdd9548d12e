CONSTANTS
    v1 = v1  v2 = v2  s1 = s1  s2 = s2
    VMs <- MCVMs
    Savers <- MCSavers
    MaxVer = 2
    MaxCrashes = 1
SPECIFICATION Spec
INVARIANT SaveAfterCleanupQuiet
CHECK_DEADLOCK FALSE
