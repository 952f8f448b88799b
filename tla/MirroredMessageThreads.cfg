CONSTANTS
    t1 = t1
    t2 = t2
    mds1 = mds1
    mds2 = mds2
    k1 = k1
    k2 = k2
    Threads <- MCThreads
    Servers <- MCServers
    Keys <- MCTwoKeys
    FirstPrimary = mds1
    NumConns = 5
    OpsPerThread = 1
    MaxCrashes = 1
    MaxBreaks = 1
    MaxShutdowns = 0
    MaxAborts = 0
    LateStart = FALSE

SPECIFICATION Spec

SYMMETRY Symmetry
INVARIANTS
    AppliedOnce
    ReplicasAgree
CHECK_DEADLOCK FALSE
