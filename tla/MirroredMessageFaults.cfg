CONSTANTS
    t1 = t1
    t2 = t2
    mds1 = mds1
    mds2 = mds2
    k1 = k1
    k2 = k2
    Threads <- MCOne
    Servers <- MCServers
    Keys <- MCKeys
    FirstPrimary = mds1
    NumConns = 5
    OpsPerThread = 2
    MaxCrashes = 1
    MaxBreaks = 1
    MaxShutdowns = 1
    MaxAborts = 1
    LateStart = FALSE

SPECIFICATION FairSpec
INVARIANTS
    AppliedOnce
    OutcomeIsTrue
    ReplicasAgree
    RetriesSurviveFailover
PROPERTIES
    OperationsEnd
CHECK_DEADLOCK FALSE
