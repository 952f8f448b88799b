CONSTANTS
    mds1 = mds1
    mds2 = mds2
    Servers <- MCServers
    FirstPrimary = mds1
    MaxCrashes = 2
    MaxCuts = 2
    MaxMisses = 2
    Races = {}

SPECIFICATION FairSpec

    
    
PROPERTIES
    StaleIsResynced
CHECK_DEADLOCK FALSE
