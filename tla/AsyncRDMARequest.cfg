SPECIFICATION FairSpec
CONSTANTS
    sockA = sockA
    sockB = sockB
    Socks <- MCSocks
    Slots <- MCSlots
    Faults <- MCFaults
    MaxRequests = 3
    MaxChunks = 2
    MaxShorts = 1
INVARIANTS
    AnsweredOnce
    InFlightIsOwned

    
CHECK_DEADLOCK FALSE
