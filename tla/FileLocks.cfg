SPECIFICATION FairSpec
CONSTANTS
    Handles <- MCHandles
    ClientOf <- MCClientOf
    Kinds <- MCKinds
    MaxPos = 2
    Ranges <- MCRanges
    MaxReq = 3
INVARIANTS
    
    NoForgottenWaiter
    

    
CHECK_DEADLOCK FALSE
