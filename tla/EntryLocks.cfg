SPECIFICATION FairSpec
CONSTANTS
    worker1 = worker1
    worker2 = worker2
    Threads <- MCThreads
    Dirs <- MCDirs
    Names <- MCNames
    Tree0 <- MCTree0
    Requests <- MCRequests
    MaxID = 6
    MaxOps = 3
INVARIANTS
    ReplicasAgree
    EntriesAreKept

    
CHECK_DEADLOCK FALSE
