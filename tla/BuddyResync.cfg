SPECIFICATION FairSpec
CONSTANTS
    worker1 = worker1
    worker2 = worker2
    bulk1 = bulk1
    Workers <- MCWorkers
    BulkSlaves <- MCBulkSlaves
    NumDirs = 2
    Touched = {1}
    QueueLimit = 0
    AbortRetries = 1
    MaxOps = 2
    MaxJobs = 2
    Races = {"late flag"}

    
    
PROPERTIES
    
    JobAndOperationsEnd
CHECK_DEADLOCK FALSE
