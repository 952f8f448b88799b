SPECIFICATION FairSpec
CONSTANTS
    direct1 = direct1
    indirect1 = indirect1
    indirect2 = indirect2
    DirectWorkers <- MCDirectWorkers
    IndirectWorkers <- MCIndirectWorkers
    Users <- MCUsers
    MaxQueued = 2
    MaxPersonal = 2
INVARIANTS
    NoLostWakeup
PROPERTIES
    EveryUserIsServed
