SPECIFICATION FairSpec
CONSTANTS
    u1 = u1
    u2 = u2
    u3 = u3
    syncer = syncer
    Users <- MCUsers
    MaxConns = 2
    MaxUses = 4
    MaxChanges = 1
INVARIANTS
    PoolIsConsistent
    NoLostWakeup
    OldIsFlagged
PROPERTIES
    EveryAcquireEnds
CHECK_DEADLOCK FALSE
