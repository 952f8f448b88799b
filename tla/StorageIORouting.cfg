SPECIFICATION FairSpec
CONSTANTS
    sock1 = sock1
    sock2 = sock2
    sock3 = sock3
    Socks <- MCSocks
    NumListeners = 2
    NumWorkers = 3
    RingSize = 2
    Slots = 1
    MaxRequests = 3
INVARIANTS
    LoadIsCounted
    RingsHaveRoom
PROPERTIES
    EveryRequestIsAnswered
CHECK_DEADLOCK FALSE
