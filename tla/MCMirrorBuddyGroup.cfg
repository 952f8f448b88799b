CONSTANTS
    DoneBufferSize = 4
    Bases = {1, 4}
    MaxSequence = 9
SPECIFICATION Spec
CHECK_DEADLOCK FALSE
INVARIANTS TypeOK BackLinks RingHasRoom FinishedOnce AckSparesInFlight
PROPERTIES RingKeepsUntilAcked ImplementsLedger
