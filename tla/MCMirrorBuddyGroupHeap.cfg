CONSTANTS
    DoneBufferSize = 8
    Bases = {1}
    MaxSequence = 12
SPECIFICATION Spec
CHECK_DEADLOCK FALSE
INVARIANTS AckSparesInFlight
