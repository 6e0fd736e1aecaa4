SPECIFICATION Spec
CONSTANTS
    ByteBits = 7
    FileBytes = 8
    SCount = 3
    FCount = 2
    ARRAY_MAX_SIZE = 5
    Jobs <- SomeJobs
    Start <- SomeStart
INVARIANTS
    ArithmeticIsExact
    BoundsAreTrapped
    StateIsConsistent
    ReversedIsUnchanged
