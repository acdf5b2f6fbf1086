SPECIFICATION FairSpec
CONSTANTS
    Inputs <- SmallInputs
    QueueCap = 2
    BufferCap = 2
    Backlog = 1
    MaxCloses = 2
INVARIANTS TypeOK InputComplete
PROPERTIES InputServed
CHECK_DEADLOCK FALSE
