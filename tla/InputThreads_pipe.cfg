SPECIFICATION FairSpec
CONSTANTS
    Inputs <- OnePipe
    QueueCap = 2
    BufferCap = 2
    Backlog = 1
    MaxCloses = 0
PROPERTIES PipeEofStopsServer
CHECK_DEADLOCK FALSE
