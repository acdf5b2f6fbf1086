SPECIFICATION FairSpec
CONSTANTS
    Inputs <- EmptyFile
    QueueCap = 2
    BufferCap = 2
    Backlog = 1
    MaxCloses = 0
PROPERTIES EofStopsServer
CHECK_DEADLOCK FALSE
