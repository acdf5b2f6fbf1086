SPECIFICATION Spec
CONSTANTS
    Sessions <- EarlyMessage
    OutCap = 3
    Backlog = 1
    MaxWrites = 2
    MaxSends = 0
INVARIANTS OutputInOrder
CHECK_DEADLOCK FALSE
