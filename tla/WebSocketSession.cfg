SPECIFICATION FairSpec
CONSTANTS
    Sessions <- AllSessions
    OutCap = 2
    Backlog = 1
    MaxWrites = 1
    MaxSends = 1
INVARIANTS TypeOK UpgradeFirst CloseOnce MessagesInOrder
PROPERTIES EofRemoves
CHECK_DEADLOCK FALSE
