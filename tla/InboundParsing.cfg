SPECIFICATION FairSpec
CONSTANTS
    SubnegCap = 2
    BufCap = 6
    Backlog = 1
    MaxSends = 1
    Sessions <- AllSessions
INVARIANTS TypeOK MessagesFramed OneShotChar PromptOnce EditModeTold DeferredPublished
PROPERTY DeferredLineParsed
CHECK_DEADLOCK FALSE
