SPECIFICATION FairSpec
CONSTANTS
    Jobs = {j1, j2}
    Closures = {c1, c2}
    Outside = Outside
    NoClosure = NoClosure
    Workers = 2
    BacklogCapacity = 1
    MaxGeneration = 1
    MaxLines = 1
    MaxSends = 1
    MaxAwaits = 1
    AwaitAfterCancel = FALSE
    HooksThrow = FALSE
PROPERTIES
    CloseCompletes
    GateOpens
