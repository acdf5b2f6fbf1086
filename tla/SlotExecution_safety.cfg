SPECIFICATION Spec
CONSTANTS
    Jobs = {j1, j2, j3}
    Closures = {c1, c2, c3}
    Outside = Outside
    NoClosure = NoClosure
    Workers = 2
    BacklogCapacity = 1
    MaxGeneration = 2
    MaxLines = 1
    MaxSends = 2
    MaxAwaits = 2
    AwaitAfterCancel = FALSE
    HooksThrow = TRUE
SYMMETRY Identities
INVARIANTS
    TypeOK
    MutualExclusion
    GateHeld
    GateInvariant
    AwaitingHookHasCompletion
    CompletionOwnsSlot
    ResumeAfterWork
    DisconnectPinsSlot
PROPERTIES
    OneDisconnectPerConnection
    StopConsumesAwaits
CHECK_DEADLOCK FALSE
