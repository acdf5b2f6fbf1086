SPECIFICATION Spec
CONSTANTS
    Jobs = {j1, j2, j3}
    Closures = {c1, c2, c3}
    Outside = Outside
    NoClosure = NoClosure
    Workers = 2
    BacklogCapacity = 1
    MaxGeneration = 2
    MaxLines = 2
    MaxSends = 2
    MaxAwaits = 2
    AwaitAfterCancel = TRUE
    HooksThrow = FALSE
SYMMETRY Identities
INVARIANTS MutualExclusion
