SPECIFICATION FairSpec
CONSTANTS
    Threads = {t1, t2}
    Pairs = {p1, p2, p3}
    NoPair = NoPair
INVARIANTS SingleOwner StopRunsEverything
PROPERTIES CompletionsSerialized AcceptedCompletes StopReturns
