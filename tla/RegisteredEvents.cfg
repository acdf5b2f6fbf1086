SPECIFICATION FairSpec
CONSTANTS
    Timer = timer
    AutoReset = {auto}
    ManualReset = {}
    Flags = {f1, f2}
    MaxSignals = 3
INVARIANTS RegistrationSerial FlagsConserved
PROPERTIES FlagsDelivered SignalsDelivered ShutdownReturns
CHECK_DEADLOCK FALSE
