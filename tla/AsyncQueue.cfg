SPECIFICATION Spec
CONSTANTS
    Capacity = 3
    MaxMsgSize = 2
    Writers = {w1, w2, w3}
    MaxEnqueues = 7
INVARIANTS QueueInvariant NoLostWakeup
PROPERTY ImplementsFifo
