SPECIFICATION DeliveryFairSpec
CONSTANTS
    e1 = e1  e2 = e2  e3 = e3
    Events = {e1, e2, e3}
    Workers = {w1, w2}
    Ops = {o1, o2}
    Invalid = {e3}
    Conflicting = {e2}
    OccurredAt <- MCOccurredAt
    MaxFence = 2
    NoOp = NoOp  NoWorker = NoWorker  NoEvent = NoEvent
INVARIANTS DeliveredMeansApplied
PROPERTIES LostClaimHarmless EverySettles
CHECK_DEADLOCK FALSE
