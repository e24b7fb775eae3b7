SPECIFICATION HubFairSpec
CONSTANTS
    u1 = u1  t1 = t1
    Conns = {c1}
    Users = {u1}
    Tokens = {t1}
    Devices = {d1, d2}
    UserOf <- MCUserOf
    TokenOf <- MCTokenOf
    Callers = {p1, p2}
    Buffer = 2
    NoDevice = NoDevice
INVARIANTS IndexExact NoLateDelivery
PROPERTIES RevokedCloses ShutdownDrains
CHECK_DEADLOCK FALSE
