SPECIFICATION MCSpec
CONSTANTS
    u1 = u1  u2 = u2  c0 = c0  c1 = c1  c2 = c2  team = team  chat = chat
    s1 = s1  s2 = s2  d1 = d1
    Users = {u1, u2}
    Calls = {c0, c1, c2}
    Groups = {team}
    Scopes = {team, chat}
    ScopeOf <- MCScopeOf
    Subjects <- MCSubjects
    Authorities <- MCAuthorities
    Events <- MCEvents
    Grants = {g1, g2}
    Leases = {l1}
    Workers = {w1}
    Intents = {i1}
    OldCalls = {c0}
    Guarded = TRUE
    RoomLimit = 2
    MaxRow = 2
    MaxGen = 2
    MaxFence = 1
    NoCall = NoCall  NoUser = NoUser  NoGrant = NoGrant  NoLease = NoLease
    NoWorker = NoWorker  NoAuthority = NoAuthority  NoReceipt = NoReceipt
    p1 = p1  p2 = p2
    Procs = {p1, p2}
    UserIds = {1, 2}
    CallIds = {1, 2}
    MaxHolds = 2
    Attempts = 2
    NoPlace = NoPlace  NoHold = NoHold  NoWish = NoWish
INVARIANTS DenyIsEffective HeldSlotBacked OneHeldGrantPerUser EndBarrier ReceiptHonest NoCircularWait
PROPERTIES OneStepEach
CONSTRAINT MCScopes
CHECK_DEADLOCK FALSE
