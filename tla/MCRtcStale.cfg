SPECIFICATION MCServiceSpec
CONSTANTS
    u1 = u1  u2 = u2  c0 = c0  c1 = c1  c2 = c2  c3 = c3  team = team  chat = chat
    s1 = s1  s2 = s2  d1 = d1
    Procs = {p1, p2}
    Users = {u1, u2}
    Calls = {c1, c2}
    Groups = {}
    Scopes = {chat}
    ScopeOf <- MCChatScopeOf
    Subjects = {}
    Authorities <- MCNone
    Events <- MCNone
    Grants = {}
    Leases = {}
    Workers = {}
    Intents = {}
    OldCalls = {}
    Guarded = FALSE
    RoomLimit = 4
    MaxRow = 2
    MaxGen = 0
    MaxFence = 0
    NoCall = NoCall  NoUser = NoUser  NoGrant = NoGrant  NoLease = NoLease
    NoWorker = NoWorker  NoAuthority = NoAuthority  NoReceipt = NoReceipt
PROPERTIES OnlyStaleEvicted
SYMMETRY MCStaleSymmetry
