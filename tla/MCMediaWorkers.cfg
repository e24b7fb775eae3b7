SPECIFICATION Spec
CONSTANTS
    u1 = u1  u2 = u2  c0 = c0  c1 = c1  c2 = c2  team = team  chat = chat
    s1 = s1  s2 = s2  d1 = d1
    Users = {u1, u2}
    Calls = {c1}
    Groups = {team}
    Scopes = {team, chat}
    ScopeOf <- MCScopeOf
    Subjects <- MCSubjects
    Authorities <- MCReservers
    Events <- MCOneEvent
    Grants = {g1, g2}
    Leases = {1, 2}
    Workers = {w1, w2}
    Intents = {1, 2}
    OldCalls = {}
    Guarded = TRUE
    RoomLimit = 2
    MaxRow = 1
    MaxGen = 1
    MaxFence = 2
    NoCall = NoCall  NoUser = NoUser  NoGrant = NoGrant  NoLease = NoLease
    NoWorker = NoWorker  NoAuthority = NoAuthority  NoReceipt = NoReceipt
INVARIANTS RevokeStaysOpen RequestStaysOpen CompleteMeansTornDown NoLeaseOutlivesGrant
CONSTRAINT MCTeardowns
SYMMETRY MCTeardownSymmetry
CHECK_DEADLOCK FALSE
