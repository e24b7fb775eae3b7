SPECIFICATION MCServicesSpec
CONSTANTS
    u1 = u1  u2 = u2  c0 = c0  c1 = c1  c2 = c2  c3 = c3  team = team  chat = chat
    s1 = s1  s2 = s2  d1 = d1
    Procs = {p1, p2}
    Users = {u1, u2}
    Calls = {c1, c2, c3}
    Groups = {team}
    Scopes = {team, chat}
    ScopeOf <- MCWiredScopeOf
    Subjects <- MCSubjects
    Authorities <- MCAuthorities
    Events <- MCEvents
    Grants = {g1, g2}
    Leases = {l1}
    Workers = {w1}
    Intents = {}
    OldCalls = {}
    Guarded = FALSE
    RoomLimit = 1
    MaxRow = 2
    MaxGen = 2
    MaxFence = 1
    NoCall = NoCall  NoUser = NoUser  NoGrant = NoGrant  NoLease = NoLease
    NoWorker = NoWorker  NoAuthority = NoAuthority  NoReceipt = NoReceipt
    Participants = {ann, bob}  Clients = {phone, laptop}
    ann = ann  bob = bob  phone = phone  laptop = laptop
    OwnerOf <- MCOwnerOf
    Messages = {1, 2, 3, 4}
    Old = {1, 2}
    Requests = {p1, p2}
    BatchSizes = {1, 2}
    MaxRoster = 3
    NoMessage = NoMessage  NoHolder = NoHolder
INVARIANTS CallHasPeople RoomCapacity VersionFixesRoster ServedInOrder
PROPERTIES OnlyNamedRowsLeave ImplementsContract OnlyMembersAddressed AppendsOnly
SYMMETRY MCSymmetry
CONSTRAINT MCScopes
CHECK_DEADLOCK FALSE
