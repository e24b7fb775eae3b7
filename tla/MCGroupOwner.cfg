SPECIFICATION GroupSpec
CONSTANTS
    Groups = {g1}
    Users = {u1, u2}
    Links = {l1}
    Requests = {r1, r2}
    MaxMemberships = 0
    MaxRevision = 4
    NoLink = NoLink  NoRequest = NoRequest
INVARIANTS ExactlyOneOwner
SYMMETRY MCSymmetry
CHECK_DEADLOCK FALSE
