SPECIFICATION MCSpec
CONSTANTS
    Groups = {b1, b2}
    Users = {c1, c2, c3}
    Links = {l1}
    Requests = {r1, r2}
    MaxMemberships = 1
    MaxRevision = 4
    NoLink = NoLink  NoRequest = NoRequest
    Devices = {c1, c2, c3}
    Intents = {b1, b2}
    Handlers = {r1, r2}
    MaxVersion = 3
    MaxChallenges = 1
    NoDevice = NoDevice  NoIntent = NoIntent  NoHandler = NoHandler
    People = {b1, b2}
    Askers = {c1, c2, c3}
    NoAsk = NoAsk
    Addresses = {b1, b2}
    Logins = {r1, r2}
    Callers = {c1, c2, c3}
    Burst <- MCBurst
    Refill <- MCRefill
    maxKeys = 3
    IdlePeriod = 2
    Horizon = 3
INVARIANTS AuthorityExact ObservedIsSettled AtMostOneOwner TrustRooted NoPublishLost ChallengeSpentOnce
PROPERTIES OnlyOpenLinksAdmit RevokedForGood FriendsByConsent ForgetsNothing
SYMMETRY MCSymmetry
CONSTRAINT MCScopes
CHECK_DEADLOCK FALSE
