SPECIFICATION MCSpec
CONSTANTS
    a1 = a1  a2 = a2  r1 = r1  r2 = r2  m1 = m1
    Attachments = {a1, a2}
    Messages = {m1, m2}
    Requests = {r1, r2}
    Cleaners = {l1}
    Contents = {c1}
    Bad = Bad
    Quota = 1
    NoMessage = NoMessage  NoWorker = NoWorker  NoObject = NoObject  NoFile = NoFile
INVARIANTS PublishedIsStored MessageKeepsFiles NoForgottenObject
PROPERTIES GarbageGoes
CHECK_DEADLOCK FALSE
