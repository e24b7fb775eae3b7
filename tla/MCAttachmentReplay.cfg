SPECIFICATION MCReplaySpec
CONSTANTS
    a1 = a1  a2 = a2  r1 = r1  r2 = r2  m1 = m1
    Attachments = {a1}
    Messages = {}
    Requests = {r1, r2}
    Cleaners = {}
    Contents = {c1, c2}
    Bad = Bad
    Quota = 1
    NoMessage = NoMessage  NoWorker = NoWorker  NoObject = NoObject  NoFile = NoFile
PROPERTIES FinalIsImmutable
CHECK_DEADLOCK FALSE
