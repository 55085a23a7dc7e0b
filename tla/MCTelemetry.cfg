CONSTANTS
    u1 = u1
    u2 = u2
    id280 = id280
    id281 = id281
    Units <- TwoUnits
    Ids <- OneId
    Imei <- SameImei
    DefaultId = id280
    NoId = NoId
    None = None
    Unreliable <- OneUnit
    CacheFails = TRUE
    MaxPeople = 1
    MaxRequests = 2
    MaxRestarts = 1

SPECIFICATION FairSpec
INVARIANTS TypeOK OneResetPerRequest CachedNotAhead
PROPERTIES CountsOnlyGrow RequestGetsReset CountsArrive
