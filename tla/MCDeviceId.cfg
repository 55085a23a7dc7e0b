CONSTANTS
    u1 = u1
    u2 = u2
    id280 = id280
    id281 = id281
    Units <- TwoUnits
    Ids <- TwoIds
    Imei <- ConfiguredImei
    DefaultId = id280
    NoId = NoId
    None = None
    Unreliable <- Nobody
    CacheFails = FALSE
    MaxPeople = 1
    MaxRequests = 1
    MaxRestarts = 0

SPECIFICATION Spec
INVARIANTS FiledUnderItsImei
