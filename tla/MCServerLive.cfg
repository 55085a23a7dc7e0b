CONSTANTS
    u1 = u1
    u2 = u2
    f1 = f1
    f2 = f2
    NoUnit = NoUnit
    NoFd = NoFd
    Units <- TwoUnits
    Fds <- TwoFds
    Breakable <- Nobody
    DisconnectMode = FALSE
    Terminable = TRUE
SPECIFICATION FairSpec
PROPERTIES
    EmptyShutdownEnds AttachedGetsListed DueGetsPolled
CHECK_DEADLOCK FALSE
