CONSTANTS
    u1 = u1
    u2 = u2
    f1 = f1
    f2 = f2
    NoUnit = NoUnit
    NoFd = NoFd
    Units <- OneUnit
    Fds <- TwoFds
    Breakable <- OneUnit
    DisconnectMode = FALSE
    Terminable = FALSE
SPECIFICATION FairSpec
PROPERTIES
    MarkedGetsRemoved
\* The deadlock found here is the point of the run.
CHECK_DEADLOCK FALSE
