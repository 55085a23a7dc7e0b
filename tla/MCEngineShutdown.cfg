CONSTANTS
    u1 = u1
    u2 = u2
    f1 = f1
    f2 = f2
    NoUnit = NoUnit
    NoFd = NoFd
    Units <- OneUnit
    Fds <- TwoFds
    Breakable <- Nobody
    DisconnectMode = FALSE
    Terminable = TRUE
SPECIFICATION Spec
INVARIANTS
    EngineShutdownProtocol
\* The process may end, and known defects stop it: see the violation runs.
CHECK_DEADLOCK FALSE
