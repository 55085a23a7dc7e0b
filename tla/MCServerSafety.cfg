CONSTANTS
    u1 = u1
    u2 = u2
    f1 = f1
    f2 = f2
    NoUnit = NoUnit
    NoFd = NoFd
    Units <- TwoUnits
    Fds <- TwoFds
    Breakable <- TwoUnits
    DisconnectMode = FALSE
    Terminable = TRUE
SPECIFICATION Spec
SYMMETRY Interchangeable
INVARIANTS
    TypeOK
    ListedUnitsAlive
    ReadersHaveObjects
    EngineDownAlone
    NothingLeaked
    CleanExit
PROPERTIES
    PassesUndisturbed
    ImplementsRegistry
\* The process may end, and known defects stop it: see the violation runs.
CHECK_DEADLOCK FALSE
