CONSTANTS
    p1 = p1
    p2 = p2
    p3 = p3
    p4 = p4
    Pids <- FourPids
    Admin = Admin
    Cron = Cron
    None = None
    Empty = Empty
    Lookalikes <- OneLookalike
    MaxCommands = 2
    MaxCrashes = 1

SPECIFICATION FairSpec
INVARIANTS PidfileNamesServer
PROPERTIES MonitorSparesServer ServiceHeals
CHECK_DEADLOCK FALSE
