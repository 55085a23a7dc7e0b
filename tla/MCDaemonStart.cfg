CONSTANTS
    Global = Global Debug = Debug Error = Error Info = Info
    Unknown = Unknown None = None
    Levels = {Global, Debug, Error, Info}
    Rank <- Numbers
    Values = {TRUE, FALSE}
    Default = TRUE
    Files <- ShortFiles
    LoggingLevels = {0, 128, 200}
    MaxFd = 7
    Threshold = 2

SPECIFICATION FairSpec
INVARIANTS ConfiguredAsWritten NoTextIntoSockets PortStaysOpen NothingLeaks LinesSurvive
PROPERTY ServerGetsNamed
CHECK_DEADLOCK FALSE
