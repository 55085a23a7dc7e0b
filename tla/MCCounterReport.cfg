CONSTANTS
    Labels <- SevenLabels
    Rank <- Alphabetical
    Totals <- BothTotals
    A <- Added
    S <- Taken
    MaxSensors = 4
    MaxCount = 9
    Registers <- SomeRegisters
    Ids = {"280", "281"}
    Imei = "280"
    DefaultId = "280"
    NoId = ""
    TimeZones = 2
    MaxPolls = 2

SPECIFICATION ReportSpec
INVARIANTS LabelsSuffice CountsArriveLabelled
           SensorsAreValues AllSensorsSent
CHECK_DEADLOCK FALSE
