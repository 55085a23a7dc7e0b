CONSTANTS
    d1 = d1
    d2 = d2
    d3 = d3
    Devices <- ThreeDevices
    None = None
    Lossy = TRUE

SPECIFICATION FairSpec
PROPERTIES RunEnds
CHECK_DEADLOCK FALSE
