CONSTANTS
    d1 = d1
    d2 = d2
    d3 = d3
    Devices <- TwoDevices
    None = None
    Lossy = FALSE

SPECIFICATION Spec
INVARIANTS EveryDeviceReported
CHECK_DEADLOCK FALSE
