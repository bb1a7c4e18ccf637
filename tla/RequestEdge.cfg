\* Two requests, up to three GPU failures of a key within four ticks.
SPECIFICATION Spec
CONSTANTS
    Requests = {r1, r2}
    ErrorCodes = {"504"}
    Window = 2
    MaxNow = 4
    MaxFaults = 3
INVARIANTS
    CountedAsSent
    ExceptionSeen
    FaultsTold
PROPERTIES
    ReportsOnTime
SYMMETRY Symmetry
CHECK_DEADLOCK FALSE
