SPECIFICATION Spec
CONSTANTS
    N = 2
    TopK = 1
    Timeout = 18
    Safety = 2
    Retrieval = 2
    RerankCap = 4
    MinLLM = 2
    GeminiReserve = 3
    MapCap = 3
    MapReserve = 2
    MaxLate = 9
INVARIANTS
    TypeOK
    TimeoutMeansLate
    SkippedMeansLate
    SharesKept
    NoDroppedPlace
CHECK_DEADLOCK FALSE
