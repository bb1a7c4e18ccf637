SPECIFICATION Spec
CONSTANTS
    MaxBlocks = 3
    SearchAttempts = 2
    SearchCodes = {"llm_rate_limited", "llm_timeout", "internal_server_error"}
INVARIANTS
    TypeOK
    AbsentMeansAbsent
    FirstIsBest
    CallsStopped
