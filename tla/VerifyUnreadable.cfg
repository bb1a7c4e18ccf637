SPECIFICATION Spec
CONSTANTS
    MaxBlocks = 1
    SearchAttempts = 2
    SearchCodes = {"llm_rate_limited", "llm_timeout", "internal_server_error"}
INVARIANTS
    UnreadableIsInvalid
