\* A request of two groups, one of two videos, that compete for one slot of each kind.
SPECIFICATION Spec
CONSTANTS
    Requests = {"r1"}
    Groups = {"g1", "g2"}
    Videos = {"v1", "v2", "v3"}
    RequestOf <- SameRequestOf
    GroupOf <- TwoGroupOf
    MaxPlaces = 1
    CallCodes = {"llm_timeout"}
    GpuAttempts = 1
    BatchSlots = 1
    GpuSlots = 1
    VerifySlots = 1
    MayCrash = TRUE
INVARIANTS
    SlotsConserved
PROPERTIES
    Contract
