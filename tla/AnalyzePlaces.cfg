\* One video with two places that compete for one verification slot; fair tasks.
SPECIFICATION FairSpec
CONSTANTS
    Requests = {"r1"}
    Groups = {"g1"}
    Videos = {"v1"}
    RequestOf <- OneRequestOf
    GroupOf <- SoloGroupOf
    MaxPlaces = 2
    CallCodes = {"llm_timeout", "map_api_error"}
    GpuAttempts = 2
    BatchSlots = 1
    GpuSlots = 1
    VerifySlots = 1
    MayCrash = TRUE
INVARIANTS
    TypeOK
    FaultsReported
    PublishedPlacesVerified
    NoWorkLeft
PROPERTIES
    NoSearchForFailedPlace
    EveryRequestAnswered
    SlotsReturned
