\* Three calls of one id and one without an id; "b" is an id nobody uses.
SPECIFICATION FairSpec
CONSTANTS
    Calls = {"a1", "a2", "a3", "x"}
    Ids = {"a", "b"}
    IdOf <- MCIdOf
    NoId = "no_id"
    NoCall = "no_call"
INVARIANTS
    RegistryLive
    NewestCancellable
    CancellationTold
    TaskEndsFirst
PROPERTIES
    EveryCallEnds
