SPECIFICATION Spec
CONSTANTS
    i1 = i1
    i2 = i2
    Ids = {i1, i2}
    Embeds = {e1, e2}
    Deletes = {d1, d2}
    PlaceLists <- MCPlaceLists
    MaxRestarts = 1
    Absent = Absent
INVARIANTS
    LastAnswerHolds
    CountExplained
SYMMETRY Symmetry
