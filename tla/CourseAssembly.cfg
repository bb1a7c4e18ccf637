\* Four places, up to three drafts of which two are kept.
SPECIFICATION AssemblySpec
CONSTANTS
    Places = {1, 2, 3, 4}
    Coord <- MCCoord
    MaxCourses = 2
    MaxPlaces = 3
    None = None
    Requests <- MCRequests
    Answers <- MCAnswers
    DriveMinutes = {25}
INVARIANTS
    CoursesFit
    ChoicesDiffer
    FallbackWhole
    MapAnswersCount
CHECK_DEADLOCK FALSE
