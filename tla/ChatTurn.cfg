\* Turns over four days; weeks of three days, three days to a leap year.
SPECIFICATION Spec
CONSTANTS
    Calendar <- MCCalendar
    LastToday = 3
    WeekLength = 3
    MonthDays = {"A", "B", "C", "D"}
    Times = {0, 14, 18}
    Places = {p1, p2}
    None = None
INVARIANTS
    DateAsSaid
    TimeAsSaid
    OriginAsSaid
PROPERTIES
    OriginKept
SYMMETRY Symmetry
