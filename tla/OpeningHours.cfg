\* Three weekdays of four ticks; turning the week round changes nothing, so
\* that one weekday stands for all.
SPECIFICATION Spec
CONSTANTS
    DayLength = 4
    WeekLength = 3
    Unknown = Unknown
    DayTexts <- MCDayTexts
    NoticeTexts <- MCNoticeTexts
    VisitDays = {1}
INVARIANTS
    LeftOutMeansClosed
    ClosedIsLeftOut
CHECK_DEADLOCK FALSE
