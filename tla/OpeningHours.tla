----------------------------- MODULE OpeningHours -----------------------------
(***************************************************************************)
(* The opening hours of a place, from the text of the search to the filter *)
(* of the recommendation: read by services/verify_place_parser.py, stored  *)
(* and sent back by the backend, repaired by schemas/business_hours.py and *)
(* judged by _is_closed of services/recommend_courses.py.  Besides the     *)
(* weekly hours there are notices, which give a date hours of its own.     *)
(*                                                                         *)
(* A day has DayLength ticks; its last tick stands for 23:59.  The backend *)
(* cuts hours that cross midnight in two (external: as the comment of      *)
(* _merge_split_midnight reports it).                                      *)
(***************************************************************************)
EXTENDS Integers

CONSTANTS
    DayLength,      \* ticks of a day
    WeekLength,     \* weekdays
    Unknown,        \* no hours known for a weekday (null); no notice for a date
    DayTexts,       \* what a text may say of a weekday
    NoticeTexts,    \* what a notice may say of a date
    VisitDays       \* weekdays a visit may be on

Weekdays == 0..(WeekLength - 1)
LastTick == DayLength - 1       \* 23:59
EndOfDay == DayLength           \* 24:00 in a text, 23:59:59.99 of the backend
Dates    == {-1, 0}             \* the day before the visit, and its own

(* A range of a text: a place that never closes is written 00:00-23:59, and *)
(* no other range is a whole day.                                           *)
TextRanges == {r \in [open : 0..LastTick, close : 0..EndOfDay] :
                  r.close % DayLength # r.open}

ASSUME HoursAssumption ==
    /\ DayLength \in Nat \ {0, 1}
    /\ WeekLength \in Nat \ {0, 1}
    /\ VisitDays \subseteq Weekdays
    /\ DayTexts \ {Unknown} \subseteq SUBSET TextRanges
    /\ NoticeTexts \subseteq SUBSET TextRanges
    /\ \A rs \in SUBSET [open : 0..LastTick, close : 0..EndOfDay] : rs # Unknown

VARIABLES
    stage,      \* text, published, stored, received, judged
    hours,      \* the weekly hours as written in the search result
    notices,    \* the notices as written, of the dates that matter for the visit
    today,      \* the date on which they are read, or an earlier one
    week,       \* what the weekly hours have become
    exceptions, \* what the notices have become
    visit,      \* weekday and time of the visit; time 0 is "not known"
    closed      \* the verdict of _is_closed

written == <<hours, notices, today, visit>>
vars    == <<stage, written, week, exceptions, closed>>

Weekday(date) == (visit.day + date) % WeekLength

Init ==
    /\ stage = "text"
    /\ hours \in [Weekdays -> DayTexts]
    /\ notices \in [Dates -> NoticeTexts \cup {Unknown}]
    /\ today \in Dates
    /\ week = hours /\ exceptions = notices
    /\ visit \in [day : VisitDays, time : 0..LastTick]
    /\ closed = FALSE

EachDay(Op(_, _), texts) ==
    [d \in DOMAIN texts |-> IF texts[d] = Unknown THEN Unknown ELSE Op(d, texts[d])]

Step(from, to) ==
    /\ stage = from /\ stage' = to
    /\ UNCHANGED written

-----------------------------------------------------------------------------
(* _hhmm: 24:00 is written 00:00.                                           *)
Hhmm(t) == t % DayLength

Rewritten(d, rs) == {[open |-> r.open, close |-> Hhmm(r.close)] : r \in rs}

(* _to_business_hours: the notices of past dates are dropped.               *)
Publish ==
    /\ Step("text", "published")
    /\ week' = EachDay(Rewritten, hours)
    /\ exceptions' = EachDay(Rewritten, [d \in Dates |-> IF d < today THEN Unknown ELSE notices[d]])
    /\ UNCHANGED closed

(* The backend: it keeps the hours, or a weekly range that closes after     *)
(* midnight is cut there and the rest goes to the next day, where it may be *)
(* empty.  Whether it goes to a weekday with unknown hours too, which then  *)
(* has hours that are known, the source does not say: it may or it may not. *)
Crosses(r) == r.close < r.open
OwnPart(r) == IF Crosses(r) THEN [r EXCEPT !.close = EndOfDay] ELSE r
Ranges(d)  == IF week[d] = Unknown THEN {} ELSE week[d]
Tails(d)   == {[open |-> 0, close |-> r.close] :
                  r \in {x \in Ranges((d - 1) % WeekLength) : Crosses(x)}}

CutWeek(filled) ==
    [d \in Weekdays |->
        IF week[d] # Unknown \/ (filled /\ Tails(d) # {})
        THEN {OwnPart(r) : r \in Ranges(d)} \cup Tails(d)
        ELSE Unknown]

Store ==
    /\ Step("published", "stored")
    /\ \/ \E filled \in BOOLEAN : week' = CutWeek(filled)
       \/ UNCHANGED week
    /\ UNCHANGED <<exceptions, closed>>

(* Mutant of Merge: the empty rest of a day is left.                        *)
MergeKeepsEmpty(rs) == {IF r.close = EndOfDay THEN [r EXCEPT !.close = 0] ELSE r : r \in rs}

(* _merge_split_midnight: an empty range at 00:00 is dropped, 23:59:59 is   *)
(* midnight.                                                                *)
Merge(rs) ==
    {IF r.close = EndOfDay THEN [r EXCEPT !.close = 0] ELSE r :
        r \in {x \in rs : ~(x.open = 0 /\ x.close = 0)}}

Receive ==
    /\ Step("stored", "received")
    /\ week' = EachDay(LAMBDA d, rs : Merge(rs), week)
    /\ exceptions' = EachDay(LAMBDA d, rs : Merge(rs), exceptions)
    /\ UNCHANGED closed

-----------------------------------------------------------------------------
(* Mutant of EndOf: closing times as they are written.                      *)
EndAsWritten(r) == r.close

EndOf(r) == IF r.close \in {0, LastTick} THEN DayLength ELSE r.close

Within(r, t) == IF EndOf(r) > r.open THEN r.open =< t /\ t < EndOf(r) ELSE t >= r.open

(* Opened the day before and closing after midnight.                        *)
Overnight(r, t) == 0 < r.close /\ r.close < r.open /\ t < r.close

(* _day_ranges: a notice stands in for the hours of the weekday.            *)
DayRanges(date, special, weekly) ==
    IF special[date] # Unknown THEN special[date] ELSE weekly[Weekday(date)]

IsClosed(t) ==
    LET own    == DayRanges(0, exceptions, week)
        before == DayRanges(-1, exceptions, week)
    IN  IF own = Unknown THEN FALSE
        ELSE IF t = 0 THEN own = {}
        ELSE /\ \A r \in own : ~Within(r, t)
             /\ before # Unknown => \A r \in before : ~Overnight(r, t)

Judge ==
    /\ Step("received", "judged")
    /\ closed' = IsClosed(visit.time)
    /\ UNCHANGED <<week, exceptions>>

Next == Publish \/ Store \/ Receive \/ Judge

Spec == Init /\ [][Next]_vars

-----------------------------------------------------------------------------
(* The variables keep their types; what is judged has clock times only.     *)
TypeOK ==
    /\ stage \in {"text", "published", "stored", "received", "judged"}
    /\ visit \in [day : VisitDays, time : 0..LastTick] /\ today \in Dates
    /\ closed \in BOOLEAN
    /\ DOMAIN week = Weekdays /\ DOMAIN exceptions = Dates
    /\ \A rs \in {week[d] : d \in Weekdays} \cup {exceptions[d] : d \in Dates} :
          rs # Unknown => \A r \in rs :
            /\ r.open \in 0..LastTick
            /\ r.close \in IF stage \in {"text", "stored"} THEN 0..EndOfDay ELSE 0..LastTick

(* The time a range of the text covers, in ticks from the start of its day. *)
Span(r) == r.open .. ((IF r.close = LastTick THEN DayLength
                       ELSE IF r.close < r.open THEN r.close + DayLength
                       ELSE r.close) - 1)

(* What the text says of a date, by a notice that was not past or else by   *)
(* the weekly hours.                                                        *)
Noticed(date) == date >= today /\ notices[date] # Unknown
Said(date)    == IF Noticed(date) THEN notices[date] ELSE hours[Weekday(date)]

OpenFrom(date, t) == Said(date) # Unknown /\ \E r \in Said(date) : t \in Span(r)
OpenAt(t)         == OpenFrom(0, t) \/ OpenFrom(-1, t + DayLength)

(* The regular night of the day before was cut off to the date of the       *)
(* visit, and a notice stands for one of both: it is not known of that rest *)
(* of the night.                                                            *)
NightUnknown(t) ==
    /\ week # EachDay(Rewritten, hours)
    /\ \E date \in Dates : Noticed(date)
    /\ hours[Weekday(-1)] # Unknown
    /\ \E r \in hours[Weekday(-1)] : t + DayLength \in Span(r)

(* The text says nothing of the date, but its weekday was given the rest of *)
(* a night that runs up to midnight or over it, and so is judged as known.  *)
RestOnUnknownDay ==
    /\ Said(0) = Unknown /\ week[Weekday(0)] # Unknown
    /\ hours[Weekday(-1)] # Unknown
    /\ \E r \in hours[Weekday(-1)] : Hhmm(r.close) < r.open

(* A place is left out only when the text says that it is closed then: not  *)
(* for hours that end at midnight, run over it or fill the day, not against *)
(* a notice for the date or for the night before, on a visit without a time *)
(* not on a day that has hours, and not for a day nothing is known of,      *)
(* unless the backend filled that day with the rest of a night (_is_closed).*)
LeftOutMeansClosed ==
    stage = "judged" /\ closed =>
        /\ Said(0) # Unknown \/ RestOnUnknownDay
        /\ IF visit.time = 0 THEN Said(0) = {} \/ RestOnUnknownDay
           ELSE ~OpenAt(visit.time) \/ NightUnknown(visit.time)

(* A place that is closed at the time of the visit is left out, also after  *)
(* its hours were cut at midnight and sent back, and when only a notice     *)
(* closes it.                                                               *)
ClosedIsLeftOut ==
    stage = "judged" /\ visit.time # 0 /\ Said(0) # Unknown
      /\ ~OpenAt(visit.time) /\ ~NightUnknown(visit.time) => closed

(* recommend_courses.py:231, on a visit without a time: the closed days are *)
(* left out.                                                                *)
ClosedDayIsLeftOut ==
    stage = "judged" /\ visit.time = 0 /\ Said(0) = {} => closed
=============================================================================
