------------------------------ MODULE ChatTurn ------------------------------
(***************************************************************************)
(* The slots of a chat over its turns (services/extract.py,                *)
(* services/slot_datetime.py, services/slot_merge.py).                     *)
(*                                                                         *)
(* The server keeps nothing: the backend sends the slots of the turn       *)
(* before with every utterance.  The model copies what the user said; the  *)
(* date, the origin's coordinates and the merge are code.  A turn that     *)
(* fails changes nothing and is sent again, so it is no step here.         *)
(***************************************************************************)
EXTENDS Integers, FiniteSets

CONSTANTS
    Calendar,       \* day -> its year and month_day; day 0 is a Monday
    LastToday,      \* bound on the days on which turns are made
    WeekLength,     \* days of a week
    MonthDays,      \* what can be said for a date, real or not
    Times,          \* times of day; 0 is 00:00, "not known"
    Places,         \* places an origin can be
    None            \* null

Days == DOMAIN Calendar

ASSUME ChatAssumption ==
    /\ WeekLength \in Nat \ {0, 1} /\ LastToday \in Nat
    /\ 0 .. (LastToday + 2 * WeekLength - 1) \subseteq Days
    /\ Days \subseteq Nat
    /\ \A d \in Days : Calendar[d].month_day \in MonthDays /\ Calendar[d].year \in Nat
    /\ \A d, e \in Days : d =< e => Calendar[d].year =< Calendar[e].year
    /\ Times \subseteq Nat /\ 0 \in Times
    /\ None \notin Days \cup Times /\ None \notin Places /\ None \notin MonthDays
    /\ \A p \in Places : None # <<"name", p>> /\ None # <<"address", p>>

VARIABLES
    today,      \* the date of the request
    slot,       \* the slots the backend holds: date, time and origin
    depart,     \* the time after "depart" in the query, or None
    lastDate,   \* history: the date the user said last
    lastTime,   \* history: the time the user said last
    lost,       \* history: that time went with a date that had to be asked again
    far,        \* history: that date is in no year the code looks at
    named,      \* history: the user named an origin in the last turn
    wanted      \* history: the origin the user named last

vars == <<today, slot, depart, lastDate, lastTime, lost, far, named, wanted>>

Weekday(d) == d % WeekLength
Monday(d)  == d - Weekday(d)
Year(d)    == Calendar[d].year
Weekdays   == 0..(WeekLength - 1)
Weeks      == {None, "this", "next"}

Init ==
    /\ today = 0
    /\ slot = [date |-> None, time |-> 0, origin |-> None]
    /\ depart = None
    /\ lastDate = None /\ lastTime = 0
    /\ lost = FALSE /\ far = FALSE
    /\ named = FALSE /\ wanted = None

-----------------------------------------------------------------------------
(* What the model copies from an utterance (SlotsLLM): one expression for   *)
(* the date at most, a time, an origin.                                     *)
NoDate == [month_day |-> None, days |-> None, weekday |-> None, week |-> None]
OfWeek(w, k) == [NoDate EXCEPT !.weekday = w, !.week = k]
Expressions ==
    {NoDate} \cup {[NoDate EXCEPT !.month_day = m] : m \in MonthDays}
             \cup {[NoDate EXCEPT !.days = n] : n \in {-1, 0, 1}}
             \cup {OfWeek(w, k) : w \in Weekdays, k \in Weeks}

Least(S) == CHOOSE d \in S : \A e \in S : d =< e

(* _month_day: of this year or the next, when they have it.                 *)
MonthDay(m, t) ==
    LET found == {d \in Days : /\ Calendar[d].month_day = m
                               /\ Year(d) \in {Year(t), Year(t) + 1} /\ d >= t}
    IN  IF found = {} THEN None ELSE Least(found)

(* Mutant of WeekdayAlone: the same weekday is today.                       *)
WeekdayToday(w, t) == t + ((w - Weekday(t)) % WeekLength)

(* A weekday alone: (target - today) % 7 or 7.                              *)
WeekdayAlone(w, t) ==
    t + (IF w = Weekday(t) THEN WeekLength ELSE (w - Weekday(t)) % WeekLength)

Passed(s, t) ==
    /\ s.month_day = None /\ (s.days = None \/ s.days < 0)
    /\ s.weekday # None /\ s.week = "this"
    /\ Monday(t) + s.weekday < t

(* _resolve_date.                                                           *)
ResolveDate(s, t) ==
    IF s.month_day # None THEN MonthDay(s.month_day, t)
    ELSE IF s.days # None /\ s.days >= 0 THEN t + s.days
    ELSE IF s.weekday = None \/ Passed(s, t) THEN None
    ELSE CASE s.week = "this" -> Monday(t) + s.weekday
           [] s.week = "next" -> Monday(t) + WeekLength + s.weekday
           [] OTHER           -> WeekdayAlone(s.weekday, t)

(* Mutant of VisitTime: the time in the query is not looked at.             *)
VisitTimeNoQuery(said) ==
    IF said # None THEN said
    ELSE IF slot.date # None THEN slot.time ELSE 0

(* The time of a date that was said without one: the time of before, the    *)
(* one the query keeps, or 00:00.                                           *)
VisitTime(said) ==
    IF said # None THEN said
    ELSE IF slot.date # None /\ slot.time # 0 THEN slot.time
    ELSE IF depart # None THEN depart
    ELSE 0

(* resolve_visit and merge_slots: a time alone goes to the date of before,  *)
(* what was not said stays, a weekday that has passed clears date and time. *)
Visit(s, said) ==
    LET day == ResolveDate(s, today) IN
    IF Passed(s, today) THEN [date |-> None, time |-> 0]
    ELSE IF day # None THEN [date |-> day, time |-> VisitTime(said)]
    ELSE IF said # None /\ slot.date # None THEN [date |-> slot.date, time |-> said]
    ELSE [date |-> slot.date, time |-> slot.time]

-----------------------------------------------------------------------------
Name(p)    == <<"name", p>>
Address(p) == <<"address", p>>

(* _origin_text: the address of the origin of before, None when it has none *)
(* or the map API fails.                                                    *)
OriginTexts == {None} \cup IF slot.origin = None THEN {} ELSE {Address(slot.origin)}

(* What the model may give for an origin: nothing, the name the user said,  *)
(* or the address it was shown.                                             *)
OriginsSaid(text) == {None, text} \cup {Name(p) : p \in Places}

(* _origin_coordinate: not found, the map API failed, or the place.         *)
Coordinates(said) == {None, said[2]}

(* Mutants of NewOrigin and Origin: an address that was shown is looked up  *)
(* again; an origin that was not found leaves the one of before.            *)
NewOriginAlways(said, text) == said # None
OriginMerged(said, text, found) == IF found # None THEN found ELSE slot.origin

NewOrigin(said, text) == said # None /\ said # text

Origin(said, text, found) ==
    IF NewOrigin(said, text) THEN found ELSE slot.origin

(* External: the query that the model writes, by the rules of its prompt.   *)
(* A time without any date is kept in it, a new one replaces the old, and   *)
(* one that a date has taken up may be dropped.                             *)
Departs(s, said, visit) ==
    IF said # None
    THEN IF s = NoDate /\ slot.date = None THEN {said} ELSE {None, said}
    ELSE IF visit.date # None THEN {None, depart} ELSE {depart}

(* What the user meant by an expression, for the properties.                *)
NearestDate(m) == {d \in Days : Calendar[d].month_day = m /\ d >= today}
Meant(s) ==
    IF s.month_day # None THEN NearestDate(s.month_day)
    ELSE IF s.days # None /\ s.days >= 0 THEN {today + s.days}
    ELSE {d \in Days : /\ s.weekday # None /\ Weekday(d) = s.weekday
                       /\ CASE s.week = "this" -> d >= today /\ Monday(d) = Monday(today)
                            [] s.week = "next" -> Monday(d) = Monday(today) + WeekLength
                            [] OTHER           -> d > today}

(* Whether the date that was meant is in none of the years that _month_day  *)
(* looks at.                                                                *)
TooFar(s) == /\ s.month_day # None /\ NearestDate(s.month_day) # {}
             /\ Year(Least(NearestDate(s.month_day))) > Year(today) + 1

(* The answer of the turn, and what the query keeps.                        *)
Slots(s, said, text, origin, found) ==
    LET visit == Visit(s, said) IN
    /\ slot' = [date |-> visit.date, time |-> visit.time,
                origin |-> Origin(origin, text, found)]
    /\ depart' \in Departs(s, said, visit)
    /\ lastTime' = IF said = None THEN lastTime ELSE said
    /\ lost' = \/ Passed(s, today)
               \/ said # None /\ visit.date = None /\ depart' = None
               \/ said = None /\ lost

(* History: the date and the origin that the user said.                     *)
Dates(s) ==
    /\ lastDate' = IF Passed(s, today) THEN None
                   ELSE IF Meant(s) = {} THEN lastDate ELSE Least(Meant(s))
    /\ far' = IF Passed(s, today) THEN FALSE
              ELSE IF Meant(s) = {} THEN far ELSE TooFar(s)

Origins(origin) ==
    /\ named' = (\E p \in Places : origin = Name(p))
    /\ wanted' = IF named' THEN origin[2] ELSE wanted

(* extract: one turn.                                                       *)
Turn ==
    \E s \in Expressions, said \in {None} \cup Times, text \in OriginTexts :
    \E origin \in OriginsSaid(text) :
    \E found \in IF NewOrigin(origin, text) THEN Coordinates(origin) ELSE {None} :
        /\ Slots(s, said, text, origin, found)
        /\ Dates(s) /\ Origins(origin)
        /\ UNCHANGED today

NextDay ==
    /\ today < LastToday
    /\ today' = today + 1
    /\ named' = FALSE
    /\ UNCHANGED <<slot, depart, lastDate, lastTime, lost, far, wanted>>

Next == Turn \/ NextDay

Spec == Init /\ [][Next]_vars

-----------------------------------------------------------------------------
(* Every variable keeps its type; a date has a time, if only 00:00.         *)
TypeOK ==
    /\ today \in 0..LastToday
    /\ slot \in [date : Days \cup {None}, time : Times, origin : Places \cup {None}]
    /\ depart \in Times \cup {None}
    /\ lastDate \in Days \cup {None} /\ lastTime \in Times
    /\ {lost, far, named} \subseteq BOOLEAN
    /\ wanted \in Places \cup {None}

(* Over any number of turns and days the date of the slots is the one the   *)
(* user said last, by the rules at the head of slot_datetime.py: a weekday  *)
(* alone is the next one and never today, "this week" and "next week" go    *)
(* from Monday, a date without a year is the nearest one, and a weekday     *)
(* that has passed leaves none.                                             *)
DateAsSaid == ~far => slot.date = lastDate

(* The time is the one said last, whether before or after the date, also    *)
(* when it waited in the query; it is never another one, and only a date    *)
(* that could not be used takes it away.                                    *)
TimeAsSaid ==
    slot.date # None => \/ slot.time = lastTime
                        \/ lost /\ slot.time = 0

(* The origin is the one the user named last or none at all: when it cannot *)
(* be found the one of before does not come back (extract.py:97).           *)
OriginAsSaid == slot.origin \in {None, wanted}

(* A turn that names no origin leaves it alone, also when the map API fails *)
(* and when the model repeats the address it was shown (extract.py:83).     *)
OriginKept == [][~named' => slot'.origin = slot.origin]_vars
=============================================================================
