---------------------------- MODULE ChatTurnProofs ----------------------------
(***************************************************************************)
(* Theorems about ChatTurn, for any calendar, any length of the week and   *)
(* any times and places.                                                   *)
(***************************************************************************)
EXTENDS ChatTurn, WellFoundedInduction, TLAPS

-----------------------------------------------------------------------------
(* The weekday of a day and the Monday of its week.                         *)
LEMMA NextMultiple ==
    ASSUME NEW p \in Int, NEW q \in Int, p < q, NEW w \in Nat
    PROVE  p * w + w =< q * w
  <1>1. p + 1 =< q
    OBVIOUS
  <1>2. (p + 1) * w =< q * w
    BY <1>1
  <1> QED BY <1>2

LEMMA DivMod ==
    ASSUME NEW d \in Int, NEW w \in Nat \ {0}
    PROVE  \E q \in Int : d % w \in 0..(w - 1) /\ d = q * w + (d % w)
  <1>1. d \div w \in Int /\ d % w \in 0..(w - 1) /\ d = w * (d \div w) + (d % w)
    OBVIOUS
  <1>2. PICK q \in Int : q = d \div w
    BY <1>1
  <1>3. d = q * w + (d % w)
    BY <1>1, <1>2
  <1> QED BY <1>1, <1>3

LEMMA ModIs ==
    ASSUME NEW q \in Int, NEW w \in Nat \ {0}, NEW r \in 0..(w - 1)
    PROVE  (q * w + r) % w = r
  <1> DEFINE d == q * w + r
  <1>1. d \in Int /\ q * w \in Int
    OBVIOUS
  <1>2. PICK p \in Int : d % w \in 0..(w - 1) /\ d = p * w + (d % w)
    BY <1>1, DivMod
  <1>3. PICK s \in 0..(w - 1) : s = d % w
    BY <1>2
  <1>4. p * w \in Int /\ p * w + s = q * w + r
    BY <1>2, <1>3
  <1>5. ~ (p < q) /\ ~ (q < p)
    BY <1>1, <1>4, NextMultiple
  <1>6. p = q
    BY <1>5
  <1>7. s = r
    BY <1>1, <1>4, <1>6
  <1> QED BY <1>3, <1>7

LEMMA WeekOf ==
    ASSUME NEW q \in Int, NEW r \in Weekdays
    PROVE  /\ Weekday(q * WeekLength + r) = r
           /\ Monday(q * WeekLength + r) = q * WeekLength
  <1>1. WeekLength \in Nat \ {0} /\ r \in 0..(WeekLength - 1) /\ q * WeekLength \in Int
    BY ChatAssumption DEF Weekdays
  <1>2. Weekday(q * WeekLength + r) = r
    BY <1>1, ModIs DEF Weekday
  <1> QED BY <1>1, <1>2 DEF Monday

LEMMA HasWeek ==
    ASSUME NEW d \in Int
    PROVE  /\ Weekday(d) \in Weekdays
           /\ \E q \in Int : d = q * WeekLength + Weekday(d) /\ Monday(d) = q * WeekLength
  <1>1. WeekLength \in Nat \ {0}
    BY ChatAssumption
  <1>2. PICK q \in Int : d % WeekLength \in 0..(WeekLength - 1)
                         /\ d = q * WeekLength + (d % WeekLength)
    BY <1>1, DivMod
  <1>3. PICK r \in 0..(WeekLength - 1) : r = d % WeekLength
    BY <1>2
  <1>4. q * WeekLength \in Int /\ d = q * WeekLength + r
    BY <1>1, <1>2, <1>3
  <1>5. d - r = q * WeekLength
    BY <1>1, <1>4
  <1> QED BY <1>3, <1>4, <1>5 DEF Weekday, Monday, Weekdays

(* Two days of the same week and weekday are one.                           *)
LEMMA DayOfWeek ==
    ASSUME NEW t \in Nat, NEW w \in Weekdays, NEW d \in Int
    PROVE  /\ Weekday(d) = w /\ Monday(d) = Monday(t) <=> d = Monday(t) + w
           /\ Weekday(d) = w /\ Monday(d) = Monday(t) + WeekLength
                <=> d = Monday(t) + WeekLength + w
           /\ Monday(t) \in Int /\ Monday(t) =< t /\ t < Monday(t) + WeekLength
  <1>1. PICK q \in Int : t = q * WeekLength + Weekday(t) /\ Monday(t) = q * WeekLength
    BY HasWeek
  <1>2. Weekday(t) \in Weekdays /\ WeekLength \in Nat /\ w \in Int /\ w < WeekLength
    BY HasWeek, ChatAssumption DEF Weekdays
  <1>3. PICK p \in Int : d = p * WeekLength + Weekday(d) /\ Monday(d) = p * WeekLength
    BY HasWeek
  <1>4. d = Monday(d) + Weekday(d)
    BY <1>3
  <1>5. q * WeekLength \in Int /\ (q + 1) * WeekLength = q * WeekLength + WeekLength
        /\ q + 1 \in Int
    BY <1>2
  <1>6. Weekday(Monday(t) + w) = w /\ Monday(Monday(t) + w) = Monday(t)
    BY <1>1, WeekOf
  <1>7. /\ Weekday(Monday(t) + WeekLength + w) = w
        /\ Monday(Monday(t) + WeekLength + w) = Monday(t) + WeekLength
    <2>1. Monday(t) + WeekLength + w = (q + 1) * WeekLength + w
      BY <1>1, <1>5
    <2> QED BY <1>1, <1>5, <2>1, WeekOf
  <1>8. Monday(t) \in Int /\ Monday(t) =< t /\ t < Monday(t) + WeekLength
    BY <1>1, <1>2, <1>5 DEF Weekdays
  <1> QED BY <1>4, <1>6, <1>7, <1>8

(* A weekday alone is the next day with it, and not today.                  *)
LEMMA AloneIsNext ==
    ASSUME NEW t \in Nat, NEW w \in Weekdays
    PROVE  LET n == WeekdayAlone(w, t)
           IN  /\ n \in Int /\ t < n /\ n =< t + WeekLength /\ Weekday(n) = w
               /\ \A d \in Int : t < d /\ Weekday(d) = w => n =< d
  <1> DEFINE v == Weekday(t)
             m == Monday(t)
             n == WeekdayAlone(w, t)
  <1>1. PICK q \in Int : t = q * WeekLength + v /\ m = q * WeekLength
    BY HasWeek
  <1>2. /\ v \in Int /\ 0 =< v /\ v < WeekLength /\ WeekLength \in Nat \ {0}
        /\ w \in Int /\ 0 =< w /\ w < WeekLength /\ m \in Int
    <2>1. v \in Weekdays /\ m \in Int
      BY HasWeek, DayOfWeek
    <2> HIDE DEF n, m, v
    <2> QED BY <2>1, ChatAssumption DEF Weekdays
  <1>3. t = m + v
    BY <1>1
  <1>4. n = IF w > v THEN m + w ELSE m + WeekLength + w
    <2>1. CASE w = v
      <3>1. n = t + WeekLength
        BY <2>1 DEF WeekdayAlone
      <3> HIDE DEF n, m, v
      <3> QED BY <1>2, <1>3, <2>1, <3>1
    <2>2. CASE w > v
      <3>1. (w - v) % WeekLength = w - v
        <4>1. w - v \in 0..(WeekLength - 1) /\ w - v = 0 * WeekLength + (w - v)
          BY <1>2, <2>2
        <4> HIDE DEF v
        <4> QED BY <1>2, <4>1, ModIs
      <3>2. n = t + (w - v)
        BY <1>2, <2>2, <3>1 DEF WeekdayAlone
      <3> HIDE DEF n, m, v
      <3> QED BY <1>2, <1>3, <2>2, <3>2
    <2>3. CASE w < v
      <3> DEFINE r == w - v + WeekLength
      <3>1. (w - v) % WeekLength = r
        <4>1. r \in 0..(WeekLength - 1) /\ w - v = (-1) * WeekLength + r
          BY <1>2, <2>3
        <4> HIDE DEF v, r
        <4> QED BY <1>2, <4>1, ModIs
      <3>2. n = t + r
        BY <1>2, <2>3, <3>1 DEF WeekdayAlone
      <3> HIDE DEF n, m, v
      <3> QED BY <1>2, <1>3, <2>3, <3>2
    <2> HIDE DEF n, m, v
    <2> QED BY <1>2, <2>1, <2>2, <2>3
  <1>5. n \in Int /\ t < n /\ n =< t + WeekLength
    <2> HIDE DEF n, m, v
    <2> QED BY <1>2, <1>3, <1>4
  <1>6. Weekday(n) = w
    <2>1. m + w \in Int /\ m + WeekLength + w \in Int
      BY <1>2
    <2> QED BY <1>4, <2>1, DayOfWeek
  <1>7. ASSUME NEW d \in Int, t < d, Weekday(d) = w PROVE n =< d
    <2>1. PICK p \in Int : d = p * WeekLength + w /\ Monday(d) = p * WeekLength
      BY <1>7, HasWeek
    <2>2. p * WeekLength \in Int /\ q * WeekLength \in Int
      BY <1>2
    <2>3. CASE p < q
      <3>1. p * WeekLength + WeekLength =< q * WeekLength
        BY <1>2, <2>3, NextMultiple
      <3> HIDE DEF n, m, v
      <3> QED BY <1>1, <1>2, <1>7, <2>1, <2>2, <3>1
    <2>4. CASE p = q
      <3>1. d = m + w
        BY <1>1, <2>1, <2>4
      <3> HIDE DEF n, m, v
      <3> QED BY <1>2, <1>3, <1>4, <1>7, <3>1
    <2>5. CASE q < p
      <3>1. q * WeekLength + WeekLength =< p * WeekLength
        BY <1>2, <2>5, NextMultiple
      <3> HIDE DEF n, m, v
      <3> QED BY <1>1, <1>2, <1>3, <1>4, <2>1, <2>2, <3>1
    <2> QED BY <2>3, <2>4, <2>5
  <1> QED BY <1>5, <1>6, <1>7

-----------------------------------------------------------------------------
(* The date of an expression is the one that was meant.                     *)
LEMMA LeastOf ==
    ASSUME NEW S \in SUBSET Nat, S # {}
    PROVE  /\ Least(S) \in S
           /\ \A d \in S : Least(S) =< d
           /\ \A d \in S : (\A e \in S : d =< e) => Least(S) = d
  <1>1. PICK n \in S : \A m \in S : <<m, n>> \notin OpToRel(<, Nat)
    BY NatLessThanWellFounded, WFMin
  <1>2. \A m \in S : ~ (m < n)
    BY <1>1 DEF OpToRel
  <1>3. Least(S) \in S /\ \A d \in S : Least(S) =< d
    <2>1. \E d \in S : \A e \in S : d =< e
      BY <1>2
    <2> QED BY <2>1, Zenon DEF Least
  <1>4. PICK l \in S : l = Least(S)
    BY <1>3
  <1>5. ASSUME NEW d \in S, \A e \in S : d =< e PROVE l = d
    BY <1>3, <1>4, <1>5
  <1> QED BY <1>3, <1>4, <1>5

LEMMA Expression ==
    ASSUME NEW s \in Expressions
    PROVE  \/ s.month_day = None /\ s.days = None /\ s.weekday = None
           \/ s.month_day \in MonthDays /\ s.days = None /\ s.weekday = None
           \/ s.month_day = None /\ s.days \in {-1, 0, 1} /\ s.weekday = None
           \/ s.month_day = None /\ s.days = None /\ s.weekday \in Weekdays
  <1>1. CASE s = NoDate
    BY <1>1 DEF NoDate
  <1>2. ASSUME NEW m \in MonthDays, s = [NoDate EXCEPT !.month_day = m]
        PROVE  s.month_day \in MonthDays /\ s.days = None /\ s.weekday = None
    BY <1>2 DEF NoDate
  <1>3. ASSUME NEW n \in {-1, 0, 1}, s = [NoDate EXCEPT !.days = n]
        PROVE  s.month_day = None /\ s.days \in {-1, 0, 1} /\ s.weekday = None
    BY <1>3 DEF NoDate
  <1>4. ASSUME NEW w \in Weekdays, NEW k \in Weeks,
               s = OfWeek(w, k)
        PROVE  s.month_day = None /\ s.days = None /\ s.weekday \in Weekdays
    BY <1>4 DEF NoDate, OfWeek
  <1>5. \/ s = NoDate
        \/ \E m \in MonthDays : s = [NoDate EXCEPT !.month_day = m]
        \/ \E n \in {-1, 0, 1} : s = [NoDate EXCEPT !.days = n]
        \/ \E w \in Weekdays, k \in Weeks : s = OfWeek(w, k)
    <2> HIDE DEF NoDate
    <2> QED BY DEF Expressions
  <1> QED BY <1>1, <1>2, <1>3, <1>4, <1>5, Zenon

LEMMA NotNone == \A n : n \in {0, 1} \/ n \in Weekdays => n # None
  <1>1. 0 .. (LastToday + 2 * WeekLength - 1) \subseteq Days /\ None \notin Days
        /\ LastToday \in Nat /\ WeekLength \in Nat \ {0, 1}
    BY ChatAssumption
  <1> HIDE DEF Days
  <1>2. \A n : n \in {0, 1} \/ n \in 0..(WeekLength - 1) => n \in Days
    BY <1>1
  <1> QED BY <1>1, <1>2 DEF Weekdays

LEMMA Reached ==
    ASSUME NEW d \in Nat, NEW t \in 0..LastToday, d =< t + 2 * WeekLength - 1
    PROVE  d \in Days
  <1>1. 0 .. (LastToday + 2 * WeekLength - 1) \subseteq Days
        /\ LastToday \in Nat /\ WeekLength \in Nat \ {0, 1}
    BY ChatAssumption
  <1> HIDE DEF Days
  <1> QED BY <1>1

DateIsMeant(s) ==
    /\ Meant(s) \subseteq Days
    /\ ResolveDate(s, today) \in Days \cup {None}
    /\ Meant(s) = {} => ResolveDate(s, today) = None
    /\ Meant(s) # {} => TooFar(s) \/ ResolveDate(s, today) = Least(Meant(s))

LEMMA OneDay ==
    ASSUME NEW s, NEW d \in Days, Meant(s) = {d}, ResolveDate(s, today) = d
    PROVE  DateIsMeant(s)
  <1>1. d \in Nat
    BY ChatAssumption
  <1>2. Least({d}) = d
    BY <1>1, LeastOf
  <1> QED BY <1>2 DEF DateIsMeant

LEMMA MonthDayMeant ==
    ASSUME NEW s, NEW m \in MonthDays, s.month_day = m, today \in 0..LastToday
    PROVE  DateIsMeant(s)
  <1> DEFINE near  == NearestDate(m)
             found == {d \in Days : /\ Calendar[d].month_day = m
                                    /\ Year(d) \in {Year(today), Year(today) + 1}
                                    /\ d >= today}
  <1>1. m # None
    BY ChatAssumption
  <1>2. Meant(s) = near /\ ResolveDate(s, today) = IF found = {} THEN None ELSE Least(found)
    BY <1>1, Zenon DEF Meant, ResolveDate, MonthDay
  <1>3. found \subseteq near /\ near \subseteq Days /\ Days \subseteq Nat
    BY ChatAssumption DEF NearestDate
  <1>4. found # {} => Least(found) \in Days
    <2> HIDE DEF found, near
    <2> QED BY <1>3, LeastOf
  <1>5. ASSUME near # {}, ~TooFar(s)
        PROVE  found # {} /\ Least(found) = Least(near)
    <2> DEFINE d == Least(near)
    <2>1. d \in near /\ \A e \in near : d =< e
      <3> HIDE DEF near
      <3> QED BY <1>3, <1>5, LeastOf
    <2>2. d \in Days /\ Calendar[d].month_day = m /\ d >= today /\ d \in Nat
      BY <1>3, <2>1 DEF NearestDate
    <2>3. ~ (Year(d) > Year(today) + 1)
      BY <1>1, <1>5 DEF TooFar
    <2> HIDE DEF d
    <2>4. today \in Days /\ today \in Nat
      <3>1. today \in Nat /\ today =< today + 2 * WeekLength - 1
        BY ChatAssumption
      <3> QED BY <3>1, Reached
    <2>5. Year(d) \in Nat /\ Year(today) \in Nat /\ Year(today) =< Year(d)
      BY <2>2, <2>4, ChatAssumption DEF Year
    <2>6. Year(d) \in {Year(today), Year(today) + 1}
      BY <2>3, <2>5
    <2>7. d \in found /\ \A e \in found : d =< e
      BY <1>3, <2>1, <2>2, <2>6
    <2>8. Least(found) = d
      <3> HIDE DEF found, near
      <3> QED BY <1>3, <2>7, LeastOf
    <2> QED BY <2>7, <2>8 DEF d
  <1> HIDE DEF near, found
  <1> QED BY <1>2, <1>3, <1>4, <1>5 DEF DateIsMeant

LEMMA DateMeant ==
    ASSUME today \in 0..LastToday, NEW s \in Expressions, ~Passed(s, today)
    PROVE  DateIsMeant(s)
  <1>1. CASE s.month_day \in MonthDays
    BY <1>1, MonthDayMeant
  <1>2. CASE s.month_day = None /\ s.weekday = None /\ ~ (s.days # None /\ s.days >= 0)
    <2>1. Meant(s) = {} /\ ResolveDate(s, today) = None
      BY <1>2, Zenon DEF Meant, ResolveDate
    <2> QED BY <2>1 DEF DateIsMeant
  <1>3. CASE s.month_day = None /\ s.days \in {0, 1}
    <2>1. s.days # None /\ s.days >= 0
      BY <1>3, NotNone
    <2>2. Meant(s) = {today + s.days} /\ ResolveDate(s, today) = today + s.days
      BY <1>3, <2>1, Zenon DEF Meant, ResolveDate
    <2>3. today + s.days \in Nat /\ today + s.days =< today + 2 * WeekLength - 1
      BY <1>3, ChatAssumption
    <2>4. today + s.days \in Days
      BY <2>3, Reached
    <2> QED BY <2>2, <2>4, OneDay
  <1>4. CASE s.month_day = None /\ s.days = None /\ s.weekday \in Weekdays
    <2> DEFINE w == s.weekday
               t == today
    <2>1. w # None /\ t \in Nat /\ w \in Nat /\ w < WeekLength /\ WeekLength \in Nat \ {0, 1}
      BY <1>4, NotNone, ChatAssumption DEF Weekdays
    <2>2. /\ Monday(t) \in Int /\ Monday(t) =< t /\ t < Monday(t) + WeekLength
          /\ \A d \in Days : /\ Weekday(d) = w /\ Monday(d) = Monday(t) <=> d = Monday(t) + w
                             /\ Weekday(d) = w /\ Monday(d) = Monday(t) + WeekLength
                                  <=> d = Monday(t) + WeekLength + w
      <3>1. \A d \in Days : d \in Int
        BY ChatAssumption
      <3> QED BY <1>4, <2>1, <3>1, DayOfWeek
    <2>3. CASE s.week = "this"
      <3> DEFINE d == Monday(t) + w
      <3>1. ~ (d < t)
        BY <1>4, <2>1, <2>3 DEF Passed
      <3>2. d \in Nat /\ d >= t /\ d =< t + 2 * WeekLength - 1
        BY <2>1, <2>2, <3>1
      <3>3. d \in Days
        BY <3>2, Reached
      <3>4. ResolveDate(s, t) = d
        BY <1>4, <2>1, <2>3 DEF ResolveDate
      <3>5. Meant(s) = {e \in Days : Weekday(e) = w /\ e >= t /\ Monday(e) = Monday(t)}
        BY <1>4, <2>1, <2>3, Zenon DEF Meant
      <3>6. Meant(s) = {d}
        BY <2>2, <3>2, <3>3, <3>5
      <3> QED BY <3>3, <3>4, <3>6, OneDay
    <2>4. CASE s.week = "next"
      <3> DEFINE d == Monday(t) + WeekLength + w
      <3>1. d \in Nat /\ d =< t + 2 * WeekLength - 1
        BY <2>1, <2>2
      <3>2. d \in Days
        BY <3>1, Reached
      <3>3. ResolveDate(s, t) = d
        BY <1>4, <2>1, <2>4 DEF ResolveDate
      <3>4. Meant(s) = {e \in Days : Weekday(e) = w /\ Monday(e) = Monday(t) + WeekLength}
        BY <1>4, <2>1, <2>4 DEF Meant
      <3>5. Meant(s) = {d}
        BY <2>2, <3>2, <3>4
      <3> QED BY <3>2, <3>3, <3>5, OneDay
    <2>5. CASE s.week # "this" /\ s.week # "next"
      <3> DEFINE d == WeekdayAlone(w, t)
      <3>1. /\ d \in Int /\ t < d /\ d =< t + WeekLength /\ Weekday(d) = w
            /\ \A e \in Int : t < e /\ Weekday(e) = w => d =< e
        BY <1>4, <2>1, AloneIsNext
      <3>2. ~Passed(s, t) /\ ResolveDate(s, t) = d
        BY <1>4, <2>1, <2>5, Zenon DEF ResolveDate, Passed
      <3>3. Meant(s) = {e \in Days : Weekday(e) = w /\ e > t}
        BY <1>4, <2>1, <2>5, Zenon DEF Meant
      <3> HIDE DEF d
      <3>4. d \in Nat /\ d =< t + 2 * WeekLength - 1
        BY <2>1, <3>1
      <3>5. d \in Days /\ Days \subseteq Nat
        BY <3>4, Reached, ChatAssumption
      <3>6. Meant(s) \in SUBSET Days /\ d \in Meant(s) /\ \A e \in Meant(s) : d =< e
        <4>1. Meant(s) \subseteq Days /\ d \in Meant(s)
          BY <2>1, <3>1, <3>3, <3>5
        <4>2. ASSUME NEW e \in Meant(s) PROVE d =< e
          <5>1. e \in Int /\ t < e /\ Weekday(e) = w
            <6>1. e \in Days /\ Weekday(e) = w /\ e > t
              BY <3>3, Zenon
            <6> QED BY <2>1, <3>5, <6>1
          <5> QED BY <3>1, <5>1
        <4> QED BY <3>5, <4>1, <4>2
      <3>7. Least(Meant(s)) = d
        BY <3>5, <3>6, LeastOf
      <3> QED BY <3>2, <3>5, <3>6, <3>7 DEF DateIsMeant
    <2> QED BY <2>3, <2>4, <2>5
  <1> QED BY <1>1, <1>2, <1>3, <1>4, Expression

-----------------------------------------------------------------------------
(* A time in the query is the one said last; one that was said and is       *)
(* neither with a date nor in the query is lost.                            *)
QueryInv == /\ depart # None => depart = lastTime
            /\ slot.date = None /\ depart = None => lost \/ lastTime = 0

IndInv == TypeOK /\ DateAsSaid /\ TimeAsSaid /\ QueryInv /\ OriginAsSaid

LEMMA InitInv == Init => IndInv
  <1> SUFFICES ASSUME Init PROVE IndInv
    OBVIOUS
  <1>1. 0 \in Times /\ 0 \in 0..LastToday
    BY ChatAssumption
  <1>2. TypeOK
    BY <1>1 DEF Init, TypeOK
  <1> QED BY <1>2 DEF Init, IndInv, DateAsSaid, TimeAsSaid, QueryInv, OriginAsSaid

(* What a turn may be given.                                                *)
IsSaid(s, said, text, origin, found) ==
    /\ s \in Expressions /\ said \in {None} \cup Times
    /\ text \in OriginTexts /\ origin \in OriginsSaid(text)
    /\ found \in IF NewOrigin(origin, text) THEN Coordinates(origin) ELSE {None}

LEMMA TurnIs ==
    ASSUME Turn
    PROVE  \E s, said, text, origin, found :
             /\ IsSaid(s, said, text, origin, found)
             /\ Slots(s, said, text, origin, found) /\ Dates(s) /\ Origins(origin)
             /\ UNCHANGED today
  <1>1. PICK s \in Expressions, said \in {None} \cup Times, text \in OriginTexts :
        \E origin \in OriginsSaid(text) :
        \E found \in IF NewOrigin(origin, text) THEN Coordinates(origin) ELSE {None} :
          /\ Slots(s, said, text, origin, found) /\ Dates(s) /\ Origins(origin)
          /\ UNCHANGED today
    BY DEF Turn
  <1>2. PICK origin \in OriginsSaid(text) :
        \E found \in IF NewOrigin(origin, text) THEN Coordinates(origin) ELSE {None} :
          /\ Slots(s, said, text, origin, found) /\ Dates(s) /\ Origins(origin)
          /\ UNCHANGED today
    BY <1>1
  <1>3. PICK found \in IF NewOrigin(origin, text) THEN Coordinates(origin) ELSE {None} :
          /\ Slots(s, said, text, origin, found) /\ Dates(s) /\ Origins(origin)
          /\ UNCHANGED today
    BY <1>2
  <1>4. IsSaid(s, said, text, origin, found)
    BY <1>3 DEF IsSaid
  <1> QED BY <1>3, <1>4

(* Date and time of Visit.                                                  *)
LEMMA VisitIs ==
    ASSUME NEW s, NEW said
    PROVE  /\ Passed(s, today) => Visit(s, said).date = None /\ Visit(s, said).time = 0
           /\ ~Passed(s, today) =>
                LET day == ResolveDate(s, today)
                IN  /\ Visit(s, said).date = IF day # None THEN day ELSE slot.date
                    /\ Visit(s, said).time =
                         IF day # None THEN VisitTime(said)
                         ELSE IF said # None /\ slot.date # None THEN said ELSE slot.time
  BY DEF Visit

(* What is found for an origin is the place that was named; an origin is    *)
(* looked up exactly when one was named.                                    *)
LEMMA OriginIs ==
    ASSUME TypeOK, NEW s, NEW said, NEW text, NEW origin, NEW found,
           IsSaid(s, said, text, origin, found), Origins(origin)
    PROVE  /\ named' => \E p \in Places : /\ wanted' = p
                                          /\ Origin(origin, text, found) \in {None, p}
           /\ ~named' => /\ wanted' = wanted
                         /\ Origin(origin, text, found) = slot.origin
           /\ named' \in BOOLEAN
  <1>1. text = None \/ \E q \in Places : text = Address(q)
    BY DEF IsSaid, OriginTexts, TypeOK
  <1>2. origin = None \/ origin = text \/ \E p \in Places : origin = Name(p)
    BY DEF IsSaid, OriginsSaid
  <1>3. named' = (\E p \in Places : origin = Name(p)) /\ named' \in BOOLEAN
    BY DEF Origins
  <1>4. ASSUME NEW p \in Places, origin = Name(p)
        PROVE  /\ named' /\ wanted' = p
               /\ Origin(origin, text, found) \in {None, p}
    <2>1. origin # None /\ origin[2] = p
      BY <1>4, ChatAssumption DEF Name
    <2>2. origin # text
      BY <1>1, <1>4, <2>1 DEF Name, Address
    <2>3. NewOrigin(origin, text)
      BY <2>1, <2>2 DEF NewOrigin
    <2>4. named'
      BY <1>3, <1>4
    <2>5. found \in {None, p} /\ wanted' = p
      BY <2>1, <2>3, <2>4 DEF IsSaid, Origins, Coordinates
    <2> QED BY <2>3, <2>4, <2>5 DEF Origin
  <1>5. ASSUME ~named'
        PROVE  wanted' = wanted /\ Origin(origin, text, found) = slot.origin
    <2>1. origin = None \/ origin = text
      BY <1>2, <1>3, <1>5
    <2> QED BY <1>5, <2>1 DEF Origins, Origin, NewOrigin
  <1> QED BY <1>3, <1>4, <1>5

LEMMA TurnStep == IndInv /\ Turn => IndInv'
  <1> SUFFICES ASSUME IndInv, Turn PROVE IndInv'
    OBVIOUS
  <1>1. PICK s, said, text, origin, found :
             /\ IsSaid(s, said, text, origin, found)
             /\ Slots(s, said, text, origin, found) /\ Dates(s) /\ Origins(origin)
             /\ UNCHANGED today
    BY TurnIs
  <1> DEFINE day  == ResolveDate(s, today)
             date == Visit(s, said).date
             time == Visit(s, said).time
             org  == Origin(origin, text, found)
  <1>2. TypeOK /\ DateAsSaid /\ TimeAsSaid /\ QueryInv /\ OriginAsSaid
    BY DEF IndInv
  <1>3. slot'.date = date /\ slot'.time = time /\ slot'.origin = org
    BY <1>1 DEF Slots
  <1>4. ~Passed(s, today) => DateIsMeant(s)
    BY <1>1, <1>2, DateMeant DEF IsSaid, TypeOK
  <1>5. Passed(s, today) => date = None /\ time = 0
    BY VisitIs
  <1>6. ~Passed(s, today) =>
           /\ date = IF day # None THEN day ELSE slot.date
           /\ time = IF day # None THEN VisitTime(said)
                     ELSE IF said # None /\ slot.date # None THEN said ELSE slot.time
    BY VisitIs
  <1>7. /\ depart' \in {None, depart, said}
        /\ depart' = None \/ depart' = lastTime'
    <2>1. Departs(s, said, Visit(s, said)) \subseteq {None, depart, said}
          /\ (said # None => Departs(s, said, Visit(s, said)) \subseteq {None, said})
          /\ (said = None => Departs(s, said, Visit(s, said)) \subseteq {None, depart})
          /\ (said = None /\ date = None => Departs(s, said, Visit(s, said)) = {depart})
      BY DEF Departs
    <2> QED BY <1>1, <1>2, <2>1 DEF Slots, QueryInv
  <1>8. said = None /\ date = None => depart' = depart
    BY <1>1 DEF Slots, Departs
  <1>9. /\ lastTime' = IF said = None THEN lastTime ELSE said
        /\ lost' = \/ Passed(s, today)
                   \/ said # None /\ date = None /\ depart' = None
                   \/ said = None /\ lost
    BY <1>1 DEF Slots
  <1>10. /\ named' => \E p \in Places : wanted' = p /\ org \in {None, p}
         /\ ~named' => wanted' = wanted /\ org = slot.origin
         /\ named' \in BOOLEAN
    BY <1>1, <1>2, OriginIs
  <1>11. slot' = [date |-> date, time |-> time, origin |-> org]
    BY <1>1 DEF Slots
  <1> HIDE DEF day, date, time, org
  <1>12. OriginAsSaid'
    BY <1>2, <1>3, <1>10 DEF OriginAsSaid
  <1>13. DateAsSaid'
    <2>1. CASE Passed(s, today)
      <3>1. lastDate' = None
        BY <1>1, <2>1, Zenon DEF Dates
      <3> QED BY <1>3, <1>5, <2>1, <3>1 DEF DateAsSaid
    <2>2. CASE ~Passed(s, today) /\ Meant(s) = {}
      <3>1. lastDate' = lastDate /\ (far' <=> far)
        BY <1>1, <2>2, Zenon DEF Dates
      <3>2. date = slot.date
        BY <1>4, <1>6, <2>2 DEF DateIsMeant, day
      <3> QED BY <1>2, <1>3, <3>1, <3>2 DEF DateAsSaid
    <2>3. CASE ~Passed(s, today) /\ Meant(s) # {}
      <3>1. lastDate' = Least(Meant(s)) /\ (far' <=> TooFar(s))
        BY <1>1, <2>3, Zenon DEF Dates
      <3>2. TooFar(s) \/ day = Least(Meant(s))
        BY <1>4, <2>3 DEF DateIsMeant, day
      <3>3. Least(Meant(s)) # None
        <4>1. Meant(s) \subseteq Days /\ Days \subseteq Nat /\ None \notin Days
          BY <1>4, <2>3, ChatAssumption DEF DateIsMeant
        <4> QED BY <2>3, <4>1, LeastOf
      <3> QED BY <1>3, <1>6, <2>3, <3>1, <3>2, <3>3 DEF DateAsSaid
    <2> QED BY <2>1, <2>2, <2>3
  <1>14. VisitTime(said) = IF said # None THEN said
                           ELSE IF slot.date # None /\ slot.time # 0 THEN slot.time
                           ELSE IF depart # None THEN depart ELSE 0
    BY DEF VisitTime
  <1>15. TimeAsSaid'
    <2> SUFFICES ASSUME date # None
                 PROVE  time = lastTime' \/ (lost' /\ time = 0)
      BY <1>3 DEF TimeAsSaid
    <2>1. ~Passed(s, today)
      BY <1>5
    <2>2. CASE said # None
      BY <1>6, <1>9, <1>14, <2>1, <2>2
    <2>3. CASE said = None
      <3>1. lastTime' = lastTime /\ lost' = lost
        BY <1>9, <2>1, <2>3, <1>2 DEF TypeOK
      <3> QED BY <1>2, <1>6, <1>14, <2>1, <2>3, <3>1 DEF TimeAsSaid, QueryInv
    <2> QED BY <2>2, <2>3
  <1>16. QueryInv'
    <2> SUFFICES ASSUME date = None, depart' = None
                 PROVE  lost' \/ lastTime' = 0
      BY <1>3, <1>7 DEF QueryInv
    <2> QED BY <1>2, <1>6, <1>8, <1>9 DEF QueryInv
  <1>17. TypeOK'
    <2>1. date \in Days \cup {None}
      BY <1>2, <1>4, <1>5, <1>6 DEF TypeOK, DateIsMeant, day
    <2>2. /\ slot.time \in Times /\ depart \in Times \cup {None} /\ lastTime \in Times
          /\ 0 \in Times /\ said \in Times \cup {None} /\ today \in 0..LastToday
      BY <1>1, <1>2, ChatAssumption DEF IsSaid, TypeOK
    <2>3. time \in Times
      BY <1>5, <1>6, <1>14, <2>2
    <2>4. org \in Places \cup {None} /\ wanted' \in Places \cup {None}
      BY <1>2, <1>10 DEF TypeOK
    <2>5. lastDate' \in Days \cup {None}
      <3>1. ASSUME DateIsMeant(s), Meant(s) # {} PROVE Least(Meant(s)) \in Days
        <4>1. Meant(s) \subseteq Days /\ Days \subseteq Nat
          BY <3>1, ChatAssumption DEF DateIsMeant
        <4> QED BY <3>1, <4>1, LeastOf
      <3> QED BY <1>1, <1>2, <1>4, <3>1 DEF Dates, TypeOK
    <2>6. lost' \in BOOLEAN /\ far' \in BOOLEAN
      <3>1. TooFar(s) \in BOOLEAN /\ Passed(s, today) \in BOOLEAN
        BY DEF TooFar, Passed
      <3> QED BY <1>1, <1>2, <1>9, <3>1 DEF Dates, TypeOK
    <2>7. lastTime' \in Times /\ depart' \in Times \cup {None}
      BY <1>7, <1>9, <2>2
    <2> QED BY <1>1, <1>10, <1>11, <2>1, <2>2, <2>3, <2>4, <2>5, <2>6, <2>7 DEF TypeOK
  <1> QED BY <1>12, <1>13, <1>15, <1>16, <1>17 DEF IndInv

LEMMA Invariance == Spec => []IndInv
  <1>1. IndInv /\ [Next]_vars => IndInv'
    <2> SUFFICES ASSUME IndInv, [Next]_vars PROVE IndInv'
      OBVIOUS
    <2>1. CASE Turn
      BY <2>1, TurnStep
    <2>2. CASE NextDay
      <3>1. today' \in 0..LastToday
        BY <2>2, ChatAssumption DEF NextDay, IndInv, TypeOK
      <3> QED BY <2>2, <3>1 DEF NextDay, IndInv, TypeOK, DateAsSaid, TimeAsSaid, QueryInv,
                                OriginAsSaid
    <2>3. CASE UNCHANGED vars
      BY <2>3 DEF vars, IndInv, TypeOK, DateAsSaid, TimeAsSaid, QueryInv, OriginAsSaid
    <2> QED BY <2>1, <2>2, <2>3 DEF Next
  <1> QED BY InitInv, <1>1, PTL DEF Spec

-----------------------------------------------------------------------------
(* The slots keep their types over any number of turns and days.            *)
THEOREM TypeCorrect == Spec => []TypeOK
  <1>1. IndInv => TypeOK
    BY DEF IndInv
  <1> QED BY <1>1, Invariance, PTL

(* Whatever the calendar, the date of the slots is the one that was said    *)
(* last, by the rules of slot_datetime.py, unless it is in a year that      *)
(* _month_day does not look at.                                             *)
THEOREM DatesAreMeant == Spec => []DateAsSaid
  <1>1. IndInv => DateAsSaid
    BY DEF IndInv
  <1> QED BY <1>1, Invariance, PTL

(* The time of a date is the one said last, in whatever order date and time *)
(* came, or 00:00 when a date that could not be used took it away           *)
(* (resolve_visit, merge_slots).                                            *)
THEOREM TimesAreKept == Spec => []TimeAsSaid
  <1>1. IndInv => TimeAsSaid
    BY DEF IndInv
  <1> QED BY <1>1, Invariance, PTL

(* No origin comes back that the user has replaced (_origin of extract.py). *)
THEOREM NoOldOrigin == Spec => []OriginAsSaid
  <1>1. IndInv => OriginAsSaid
    BY DEF IndInv
  <1> QED BY <1>1, Invariance, PTL

(* A turn that names no origin keeps the one of before, also when the model *)
(* repeats the address it was shown and when the map API fails (extract).   *)
THEOREM OriginsAreKept == Spec => OriginKept
  <1>1. IndInv /\ [Next]_vars => [~named' => slot'.origin = slot.origin]_vars
    <2> SUFFICES ASSUME IndInv, [Next]_vars, ~named' PROVE slot'.origin = slot.origin
      OBVIOUS
    <2>1. CASE Turn
      <3>1. PICK s, said, text, origin, found :
                 /\ IsSaid(s, said, text, origin, found)
                 /\ Slots(s, said, text, origin, found) /\ Dates(s) /\ Origins(origin)
                 /\ UNCHANGED today
        BY <2>1, TurnIs
      <3>2. slot'.origin = Origin(origin, text, found)
        BY <3>1 DEF Slots
      <3> QED BY <3>1, <3>2, OriginIs DEF IndInv
    <2>2. CASE NextDay \/ UNCHANGED vars
      BY <2>2 DEF NextDay, vars
    <2> QED BY <2>1, <2>2 DEF Next
  <1> QED BY <1>1, Invariance, PTL DEF Spec, OriginKept
=============================================================================
