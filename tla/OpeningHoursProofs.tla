-------------------------- MODULE OpeningHoursProofs --------------------------
(***************************************************************************)
(* Theorems about OpeningHours, for days and weeks of any length and any   *)
(* texts.                                                                  *)
(***************************************************************************)
EXTENDS OpeningHours, TLAPS

-----------------------------------------------------------------------------
(* Ranges: as written in a text, on the clock, and cut at midnight.         *)
ClockRanges == {x \in [open : 0..LastTick, close : 0..LastTick] : x.close # x.open}
StoredRange == [open : 0..LastTick, close : 0..EndOfDay]

OnClock(r) == [open |-> r.open, close |-> Hhmm(r.close)]
UntilMidnight(x) == IF Crosses(x) THEN [open |-> x.open, close |-> 0] ELSE x
AfterMidnight(x) == [open |-> 0, close |-> x.close]

LEMMA Lengths ==
    /\ DayLength \in Nat /\ DayLength > 1 /\ LastTick = DayLength - 1 /\ EndOfDay = DayLength
    /\ LastTick \in Nat /\ WeekLength \in Nat /\ WeekLength > 1
  BY HoursAssumption DEF LastTick, EndOfDay

LEMMA HhmmIs ==
    ASSUME NEW t \in 0..EndOfDay
    PROVE  Hhmm(t) = IF t = DayLength THEN 0 ELSE t
  BY Lengths DEF Hhmm

LEMMA TextOnClock ==
    ASSUME NEW r \in TextRanges
    PROVE  /\ r.open \in 0..LastTick /\ r.close \in 0..EndOfDay
           /\ r.open \in Int /\ r.close \in Int
           /\ OnClock(r).open = r.open
           /\ OnClock(r).close = IF r.close = DayLength THEN 0 ELSE r.close
           /\ OnClock(r) \in ClockRanges
  <1>1. r.open \in 0..LastTick /\ r.close \in 0..EndOfDay /\ r.close % DayLength # r.open
    BY DEF TextRanges
  <1>2. Hhmm(r.close) = (IF r.close = DayLength THEN 0 ELSE r.close) /\ Hhmm(r.close) # r.open
    BY <1>1, HhmmIs DEF Hhmm
  <1>3. Hhmm(r.close) \in 0..LastTick
    BY <1>1, <1>2, Lengths
  <1>4. OnClock(r).open = r.open /\ OnClock(r).close = Hhmm(r.close)
    BY DEF OnClock
  <1>5. OnClock(r) \in [open : 0..LastTick, close : 0..LastTick]
    BY <1>1, <1>3 DEF OnClock
  <1>6. OnClock(r) \in ClockRanges
    BY <1>2, <1>4, <1>5 DEF ClockRanges
  <1>7. r.open \in Int /\ r.close \in Int
    BY <1>1, Lengths
  <1> QED BY <1>1, <1>2, <1>4, <1>6, <1>7

(* A range on the clock covers the same times as its text.                  *)
LEMMA ClockCovers ==
    ASSUME NEW r \in TextRanges, NEW t \in 1..LastTick
    PROVE  /\ t \in Span(r) <=> Within(OnClock(r), t)
           /\ t + DayLength \in Span(r) <=> Overnight(OnClock(r), t)
  <1> DEFINE x == OnClock(r)
  <1>1. /\ r.open \in 0..LastTick /\ r.close \in 0..EndOfDay
        /\ x.open = r.open /\ x.close = (IF r.close = DayLength THEN 0 ELSE r.close)
        /\ x.close # x.open
    BY TextOnClock DEF ClockRanges
  <1> HIDE DEF x
  <1>2. t \in Span(r) <=> Within(x, t)
    BY <1>1, Lengths DEF Span, Within, EndOf
  <1>3. t + DayLength \in Span(r) <=> Overnight(x, t)
    BY <1>1, Lengths DEF Span, Overnight
  <1> QED BY <1>2, <1>3 DEF x

(* The part until midnight covers the same times of its day, the rest those *)
(* of the next, and neither is a night of its own.                          *)
LEMMA PartsCover ==
    ASSUME NEW x \in ClockRanges, NEW t \in 1..LastTick
    PROVE  /\ Within(UntilMidnight(x), t) <=> Within(x, t)
           /\ ~Overnight(UntilMidnight(x), t)
           /\ ~Overnight(AfterMidnight(x), t)
           /\ Crosses(x) /\ x.close # 0 =>
                (Within(AfterMidnight(x), t) <=> Overnight(x, t))
           /\ Overnight(x, t) => Crosses(x) /\ x.close # 0
  <1>1. x.open \in 0..LastTick /\ x.close \in 0..LastTick /\ x.close # x.open
    BY DEF ClockRanges
  <1> QED BY <1>1, Lengths DEF UntilMidnight, AfterMidnight, Within, EndOf, Overnight, Crosses

-----------------------------------------------------------------------------
(* What the hours and the notices have become, stage by stage.              *)
Rewrite(rs) == {OnClock(r) : r \in rs}
Regular == [d \in Weekdays |-> IF hours[d] = Unknown THEN Unknown ELSE Rewrite(hours[d])]
Special == [d \in Dates |-> IF Noticed(d) THEN Rewrite(notices[d]) ELSE Unknown]

(* The ranges a day has of its own, and those of the night before.          *)
Own(d)    == IF hours[d] = Unknown THEN {} ELSE Rewrite(hours[d])
Nights(d) == {x \in Own((d - 1) % WeekLength) : Crosses(x)}
StoredDay(d) == {OwnPart(x) : x \in Own(d)} \cup {AfterMidnight(x) : x \in Nights(d)}
CutDay(d) == {UntilMidnight(x) : x \in Own(d)}
               \cup {AfterMidnight(x) : x \in {y \in Nights(d) : y.close # 0}}

(* The days that have hours once the week was cut: those of the text, and   *)
(* where the backend fills unknown days, those with the rest of a night.    *)
Known(d, filled) == hours[d] # Unknown \/ (filled /\ Nights(d) # {})
Stored(filled) == [d \in Weekdays |-> IF Known(d, filled) THEN StoredDay(d) ELSE Unknown]
Cut(filled)    == [d \in Weekdays |-> IF Known(d, filled) THEN CutDay(d) ELSE Unknown]

WrittenInv ==
    /\ hours \in [Weekdays -> DayTexts] /\ notices \in [Dates -> NoticeTexts \cup {Unknown}]
    /\ today \in Dates /\ visit \in [day : VisitDays, time : 0..LastTick]
    /\ stage \in {"text", "published", "stored", "received", "judged"}

HoursInv ==
    /\ stage = "text" => week = hours /\ exceptions = notices
    /\ stage = "published" => week = Regular
    /\ stage = "stored" => week \in {Regular, Stored(TRUE), Stored(FALSE)}
    /\ stage \in {"received", "judged"} => week \in {Regular, Cut(TRUE), Cut(FALSE)}
    /\ stage \notin {"text"} => exceptions = Special
    /\ stage = "judged" => closed = IsClosed(visit.time)

IndInv == WrittenInv /\ HoursInv

LEMMA TextSets ==
    ASSUME WrittenInv
    PROVE  /\ \A d \in Weekdays : hours[d] = Unknown \/ hours[d] \in SUBSET TextRanges
           /\ \A d \in Dates : notices[d] = Unknown \/ notices[d] \in SUBSET TextRanges
           /\ \A rs \in SUBSET TextRanges :
                Rewrite(rs) \in SUBSET ClockRanges /\ Rewrite(rs) \in SUBSET StoredRange
           /\ \A rs \in SUBSET StoredRange : rs # Unknown
           /\ \A d \in Weekdays : (d - 1) % WeekLength \in Weekdays
  <1>1. /\ \A d \in Weekdays : hours[d] = Unknown \/ hours[d] \in SUBSET TextRanges
        /\ \A d \in Dates : notices[d] = Unknown \/ notices[d] \in SUBSET TextRanges
    BY HoursAssumption DEF WrittenInv
  <1>2. ClockRanges \subseteq StoredRange
    BY Lengths DEF ClockRanges, StoredRange
  <1>3. \A rs \in SUBSET TextRanges : Rewrite(rs) \in SUBSET ClockRanges
    BY TextOnClock DEF Rewrite
  <1>4. \A rs \in SUBSET StoredRange : rs # Unknown
    BY HoursAssumption DEF StoredRange
  <1>5. ASSUME NEW d \in Weekdays PROVE (d - 1) % WeekLength \in Weekdays
    <2>1. d \in Int /\ d - 1 \in Int
      BY Lengths DEF Weekdays
    <2>2. (d - 1) % WeekLength \in 0..(WeekLength - 1)
      BY <2>1, Lengths
    <2> QED BY <2>2 DEF Weekdays
  <1> QED BY <1>1, <1>2, <1>3, <1>4, <1>5

(* Publish: every range is put on the clock.                                *)
LEMMA Published ==
    ASSUME WrittenInv, HoursInv, Publish
    PROVE  week' = Regular /\ exceptions' = Special
  <1>1. week' = EachDay(Rewritten, hours)
        /\ exceptions' = EachDay(Rewritten, [d \in Dates |-> IF d < today THEN Unknown ELSE notices[d]])
    BY DEF Publish
  <1>2. week' = Regular
    BY <1>1 DEF EachDay, Rewritten, Regular, Rewrite, OnClock, WrittenInv
  <1>3. exceptions' = Special
    <2>1. ASSUME NEW d \in Dates
          PROVE  (IF (IF d < today THEN Unknown ELSE notices[d]) = Unknown THEN Unknown
                  ELSE Rewritten(d, IF d < today THEN Unknown ELSE notices[d]))
                   = IF Noticed(d) THEN Rewrite(notices[d]) ELSE Unknown
      <3>1. d < today <=> ~(d >= today)
        BY DEF Dates, WrittenInv
      <3> QED BY <3>1 DEF Noticed, Rewrite, Rewritten, OnClock
    <2> QED BY <1>1, <2>1 DEF EachDay, Special
  <1> QED BY <1>2, <1>3

-----------------------------------------------------------------------------
(* Store: the backend keeps the hours, or cuts them at midnight.            *)
LEMMA OwnRanges ==
    ASSUME WrittenInv, NEW d \in Weekdays
    PROVE  /\ Own(d) \in SUBSET ClockRanges /\ Nights(d) \in SUBSET ClockRanges
           /\ \A x \in Nights(d) : Crosses(x)
  <1>1. \A e \in Weekdays : Own(e) \in SUBSET ClockRanges
    BY TextSets DEF Own
  <1>2. (d - 1) % WeekLength \in Weekdays
    BY TextSets
  <1> QED BY <1>1, <1>2 DEF Nights

LEMMA StoredWeek ==
    ASSUME WrittenInv, HoursInv, Store
    PROVE  week' \in {Regular, Stored(TRUE), Stored(FALSE)} /\ exceptions' = Special
  <1>1. week = Regular /\ exceptions = Special /\ exceptions' = exceptions
    BY DEF Store, Step, HoursInv
  <1>2. CASE week' = week
    BY <1>1, <1>2
  <1>3. ASSUME NEW filled \in BOOLEAN, week' = CutWeek(filled)
        PROVE  week' = Stored(filled)
    <2>1. \A d \in Weekdays : (Regular[d] # Unknown <=> hours[d] # Unknown)
                            /\ (hours[d] # Unknown => Regular[d] = Rewrite(hours[d]))
      BY TextSets, Zenon DEF Regular
    <2>2. \A d \in Weekdays : Ranges(d) = Own(d)
      BY <1>1, <2>1 DEF Ranges, Own
    <2>3. ASSUME NEW d \in Weekdays PROVE Tails(d) = {AfterMidnight(x) : x \in Nights(d)}
      <3>1. Ranges((d - 1) % WeekLength) = Own((d - 1) % WeekLength)
        BY <2>2, TextSets
      <3> QED BY <3>1 DEF Tails, Nights, AfterMidnight
    <2>4. ASSUME NEW d \in Weekdays
          PROVE  (IF week[d] # Unknown \/ (filled /\ Tails(d) # {})
                  THEN {OwnPart(r) : r \in Ranges(d)} \cup Tails(d) ELSE Unknown)
                   = IF Known(d, filled) THEN StoredDay(d) ELSE Unknown
      <3>1. Tails(d) # {} <=> Nights(d) # {}
        BY <2>3
      <3>2. week[d] # Unknown <=> hours[d] # Unknown
        BY <1>1, <2>1
      <3>3. {OwnPart(r) : r \in Ranges(d)} \cup Tails(d) = StoredDay(d)
        BY <2>2, <2>3 DEF StoredDay
      <3> QED BY <3>1, <3>2, <3>3 DEF Known
    <2> QED BY <1>3, <2>4 DEF CutWeek, Stored
  <1> QED BY <1>1, <1>2, <1>3 DEF Store

(* _merge_split_midnight leaves what is on the clock, and makes the parts   *)
(* that were cut off clock times again.                                     *)
LEMMA MergeOnClock ==
    ASSUME NEW rs \in SUBSET ClockRanges
    PROVE  Merge(rs) = rs
  <1>1. \A r \in rs : ~(r.open = 0 /\ r.close = 0) /\ r.close # EndOfDay
    BY Lengths DEF ClockRanges
  <1> QED BY <1>1 DEF Merge

LEMMA MergeCut ==
    ASSUME WrittenInv, NEW d \in Weekdays
    PROVE  Merge(StoredDay(d)) = CutDay(d)
  <1> DEFINE Kept(x) == ~(x.open = 0 /\ x.close = 0)
             Mended(x) == IF x.close = EndOfDay THEN [x EXCEPT !.close = 0] ELSE x
  <1>1. Own(d) \in SUBSET ClockRanges
    BY OwnRanges
  <1>2. Nights(d) \in SUBSET ClockRanges /\ \A x \in Nights(d) : Crosses(x)
    BY OwnRanges
  <1>3. ASSUME NEW x \in ClockRanges
        PROVE  Kept(OwnPart(x)) /\ Mended(OwnPart(x)) = UntilMidnight(x)
    <2>1. /\ x = [open |-> x.open, close |-> x.close]
          /\ x.open \in 0..LastTick /\ x.close \in 0..LastTick /\ x.close # x.open
      BY DEF ClockRanges
    <2>2. CASE Crosses(x)
      <3>1. OwnPart(x) = [open |-> x.open, close |-> EndOfDay]
        BY <2>1, <2>2 DEF OwnPart
      <3>2. x.open # 0 /\ EndOfDay # 0
        BY <2>1, <2>2, Lengths DEF Crosses
      <3> QED BY <2>2, <3>1, <3>2 DEF UntilMidnight
    <2>3. CASE ~Crosses(x)
      BY <2>1, <2>3, Lengths DEF OwnPart, UntilMidnight
    <2> QED BY <2>2, <2>3
  <1>4. ASSUME NEW x \in ClockRanges
        PROVE  /\ Kept(AfterMidnight(x)) <=> x.close # 0
               /\ Mended(AfterMidnight(x)) = AfterMidnight(x)
    <2>1. x.close \in 0..LastTick /\ x.close # EndOfDay
      BY Lengths DEF ClockRanges
    <2> QED BY <2>1 DEF AfterMidnight
  <1>5. Merge(StoredDay(d)) = {Mended(y) : y \in {z \in StoredDay(d) : Kept(z)}}
    BY DEF Merge
  <1> HIDE DEF Kept, Mended
  <1>6. ASSUME NEW u \in Merge(StoredDay(d)) PROVE u \in CutDay(d)
    <2>1. PICK y \in StoredDay(d) : Kept(y) /\ u = Mended(y)
      BY <1>5
    <2>2. CASE y \in {OwnPart(x) : x \in Own(d)}
      BY <1>1, <1>3, <2>1, <2>2 DEF CutDay
    <2>3. CASE y \in {AfterMidnight(x) : x \in Nights(d)}
      <3>1. PICK x \in Nights(d) : y = AfterMidnight(x)
        BY <2>3
      <3>2. x.close # 0 /\ u = AfterMidnight(x)
        BY <1>2, <1>4, <2>1, <3>1
      <3> QED BY <3>2 DEF CutDay
    <2> QED BY <2>2, <2>3 DEF StoredDay
  <1>7. ASSUME NEW u \in CutDay(d) PROVE u \in Merge(StoredDay(d))
    <2>1. CASE u \in {UntilMidnight(x) : x \in Own(d)}
      <3>1. PICK x \in Own(d) : u = UntilMidnight(x)
        BY <2>1
      <3>2. OwnPart(x) \in StoredDay(d)
        BY DEF StoredDay
      <3> QED BY <1>1, <1>3, <1>5, <3>1, <3>2
    <2>2. CASE u \in {AfterMidnight(x) : x \in {y \in Nights(d) : y.close # 0}}
      <3>1. PICK x \in Nights(d) : x.close # 0 /\ u = AfterMidnight(x)
        BY <2>2
      <3>2. AfterMidnight(x) \in StoredDay(d)
        BY DEF StoredDay
      <3> QED BY <1>2, <1>4, <1>5, <3>1, <3>2
    <2> QED BY <2>1, <2>2 DEF CutDay
  <1> QED BY <1>6, <1>7

(* A day that was cut is still a set of ranges, and never unknown.          *)
LEMMA StoredRanges ==
    ASSUME WrittenInv, NEW d \in Weekdays
    PROVE  StoredDay(d) # Unknown /\ CutDay(d) # Unknown
  <1>1. Own(d) \in SUBSET ClockRanges /\ Nights(d) \in SUBSET ClockRanges
    BY OwnRanges
  <1>2. ASSUME NEW x \in ClockRanges
        PROVE  OwnPart(x) \in StoredRange /\ AfterMidnight(x) \in StoredRange
               /\ UntilMidnight(x) \in StoredRange
    <2>1. x \in StoredRange /\ x.open \in 0..LastTick /\ x.close \in 0..EndOfDay
      BY Lengths DEF ClockRanges, StoredRange
    <2>2. EndOfDay \in 0..EndOfDay /\ 0 \in 0..EndOfDay /\ 0 \in 0..LastTick
      BY Lengths
    <2>3. OwnPart(x) \in StoredRange
      BY <2>1, <2>2 DEF OwnPart, StoredRange
    <2> QED BY <2>1, <2>2, <2>3 DEF AfterMidnight, UntilMidnight, StoredRange
  <1>3. StoredDay(d) \in SUBSET StoredRange
    BY <1>1, <1>2 DEF StoredDay
  <1>4. CutDay(d) \in SUBSET StoredRange
    BY <1>1, <1>2 DEF CutDay
  <1> QED BY <1>3, <1>4, TextSets

(* Receive: the hours are as they were published, or cut and mended.        *)
LEMMA ReceivedWeek ==
    ASSUME WrittenInv, HoursInv, Receive
    PROVE  week' \in {Regular, Cut(TRUE), Cut(FALSE)} /\ exceptions' = Special
  <1>1. week \in {Regular, Stored(TRUE), Stored(FALSE)} /\ exceptions = Special
    BY DEF Receive, Step, HoursInv
  <1>2. DOMAIN week = Weekdays /\ DOMAIN exceptions = Dates
    BY <1>1 DEF Regular, Stored, Special
  <1>3. /\ week' = [d \in Weekdays |-> IF week[d] = Unknown THEN Unknown ELSE Merge(week[d])]
        /\ exceptions' = [d \in Dates |-> IF exceptions[d] = Unknown THEN Unknown ELSE Merge(exceptions[d])]
    BY <1>2 DEF Receive, EachDay
  <1>4. exceptions' = Special
    <2>1. ASSUME NEW d \in Dates
          PROVE  (IF Special[d] = Unknown THEN Unknown ELSE Merge(Special[d])) = Special[d]
      <3>1. CASE Noticed(d)
        <4>1. Special[d] = Rewrite(notices[d]) /\ Rewrite(notices[d]) \in SUBSET ClockRanges
          BY <3>1, TextSets DEF Special, Noticed
        <4> QED BY <4>1, MergeOnClock
      <3>2. CASE ~Noticed(d)
        BY <3>2 DEF Special
      <3> QED BY <3>1, <3>2
    <2> QED BY <1>1, <1>3, <2>1 DEF Special
  <1>5. CASE week = Regular
    <2>1. ASSUME NEW d \in Weekdays
          PROVE  (IF Regular[d] = Unknown THEN Unknown ELSE Merge(Regular[d])) = Regular[d]
      <3>1. CASE hours[d] = Unknown
        BY <3>1 DEF Regular
      <3>2. CASE hours[d] # Unknown
        <4>1. Regular[d] = Rewrite(hours[d]) /\ Rewrite(hours[d]) \in SUBSET ClockRanges
          BY <3>2, TextSets DEF Regular
        <4> QED BY <4>1, MergeOnClock
      <3> QED BY <3>1, <3>2
    <2>2. week' = Regular
      BY <1>3, <1>5, <2>1 DEF Regular
    <2> QED BY <1>4, <2>2
  <1>6. ASSUME NEW filled \in BOOLEAN, week = Stored(filled) PROVE week' = Cut(filled)
    <2>1. ASSUME NEW d \in Weekdays
          PROVE  (IF Stored(filled)[d] = Unknown THEN Unknown ELSE Merge(Stored(filled)[d]))
                   = Cut(filled)[d]
      <3>1. CASE ~Known(d, filled)
        BY <3>1 DEF Stored, Cut
      <3>2. CASE Known(d, filled)
        <4>1. Stored(filled)[d] = StoredDay(d) /\ Cut(filled)[d] = CutDay(d)
          BY <3>2 DEF Stored, Cut
        <4> QED BY <4>1, StoredRanges, MergeCut
      <3> QED BY <3>1, <3>2
    <2> QED BY <1>3, <1>6, <2>1 DEF Cut
  <1> QED BY <1>1, <1>4, <1>5, <1>6

-----------------------------------------------------------------------------
(* The hours and the notices stay in step with the stage.                   *)
LEMMA IndInvInit == Init => IndInv
  <1> SUFFICES ASSUME Init PROVE IndInv
    OBVIOUS
  <1>1. WrittenInv
    BY DEF Init, WrittenInv
  <1>2. HoursInv
    BY DEF Init, HoursInv
  <1> QED BY <1>1, <1>2 DEF IndInv

LEMMA IndInvNext == IndInv /\ [Next]_vars => IndInv'
  <1> SUFFICES ASSUME IndInv, [Next]_vars PROVE IndInv'
    OBVIOUS
  <1> USE DEF IndInv
  <1>1. ASSUME UNCHANGED written PROVE /\ UNCHANGED <<Regular, Special>>
                                       /\ UNCHANGED <<Stored(TRUE), Stored(FALSE)>>
                                       /\ UNCHANGED <<Cut(TRUE), Cut(FALSE)>>
    BY <1>1 DEF written, Regular, Special, Stored, Cut, Known, StoredDay, CutDay, Nights, Own,
                Noticed
  <1>2. ASSUME UNCHANGED written,
               stage' \in {"text", "published", "stored", "received", "judged"}
        PROVE  WrittenInv'
    BY <1>2 DEF written, WrittenInv
  <1>3. CASE Publish
    <2>1. stage' = "published" /\ UNCHANGED written
      BY <1>3 DEF Publish, Step
    <2>2. week' = Regular' /\ exceptions' = Special'
      BY <1>1, <1>3, <2>1, Published
    <2>3. HoursInv'
      BY <2>1, <2>2 DEF HoursInv
    <2> QED BY <1>2, <2>1, <2>3
  <1>4. CASE Store
    <2>1. stage' = "stored" /\ UNCHANGED written
      BY <1>4 DEF Store, Step
    <2>2. week' \in {Regular', Stored(TRUE)', Stored(FALSE)'} /\ exceptions' = Special'
      BY <1>1, <1>4, <2>1, StoredWeek
    <2>3. HoursInv'
      BY <2>1, <2>2 DEF HoursInv
    <2> QED BY <1>2, <2>1, <2>3
  <1>5. CASE Receive
    <2>1. stage' = "received" /\ UNCHANGED written
      BY <1>5 DEF Receive, Step
    <2>2. week' \in {Regular', Cut(TRUE)', Cut(FALSE)'} /\ exceptions' = Special'
      BY <1>1, <1>5, <2>1, ReceivedWeek
    <2>3. HoursInv'
      BY <2>1, <2>2 DEF HoursInv
    <2> QED BY <1>2, <2>1, <2>3
  <1>6. CASE Judge
    <2>1. stage' = "judged" /\ UNCHANGED written /\ UNCHANGED <<week, exceptions>>
      BY <1>6 DEF Judge, Step
    <2>2. week' \in {Regular', Cut(TRUE)', Cut(FALSE)'} /\ exceptions' = Special'
      BY <1>1, <1>6, <2>1 DEF Judge, Step, HoursInv
    <2>3. closed' = IsClosed(visit.time)'
      BY <1>6, <2>1 DEF Judge, written, IsClosed, DayRanges, Weekday
    <2>4. HoursInv'
      BY <2>1, <2>2, <2>3 DEF HoursInv
    <2> QED BY <1>2, <2>1, <2>4
  <1>7. CASE UNCHANGED vars
    <2>1. UNCHANGED written /\ UNCHANGED <<stage, week, exceptions, closed>>
      BY <1>7 DEF vars
    <2>2. UNCHANGED visit
      BY <2>1 DEF written
    <2>3. IsClosed(visit.time)' = IsClosed(visit.time)
      BY <2>1, <2>2 DEF IsClosed, DayRanges, Weekday
    <2>4. UNCHANGED <<hours, notices>>
      BY <1>1, <2>1 DEF written
    <2>5. HoursInv'
      BY <1>1, <2>1, <2>3, <2>4 DEF HoursInv
    <2> QED BY <1>2, <2>1, <2>5 DEF WrittenInv
  <1> QED BY <1>3, <1>4, <1>5, <1>6, <1>7 DEF Next

LEMMA Invariance == Spec => []IndInv
  BY IndInvInit, IndInvNext, PTL DEF Spec

-----------------------------------------------------------------------------
(* On every stage the ranges are times of a day; only the text and the      *)
(* backend end one at 24:00.                                                *)
IsWeek(h, ranges) ==
    DOMAIN h = Weekdays /\ \A d \in Weekdays : h[d] # Unknown => h[d] \in SUBSET ranges

ClockTimes == [open : 0..LastTick, close : 0..LastTick]

LEMMA WeeksAre ==
    ASSUME WrittenInv
    PROVE  /\ IsWeek(hours, StoredRange) /\ IsWeek(Regular, ClockTimes)
           /\ \A filled \in BOOLEAN :
                IsWeek(Stored(filled), StoredRange) /\ IsWeek(Cut(filled), ClockTimes)
  <1>1. 0 \in 0..LastTick /\ 0..LastTick \subseteq 0..EndOfDay /\ EndOfDay \in 0..EndOfDay
    BY Lengths
  <1>2. ASSUME NEW d \in Weekdays
        PROVE  /\ hours[d] # Unknown =>
                    hours[d] \in SUBSET StoredRange /\ Rewrite(hours[d]) \in SUBSET ClockTimes
               /\ StoredDay(d) \in SUBSET StoredRange /\ CutDay(d) \in SUBSET ClockTimes
    <2>1. /\ hours[d] # Unknown =>
                hours[d] \in SUBSET TextRanges /\ Rewrite(hours[d]) \in SUBSET ClockRanges
          /\ Own(d) \in SUBSET ClockRanges /\ Nights(d) \in SUBSET ClockRanges
      BY TextSets, OwnRanges
    <2>2. ASSUME NEW x \in ClockRanges
          PROVE  /\ x \in ClockTimes /\ OwnPart(x) \in StoredRange
                 /\ AfterMidnight(x) \in ClockTimes /\ AfterMidnight(x) \in StoredRange
                 /\ UntilMidnight(x) \in ClockTimes
      BY <1>1 DEF ClockRanges, ClockTimes, StoredRange, OwnPart, AfterMidnight, UntilMidnight
    <2>3. StoredDay(d) \in SUBSET StoredRange
      BY <2>1, <2>2 DEF StoredDay
    <2>4. CutDay(d) \in SUBSET ClockTimes
      BY <2>1, <2>2 DEF CutDay
    <2>5. TextRanges \subseteq StoredRange
      BY DEF TextRanges, StoredRange
    <2> QED BY <2>1, <2>2, <2>3, <2>4, <2>5
  <1>3. DOMAIN hours = Weekdays
    BY DEF WrittenInv
  <1>4. IsWeek(hours, StoredRange) /\ IsWeek(Regular, ClockTimes)
    BY <1>2, <1>3 DEF IsWeek, Regular
  <1>5. ASSUME NEW filled \in BOOLEAN
        PROVE  IsWeek(Stored(filled), StoredRange) /\ IsWeek(Cut(filled), ClockTimes)
    BY <1>2 DEF IsWeek, Stored, Cut
  <1> QED BY <1>4, <1>5

LEMMA NoticesAre ==
    ASSUME WrittenInv, NEW d \in Dates
    PROVE  /\ notices[d] # Unknown => notices[d] \in SUBSET StoredRange
           /\ Special[d] # Unknown => Special[d] \in SUBSET ClockTimes
  <1>1. notices[d] # Unknown =>
           notices[d] \in SUBSET TextRanges /\ Rewrite(notices[d]) \in SUBSET ClockRanges
    BY TextSets
  <1>2. TextRanges \subseteq StoredRange /\ ClockRanges \subseteq ClockTimes
    BY DEF TextRanges, StoredRange, ClockRanges, ClockTimes
  <1> QED BY <1>1, <1>2 DEF Special, Noticed

(* The variables keep their types, and what is judged has clock times only. *)
THEOREM HoursTyped == Spec => []TypeOK
  <1> DEFINE Boolean == closed \in BOOLEAN
  <1>1. Init => Boolean
    BY DEF Init
  <1>2. Boolean /\ [Next]_vars => Boolean'
    BY DEF Next, Publish, Store, Receive, Judge, IsClosed, vars
  <1>3. ASSUME IndInv, Boolean PROVE TypeOK
    <2>1. WrittenInv /\ HoursInv
      BY <1>3 DEF IndInv
    <2>2. ClockTimes \subseteq StoredRange
      BY Lengths DEF ClockTimes, StoredRange
    <2>3. stage \in {"text", "stored"} => IsWeek(week, StoredRange)
      BY <2>1, <2>2, WeeksAre DEF HoursInv, IsWeek
    <2>4. stage \notin {"text", "stored"} => IsWeek(week, ClockTimes)
      BY <2>1, WeeksAre DEF HoursInv, WrittenInv
    <2>5. /\ DOMAIN exceptions = Dates
          /\ \A d \in Dates : exceptions[d] # Unknown =>
                exceptions[d] \in SUBSET (IF stage = "text" THEN StoredRange ELSE ClockTimes)
      BY <2>1, NoticesAre DEF HoursInv, WrittenInv, Special
    <2>6. ASSUME NEW rs \in {week[d] : d \in Weekdays} \cup {exceptions[d] : d \in Dates},
                 rs # Unknown
          PROVE  rs \in SUBSET (IF stage \in {"text", "stored"} THEN StoredRange ELSE ClockTimes)
      BY <2>2, <2>3, <2>4, <2>5, <2>6 DEF IsWeek
    <2> HIDE DEF Boolean
    <2>7. DOMAIN week = Weekdays
      BY <2>3, <2>4 DEF IsWeek
    <2> QED BY <1>3, <2>1, <2>5, <2>6, <2>7 DEF TypeOK, WrittenInv, StoredRange, ClockTimes, Boolean
  <1> HIDE DEF Boolean
  <1> QED BY <1>1, <1>2, <1>3, Invariance, PTL DEF Spec

-----------------------------------------------------------------------------
(* What the judged ranges cover, in terms of the text.                      *)
Covered(rs, t)   == \E r \in rs : t \in Span(r)
NightBefore(t)   == hours[Weekday(-1)] # Unknown /\ Covered(hours[Weekday(-1)], t + DayLength)

LEMMA RewriteCovers ==
    ASSUME NEW rs \in SUBSET TextRanges, NEW t \in 1..LastTick
    PROVE  /\ (\E x \in Rewrite(rs) : Within(x, t)) <=> Covered(rs, t)
           /\ (\E x \in Rewrite(rs) : Overnight(x, t)) <=> Covered(rs, t + DayLength)
  <1>1. \A r \in rs : (t \in Span(r) <=> Within(OnClock(r), t))
                     /\ (t + DayLength \in Span(r) <=> Overnight(OnClock(r), t))
    BY ClockCovers
  <1>2. (\E x \in Rewrite(rs) : Within(x, t)) <=> \E r \in rs : Within(OnClock(r), t)
    BY DEF Rewrite
  <1>3. (\E x \in Rewrite(rs) : Overnight(x, t)) <=> \E r \in rs : Overnight(OnClock(r), t)
    BY DEF Rewrite
  <1>4. (\E r \in rs : Within(OnClock(r), t)) <=> Covered(rs, t)
    BY <1>1 DEF Covered
  <1>5. (\E r \in rs : Overnight(OnClock(r), t)) <=> Covered(rs, t + DayLength)
    BY <1>1, Zenon DEF Covered
  <1> QED BY <1>2, <1>3, <1>4, <1>5

(* The hours that were cut cover what the day says and the night before,    *)
(* and no range of them runs over midnight.                                 *)
LEMMA CutCovers ==
    ASSUME WrittenInv, NEW d \in Weekdays, NEW t \in 1..LastTick
    PROVE  /\ (\E x \in CutDay(d) : Within(x, t)) <=>
                 \/ hours[d] # Unknown /\ Covered(hours[d], t)
                 \/ /\ hours[(d - 1) % WeekLength] # Unknown
                    /\ Covered(hours[(d - 1) % WeekLength], t + DayLength)
           /\ \A x \in CutDay(d) : ~Overnight(x, t)
  <1> DEFINE b == (d - 1) % WeekLength
  <1>1. b \in Weekdays
    BY TextSets
  <1>2. /\ Own(d) \in SUBSET ClockRanges /\ Nights(d) \in SUBSET ClockRanges
        /\ hours[d] # Unknown => hours[d] \in SUBSET TextRanges
    BY OwnRanges, TextSets
  <1>3. /\ hours[b] # Unknown => hours[b] \in SUBSET TextRanges
        /\ Own(b) \in SUBSET ClockRanges
    BY <1>1, OwnRanges, TextSets
  <1>4. Nights(d) = {x \in Own(b) : Crosses(x)}
    BY DEF Nights
  <1> HIDE DEF b
  <1>6. \A x \in CutDay(d) : ~Overnight(x, t)
    BY <1>2, PartsCover DEF CutDay
  <1>7. (\E x \in CutDay(d) : Within(x, t)) <=>
          \/ \E x \in Own(d) : Within(UntilMidnight(x), t)
          \/ \E x \in Nights(d) : x.close # 0 /\ Within(AfterMidnight(x), t)
    BY DEF CutDay
  <1>8. (\E x \in Own(d) : Within(UntilMidnight(x), t)) <=>
          hours[d] # Unknown /\ Covered(hours[d], t)
    <2>1. \A x \in Own(d) : Within(UntilMidnight(x), t) <=> Within(x, t)
      BY <1>2, PartsCover
    <2> QED BY <1>2, <2>1, RewriteCovers DEF Own
  <1>9. (\E x \in Nights(d) : x.close # 0 /\ Within(AfterMidnight(x), t)) <=>
          \E x \in Own(b) : Overnight(x, t)
    <2>1. \A x \in Own(b) :
            /\ Crosses(x) /\ x.close # 0 => (Within(AfterMidnight(x), t) <=> Overnight(x, t))
            /\ Overnight(x, t) => Crosses(x) /\ x.close # 0
      BY <1>3, PartsCover
    <2> QED BY <1>4, <2>1
  <1>10. (\E x \in Own(b) : Overnight(x, t)) <=>
           hours[b] # Unknown /\ Covered(hours[b], t + DayLength)
    BY <1>3, RewriteCovers DEF Own
  <1> QED BY <1>6, <1>7, <1>8, <1>9, <1>10 DEF b

-----------------------------------------------------------------------------
(* The hours of a date when they are judged.                                *)
Judged(date) == DayRanges(date, Special, week)

LEMMA VisitDay ==
    ASSUME WrittenInv
    PROVE  /\ Weekday(0) \in Weekdays /\ Weekday(-1) \in Weekdays
           /\ Weekday(-1) = (Weekday(0) - 1) % WeekLength
           /\ visit.time \in 0..LastTick
  <1>1. visit.day \in 0..(WeekLength - 1) /\ visit.time \in 0..LastTick
    BY HoursAssumption DEF WrittenInv, Weekdays
  <1>2. Weekday(0) = visit.day
    BY <1>1, Lengths DEF Weekday
  <1>3. visit.day + -1 = visit.day - 1
    BY <1>1, Lengths
  <1>4. Weekday(-1) = (Weekday(0) - 1) % WeekLength
    BY <1>2, <1>3 DEF Weekday
  <1>5. Weekday(0) \in Weekdays
    BY <1>1, <1>2 DEF Weekdays
  <1> QED BY <1>1, <1>4, <1>5, TextSets

(* Hours that came back as published, and every notice, cover what the text *)
(* says.                                                                    *)
LEMMA JudgedAsSaid ==
    ASSUME WrittenInv, NEW date \in Dates, week = Regular \/ Noticed(date)
    PROVE  /\ Said(date) = Unknown <=> Judged(date) = Unknown
           /\ Said(date) = {} <=> Judged(date) = {}
           /\ Said(date) # Unknown => (\A t \in 1..LastTick :
                ((\E x \in Judged(date) : Within(x, t)) <=> Covered(Said(date), t))
                /\ ((\E x \in Judged(date) : Overnight(x, t)) <=> Covered(Said(date), t + DayLength)))
  <1>1. Weekday(date) \in Weekdays
    BY VisitDay DEF Dates
  <1>2. CASE Said(date) = Unknown
    <2>1. ~Noticed(date) /\ hours[Weekday(date)] = Unknown
      BY <1>2 DEF Said, Noticed
    <2>2. week = Regular /\ Special[date] = Unknown
      BY <2>1 DEF Special
    <2>3. Judged(date) = Unknown
      BY <1>1, <2>1, <2>2 DEF Judged, DayRanges, Regular
    <2>4. {} # Unknown
      BY TextSets
    <2> QED BY <1>2, <2>3, <2>4
  <1>3. CASE Said(date) # Unknown
    <2>1. Said(date) \in SUBSET TextRanges
      BY <1>1, <1>3, TextSets DEF Said, Noticed
    <2>2. Rewrite(Said(date)) # Unknown
      BY <2>1, TextSets
    <2>3. Judged(date) = Rewrite(Said(date))
      <3>1. CASE Noticed(date)
        BY <2>2, <3>1 DEF Said, Special, Judged, DayRanges
      <3>2. CASE ~Noticed(date)
        BY <1>1, <1>3, <3>2 DEF Said, Special, Judged, DayRanges, Regular
      <3> QED BY <3>1, <3>2
    <2>4. Said(date) = {} <=> Rewrite(Said(date)) = {}
      BY DEF Rewrite
    <2> QED BY <1>3, <2>1, <2>2, <2>3, <2>4, RewriteCovers
  <1> QED BY <1>2, <1>3

(* Hours that came back cut cover the night before too, and run over        *)
(* midnight on no day.                                                      *)
LEMMA JudgedCut ==
    ASSUME WrittenInv, NEW date \in Dates, NEW filled \in BOOLEAN, week = Cut(filled),
           ~Noticed(date)
    PROVE  /\ Said(date) = hours[Weekday(date)]
           /\ Said(date) # Unknown => Judged(date) # Unknown
           /\ Judged(date) = {} => Said(date) \in {Unknown, {}}
           /\ Judged(date) # Unknown =>
                (\A t \in 1..LastTick : \A x \in Judged(date) : ~Overnight(x, t))
           /\ date = 0 /\ Judged(date) # Unknown =>
                (\A t \in 1..LastTick : ((\E x \in Judged(date) : Within(x, t)) <=>
                       (Said(date) # Unknown /\ Covered(Said(date), t)) \/ NightBefore(t)))
  <1>1. Weekday(date) \in Weekdays
    BY VisitDay DEF Dates
  <1>2. Said(date) = hours[Weekday(date)] /\ Judged(date) = Cut(filled)[Weekday(date)]
    BY DEF Said, Special, Judged, DayRanges
  <1>3. CASE ~Known(Weekday(date), filled)
    <2>1. Judged(date) = Unknown /\ Said(date) = Unknown
      BY <1>1, <1>2, <1>3 DEF Cut, Known
    <2>2. {} # Unknown
      BY TextSets
    <2> QED BY <1>2, <2>1, <2>2
  <1>4. CASE Known(Weekday(date), filled)
    <2>1. Judged(date) = CutDay(Weekday(date)) /\ Judged(date) # Unknown
      BY <1>1, <1>2, <1>4, StoredRanges DEF Cut
    <2>2. CutDay(Weekday(date)) = {} => hours[Weekday(date)] \in {Unknown, {}}
      BY DEF CutDay, Own, Rewrite
    <2>3. ASSUME NEW t \in 1..LastTick
          PROVE  /\ \A x \in Judged(date) : ~Overnight(x, t)
                 /\ date = 0 => ((\E x \in Judged(date) : Within(x, t)) <=>
                        (Said(date) # Unknown /\ Covered(Said(date), t)) \/ NightBefore(t))
      <3>1. \A x \in Judged(date) : ~Overnight(x, t)
        BY <1>1, <2>1, CutCovers
      <3>2. ASSUME date = 0
            PROVE  (\E x \in Judged(date) : Within(x, t)) <=>
                      (Said(date) # Unknown /\ Covered(Said(date), t)) \/ NightBefore(t)
        <4>1. (Weekday(date) - 1) % WeekLength = Weekday(-1)
          BY <3>2, VisitDay
        <4>2. (\E x \in CutDay(Weekday(date)) : Within(x, t)) <=>
                \/ /\ hours[Weekday(date)] # Unknown
                   /\ Covered(hours[Weekday(date)], t)
                \/ /\ hours[(Weekday(date) - 1) % WeekLength] # Unknown
                   /\ Covered(hours[(Weekday(date) - 1) % WeekLength], t + DayLength)
          BY <1>1, CutCovers
        <4> QED BY <1>2, <2>1, <4>1, <4>2 DEF NightBefore
      <3> QED BY <3>1, <3>2
    <2> QED BY <1>2, <2>1, <2>2, <2>3
  <1> QED BY <1>3, <1>4

(* A weekday of unknown hours is judged only when the backend gave it the   *)
(* rest of a night.                                                         *)
LEMMA FilledByNight ==
    ASSUME WrittenInv, NEW filled \in BOOLEAN, week = Cut(filled), exceptions = Special,
           Said(0) = Unknown, Judged(0) # Unknown
    PROVE  RestOnUnknownDay
  <1>1. /\ Weekday(0) \in Weekdays /\ Weekday(-1) \in Weekdays
        /\ Weekday(-1) = (Weekday(0) - 1) % WeekLength
    BY VisitDay
  <1>2. ~Noticed(0) /\ hours[Weekday(0)] = Unknown
    BY DEF Said, Noticed
  <1>3. Judged(0) = week[Weekday(0)] /\ week[Weekday(0)] # Unknown
    BY <1>2 DEF Judged, DayRanges, Special, Dates
  <1>4. PICK x \in Own(Weekday(-1)) : Crosses(x)
    BY <1>1, <1>2, <1>3 DEF Cut, Known, Nights
  <1>5. PICK r \in hours[Weekday(-1)] : x = OnClock(r) /\ hours[Weekday(-1)] # Unknown
    BY <1>4 DEF Own, Rewrite
  <1>6. Hhmm(r.close) < r.open
    BY <1>4, <1>5 DEF OnClock, Crosses
  <1> QED BY <1>3, <1>5, <1>6 DEF RestOnUnknownDay

-----------------------------------------------------------------------------
(* The verdict, in terms of the text.                                       *)
LEMMA OpenCovers ==
    ASSUME NEW t
    PROVE  /\ OpenAt(t) <=> ((Said(0) # Unknown /\ Covered(Said(0), t))
                            \/ (Said(-1) # Unknown /\ Covered(Said(-1), t + DayLength)))
           /\ NightUnknown(t) <=> (week # EachDay(Rewritten, hours)
                                  /\ (Noticed(0) \/ Noticed(-1)) /\ NightBefore(t))
  <1>1. OpenFrom(0, t) <=> Said(0) # Unknown /\ Covered(Said(0), t)
    BY Zenon DEF OpenFrom, Covered
  <1>2. OpenFrom(-1, t + DayLength) <=> Said(-1) # Unknown /\ Covered(Said(-1), t + DayLength)
    BY Zenon DEF OpenFrom, Covered
  <1>3. (\E date \in Dates : Noticed(date)) <=> Noticed(0) \/ Noticed(-1)
    BY DEF Dates
  <1>4. NightUnknown(t) <=> (week # EachDay(Rewritten, hours)
                            /\ (Noticed(0) \/ Noticed(-1)) /\ NightBefore(t))
    BY <1>3, Zenon DEF NightUnknown, NightBefore, Covered
  <1> QED BY <1>1, <1>2, <1>4 DEF OpenAt

LEMMA Verdict ==
    ASSUME IndInv, stage = "judged", Judged(0) # Unknown, visit.time # 0
    PROVE  /\ closed /\ OpenAt(visit.time) => NightUnknown(visit.time)
           /\ ~closed => OpenAt(visit.time) \/ NightUnknown(visit.time)
  <1> DEFINE t == visit.time
             Now  == \E x \in Judged(0) : Within(x, t)
             Late == Judged(-1) # Unknown /\ \E x \in Judged(-1) : Overnight(x, t)
  <1>1. WrittenInv /\ HoursInv
    BY DEF IndInv
  <1>2. t \in 1..LastTick /\ 0 \in Dates /\ -1 \in Dates
    BY <1>1, VisitDay, Lengths DEF Dates
  <1>3. /\ week \in {Regular, Cut(TRUE), Cut(FALSE)} /\ exceptions = Special
        /\ closed = IsClosed(t)
    BY <1>1 DEF HoursInv
  <1>5. closed <=> ~Now /\ ~Late
    BY <1>3 DEF IsClosed, Judged
  <1>6. EachDay(Rewritten, hours) = Regular
    BY <1>1 DEF EachDay, Rewritten, Regular, Rewrite, OnClock, WrittenInv
  <1>7. CASE week = Regular
    <2>1. Said(0) # Unknown /\ (Now <=> Covered(Said(0), t))
      BY <1>1, <1>2, <1>7, JudgedAsSaid
    <2>2. Late <=> Said(-1) # Unknown /\ Covered(Said(-1), t + DayLength)
      BY <1>1, <1>2, <1>7, JudgedAsSaid
    <2> QED BY <1>5, <2>1, <2>2, OpenCovers
  <1>8. ASSUME NEW filled \in BOOLEAN, week = Cut(filled), week # Regular
        PROVE  /\ closed /\ OpenAt(t) => NightUnknown(t)
               /\ ~closed => OpenAt(t) \/ NightUnknown(t)
    <2>1. Noticed(0) => Said(0) # Unknown /\ (Now <=> Covered(Said(0), t))
      BY <1>1, <1>2, JudgedAsSaid
    <2>2. ~Noticed(0) =>
            (Now <=> (Said(0) # Unknown /\ Covered(Said(0), t)) \/ NightBefore(t))
      BY <1>1, <1>2, <1>8, JudgedCut
    <2>3. Noticed(-1) => (Late <=> Said(-1) # Unknown /\ Covered(Said(-1), t + DayLength))
      BY <1>1, <1>2, JudgedAsSaid
    <2>4. ~Noticed(-1) => ~Late
      BY <1>1, <1>2, <1>8, JudgedCut
    <2>5. ~Noticed(-1) => (Said(-1) # Unknown /\ Covered(Said(-1), t + DayLength) <=> NightBefore(t))
      BY DEF Said, NightBefore
    <2>6. NightUnknown(t) <=> (Noticed(0) \/ Noticed(-1)) /\ NightBefore(t)
      BY <1>6, <1>8, OpenCovers
    <2> HIDE DEF Now, Late
    <2> QED BY <1>5, <2>1, <2>2, <2>3, <2>4, <2>5, <2>6, OpenCovers
  <1> QED BY <1>3, <1>7, <1>8

(* A day the text speaks of is judged by hours that are known.              *)
LEMMA SaidIsJudged ==
    ASSUME IndInv, stage = "judged", Said(0) # Unknown
    PROVE  Judged(0) # Unknown
  <1>1. WrittenInv /\ week \in {Regular, Cut(TRUE), Cut(FALSE)} /\ 0 \in Dates
    BY DEF IndInv, HoursInv, Dates
  <1> QED BY <1>1, JudgedAsSaid, JudgedCut

(* A place is left out only when the text says that it is closed then,      *)
(* whatever the backend made of its hours; only a day the text is silent of *)
(* may be judged by the rest of a night that it was given (_is_closed).     *)
THEOREM OpenPlacesStay == Spec => []LeftOutMeansClosed
  <1>1. ASSUME IndInv, stage = "judged", closed
        PROVE  /\ Judged(0) # Unknown
               /\ Said(0) # Unknown \/ RestOnUnknownDay
               /\ visit.time = 0 => Said(0) = {} \/ RestOnUnknownDay
    <2>1. WrittenInv /\ HoursInv /\ 0 \in Dates
      BY <1>1 DEF IndInv, Dates
    <2>2. /\ week \in {Regular, Cut(TRUE), Cut(FALSE)} /\ exceptions = Special
          /\ IsClosed(visit.time)
      BY <1>1, <2>1 DEF HoursInv
    <2>3. Judged(0) # Unknown /\ (visit.time = 0 => Judged(0) = {})
      BY <2>2 DEF IsClosed, Judged
    <2>4. CASE week = Regular
      BY <2>1, <2>3, <2>4, JudgedAsSaid
    <2>5. CASE week \in {Cut(TRUE), Cut(FALSE)}
      <3>1. Said(0) # Unknown \/ RestOnUnknownDay
        BY <2>1, <2>2, <2>3, <2>5, FilledByNight
      <3>2. Judged(0) = {} => Said(0) \in {Unknown, {}}
        BY <2>1, <2>5, JudgedAsSaid, JudgedCut
      <3> QED BY <2>3, <3>1, <3>2
    <2> QED BY <2>2, <2>4, <2>5
  <1>2. IndInv => LeftOutMeansClosed
    BY <1>1, Verdict DEF LeftOutMeansClosed
  <1> QED BY <1>2, Invariance, PTL

(* A place that is closed at the time of the visit is left out, also after  *)
(* its hours were cut at midnight and mended (_merge_split_midnight).       *)
THEOREM ClosedPlacesGo == Spec => []ClosedIsLeftOut
  <1>1. IndInv => ClosedIsLeftOut
    BY Verdict, SaidIsJudged DEF ClosedIsLeftOut
  <1> QED BY <1>1, Invariance, PTL
=============================================================================
