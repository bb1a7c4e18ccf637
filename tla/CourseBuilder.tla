---------------------------- MODULE CourseBuilder ----------------------------
(***************************************************************************)
(* The computations of services/course_builder.py: the order of visits,    *)
(* estimated travel times, the cut to the time a user has, and the courses *)
(* that are made without a model.                                          *)
(*                                                                         *)
(* Places lie on a line, in metres: the computations use coordinates only  *)
(* through distances, and great-circle distances along one line add up.    *)
(* A pick is a place and the minutes of the stay; a course is a sequence.  *)
(***************************************************************************)
EXTENDS Integers, Sequences, SequencesExt

CONSTANTS
    Places,         \* the candidates
    Coord,          \* place -> metre on the line
    MaxCourses,     \* MAX_COURSES
    MaxPlaces,      \* MAX_PLACES_PER_COURSE
    None            \* null: no origin, no limit, no time, no course

PickType  == [place : Places, stay : Nat]
Stops     == [place : Places, travel : Nat, arrival : Nat, stay : Nat]
Courses   == [places : Seq(Stops), total : Nat]

ASSUME BuilderAssumption ==
    /\ Coord \in [Places -> Int]
    /\ MaxCourses \in Nat \ {0} /\ MaxPlaces \in Nat \ {0}
    /\ None \notin Int \cup (Int \X Int) \cup Courses

WalkingMax   == 1000        \* metres that are walked, without the map API
WalkPerMin   == 67
DrivePerMin  == 333
DefaultStart == 600         \* 10:00
DefaultStay  == 60
Day          == 24 * 60

-----------------------------------------------------------------------------
Distance(a, b) == IF a < b THEN b - a ELSE a - b

NeedsMapApi(a, b) == Distance(a, b) > WalkingMax

(* The estimate of a leg: a detour of 1.3, rounded, at least a minute.      *)
EstimateMinutes(a, b) ==
    LET pace    == IF NeedsMapApi(a, b) THEN DrivePerMin ELSE WalkPerMin
        rounded == (26 * Distance(a, b) + 10 * pace) \div (20 * pace)
    IN  IF a = b THEN 0 ELSE Max({1, rounded})

(* The first of the nearest: min() keeps the order of its argument.         *)
Nearest(here, places) ==
    CHOOSE i \in DOMAIN places :
        /\ \A j \in DOMAIN places :
              Distance(here, Coord[places[i]]) =< Distance(here, Coord[places[j]])
        /\ \A j \in 1..(i - 1) :
              Distance(here, Coord[places[i]]) < Distance(here, Coord[places[j]])

PlacesOf(picks) == [i \in DOMAIN picks |-> picks[i].place]

(* From here to the nearest pick that is left, and on from there.           *)
Tour(picks, here) ==
    LET after[k \in 0..Len(picks)] ==
          IF k = 0 THEN [visited |-> <<>>, left |-> picks, at |-> here]
          ELSE LET s == after[k - 1]
                   i == Nearest(s.at, PlacesOf(s.left))
               IN  [visited |-> Append(s.visited, s.left[i]),
                    left    |-> RemoveAt(s.left, i),
                    at      |-> Coord[s.left[i].place]]
    IN  after[Len(picks)].visited

(* Without an origin the place the model put first stays first.             *)
OrderByDistance(picks, origin) ==
    IF Len(picks) =< 1 THEN picks
    ELSE IF origin = None
         THEN <<Head(picks)>> \o Tour(Tail(picks), Coord[Head(picks).place])
         ELSE Tour(picks, origin)

(* The leg that leads to each pick; none to the first without an origin.    *)
Legs(picks, origin) ==
    [i \in DOMAIN picks |->
        IF i > 1 THEN <<Coord[picks[i - 1].place], Coord[picks[i].place]>>
        ELSE IF origin = None THEN None ELSE <<origin, Coord[picks[1].place]>>]

-----------------------------------------------------------------------------
StartMinutes(visit) == IF visit \in {None, 0} THEN DefaultStart ELSE visit

(* The sum of the first n.                                                  *)
Total(n, minutes) ==
    LET sum[i \in 0..n] == IF i = 0 THEN 0 ELSE sum[i - 1] + minutes[i]
    IN  sum[n]

StaysOf(picks) == [i \in DOMAIN picks |-> picks[i].stay]

(* Mutant of Duration: the legs of places that are cut are counted too.     *)
DurationAllLegs(n, picks, travel) ==
    Total(Len(travel), travel) + Total(n, StaysOf(picks))

(* What the first n picks take.                                             *)
Duration(n, picks, travel) ==
    Total(n, travel) + Total(n, StaysOf(picks))

(* Picks are taken from the end until the rest fits; 0 when nothing does.   *)
Fitting(picks, travel, available) ==
    Max({0} \cup {n \in DOMAIN picks :
                    available = None \/ Duration(n, picks, travel) =< available})

BuildCourse(picks, travel, visit, available) ==
    LET n         == Fitting(picks, travel, available)
        arrive(i) == StartMinutes(visit) + Duration(i, picks, travel) - picks[i].stay
    IN  IF n = 0 THEN None
        ELSE [places |-> [i \in 1..n |-> [place   |-> picks[i].place,
                                          travel  |-> travel[i],
                                          arrival |-> arrive(i) % Day,
                                          stay    |-> picks[i].stay]],
              total  |-> Duration(n, picks, travel)]

-----------------------------------------------------------------------------
(* Mutant of Cost: the place's own stay is forgotten.                       *)
CostOfLeg(from, to) == EstimateMinutes(Coord[from], Coord[to])

(* What a further place costs a course without a model.                     *)
Cost(from, to) == EstimateMinutes(Coord[from], Coord[to]) + DefaultStay

(* One group: the first of the pool, then the nearest while time allows.    *)
Grow(pool, available) ==
    LET grown[k \in 1..MaxPlaces] ==
          IF k = 1 THEN [group |-> <<Head(pool)>>, pool |-> Tail(pool), used |-> DefaultStay]
          ELSE LET s    == grown[k - 1]
                   last == s.group[Len(s.group)]
                   i    == Nearest(Coord[last], s.pool)
               IN  IF \/ s.pool = <<>>
                      \/ available # None /\ s.used + Cost(last, s.pool[i]) > available
                   THEN s
                   ELSE [group |-> Append(s.group, s.pool[i]),
                         pool  |-> RemoveAt(s.pool, i),
                         used  |-> s.used + Cost(last, s.pool[i])]
    IN  grown[MaxPlaces]

RuleBasedGroups(ranked, available) ==
    LET made[k \in 0..MaxCourses] ==
          IF k = 0 THEN [groups |-> <<>>, pool |-> ranked]
          ELSE LET s == made[k - 1]
                   g == Grow(s.pool, available)
               IN  IF s.pool = <<>> THEN s
                   ELSE [groups |-> Append(s.groups, g.group), pool |-> g.pool]
    IN  made[MaxCourses].groups
=============================================================================
