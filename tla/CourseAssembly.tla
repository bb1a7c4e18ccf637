---------------------------- MODULE CourseAssembly ----------------------------
(***************************************************************************)
(* The end of a recommendation (services/recommend_courses.py): the        *)
(* answer of the model is read or replaced, places are put in order, the   *)
(* far legs are asked of the map API in parallel tasks within a budget,    *)
(* and the courses are cut to the time of the user and told apart.         *)
(***************************************************************************)
EXTENDS CourseBuilder

CONSTANTS
    Requests,       \* what may be asked: ranked places, origin, available, visit
    Answers,        \* what the model may write; None when there is no answer
    DriveMinutes    \* what the map API may answer for a leg

Failures == {"map_api_error", "internal_server_error"}

ASSUME AssemblyAssumption ==
    /\ \A r \in Requests :
          /\ r.ranked \in Seq(Places) /\ IsInjective(r.ranked)
          /\ r.origin \in Int \cup {None} /\ r.available \in Nat \cup {None}
          /\ r.visit \in Nat \cup {None}
    /\ \A a \in Answers \ {None} : \A i \in 1..Len(a) : \A j \in 1..Len(a[i]) : a[i][j].stay \in Int
    /\ \A a \in Answers \ {None} : Len(a) \in Nat /\ \A i \in 1..Len(a) : Len(a[i]) \in Nat
    /\ DriveMinutes \subseteq Nat \ {0}

VARIABLES
    req,        \* the request, with the places ranked for it
    drafted,    \* who made the drafts: nobody yet, the model, or the rules
    plans,      \* the drafts in the order of visits
    leg,        \* the task of each far leg: how it ended, if it has, and the minutes
    phase,      \* compose, travel, answered, interrupted
    outcome,    \* the error code, or "courses"
    courses

assemblyVars == <<req, drafted, plans, leg, phase, outcome, courses>>

AssemblyInit ==
    /\ req \in Requests
    /\ drafted = "nobody" /\ plans = <<>>
    /\ leg = <<>>
    /\ phase = "compose" /\ outcome = "none"
    /\ courses = <<>>

Ended(is) == [is |-> is, minutes |-> 0]
Route(m)  == [is |-> "route", minutes |-> m]

-----------------------------------------------------------------------------
(* A course of the model: known places, the first mention of each, no more  *)
(* than MaxPlaces, and a stay that makes sense.                             *)
Pick(mention) ==
    [place |-> mention.place, stay |-> IF mention.stay > 0 THEN mention.stay ELSE DefaultStay]

Picks(course) ==
    LET taken[i \in 0..Len(course)] ==
          IF i = 0 THEN <<>>
          ELSE IF /\ course[i].place \in ToSet(req.ranked)
                  /\ course[i].place \notin ToSet(PlacesOf(taken[i - 1]))
               THEN Append(taken[i - 1], Pick(course[i]))
               ELSE taken[i - 1]
        all == taken[Len(course)]
    IN  SubSeq(all, 1, Min({Len(all), MaxPlaces}))

(* The courses that have a known place.                                     *)
FromModel(answer) ==
    LET drafts[i \in 0..Len(answer)] ==
          IF i = 0 THEN <<>>
          ELSE IF Picks(answer[i]) # <<>> THEN Append(drafts[i - 1], Picks(answer[i]))
               ELSE drafts[i - 1]
    IN  IF answer = None THEN <<>> ELSE drafts[Len(answer)]

FromRules ==
    LET groups == RuleBasedGroups(req.ranked, req.available)
    IN  [i \in DOMAIN groups |->
           [k \in DOMAIN groups[i] |-> [place |-> groups[i][k], stay |-> DefaultStay]]]

LegsOf(p) == {l \in ToSet(Legs(p, req.origin)) : l # None}
AllLegs   == UNION {LegsOf(plans[c]) : c \in DOMAIN plans}
FarLegs(drafts) ==
    {l \in UNION {LegsOf(drafts[c]) : c \in DOMAIN drafts} : NeedsMapApi(l[1], l[2])}

(* _compose and the order of visits; then the tasks of the far legs start.  *)
Compose ==
    /\ phase = "compose" /\ phase' = "travel"
    /\ \E answer \in Answers :
         LET drafts  == IF FromModel(answer) # <<>> THEN FromModel(answer) ELSE FromRules
             ordered == [c \in DOMAIN drafts |-> OrderByDistance(drafts[c], req.origin)]
         IN  /\ drafted' = IF FromModel(answer) # <<>> THEN "model" ELSE "rules"
             /\ plans' = ordered
             /\ \/ leg' = [l \in FarLegs(ordered) |-> Ended("running")]
                \/ leg' = <<>>     \* no time left for the map API
    /\ UNCHANGED <<req, outcome, courses>>

(* driving_minutes: a time, no route, the API failed or wrote nonsense.     *)
LegEnds(l) ==
    /\ leg[l].is = "running"
    /\ \E answer \in {Route(m) : m \in DriveMinutes}
                      \cup {Ended(is) : is \in {"no_route"} \cup Failures} :
         leg' = [leg EXCEPT ![l] = answer]
    /\ UNCHANGED <<req, drafted, plans, phase, outcome, courses>>

-----------------------------------------------------------------------------
Routed(l) == l \in DOMAIN leg /\ leg[l].is = "route"

(* Mutant of Minutes: the answer goes to the way back.                      *)
MinutesBack(l) ==
    LET back == <<l[2], l[1]>> IN
    IF Routed(back) THEN leg[back].minutes ELSE EstimateMinutes(l[1], l[2])

(* The answer of the map API, or the estimate.                              *)
Minutes(l) ==
    IF Routed(l) THEN leg[l].minutes ELSE EstimateMinutes(l[1], l[2])

TravelTimes(p) ==
    LET legs == Legs(p, req.origin)
    IN  [i \in DOMAIN legs |-> IF legs[i] = None THEN 0 ELSE Minutes(legs[i])]

Built(c) == BuildCourse(plans[c], TravelTimes(plans[c]), req.visit, req.available)

PlaceSet(course) == {course.places[i].place : i \in DOMAIN course.places}

(* Mutant of NewChoice: the drafts are compared as they were before the cut. *)
NewChoiceUncut(kept, c) ==
    /\ Built(c) # None
    /\ \A k \in DOMAIN kept : ~(ToSet(PlacesOf(plans[c])) \subseteq ToSet(PlacesOf(plans[kept[k]])))

(* A course that fits and is not within one that was chosen before.         *)
NewChoice(kept, c) ==
    /\ Built(c) # None
    /\ \A k \in DOMAIN kept : ~(PlaceSet(Built(c)) \subseteq PlaceSet(Built(kept[k])))

Chosen ==
    LET kept[c \in 0..Len(plans)] ==
          IF c = 0 THEN <<>>
          ELSE IF NewChoice(kept[c - 1], c) THEN Append(kept[c - 1], c) ELSE kept[c - 1]
    IN  kept[Len(plans)]

(* The courses that are answered, with the draft each was made of.          *)
Assembled ==
    [k \in 1..Min({Len(Chosen), MaxCourses}) |-> [plan |-> Chosen[k], course |-> Built(Chosen[k])]]

Running == {l \in DOMAIN leg : leg[l].is = "running"}
Failed  == {l \in DOMAIN leg : leg[l].is \in Failures}

(* The tasks that are late are told to stop; each ends at its next turn.    *)
StopLegs == leg' = [l \in DOMAIN leg |-> IF l \in Running THEN Ended("stopping") ELSE leg[l]]

(* _travel_times resumes, when all legs have ended or the budget is over,   *)
(* and the courses are assembled; one failed leg fails the request.         *)
Assemble ==
    /\ phase = "travel" /\ phase' = "answered"
    /\ StopLegs
    /\ IF Failed = {}
       THEN outcome' = "courses" /\ courses' = Assembled
       ELSE outcome' \in {leg[l].is : l \in Failed} /\ courses' = <<>>
    /\ UNCHANGED <<req, drafted, plans>>

LegCancelled(l) ==
    /\ leg[l].is = "stopping"
    /\ leg' = [leg EXCEPT ![l] = Ended("cancelled")]
    /\ UNCHANGED <<req, drafted, plans, phase, outcome, courses>>

(* The cancel endpoint or the outer timeout while the legs are waited for:  *)
(* asyncio.wait leaves them alone.                                          *)
Interrupt ==
    /\ phase = "travel" /\ Running # {}
    /\ phase' = "interrupted"
    /\ UNCHANGED <<req, drafted, plans, leg, outcome, courses>>

AssemblyNext ==
    \/ Compose \/ Assemble \/ Interrupt
    \/ \E l \in DOMAIN leg : LegEnds(l) \/ LegCancelled(l)

AssemblySpec == AssemblyInit /\ [][AssemblyNext]_assemblyVars

-----------------------------------------------------------------------------
(* The variables keep their types; only legs that are driven have a task,   *)
(* and a course is made of one of the plans.                                *)
AssemblyTypeOK ==
    /\ req \in Requests /\ drafted \in {"nobody", "model", "rules"}
    /\ DOMAIN leg \subseteq {l \in AllLegs : NeedsMapApi(l[1], l[2])}
    /\ \A l \in DOMAIN leg :
          leg[l] \in {Route(m) : m \in DriveMinutes}
                     \cup {Ended(is) : is \in Failures
                                \cup {"running", "no_route", "stopping", "cancelled"}}
    /\ phase \in {"compose", "travel", "answered", "interrupted"}
    /\ outcome \in {"none", "courses"} \cup Failures
    /\ \A k \in DOMAIN courses : courses[k].plan \in DOMAIN plans

(* What a reader of the answer can add up: a course is the front of its     *)
(* plan, each arrival is the one before plus stay and travel, on the clock  *)
(* of a day, the total is what the places take and within the time of the   *)
(* user, and no place was taken off that would have fit (build_course).     *)
CoursesFit ==
    \A k \in DOMAIN courses :
        LET c     == courses[k].course
            p     == plans[courses[k].plan]
            n     == Len(c.places)
            takes == [i \in 1..n |-> c.places[i].travel + c.places[i].stay]
        IN  /\ n \in 1..Len(p)
            /\ \A i \in 1..n : c.places[i].place = p[i].place /\ c.places[i].stay = p[i].stay
            /\ c.total = Total(n, takes)
            /\ c.places[1].arrival = (StartMinutes(req.visit) + c.places[1].travel) % Day
            /\ \A i \in 2..n :
                  c.places[i].arrival =
                    (c.places[i - 1].arrival + c.places[i - 1].stay + c.places[i].travel) % Day
            /\ req.available # None => c.total =< req.available
            /\ n < Len(p) => /\ req.available # None
                             /\ c.total + Minutes(Legs(p, req.origin)[n + 1]) + p[n + 1].stay
                                   > req.available

(* No course is within one that stands before it, also when they have       *)
(* become alike by the cut; and when fewer than MaxCourses are answered,    *)
(* each other plan does not fit or adds nothing to them (_recommend, the    *)
(* order of cut, comparison and count).                                     *)
ChoicesDiffer ==
    /\ \A j, k \in DOMAIN courses :
          j < k => ~(PlaceSet(courses[k].course) \subseteq PlaceSet(courses[j].course))
    /\ Len(courses) =< MaxCourses
    /\ outcome = "courses" /\ Len(courses) < MaxCourses =>
         \A c \in DOMAIN plans :
            \/ Built(c) = None
            \/ \E k \in DOMAIN courses : PlaceSet(Built(c)) \subseteq PlaceSet(courses[k].course)

(* The courses of the rules need no cut: without an origin, and unless the  *)
(* map API says that a leg takes longer than estimated, each group comes    *)
(* out whole and in its own order, though rule_based_groups, the order of   *)
(* visits and build_course each count the time for themselves.              *)
FallbackWhole ==
    /\ outcome = "courses" /\ drafted = "rules" /\ req.origin = None
    /\ req.available # None => DefaultStay =< req.available
    /\ \A l \in AllLegs : Minutes(l) =< EstimateMinutes(l[1], l[2])
    => /\ plans = FromRules
       /\ Len(courses) = Len(plans)
       /\ \A k \in DOMAIN courses : PlacesOf(courses[k].course.places) = PlacesOf(plans[k])

(* What the map API has answered is in the course, on the leg that it was   *)
(* asked for; other legs are estimated.  A leg that has failed is never     *)
(* covered by an estimate: the request fails with an error of a leg, as     *)
(* the docstring of _travel_times says.                                     *)
MapAnswersCount ==
    /\ phase = "answered" => (outcome = "courses" <=> Failed = {})
    /\ outcome \in Failures => \E l \in Failed : leg[l].is = outcome
    /\ \A k \in DOMAIN courses :
         LET c == courses[k].course IN
         \A i \in DOMAIN c.places :
            LET here == IF i = 1 THEN req.origin ELSE Coord[c.places[i - 1].place]
                l    == <<here, Coord[c.places[i].place]>>
            IN  c.places[i].travel = IF here = None THEN 0
                                     ELSE IF Routed(l) THEN leg[l].minutes
                                     ELSE EstimateMinutes(l[1], l[2])
=============================================================================
