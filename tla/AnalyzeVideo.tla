---------------------------- MODULE AnalyzeVideo ----------------------------
(***************************************************************************)
(* POST /v1/analyze-video (services/analyze_video.py): the tasks that one  *)
(* event loop interleaves to serve several batch requests at once.         *)
(*                                                                         *)
(* A request is cut into groups of videos.  A group is one Gemini call     *)
(* (observe); every video it read as a place is one Gemma call with one    *)
(* retry (extract); every place of a video is a verification task and a    *)
(* category task that run side by side.  Three semaphores are shared by    *)
(* all requests of the process.  Every external call ends: with a value,   *)
(* or with an exception after its timeout; which one is a nondeterministic *)
(* choice.                                                                 *)
(***************************************************************************)
EXTENDS Naturals, FiniteSets

CONSTANTS
    Requests,      \* the batch requests in flight
    Groups,        \* groups of at most ANALYZE_VIDEO_BATCH_SIZE urls
    Videos,        \* the urls of all requests
    RequestOf,     \* group -> its request
    GroupOf,       \* video -> its group
    MaxPlaces,     \* bound: places Gemma extracts from one video
    CallCodes,     \* error codes a failing external call is mapped to
    BatchSlots,    \* ANALYZE_VIDEO_PARALLEL
    GpuSlots,      \* ANALYZE_VIDEO_GPU_PARALLEL
    VerifySlots,   \* VERIFY_PLACE_PARALLEL
    GpuAttempts,   \* _GPU_ATTEMPTS
    MayCrash       \* whether code may raise what it does not expect

ASSUME AnalyzeAssumption ==
    /\ IsFiniteSet(Groups) /\ IsFiniteSet(Videos)
    /\ RequestOf \in [Groups -> Requests]
    /\ GroupOf \in [Videos -> Groups]
    /\ MaxPlaces \in Nat \ {0}
    /\ BatchSlots \in Nat \ {0}
    /\ GpuSlots \in Nat \ {0}
    /\ VerifySlots \in Nat \ {0}
    /\ GpuAttempts \in Nat \ {0}
    /\ MayCrash \in BOOLEAN
    /\ CallCodes # {}

VARIABLES
    gpuOn,        \* get_gpu_llm() is not None, for the life of the process
    batchFree,    \* _BATCH_SLOTS
    gpuFree,      \* _GPU_SLOTS
    verifyFree,   \* _VERIFY_SLOTS
    group,        \* the task of _process_group
    video,        \* the task of _finish_video
    observed,     \* what _observe_group returned for the video
    code,         \* the error code the video carries so far
    attempts,     \* Gemma calls made for the video
    place,        \* the task of _verify, one per extracted place
    placeCode,    \* the error code of a failed place
    vtask,        \* verify_task
    ctask,        \* category_task
    result,       \* what _finish_video returned
    response      \* what analyze_videos returned, per video of a sent request

slots == <<batchFree, gpuFree, verifyFree>>
placeVars == <<place, placeCode, vtask, ctask>>
videoVars == <<video, observed, code, attempts, result>>
vars == <<gpuOn, slots, group, videoVars, placeVars, response>>

-----------------------------------------------------------------------------
Codes == CallCodes \cup {"llm_invalid_response", "internal_server_error"}
NoCode == "none"

Places == Videos \X (1..MaxPlaces)
VideosOf(g) == {v \in Videos : GroupOf[v] = g}
PlacesOf(v) == {v} \X (1..MaxPlaces)

(* The items of the response that stand for one video: one failed item, one *)
(* not_found item, or one success item for each confirmed place.            *)
Pending    == [status |-> "pending", code |-> NoCode, places |-> {}]
NotFound   == [status |-> "not_found", code |-> NoCode, places |-> {}]
Failed(c)  == [status |-> "failed", code |-> c, places |-> {}]
Success(s) == [status |-> "success", code |-> NoCode, places |-> s]

Results == {Pending, NotFound} \cup {Failed(c) : c \in Codes}
             \cup {Success(s) : s \in (SUBSET (1..MaxPlaces)) \ {{}}}

(* Two tasks still run for a place until each has a value, an exception or  *)
(* a delivered cancellation.  "stopping" is a task that was told to cancel  *)
(* and has not run since: it still holds its slot.                          *)
VerifyHolds  == {"running", "stopping"}
VerifyOk     == {"absent", "hours", "nohours"}
VerifyStates == {"none", "queued", "running", "dropped", "stopping",
                 "fail", "cancelled"} \cup VerifyOk
CategoryOk     == {"open", "other"}
CategoryStates == {"none", "running", "stopping", "fail", "cancelled"}
                    \cup CategoryOk

Init ==
    /\ gpuOn \in BOOLEAN
    /\ batchFree = BatchSlots /\ gpuFree = GpuSlots /\ verifyFree = VerifySlots
    /\ group = [g \in Groups |-> "waiting"]
    /\ video = [v \in Videos |-> "none"]
    /\ observed = [v \in Videos |-> "none"]
    /\ code = [v \in Videos |-> NoCode]
    /\ attempts = [v \in Videos |-> 0]
    /\ place = [p \in Places |-> "none"]
    /\ placeCode = [p \in Places |-> NoCode]
    /\ vtask = [p \in Places |-> "none"]
    /\ ctask = [p \in Places |-> "none"]
    /\ result = [v \in Videos |-> Pending]
    /\ response = [v \in Videos |-> Pending]

-----------------------------------------------------------------------------
(* _process_group: one Gemini call per group, inside a batch slot.          *)

StartObserve(g) ==
    /\ group[g] = "waiting" /\ batchFree > 0
    /\ batchFree' = batchFree - 1
    /\ group' = [group EXCEPT ![g] = "observing"]
    /\ UNCHANGED <<gpuOn, gpuFree, verifyFree, videoVars, placeVars, response>>

(* _observe_group returned: leave the slot and gather one _finish_video per *)
(* video.  o[v] is what it returned for v, c[v] the code of a failed one.   *)
Observe(g, o, c) ==
    /\ group[g] = "observing"
    /\ batchFree' = batchFree + 1
    /\ group' = [group EXCEPT ![g] = "finishing"]
    /\ video' = [v \in Videos |-> IF GroupOf[v] = g THEN "ready" ELSE video[v]]
    /\ observed' = [v \in Videos |-> IF GroupOf[v] = g THEN o[v] ELSE observed[v]]
    /\ code' = [v \in Videos |-> IF GroupOf[v] = g THEN c[v] ELSE code[v]]
    /\ UNCHANGED <<gpuOn, gpuFree, verifyFree, attempts, result, placeVars, response>>

(* The call failed, or its answer does not parse: every video failed.       *)
ObserveFailed(g) ==
    \E k \in CallCodes \cup {"llm_invalid_response"} :
        Observe(g, [v \in Videos |-> "failed"], [v \in Videos |-> k])

(* The call answered: a video the model left out is failed on its own.      *)
ObserveRead(g) ==
    \E o \in [VideosOf(g) -> {"place", "other", "failed"}] :
        Observe(g, o, [v \in VideosOf(g) |-> IF o[v] = "failed"
                                             THEN "llm_invalid_response" ELSE NoCode])

(* Anything the try block of _observe_group does not cover.                 *)
ObserveCrash(g) ==
    /\ MayCrash
    /\ group[g] = "observing"
    /\ batchFree' = batchFree + 1
    /\ group' = [group EXCEPT ![g] = "crashed"]
    /\ UNCHANGED <<gpuOn, gpuFree, verifyFree, videoVars, placeVars, response>>

GroupDone(g) ==
    /\ group[g] = "finishing"
    /\ \A v \in VideosOf(g) : video[v] = "done"
    /\ group' = [group EXCEPT ![g] = "done"]
    /\ UNCHANGED <<gpuOn, slots, videoVars, placeVars, response>>

(* gather without return_exceptions: the first exception of a video ends    *)
(* the group at once, and the other videos run on with nobody waiting.      *)
GroupCrashed(g) ==
    /\ group[g] = "finishing"
    /\ \E v \in VideosOf(g) : video[v] = "crashed"
    /\ group' = [group EXCEPT ![g] = "crashed"]
    /\ UNCHANGED <<gpuOn, slots, videoVars, placeVars, response>>

-----------------------------------------------------------------------------
(* _finish_video and _extract: at most GpuAttempts Gemma calls per video,   *)
(* each in a GPU slot of its own.                                           *)

SetResult(v, r) ==
    /\ video' = [video EXCEPT ![v] = "done"]
    /\ result' = [result EXCEPT ![v] = r]

BeginVideo(v) ==
    /\ video[v] = "ready"
    /\ \/ /\ observed[v] = "failed"
          /\ SetResult(v, Failed(code[v]))
          /\ UNCHANGED code
       \/ /\ observed[v] = "other"
          /\ SetResult(v, NotFound)
          /\ UNCHANGED code
       \/ /\ observed[v] = "place" /\ ~gpuOn
          /\ SetResult(v, Failed("internal_server_error"))
          /\ UNCHANGED code
       \/ /\ observed[v] = "place" /\ gpuOn
          /\ video' = [video EXCEPT ![v] = "gpu_wait"]
          /\ code' = [code EXCEPT ![v] = "internal_server_error"]
          /\ UNCHANGED result
    /\ UNCHANGED <<gpuOn, slots, group, observed, attempts, placeVars, response>>

GpuStart(v) ==
    /\ video[v] = "gpu_wait" /\ gpuFree > 0
    /\ gpuFree' = gpuFree - 1
    /\ video' = [video EXCEPT ![v] = "gpu_call"]
    /\ UNCHANGED <<gpuOn, batchFree, verifyFree, group, observed, code, attempts,
                   result, placeVars, response>>

(* Mutants of GpuFail: the attempts are not counted; one call too many; the *)
(* slot is released after the call and not on the way out of its block.     *)
GpuFailForever(v) ==
    /\ video[v] = "gpu_call"
    /\ gpuFree' = gpuFree + 1
    /\ video' = [video EXCEPT ![v] = "gpu_wait"]
    /\ \E k \in CallCodes : code' = [code EXCEPT ![v] = k]
    /\ UNCHANGED <<gpuOn, batchFree, verifyFree, group, observed, attempts, result,
                   placeVars, response>>

GpuFailOnceMore(v) ==
    /\ video[v] = "gpu_call"
    /\ gpuFree' = gpuFree + 1
    /\ attempts' = [attempts EXCEPT ![v] = @ + 1]
    /\ \E k \in CallCodes :
         /\ code' = [code EXCEPT ![v] = k]
         /\ IF attempts[v] + 1 <= GpuAttempts
            THEN video' = [video EXCEPT ![v] = "gpu_wait"] /\ UNCHANGED result
            ELSE SetResult(v, Failed(k))
    /\ UNCHANGED <<gpuOn, batchFree, verifyFree, group, observed, placeVars, response>>

GpuFailKeepsSlot(v) ==
    /\ video[v] = "gpu_call"
    /\ attempts' = [attempts EXCEPT ![v] = @ + 1]
    /\ \E k \in CallCodes : SetResult(v, Failed(k)) /\ code' = [code EXCEPT ![v] = k]
    /\ UNCHANGED <<gpuOn, slots, group, observed, placeVars, response>>

GpuFail(v) ==
    /\ video[v] = "gpu_call"
    /\ gpuFree' = gpuFree + 1
    /\ attempts' = [attempts EXCEPT ![v] = @ + 1]
    /\ \E k \in CallCodes \cup {"llm_invalid_response"} :
         /\ code' = [code EXCEPT ![v] = k]
         /\ IF attempts[v] + 1 < GpuAttempts
            THEN /\ video' = [video EXCEPT ![v] = "gpu_wait"]
                 /\ UNCHANGED result
            ELSE SetResult(v, Failed(k))
    /\ UNCHANGED <<gpuOn, batchFree, verifyFree, group, observed, placeVars, response>>

(* Gemma answered n places, those in named with a name (an empty answer is  *)
(* one place without a name).  gather starts _verify for each: a place      *)
(* without a name is not_found, the others start their two tasks.           *)
GpuAnswer(v, n, named) ==
    /\ video[v] = "gpu_call"
    /\ gpuFree' = gpuFree + 1
    /\ attempts' = [attempts EXCEPT ![v] = @ + 1]
    /\ video' = [video EXCEPT ![v] = "verifying"]
    /\ place' = [p \in Places |->
                   IF p[1] # v \/ p[2] > n THEN place[p]
                   ELSE IF p[2] \in named THEN "checking" ELSE "not_found"]
    /\ vtask' = [p \in Places |->
                   IF p[1] = v /\ p[2] \in named THEN "queued" ELSE vtask[p]]
    /\ ctask' = [p \in Places |->
                   IF p[1] = v /\ p[2] \in named THEN "running" ELSE ctask[p]]
    /\ UNCHANGED <<gpuOn, batchFree, verifyFree, group, observed, code, result,
                   placeCode, response>>

GpuDone(v) ==
    \E n \in 1..MaxPlaces : \E named \in SUBSET (1..n) : GpuAnswer(v, n, named)

(* The answer is used after the slot is left and outside the try block.     *)
VideoCrash(v) ==
    /\ MayCrash
    /\ video[v] = "gpu_call"
    /\ gpuFree' = gpuFree + 1
    /\ video' = [video EXCEPT ![v] = "crashed"]
    /\ UNCHANGED <<gpuOn, batchFree, verifyFree, group, observed, code, attempts,
                   result, placeVars, response>>

FailedPlaces(v)    == {p \in PlacesOf(v) : place[p] = "failed"}
ConfirmedPlaces(v) == {p \in PlacesOf(v) : place[p] = "success"}

(* Mutant of Summary: the confirmed places survive the failure of another.  *)
SummaryKeepsConfirmed(v) ==
    IF ConfirmedPlaces(v) # {} THEN Success({p[2] : p \in ConfirmedPlaces(v)})
    ELSE IF FailedPlaces(v) # {} THEN Failed("internal_server_error") ELSE NotFound

(* The end of _finish_video: one failed place discards the others and gives *)
(* its code (the first in the order of the places); places not found are    *)
(* left out, and a video with no place left is not_found.                   *)
Summary(v) ==
    IF FailedPlaces(v) # {}
    THEN LET first == CHOOSE p \in FailedPlaces(v) :
                        \A q \in FailedPlaces(v) : p[2] <= q[2]
         IN  Failed(placeCode[first])
    ELSE IF ConfirmedPlaces(v) # {}
         THEN Success({p[2] : p \in ConfirmedPlaces(v)})
         ELSE NotFound

FinishVideo(v) ==
    /\ video[v] = "verifying"
    /\ \A p \in PlacesOf(v) : place[p] \notin {"checking", "crashed"}
    /\ SetResult(v, Summary(v))
    /\ UNCHANGED <<gpuOn, slots, group, observed, code, attempts, placeVars, response>>

-----------------------------------------------------------------------------
(* _verify: the two tasks of a place, and what it makes of them.            *)

VerifyStart(p) ==
    /\ vtask[p] = "queued" /\ verifyFree > 0
    /\ verifyFree' = verifyFree - 1
    /\ vtask' = [vtask EXCEPT ![p] = "running"]
    /\ UNCHANGED <<gpuOn, batchFree, gpuFree, group, videoVars, place, placeCode,
                   ctask, response>>

VerifyEnd(p) ==
    /\ vtask[p] = "running"
    /\ verifyFree' = verifyFree + 1
    /\ \E r \in VerifyOk \cup {"fail"} : vtask' = [vtask EXCEPT ![p] = r]
    /\ UNCHANGED <<gpuOn, batchFree, gpuFree, group, videoVars, place, placeCode,
                   ctask, response>>

CategoryEnd(p) ==
    /\ ctask[p] = "running"
    /\ \E r \in CategoryOk \cup {"fail"} : ctask' = [ctask EXCEPT ![p] = r]
    /\ UNCHANGED <<gpuOn, slots, group, videoVars, place, placeCode, vtask, response>>

(* Mutants of the two cancellations: only the task that already runs is     *)
(* cancelled; the category task is forgotten.                               *)
CancelOnlyRunning(s)   == IF s = "running" THEN "stopping" ELSE s
CancelNoCategory(s)    == s

(* Task.cancel(): a finished task is left as it is, a waiting one never     *)
(* gets its slot, a running one keeps its slot until the loop runs it.      *)
CancelVerify(s) ==
    CASE s = "queued"  -> "dropped"
      [] s = "running" -> "stopping"
      [] OTHER         -> s
CancelCategory(s) == IF s = "running" THEN "stopping" ELSE s

(* asyncio.wait woke on a failed task.  The other one may have ended in     *)
(* the meantime; with both failed the set decides whose code is used.       *)
PlaceFailed(p) ==
    /\ place[p] = "checking"
    /\ vtask[p] = "fail" \/ ctask[p] = "fail"
    /\ vtask' = [vtask EXCEPT ![p] = CancelVerify(@)]
    /\ ctask' = [ctask EXCEPT ![p] = CancelCategory(@)]
    /\ place' = [place EXCEPT ![p] = "failed"]
    /\ \E k \in CallCodes : placeCode' = [placeCode EXCEPT ![p] = k]
    /\ UNCHANGED <<gpuOn, slots, group, videoVars, response>>

(* Both tasks have a value.  Only a place with opening hours is published,  *)
(* or one whose category is taken to be always open.                        *)
PlaceVerdict(p) ==
    IF \/ vtask[p] = "hours"
       \/ vtask[p] = "nohours" /\ ctask[p] = "open"
    THEN "success" ELSE "not_found"

(* Mutant of PlaceDecided: does not wait for the category.                  *)
PlaceDecidedEarly(p) ==
    /\ place[p] = "checking"
    /\ vtask[p] \in VerifyOk
    /\ place' = [place EXCEPT ![p] = PlaceVerdict(p)]
    /\ UNCHANGED <<gpuOn, slots, group, videoVars, placeCode, vtask, ctask, response>>

PlaceDecided(p) ==
    /\ place[p] = "checking"
    /\ vtask[p] \in VerifyOk /\ ctask[p] \in CategoryOk
    /\ place' = [place EXCEPT ![p] = PlaceVerdict(p)]
    /\ UNCHANGED <<gpuOn, slots, group, videoVars, placeCode, vtask, ctask, response>>

(* Building the item raises: the gather of the video ends with it.          *)
PlaceCrash(p) ==
    /\ MayCrash
    /\ place[p] = "checking"
    /\ vtask[p] \in VerifyOk /\ ctask[p] \in CategoryOk
    /\ place' = [place EXCEPT ![p] = "crashed"]
    /\ video' = [video EXCEPT ![p[1]] = "crashed"]
    /\ UNCHANGED <<gpuOn, slots, group, observed, code, attempts, result,
                   placeCode, vtask, ctask, response>>

(* Mutant of VerifyCancelled: a cancelled task does not leave its slot.     *)
VerifyCancelledKeepsSlot(p) ==
    /\ vtask[p] \in {"dropped", "stopping"}
    /\ vtask' = [vtask EXCEPT ![p] = "cancelled"]
    /\ UNCHANGED <<gpuOn, slots, group, videoVars, place, placeCode, ctask, response>>

VerifyCancelled(p) ==
    /\ vtask[p] \in {"dropped", "stopping"}
    /\ verifyFree' = IF vtask[p] = "stopping" THEN verifyFree + 1 ELSE verifyFree
    /\ vtask' = [vtask EXCEPT ![p] = "cancelled"]
    /\ UNCHANGED <<gpuOn, batchFree, gpuFree, group, videoVars, place, placeCode,
                   ctask, response>>

CategoryCancelled(p) ==
    /\ ctask[p] = "stopping"
    /\ ctask' = [ctask EXCEPT ![p] = "cancelled"]
    /\ UNCHANGED <<gpuOn, slots, group, videoVars, place, placeCode, vtask, response>>

-----------------------------------------------------------------------------
(* analyze_videos: the outer gather isolates the groups, so a crashed group *)
(* is a failed item for each of its videos.                                 *)

GroupsOf(r) == {g \in Groups : RequestOf[g] = r}
Ended(g)    == group[g] \in {"done", "crashed"}
Sent(r)     == \A v \in Videos : RequestOf[GroupOf[v]] = r => response[v] # Pending

(* Mutant of VideoOutcome: the crash of a group ends its whole request.     *)
VideoOutcomeShared(v) ==
    IF \E g \in GroupsOf(RequestOf[GroupOf[v]]) : group[g] = "crashed"
    THEN Failed("internal_server_error") ELSE result[v]

VideoOutcome(v) == IF group[GroupOf[v]] = "crashed"
                   THEN Failed("internal_server_error") ELSE result[v]

Respond(r) ==
    /\ ~Sent(r)
    /\ \A g \in GroupsOf(r) : Ended(g)
    /\ response' = [v \in Videos |-> IF RequestOf[GroupOf[v]] = r
                                     THEN VideoOutcome(v) ELSE response[v]]
    /\ UNCHANGED <<gpuOn, slots, group, videoVars, placeVars>>

(* Every request is answered: the process waits for the next one.           *)
Idle == (\A r \in Requests : Sent(r)) /\ UNCHANGED vars

GroupStep(g) ==
    StartObserve(g) \/ ObserveFailed(g) \/ ObserveRead(g) \/ ObserveCrash(g)
      \/ GroupDone(g) \/ GroupCrashed(g)

VideoStep(v) ==
    BeginVideo(v) \/ GpuStart(v) \/ GpuFail(v) \/ GpuDone(v) \/ VideoCrash(v)
      \/ FinishVideo(v)

VerifyStep(p)   == VerifyStart(p) \/ VerifyEnd(p) \/ VerifyCancelled(p)
CategoryStep(p) == CategoryEnd(p) \/ CategoryCancelled(p)
PlaceStep(p)    == PlaceFailed(p) \/ PlaceDecided(p) \/ PlaceCrash(p)

Next ==
    \/ \E g \in Groups : GroupStep(g)
    \/ \E v \in Videos : VideoStep(v)
    \/ \E p \in Places : VerifyStep(p) \/ CategoryStep(p) \/ PlaceStep(p)
    \/ \E r \in Requests : Respond(r)
    \/ Idle

Spec == Init /\ [][Next]_vars

(* The loop runs every task that can run, and every call has a timeout.     *)
Fairness ==
    /\ \A g \in Groups : WF_vars(GroupStep(g))
    /\ \A v \in Videos : WF_vars(VideoStep(v))
    /\ \A p \in Places : WF_vars(VerifyStep(p)) /\ WF_vars(CategoryStep(p))
                           /\ WF_vars(PlaceStep(p))
    /\ \A r \in Requests : WF_vars(Respond(r))

FairSpec == Spec /\ Fairness

-----------------------------------------------------------------------------
(* Every variable keeps its type; a counter of free slots never goes below  *)
(* zero and no video is given more than _GPU_ATTEMPTS Gemma calls.          *)
TypeOK ==
    /\ gpuOn \in BOOLEAN
    /\ batchFree \in Nat /\ gpuFree \in Nat /\ verifyFree \in Nat
    /\ group \in [Groups -> {"waiting", "observing", "finishing", "done", "crashed"}]
    /\ video \in [Videos -> {"none", "ready", "gpu_wait", "gpu_call", "verifying",
                             "done", "crashed"}]
    /\ observed \in [Videos -> {"none", "place", "other", "failed"}]
    /\ code \in [Videos -> Codes \cup {NoCode}]
    /\ attempts \in [Videos -> 0..GpuAttempts]
    /\ place \in [Places -> {"none", "checking", "failed", "not_found", "success",
                             "crashed"}]
    /\ placeCode \in [Places -> Codes \cup {NoCode}]
    /\ vtask \in [Places -> VerifyStates]
    /\ ctask \in [Places -> CategoryStates]
    /\ result \in [Videos -> Results]
    /\ response \in [Videos -> Results]

Observing   == {g \in Groups : group[g] = "observing"}
Extracting  == {v \in Videos : video[v] = "gpu_call"}
Verifying   == {p \in Places : vtask[p] \in VerifyHolds}

(* The three limits hold for the whole process, across requests, and no     *)
(* slot is lost or handed back twice, however a call ends: with a value, a  *)
(* failure, a timeout, a cancellation by the sibling task or a crash        *)
(* (_BATCH_SLOTS, _GPU_SLOTS, _VERIFY_SLOTS).                               *)
SlotsConserved ==
    /\ batchFree + Cardinality(Observing) = BatchSlots
    /\ gpuFree + Cardinality(Extracting) = GpuSlots
    /\ verifyFree + Cardinality(Verifying) = VerifySlots

(* Some call made for the video itself failed for good.                     *)
Faulted(v) ==
    \/ observed[v] = "failed"
    \/ observed[v] = "place" /\ ~gpuOn
    \/ attempts[v] = GpuAttempts /\ \A p \in PlacesOf(v) : place[p] = "none"
    \/ \E p \in PlacesOf(v) : "fail" \in {vtask[p], ctask[p]}

(* The backend asks again for a failed video and never for a not_found one, *)
(* so a video is answered failed exactly when one of its own calls failed   *)
(* for good or its own group crashed: no failure is lost in the races of    *)
(* the two tasks of a place, and none spreads to a video of another group   *)
(* (docstrings of _verify, _finish_video and the gather of analyze_videos). *)
FaultsReported ==
    \A v \in Videos : response[v] # Pending =>
        (response[v].status = "failed"
           <=> Faulted(v) \/ group[GroupOf[v]] = "crashed")

(* A place is in the response exactly when, in a video answered success, it *)
(* was verified to exist with opening hours of its own or of an always open *)
(* category: never on a result that was cancelled or not waited for.        *)
PublishedPlacesVerified ==
    \A v \in Videos : response[v].status = "success" =>
        /\ response[v].places # {}
        /\ \A i \in 1..MaxPlaces :
             i \in response[v].places <=>
               \/ vtask[<<v, i>>] = "hours" /\ ctask[<<v, i>>] \in CategoryOk
               \/ vtask[<<v, i>>] = "nohours" /\ ctask[<<v, i>>] = "open"

(* A decided video has no verification or category call left but one that   *)
(* was told to cancel: the failed sibling never runs on (_verify).          *)
NoWorkLeft ==
    \A p \in Places : video[p[1]] = "done" =>
        vtask[p] \notin {"queued", "running"} /\ ctask[p] # "running"

(* A verification that waits for a slot when the category of its place      *)
(* fails gives up its turn: no search starts for a place that has failed.   *)
NoSearchForFailedPlace ==
    [][\A p \in Places :
         vtask[p] # "running" /\ vtask'[p] = "running" => place[p] = "checking"]_vars

(* Every request is answered, whatever fails, crashes or waits in line.     *)
EveryRequestAnswered == \A r \in Requests : <>Sent(r)

(* Cancelled and abandoned tasks give their slots back: in the end the      *)
(* process has all its slots for the next request.                          *)
SlotsReturned ==
    <>[](batchFree = BatchSlots /\ gpuFree = GpuSlots /\ verifyFree = VerifySlots)

(* What a batch request promises (AnalyzeContract): the verdict of a video  *)
(* stands when its group has ended.                                         *)
Verdict == [v \in Videos |-> IF Ended(GroupOf[v]) THEN VideoOutcome(v) ELSE Pending]
BatchContract == INSTANCE AnalyzeContract WITH verdict <- Verdict, sent <- response
Contract == BatchContract!Spec
=============================================================================
