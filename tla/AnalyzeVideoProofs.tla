------------------------- MODULE AnalyzeVideoProofs -------------------------
(***************************************************************************)
(* Theorems about AnalyzeVideo, for every number of requests, groups,      *)
(* videos, places, slots and attempts.                                     *)
(***************************************************************************)
EXTENDS AnalyzeVideo, FiniteSetTheorems, WellFoundedInduction, TLAPS

(* A group that has not been read has started none of its videos.           *)
UnreadInv ==
    \A v \in Videos :
        group[GroupOf[v]] \in {"waiting", "observing"} => video[v] = "none"

(* A video that may still call Gemma has calls left and no place yet; a     *)
(* decided one has no place under verification.                             *)
Unextracted == {"none", "ready", "gpu_wait", "gpu_call"}
VideoInv ==
    \A v \in Videos :
        /\ video[v] \in Unextracted =>
             /\ attempts[v] < GpuAttempts
             /\ \A p \in PlacesOf(v) : place[p] = "none"
        /\ video[v] = "done" => \A p \in PlacesOf(v) : place[p] # "checking"

(* Only a place under verification has tasks that still work for it, and a  *)
(* failed one has a code.                                                   *)
PlaceInv ==
    \A p \in Places :
        /\ place[p] # "checking" =>
             vtask[p] \notin {"queued", "running"} /\ ctask[p] # "running"
        /\ place[p] = "failed" => placeCode[p] \in CallCodes

(* A place that was not extracted has no task.                              *)
NewPlaceInv ==
    \A p \in Places : place[p] = "none" => vtask[p] = "none" /\ ctask[p] = "none"

(* A video whose observation failed has a code.                             *)
ObservedInv == \A v \in Videos : observed[v] = "failed" => code[v] \in Codes

IndInv == TypeOK /\ UnreadInv /\ VideoInv /\ PlaceInv /\ NewPlaceInv /\ ObservedInv

-----------------------------------------------------------------------------
(* Every nonempty set of natural numbers has a least one.                   *)
LEMMA LeastNumber ==
    ASSUME NEW S \in SUBSET Nat, S # {}
    PROVE  \E n \in S : \A m \in S : n <= m
<1>1. PICK n \in S : \A m \in S : <<m, n>> \notin OpToRel(<, Nat)
  BY NatLessThanWellFounded, WFMin
<1>2. \A m \in S : ~ (m < n)
  BY <1>1 DEF OpToRel
<1> QED BY <1>2

(* A result, whatever its shape, has the type of a result.                  *)
LEMMA ResultTypes ==
    /\ Pending \in Results
    /\ NotFound \in Results
    /\ \A c \in Codes : Failed(c) \in Results
    /\ \A s \in SUBSET (1..MaxPlaces) : s # {} => Success(s) \in Results
BY Zenon DEF Results

LEMMA PlaceFacts ==
    /\ \A p \in Places : p[1] \in Videos /\ p[2] \in 1..MaxPlaces
                           /\ p \in PlacesOf(p[1])
    /\ \A v \in Videos : PlacesOf(v) \subseteq Places
    /\ \A v \in Videos : \A p \in PlacesOf(v) : p[1] = v
BY DEF Places, PlacesOf

(* The end of a video has the type of a result: a failed place has a code,  *)
(* and one of the failed places comes first.                                *)
LEMMA SummaryType ==
    ASSUME TypeOK, PlaceInv, NEW v \in Videos
    PROVE  Summary(v) \in Results
<1>1. CASE FailedPlaces(v) # {}
  <2> DEFINE Numbers == {p[2] : p \in FailedPlaces(v)}
  <2>1. PICK q \in FailedPlaces(v) : TRUE
    BY <1>1
  <2>2. Numbers \subseteq Nat /\ q[2] \in Numbers
    BY <2>1, PlaceFacts, AnalyzeAssumption DEF FailedPlaces
  <2>3. PICK n \in Numbers : \A m \in Numbers : n <= m
    <3> HIDE DEF Numbers
    <3> QED BY <2>2, LeastNumber
  <2>4. PICK p \in FailedPlaces(v) : p[2] = n
    BY <2>3
  <2>5. \A r \in FailedPlaces(v) : p[2] <= r[2]
    BY <2>3, <2>4
  <2> DEFINE first == CHOOSE r \in FailedPlaces(v) :
                        \A s \in FailedPlaces(v) : r[2] <= s[2]
  <2>6. first \in FailedPlaces(v)
    BY <2>4, <2>5
  <2>7. placeCode[first] \in Codes
    BY <2>6, PlaceFacts DEF FailedPlaces, PlaceInv, Codes
  <2>8. Summary(v) = Failed(placeCode[first])
    BY <1>1 DEF Summary
  <2> QED BY <2>7, <2>8, ResultTypes
<1>2. CASE FailedPlaces(v) = {} /\ ConfirmedPlaces(v) # {}
  <2> DEFINE s == {p[2] : p \in ConfirmedPlaces(v)}
  <2>1. s \in SUBSET (1..MaxPlaces) /\ s # {}
    BY <1>2, PlaceFacts DEF ConfirmedPlaces
  <2>2. Summary(v) = Success(s)
    BY <1>2 DEF Summary
  <2> QED BY <2>1, <2>2, ResultTypes
<1>3. CASE FailedPlaces(v) = {} /\ ConfirmedPlaces(v) = {}
  BY <1>3, ResultTypes DEF Summary
<1> QED BY <1>1, <1>2, <1>3

-----------------------------------------------------------------------------
LEMMA InitInv == Init => IndInv
<1> SUFFICES ASSUME Init PROVE IndInv
  OBVIOUS
<1> USE AnalyzeAssumption, ResultTypes, PlaceFacts
<1>1. TypeOK
  BY DEF Init, TypeOK, VerifyStates, CategoryStates
<1>2. UnreadInv /\ VideoInv /\ PlaceInv /\ NewPlaceInv /\ ObservedInv
  BY DEF Init, UnreadInv, VideoInv, PlaceInv, NewPlaceInv, ObservedInv, Unextracted
<1> QED BY <1>1, <1>2 DEF IndInv

LEMMA StepInv == IndInv /\ [Next]_vars => IndInv'
<1> SUFFICES ASSUME IndInv, [Next]_vars PROVE IndInv'
  OBVIOUS
<1> USE AnalyzeAssumption, ResultTypes, PlaceFacts
<1> USE DEF IndInv, TypeOK, UnreadInv, VideoInv, PlaceInv, NewPlaceInv, ObservedInv, Unextracted,
            slots, placeVars, videoVars
<1>1. ASSUME NEW g \in Groups, StartObserve(g)
      PROVE  IndInv'
  BY <1>1 DEF StartObserve
<1>2. ASSUME NEW g \in Groups, ObserveFailed(g)
      PROVE  IndInv'
  BY <1>2 DEF ObserveFailed, Observe, Codes
<1>3. ASSUME NEW g \in Groups, ObserveRead(g)
      PROVE  IndInv'
  BY <1>3 DEF ObserveRead, Observe, VideosOf, Codes
<1>4. ASSUME NEW g \in Groups, ObserveCrash(g)
      PROVE  IndInv'
  BY <1>4 DEF ObserveCrash
<1>5. ASSUME NEW g \in Groups, GroupDone(g)
      PROVE  IndInv'
  BY <1>5 DEF GroupDone
<1>6. ASSUME NEW g \in Groups, GroupCrashed(g)
      PROVE  IndInv'
  BY <1>6 DEF GroupCrashed
<1>7. ASSUME NEW v \in Videos, BeginVideo(v)
      PROVE  IndInv'
  BY <1>7 DEF BeginVideo, SetResult, Codes
<1>8. ASSUME NEW v \in Videos, GpuStart(v)
      PROVE  IndInv'
  BY <1>8 DEF GpuStart
<1>9. ASSUME NEW v \in Videos, GpuFail(v)
      PROVE  IndInv'
  BY <1>9 DEF GpuFail, SetResult, Codes
<1>10. ASSUME NEW v \in Videos, GpuDone(v)
      PROVE  IndInv'
  BY <1>10 DEF GpuDone, GpuAnswer, VerifyStates, CategoryStates
<1>11. ASSUME NEW v \in Videos, VideoCrash(v)
      PROVE  IndInv'
  BY <1>11 DEF VideoCrash
<1>12. ASSUME NEW v \in Videos, FinishVideo(v)
      PROVE  IndInv'
  <2>1. Summary(v) \in Results
    BY <1>12, SummaryType DEF FinishVideo
  <2> QED BY <1>12, <2>1 DEF FinishVideo, SetResult
<1>13. ASSUME NEW p \in Places, VerifyStart(p)
      PROVE  IndInv'
  BY <1>13 DEF VerifyStart, VerifyStates
<1>14. ASSUME NEW p \in Places, VerifyEnd(p)
      PROVE  IndInv'
  BY <1>14 DEF VerifyEnd, VerifyStates, VerifyOk
<1>15. ASSUME NEW p \in Places, VerifyCancelled(p)
      PROVE  IndInv'
  BY <1>15 DEF VerifyCancelled, VerifyStates
<1>16. ASSUME NEW p \in Places, CategoryEnd(p)
      PROVE  IndInv'
  BY <1>16 DEF CategoryEnd, CategoryStates, CategoryOk
<1>17. ASSUME NEW p \in Places, CategoryCancelled(p)
      PROVE  IndInv'
  BY <1>17 DEF CategoryCancelled, CategoryStates
<1>18. ASSUME NEW p \in Places, PlaceFailed(p)
      PROVE  IndInv'
  BY <1>18 DEF PlaceFailed, CancelVerify, CancelCategory, VerifyStates, CategoryStates, Codes
<1>19. ASSUME NEW p \in Places, PlaceDecided(p)
      PROVE  IndInv'
  BY <1>19 DEF PlaceDecided, PlaceVerdict, VerifyOk, CategoryOk
<1>20. ASSUME NEW p \in Places, PlaceCrash(p)
      PROVE  IndInv'
  BY <1>20 DEF PlaceCrash, VerifyOk, CategoryOk
<1>21. ASSUME NEW r \in Requests, Respond(r)
      PROVE  IndInv'
  BY <1>21 DEF Respond, VideoOutcome, Codes
<1>22. CASE UNCHANGED vars
  BY <1>22 DEF vars
<1> QED
  BY <1>1, <1>2, <1>3, <1>4, <1>5, <1>6, <1>7, <1>8, <1>9, <1>10, <1>11, <1>12,
     <1>13, <1>14, <1>15, <1>16, <1>17, <1>18, <1>19, <1>20, <1>21, <1>22
     DEF Next, Idle, GroupStep, VideoStep, VerifyStep, CategoryStep, PlaceStep

-----------------------------------------------------------------------------
(* A state is typed and its strengthening holds in every behaviour.         *)
LEMMA Invariant == Spec => []IndInv
<1>1. Init => IndInv
  BY InitInv
<1>2. IndInv /\ [Next]_vars => IndInv'
  BY StepInv
<1> QED BY <1>1, <1>2, PTL DEF Spec

(* Types are kept; no counter of free slots goes below zero and no video    *)
(* gets more than _GPU_ATTEMPTS calls to Gemma (analyze_videos).            *)
THEOREM TypeCorrect == Spec => []TypeOK
<1>1. IndInv => TypeOK
  BY DEF IndInv
<1> QED BY <1>1, Invariant, PTL

(* A decided video has no verification or category call left to run, in any *)
(* order in which its tasks end and are cancelled (_verify, _finish_video). *)
THEOREM NoWorkIsLeft == Spec => []NoWorkLeft
<1>1. IndInv => NoWorkLeft
  BY PlaceFacts DEF IndInv, VideoInv, PlaceInv, NoWorkLeft
<1> QED BY <1>1, Invariant, PTL

(* No search starts for a place that has failed already (_verify cancels    *)
(* the verification that still waits in line).                              *)
THEOREM NoSearchStarts == Spec => NoSearchForFailedPlace
<1>1. IndInv /\ [Next]_vars =>
        [\A p \in Places :
           vtask[p] # "running" /\ vtask'[p] = "running" => place[p] = "checking"]_vars
  <2> SUFFICES ASSUME IndInv, [Next]_vars, NEW p \in Places,
                      vtask[p] # "running", vtask'[p] = "running"
               PROVE  place[p] = "checking"
    OBVIOUS
  <2>1. vtask[p] = "queued"
    BY PlaceFacts DEF IndInv, TypeOK, Next, vars, slots, placeVars, videoVars, Idle,
       GroupStep, VideoStep, VerifyStep, CategoryStep, PlaceStep,
       StartObserve, ObserveFailed, ObserveRead, Observe, ObserveCrash, GroupDone,
       GroupCrashed, BeginVideo, GpuStart, GpuFail, GpuDone, GpuAnswer, VideoCrash,
       FinishVideo, VerifyStart, VerifyEnd, VerifyOk, VerifyCancelled, CategoryEnd,
       CategoryCancelled, PlaceFailed, CancelVerify, PlaceDecided, PlaceCrash, Respond
  <2> QED BY <2>1 DEF IndInv, PlaceInv
<1> QED BY <1>1, Invariant, PTL DEF Spec, NoSearchForFailedPlace

-----------------------------------------------------------------------------
(* The slots of each semaphore are conserved: a step takes one exactly when *)
(* one holder appears and gives one back exactly when one holder goes.      *)

LEMMA HoldersFinite ==
    /\ IsFiniteSet(Observing) /\ IsFiniteSet(Extracting) /\ IsFiniteSet(Verifying)
<1>1. IsFiniteSet(1..MaxPlaces)
  BY FS_Interval, AnalyzeAssumption
<1>2. IsFiniteSet(Places)
  BY <1>1, FS_Product, AnalyzeAssumption DEF Places
<1> QED BY <1>2, FS_Subset, AnalyzeAssumption DEF Observing, Extracting, Verifying

LEMMA HolderAdded ==
    ASSUME NEW S, NEW x, IsFiniteSet(S), x \notin S, NEW free \in Nat, NEW cap \in Nat,
           free > 0, free + Cardinality(S) = cap
    PROVE  (free - 1) + Cardinality(S \cup {x}) = cap
<1>1. Cardinality(S \cup {x}) = Cardinality(S) + 1
  BY FS_AddElement
<1>2. Cardinality(S) \in Nat
  BY FS_CardinalityType
<1> QED BY <1>1, <1>2

LEMMA HolderRemoved ==
    ASSUME NEW S, NEW x, IsFiniteSet(S), x \in S, NEW free \in Nat, NEW cap \in Nat,
           free + Cardinality(S) = cap
    PROVE  (free + 1) + Cardinality(S \ {x}) = cap
<1>1. Cardinality(S \ {x}) = Cardinality(S) - 1
  BY FS_RemoveElement
<1>2. Cardinality(S) \in Nat
  BY FS_CardinalityType
<1> QED BY <1>1, <1>2

BatchConserved  == batchFree + Cardinality(Observing) = BatchSlots
GpuConserved    == gpuFree + Cardinality(Extracting) = GpuSlots
VerifyConserved == verifyFree + Cardinality(Verifying) = VerifySlots

LEMMA BatchStep == IndInv /\ BatchConserved /\ [Next]_vars => BatchConserved'
<1> SUFFICES ASSUME IndInv, BatchConserved, [Next]_vars PROVE BatchConserved'
  OBVIOUS
<1> USE AnalyzeAssumption
<1>1. ASSUME NEW g \in Groups, StartObserve(g) PROVE BatchConserved'
  <2>1. Observing' = Observing \cup {g} /\ g \notin Observing
    BY <1>1 DEF StartObserve, Observing, IndInv, TypeOK
  <2>2. batchFree' = batchFree - 1 /\ batchFree \in Nat /\ batchFree > 0
    BY <1>1 DEF StartObserve, IndInv, TypeOK
  <2> QED BY <2>1, <2>2, HoldersFinite, HolderAdded DEF BatchConserved
<1>2. ASSUME NEW g \in Groups, ObserveFailed(g) \/ ObserveRead(g) \/ ObserveCrash(g)
      PROVE  BatchConserved'
  <2>1. Observing' = Observing \ {g} /\ g \in Observing
    BY <1>2 DEF ObserveFailed, ObserveRead, ObserveCrash, Observe, Observing, IndInv, TypeOK
  <2>2. batchFree' = batchFree + 1 /\ batchFree \in Nat
    BY <1>2 DEF ObserveFailed, ObserveRead, ObserveCrash, Observe, IndInv, TypeOK
  <2> QED BY <2>1, <2>2, HoldersFinite, HolderRemoved DEF BatchConserved
<1>3. ASSUME NEW g \in Groups, GroupDone(g) \/ GroupCrashed(g)
      PROVE  BatchConserved'
  <2>1. Observing' = Observing /\ batchFree' = batchFree
    BY <1>3 DEF GroupDone, GroupCrashed, Observing, IndInv, TypeOK, slots
  <2> QED BY <2>1 DEF BatchConserved
<1>4. ASSUME NEW v \in Videos, VideoStep(v) PROVE BatchConserved'
  <2>1. group' = group /\ batchFree' = batchFree
    BY <1>4 DEF VideoStep, BeginVideo, GpuStart, GpuFail, GpuDone, GpuAnswer, VideoCrash,
                FinishVideo, slots
  <2> QED BY <2>1 DEF BatchConserved, Observing
<1>5. ASSUME NEW p \in Places, VerifyStep(p) \/ CategoryStep(p) \/ PlaceStep(p)
      PROVE  BatchConserved'
  <2>1. group' = group /\ batchFree' = batchFree
    BY <1>5 DEF VerifyStep, CategoryStep, PlaceStep, VerifyStart, VerifyEnd,
                VerifyCancelled, CategoryEnd, CategoryCancelled, PlaceFailed,
                PlaceDecided, PlaceCrash, slots
  <2> QED BY <2>1 DEF BatchConserved, Observing
<1>6. CASE (\E r \in Requests : Respond(r)) \/ UNCHANGED vars
  BY <1>6 DEF Respond, vars, slots, BatchConserved, Observing
<1> QED BY <1>1, <1>2, <1>3, <1>4, <1>5, <1>6 DEF Next, GroupStep, Idle

LEMMA GpuStep == IndInv /\ GpuConserved /\ [Next]_vars => GpuConserved'
<1> SUFFICES ASSUME IndInv, GpuConserved, [Next]_vars PROVE GpuConserved'
  OBVIOUS
<1> USE AnalyzeAssumption
<1>1. ASSUME NEW v \in Videos, GpuStart(v) PROVE GpuConserved'
  <2>1. Extracting' = Extracting \cup {v} /\ v \notin Extracting
    BY <1>1 DEF GpuStart, Extracting, IndInv, TypeOK
  <2>2. gpuFree' = gpuFree - 1 /\ gpuFree \in Nat /\ gpuFree > 0
    BY <1>1 DEF GpuStart, IndInv, TypeOK
  <2> QED BY <2>1, <2>2, HoldersFinite, HolderAdded DEF GpuConserved
<1>2. ASSUME NEW v \in Videos, GpuFail(v) \/ GpuDone(v) \/ VideoCrash(v)
      PROVE  GpuConserved'
  <2>1. Extracting' = Extracting \ {v} /\ v \in Extracting
    BY <1>2 DEF GpuFail, GpuDone, GpuAnswer, VideoCrash, SetResult, Extracting, IndInv, TypeOK
  <2>2. gpuFree' = gpuFree + 1 /\ gpuFree \in Nat
    BY <1>2 DEF GpuFail, GpuDone, GpuAnswer, VideoCrash, IndInv, TypeOK
  <2> QED BY <2>1, <2>2, HoldersFinite, HolderRemoved DEF GpuConserved
<1>3. ASSUME NEW v \in Videos, BeginVideo(v) \/ FinishVideo(v) PROVE GpuConserved'
  <2>1. Extracting' = Extracting /\ gpuFree' = gpuFree
    BY <1>3 DEF BeginVideo, FinishVideo, SetResult, Extracting, IndInv, TypeOK, slots
  <2> QED BY <2>1 DEF GpuConserved
<1>4. ASSUME NEW g \in Groups, GroupStep(g) PROVE GpuConserved'
  (* The videos of a group that is read have not started.                   *)
  <2>1. Extracting' = Extracting /\ gpuFree' = gpuFree
    BY <1>4 DEF GroupStep, StartObserve, ObserveFailed, ObserveRead, Observe,
                ObserveCrash, GroupDone, GroupCrashed, Extracting, IndInv, TypeOK,
                UnreadInv, slots, videoVars
  <2> QED BY <2>1 DEF GpuConserved
<1>5. ASSUME NEW p \in Places, VerifyStep(p) \/ CategoryStep(p) \/ PlaceStep(p)
      PROVE  GpuConserved'
  (* A place that crashes belongs to a video that has left the GPU slot.    *)
  <2>1. Extracting' = Extracting /\ gpuFree' = gpuFree
    BY <1>5, PlaceFacts
       DEF VerifyStep, CategoryStep, PlaceStep, VerifyStart, VerifyEnd,
           VerifyCancelled, CategoryEnd, CategoryCancelled, PlaceFailed, PlaceDecided,
           PlaceCrash, Extracting, IndInv, TypeOK, VideoInv, Unextracted, slots, videoVars
  <2> QED BY <2>1 DEF GpuConserved
<1>6. CASE (\E r \in Requests : Respond(r)) \/ UNCHANGED vars
  BY <1>6 DEF Respond, vars, slots, videoVars, GpuConserved, Extracting
<1> QED BY <1>1, <1>2, <1>3, <1>4, <1>5, <1>6 DEF Next, VideoStep, Idle

LEMMA VerifyTaskStep == IndInv /\ VerifyConserved /\ [Next]_vars => VerifyConserved'
<1> SUFFICES ASSUME IndInv, VerifyConserved, [Next]_vars PROVE VerifyConserved'
  OBVIOUS
<1> USE AnalyzeAssumption
<1>1. ASSUME NEW p \in Places, VerifyStart(p) PROVE VerifyConserved'
  <2>1. Verifying' = Verifying \cup {p} /\ p \notin Verifying
    BY <1>1 DEF VerifyStart, Verifying, VerifyHolds, IndInv, TypeOK
  <2>2. verifyFree' = verifyFree - 1 /\ verifyFree \in Nat /\ verifyFree > 0
    BY <1>1 DEF VerifyStart, IndInv, TypeOK
  <2> QED BY <2>1, <2>2, HoldersFinite, HolderAdded DEF VerifyConserved
<1>2. ASSUME NEW p \in Places,
             VerifyEnd(p) \/ (VerifyCancelled(p) /\ vtask[p] = "stopping")
      PROVE  VerifyConserved'
  <2>1. Verifying' = Verifying \ {p} /\ p \in Verifying
    BY <1>2 DEF VerifyEnd, VerifyCancelled, VerifyOk, Verifying, VerifyHolds, IndInv, TypeOK
  <2>2. verifyFree' = verifyFree + 1 /\ verifyFree \in Nat
    BY <1>2 DEF VerifyEnd, VerifyCancelled, IndInv, TypeOK
  <2> QED BY <2>1, <2>2, HoldersFinite, HolderRemoved DEF VerifyConserved
<1>3. ASSUME NEW p \in Places, VerifyCancelled(p), vtask[p] = "dropped"
      PROVE  VerifyConserved'
  <2>1. Verifying' = Verifying /\ verifyFree' = verifyFree
    BY <1>3 DEF VerifyCancelled, Verifying, VerifyHolds, IndInv, TypeOK
  <2> QED BY <2>1 DEF VerifyConserved
<1>4. ASSUME NEW p \in Places, PlaceFailed(p) PROVE VerifyConserved'
  (* The cancelled verification keeps the slot it holds.                    *)
  <2>1. vtask' = [vtask EXCEPT ![p] = CancelVerify(vtask[p])]
    BY <1>4 DEF PlaceFailed
  <2>2. CancelVerify(vtask[p]) \in VerifyHolds <=> vtask[p] \in VerifyHolds
    BY DEF CancelVerify, VerifyHolds
  <2>3. Verifying' = Verifying
    BY <2>1, <2>2 DEF Verifying, IndInv, TypeOK
  <2>4. verifyFree' = verifyFree
    BY <1>4 DEF PlaceFailed, slots
  <2> QED BY <2>3, <2>4 DEF VerifyConserved
<1>5. ASSUME NEW p \in Places, CategoryStep(p) \/ PlaceDecided(p) \/ PlaceCrash(p)
      PROVE  VerifyConserved'
  <2>1. vtask' = vtask /\ verifyFree' = verifyFree
    BY <1>5 DEF CategoryStep, CategoryEnd, CategoryCancelled, PlaceDecided, PlaceCrash, slots
  <2> QED BY <2>1 DEF VerifyConserved, Verifying
<1>6. ASSUME NEW v \in Videos, VideoStep(v) PROVE VerifyConserved'
  (* The places of a fresh answer had no task before and wait in line now.  *)
  <2>1. Verifying' = Verifying /\ verifyFree' = verifyFree
    <3>1. CASE GpuDone(v)
      BY <3>1, PlaceFacts DEF GpuDone, GpuAnswer, Verifying, VerifyHolds, IndInv, TypeOK,
         VideoInv, PlaceInv, Unextracted, NewPlaceInv
    <3>2. CASE ~ GpuDone(v)
      BY <1>6, <3>2 DEF VideoStep, BeginVideo, GpuStart, GpuFail, VideoCrash,
         FinishVideo, Verifying, slots, placeVars
    <3> QED BY <3>1, <3>2
  <2> QED BY <2>1 DEF VerifyConserved
<1>7. ASSUME NEW g \in Groups, GroupStep(g) PROVE VerifyConserved'
  <2>1. vtask' = vtask /\ verifyFree' = verifyFree
    BY <1>7 DEF GroupStep, StartObserve, ObserveFailed, ObserveRead, Observe,
                ObserveCrash, GroupDone, GroupCrashed, slots, placeVars
  <2> QED BY <2>1 DEF VerifyConserved, Verifying
<1>8. CASE (\E r \in Requests : Respond(r)) \/ UNCHANGED vars
  BY <1>8 DEF Respond, vars, slots, placeVars, VerifyConserved, Verifying
<1> QED BY <1>1, <1>2, <1>3, <1>4, <1>5, <1>6, <1>7, <1>8
        DEF Next, VerifyStep, VerifyCancelled, PlaceStep, Idle

(* No slot is lost or returned twice, however a call ends, for any number   *)
(* of requests, groups, videos and slots (the three semaphores).            *)
THEOREM SlotsAreConserved == Spec => []SlotsConserved
<1> DEFINE Inv == IndInv /\ BatchConserved /\ GpuConserved /\ VerifyConserved
<1>1. Init => Inv
  <2> SUFFICES ASSUME Init PROVE BatchConserved /\ GpuConserved /\ VerifyConserved
    BY InitInv
  <2>1. Observing = {} /\ Extracting = {} /\ Verifying = {}
    BY DEF Init, Observing, Extracting, Verifying, VerifyHolds
  <2> QED BY <2>1, FS_EmptySet, AnalyzeAssumption
          DEF Init, BatchConserved, GpuConserved, VerifyConserved
<1>2. Inv /\ [Next]_vars => Inv'
  BY StepInv, BatchStep, GpuStep, VerifyTaskStep
<1>3. Inv => SlotsConserved
  BY DEF BatchConserved, GpuConserved, VerifyConserved, SlotsConserved
<1> QED BY <1>1, <1>2, <1>3, PTL DEF Spec

-----------------------------------------------------------------------------
(* A video is answered failed exactly when a call of its own failed.        *)

(* The task that failed is remembered by its place; a video that has called *)
(* Gemma was read as a place, and has places when its answer has come.      *)
EvidenceInv ==
    /\ \A p \in Places :
         /\ place[p] = "failed" => "fail" \in {vtask[p], ctask[p]}
         /\ "fail" \in {vtask[p], ctask[p]} => place[p] \in {"checking", "failed"}
    /\ \A v \in Videos :
         /\ video[v] \in {"gpu_wait", "gpu_call", "verifying"}
              => observed[v] = "place" /\ gpuOn
         /\ video[v] = "verifying" => \E p \in PlacesOf(v) : place[p] # "none"

FaultInv ==
    \A v \in Videos : video[v] = "done" => (result[v].status = "failed" <=> Faulted(v))

LEMMA EvidenceStep == IndInv /\ EvidenceInv /\ [Next]_vars => EvidenceInv'
<1> SUFFICES ASSUME IndInv, EvidenceInv, [Next]_vars PROVE EvidenceInv'
  OBVIOUS
<1> USE AnalyzeAssumption, PlaceFacts
<1> USE DEF EvidenceInv, IndInv, TypeOK, slots, placeVars, videoVars
<1>1. ASSUME NEW g \in Groups, GroupStep(g) PROVE EvidenceInv'
  BY <1>1 DEF GroupStep, StartObserve, ObserveFailed, ObserveRead, Observe, ObserveCrash,
              GroupDone, GroupCrashed, UnreadInv
<1>2. ASSUME NEW v \in Videos, VideoStep(v) PROVE EvidenceInv'
  <2>1. CASE GpuDone(v)
    <3>0. PICK n \in 1..MaxPlaces : \E named \in SUBSET (1..n) : GpuAnswer(v, n, named)
      BY <2>1 DEF GpuDone
    <3>1. PICK named \in SUBSET (1..n) : GpuAnswer(v, n, named)
      BY <3>0
    <3>2. <<v, 1>> \in PlacesOf(v) /\ place'[<<v, 1>>] # "none"
      BY <3>1 DEF GpuAnswer, PlacesOf, Places
    <3>3. \A p \in PlacesOf(v) : place[p] = "none" /\ vtask[p] = "none" /\ ctask[p] = "none"
      BY <3>1 DEF GpuAnswer, VideoInv, NewPlaceInv, Unextracted
    <3> QED BY <3>1, <3>2, <3>3 DEF GpuAnswer, PlacesOf, Places
  <2>2. CASE ~ GpuDone(v)
    BY <1>2, <2>2 DEF VideoStep, BeginVideo, GpuStart, GpuFail, VideoCrash, FinishVideo,
                      SetResult
  <2> QED BY <2>1, <2>2
<1>3. ASSUME NEW p \in Places, VerifyStep(p) PROVE EvidenceInv'
  BY <1>3 DEF VerifyStep, VerifyStart, VerifyEnd, VerifyOk, VerifyCancelled, PlaceInv
<1>4. ASSUME NEW p \in Places, CategoryStep(p) PROVE EvidenceInv'
  BY <1>4 DEF CategoryStep, CategoryEnd, CategoryOk, CategoryCancelled, PlaceInv
<1>5. ASSUME NEW p \in Places, PlaceFailed(p) PROVE EvidenceInv'
  <2>1. \A s \in VerifyStates : CancelVerify(s) = "fail" <=> s = "fail"
    BY DEF CancelVerify
  <2>2. \A s \in CategoryStates : CancelCategory(s) = "fail" <=> s = "fail"
    BY DEF CancelCategory
  <2> QED BY <1>5, <2>1, <2>2 DEF PlaceFailed
<1>6. ASSUME NEW p \in Places, PlaceDecided(p) \/ PlaceCrash(p) PROVE EvidenceInv'
  BY <1>6 DEF PlaceDecided, PlaceCrash, PlaceVerdict, VerifyOk, CategoryOk
<1>7. CASE (\E r \in Requests : Respond(r)) \/ UNCHANGED vars
  BY <1>7 DEF Respond, vars
<1> QED BY <1>1, <1>2, <1>3, <1>4, <1>5, <1>6, <1>7 DEF Next, PlaceStep, Idle

LEMMA StatusOf ==
    /\ NotFound.status = "not_found" /\ Pending.status = "pending"
    /\ \A c : Failed(c).status = "failed"
    /\ \A s : Success(s).status = "success"
BY DEF NotFound, Pending, Failed, Success

(* What a decided video says does not change after it is decided.           *)
LEMMA FaultStable ==
    ASSUME IndInv, [Next]_vars, NEW v \in Videos, video[v] = "done"
    PROVE  /\ Faulted(v)' <=> Faulted(v)
           /\ result'[v] = result[v]
<1> USE AnalyzeAssumption, PlaceFacts
<1> USE DEF IndInv, TypeOK, slots, placeVars, videoVars
<1>1. ASSUME NEW g \in Groups, GroupStep(g)
      PROVE  /\ observed'[v] = observed[v] /\ result'[v] = result[v]
             /\ UNCHANGED <<gpuOn, attempts, placeVars>>
  BY <1>1 DEF GroupStep, StartObserve, ObserveFailed, ObserveRead, Observe, ObserveCrash,
              GroupDone, GroupCrashed, UnreadInv
<1>2. ASSUME NEW w \in Videos, VideoStep(w)
      PROVE  /\ attempts'[v] = attempts[v] /\ result'[v] = result[v]
             /\ \A p \in PlacesOf(v) : place'[p] = place[p] /\ vtask'[p] = vtask[p]
                                         /\ ctask'[p] = ctask[p]
             /\ UNCHANGED <<gpuOn, observed>>
  BY <1>2 DEF VideoStep, BeginVideo, GpuStart, GpuFail, GpuDone, GpuAnswer, VideoCrash,
              FinishVideo, SetResult
<1>3. ASSUME NEW q \in Places, VerifyStep(q) \/ CategoryStep(q) \/ PlaceStep(q)
      PROVE  /\ \A p \in PlacesOf(v) :
                  /\ place'[p] = "none" <=> place[p] = "none"
                  /\ "fail" \in {vtask'[p], ctask'[p]} <=> "fail" \in {vtask[p], ctask[p]}
             /\ UNCHANGED <<gpuOn, observed, attempts, result>>
  <2>1. \A p \in PlacesOf(v) : place[p] # "checking" /\ vtask[p] \notin {"queued", "running"}
                                /\ ctask[p] # "running"
    BY DEF VideoInv, PlaceInv
  <2>2. CASE VerifyStep(q) \/ CategoryStep(q)
    BY <2>1, <2>2 DEF VerifyStep, VerifyStart, VerifyEnd, VerifyCancelled, CategoryStep,
                      CategoryEnd, CategoryCancelled
  <2>3. CASE PlaceStep(q)
    <3>1. q \notin PlacesOf(v)
      BY <2>1, <2>3 DEF PlaceStep, PlaceFailed, PlaceDecided, PlaceCrash
    <3> QED BY <2>3, <3>1 DEF PlaceStep, PlaceFailed, PlaceDecided, PlaceCrash
  <2> QED BY <1>3, <2>2, <2>3
<1>4. CASE (\E r \in Requests : Respond(r)) \/ UNCHANGED vars
  BY <1>4 DEF Respond, vars, Faulted
<1>5. ASSUME NEW g \in Groups, GroupStep(g)
      PROVE  (Faulted(v)' <=> Faulted(v)) /\ result'[v] = result[v]
  BY <1>1, <1>5 DEF Faulted
<1>6. ASSUME NEW w \in Videos, VideoStep(w)
      PROVE  (Faulted(v)' <=> Faulted(v)) /\ result'[v] = result[v]
  BY <1>2, <1>6 DEF Faulted
<1>7. ASSUME NEW q \in Places, VerifyStep(q) \/ CategoryStep(q) \/ PlaceStep(q)
      PROVE  (Faulted(v)' <=> Faulted(v)) /\ result'[v] = result[v]
  BY <1>3, <1>7 DEF Faulted
<1> QED BY <1>4, <1>5, <1>6, <1>7 DEF Next, Idle

(* A video is decided by one of three steps, and each decides it failed     *)
(* exactly when one of its calls has failed for good.                       *)
LEMMA FaultDecided ==
    ASSUME IndInv, EvidenceInv, NEW v \in Videos,
           BeginVideo(v) \/ GpuFail(v) \/ FinishVideo(v), video'[v] = "done"
    PROVE  result'[v].status = "failed" <=> Faulted(v)'
<1> USE AnalyzeAssumption, PlaceFacts, StatusOf
<1> USE DEF IndInv, TypeOK, slots, placeVars, videoVars, SetResult
<1>1. CASE BeginVideo(v)
  <2>1. /\ attempts[v] < GpuAttempts
        /\ \A p \in PlacesOf(v) : place[p] = "none" /\ vtask[p] = "none" /\ ctask[p] = "none"
    BY <1>1 DEF BeginVideo, VideoInv, NewPlaceInv, Unextracted
  <2> QED BY <1>1, <2>1 DEF BeginVideo, Faulted
<1>2. CASE GpuFail(v)
  <2>1. PICK k : IF attempts[v] + 1 < GpuAttempts
                 THEN video' = [video EXCEPT ![v] = "gpu_wait"] /\ result' = result
                 ELSE SetResult(v, Failed(k))
    BY <1>2 DEF GpuFail
  <2>2. ~ (attempts[v] + 1 < GpuAttempts)
    BY <2>1
  <2>3. attempts[v] < GpuAttempts /\ attempts' = [attempts EXCEPT ![v] = @ + 1]
    BY <1>2 DEF GpuFail, VideoInv, Unextracted
  <2>4. attempts'[v] = GpuAttempts /\ result'[v].status = "failed"
    BY <2>1, <2>2, <2>3
  <2>5. \A p \in PlacesOf(v) : place'[p] = "none"
    BY <1>2 DEF GpuFail, VideoInv, Unextracted
  <2> QED BY <2>4, <2>5 DEF Faulted
<1>3. CASE FinishVideo(v)
  <2>1. result'[v] = Summary(v) /\ UNCHANGED <<gpuOn, observed, attempts, placeVars>>
    BY <1>3 DEF FinishVideo
  <2>2. Summary(v).status = "failed" <=> FailedPlaces(v) # {}
    BY DEF Summary
  <2>3. FailedPlaces(v) # {} <=> \E p \in PlacesOf(v) : "fail" \in {vtask[p], ctask[p]}
    BY <1>3 DEF FinishVideo, FailedPlaces, EvidenceInv
  <2>4. Faulted(v)' <=> Faulted(v)
    BY <2>1 DEF Faulted
  <2>5. Faulted(v) <=> \E p \in PlacesOf(v) : "fail" \in {vtask[p], ctask[p]}
    BY <1>3 DEF FinishVideo, Faulted, EvidenceInv
  <2> QED BY <2>1, <2>2, <2>3, <2>4, <2>5
<1> QED BY <1>1, <1>2, <1>3

LEMMA FaultStep == IndInv /\ EvidenceInv /\ FaultInv /\ [Next]_vars => FaultInv'
<1> SUFFICES ASSUME IndInv, EvidenceInv, FaultInv, [Next]_vars,
                    NEW v \in Videos, video'[v] = "done"
             PROVE  result'[v].status = "failed" <=> Faulted(v)'
  BY DEF FaultInv
<1>1. CASE video[v] = "done"
  BY <1>1, FaultStable DEF FaultInv
<1>2. CASE video[v] # "done"
  <2>1. BeginVideo(v) \/ GpuFail(v) \/ FinishVideo(v)
    BY <1>2, AnalyzeAssumption, PlaceFacts
       DEF Next, GroupStep, VideoStep, VerifyStep, CategoryStep, PlaceStep, Idle, vars,
       StartObserve, ObserveFailed, ObserveRead, Observe, ObserveCrash, GroupDone,
       GroupCrashed, BeginVideo, GpuStart, GpuFail, GpuDone, GpuAnswer, VideoCrash,
       FinishVideo, VerifyStart, VerifyEnd, VerifyCancelled, CategoryEnd,
       CategoryCancelled, PlaceFailed, PlaceDecided, PlaceCrash, Respond, SetResult,
       IndInv, TypeOK, slots, placeVars, videoVars
  <2> QED BY <2>1, FaultDecided
<1> QED BY <1>1, <1>2

-----------------------------------------------------------------------------
(* AnalyzeVideo implements AnalyzeContract: hidden behind its tasks, slots  *)
(* and cancellations, the videos of a group are decided together and a      *)
(* request is answered once with the verdicts of its videos.                *)

(* A decided video has a result; a group that is done has decided each of   *)
(* its videos; the videos of a request are answered together.               *)
DecidedInv ==
    /\ \A v \in Videos : video[v] = "done" => result[v] # Pending
    /\ \A v \in Videos : group[GroupOf[v]] = "done" => video[v] = "done"
    /\ \A v, w \in Videos :
         RequestOf[GroupOf[v]] = RequestOf[GroupOf[w]]
           => (response[v] = Pending <=> response[w] = Pending)

LEMMA ResultsDiffer ==
    /\ NotFound # Pending
    /\ \A c : Failed(c) # Pending
    /\ \A s : Success(s) # Pending
BY DEF NotFound, Failed, Success, Pending

LEMMA SummaryNotPending == \A v \in Videos : Summary(v) # Pending
BY ResultsDiffer DEF Summary

LEMMA VerdictTypes == BatchContract!Verdicts = Results \ {Pending}
<1>1. BatchContract!Verdicts =
        {NotFound} \cup {Failed(c) : c \in Codes}
          \cup {Success(s) : s \in (SUBSET (1..MaxPlaces)) \ {{}}}
  BY Zenon DEF BatchContract!Verdicts, BatchContract!FailedWith, BatchContract!AnswerCodes,
         NotFound, Failed, Success, Codes, NoCode
<1> QED BY <1>1, ResultsDiffer, Zenon DEF Results

LEMMA DecidedInit == Init => DecidedInv
BY AnalyzeAssumption DEF Init, DecidedInv

LEMMA DecidedStep == IndInv /\ DecidedInv /\ [Next]_vars => DecidedInv'
<1> SUFFICES ASSUME IndInv, DecidedInv, [Next]_vars PROVE DecidedInv'
  OBVIOUS
<1> USE AnalyzeAssumption, PlaceFacts
<1> USE DEF DecidedInv, slots, videoVars, placeVars
<1>1. ASSUME NEW g \in Groups, GroupStep(g) PROVE DecidedInv'
  <2>1. CASE ObserveFailed(g) \/ ObserveRead(g)
    BY <2>1 DEF ObserveFailed, ObserveRead, Observe, IndInv, TypeOK
  <2>2. CASE GroupDone(g)
    BY <2>2 DEF GroupDone, VideosOf, IndInv, TypeOK
  <2>3. CASE StartObserve(g) \/ ObserveCrash(g) \/ GroupCrashed(g)
    BY <2>3 DEF StartObserve, ObserveCrash, GroupCrashed, IndInv, TypeOK
  <2> QED BY <1>1, <2>1, <2>2, <2>3 DEF GroupStep
<1>2. ASSUME NEW v \in Videos, VideoStep(v) PROVE DecidedInv'
  <2>1. CASE BeginVideo(v) \/ GpuFail(v) \/ FinishVideo(v)
    BY <2>1, ResultsDiffer, SummaryNotPending
       DEF BeginVideo, GpuFail, FinishVideo, SetResult, IndInv, TypeOK
  <2>2. CASE GpuStart(v) \/ GpuDone(v) \/ VideoCrash(v)
    BY <2>2 DEF GpuStart, GpuDone, GpuAnswer, VideoCrash, IndInv, TypeOK
  <2> QED BY <1>2, <2>1, <2>2 DEF VideoStep
<1>3. ASSUME NEW p \in Places, VerifyStep(p) \/ CategoryStep(p) \/ PlaceStep(p)
      PROVE  DecidedInv'
  <2>1. CASE PlaceCrash(p)
    BY <2>1 DEF PlaceCrash, IndInv, TypeOK, VideoInv
  <2>2. CASE ~ PlaceCrash(p)
    BY <1>3, <2>2 DEF VerifyStep, CategoryStep, PlaceStep, VerifyStart, VerifyEnd,
       VerifyCancelled, CategoryEnd, CategoryCancelled, PlaceFailed, PlaceDecided
  <2> QED BY <2>1, <2>2
<1>4. ASSUME NEW r \in Requests, Respond(r) PROVE DecidedInv'
  <2>1. \A v \in Videos : RequestOf[GroupOf[v]] = r => VideoOutcome(v) # Pending
    BY <1>4, ResultsDiffer DEF Respond, GroupsOf, Ended, VideoOutcome
  <2> QED BY <1>4, <2>1 DEF Respond
<1>5. CASE UNCHANGED vars
  BY <1>5 DEF vars
<1> QED BY <1>1, <1>2, <1>3, <1>4, <1>5 DEF Next, Idle

-----------------------------------------------------------------------------
LEMMA ContractInitial == Init => BatchContract!ContractInit
BY AnalyzeAssumption DEF Init, BatchContract!ContractInit, BatchContract!Undecided, Verdict, Ended, Pending,
   NoCode

(* The end of a group decides its videos; no other step changes a verdict.  *)
LEMMA GroupEnds ==
    ASSUME IndInv, DecidedInv, NEW g \in Groups,
           GroupDone(g) \/ GroupCrashed(g) \/ ObserveCrash(g)
    PROVE  BatchContract!Settle(g)
<1> USE AnalyzeAssumption DEF videoVars
<1>1. ~ Ended(g) /\ Ended(g)' /\ response' = response /\ result' = result
  BY DEF GroupDone, GroupCrashed, ObserveCrash, Ended, IndInv, TypeOK
<1>2. \A v \in Videos : GroupOf[v] # g => group'[GroupOf[v]] = group[GroupOf[v]]
  BY DEF GroupDone, GroupCrashed, ObserveCrash, IndInv, TypeOK
<1>3. \A v \in Videos : GroupOf[v] = g => VideoOutcome(v)' \in Results \ {Pending}
  <2> SUFFICES ASSUME NEW v \in Videos, GroupOf[v] = g
               PROVE  VideoOutcome(v)' \in Results \ {Pending}
    OBVIOUS
  <2>1. CASE group'[g] = "crashed"
    BY <2>1, ResultTypes, ResultsDiffer DEF VideoOutcome, Codes
  <2>2. CASE group'[g] # "crashed"
    BY <1>1, <2>2 DEF GroupDone, GroupCrashed, ObserveCrash, VideosOf, VideoOutcome,
                      DecidedInv, IndInv, TypeOK
  <2> QED BY <2>1, <2>2
<1>4. \A v \in Videos :
        IF GroupOf[v] = g
        THEN Verdict[v] = Pending /\ Verdict'[v] \in Results \ {Pending}
        ELSE Verdict'[v] = Verdict[v]
  BY <1>1, <1>2, <1>3 DEF Verdict, Ended, VideoOutcome
<1> QED BY <1>1, <1>4, VerdictTypes
        DEF BatchContract!Settle, BatchContract!Undecided, Pending, NoCode

LEMMA Answered ==
    ASSUME IndInv, DecidedInv, NEW r \in Requests, Respond(r)
    PROVE  BatchContract!Send(r)
<1> USE AnalyzeAssumption DEF videoVars
<1>1. Verdict' = Verdict
  BY DEF Respond, Verdict, Ended, VideoOutcome
<1>2. \A v \in Videos : RequestOf[GroupOf[v]] = r =>
        Verdict[v] = VideoOutcome(v) /\ VideoOutcome(v) # Pending /\ response[v] = Pending
  BY ResultsDiffer DEF Respond, Sent, GroupsOf, Ended, Verdict, VideoOutcome, DecidedInv
<1> QED BY <1>1, <1>2 DEF Respond, BatchContract!Send, BatchContract!OfRequest,
                          BatchContract!Undecided, Pending, NoCode

LEMMA OtherSteps ==
    ASSUME IndInv, DecidedInv, [Next]_vars,
           \A g \in Groups : ~ (GroupDone(g) \/ GroupCrashed(g) \/ ObserveCrash(g)),
           \A r \in Requests : ~ Respond(r)
    PROVE  UNCHANGED <<Verdict, response>>
<1> USE AnalyzeAssumption DEF slots, videoVars, placeVars
<1>1. response' = response
  BY DEF Next, GroupStep, VideoStep, VerifyStep, CategoryStep, PlaceStep, Idle, vars,
     StartObserve, ObserveFailed, ObserveRead, Observe, BeginVideo, GpuStart, GpuFail,
     GpuDone, GpuAnswer, VideoCrash, FinishVideo, VerifyStart, VerifyEnd, VerifyCancelled,
     CategoryEnd, CategoryCancelled, PlaceFailed, PlaceDecided, PlaceCrash
<1>2. \A v \in Videos : group'[GroupOf[v]] = group[GroupOf[v]]
        \/ (~ Ended(GroupOf[v]) /\ ~ Ended(GroupOf[v])')
  BY DEF Next, GroupStep, VideoStep, VerifyStep, CategoryStep, PlaceStep, Idle, vars,
     StartObserve, ObserveFailed, ObserveRead, Observe, BeginVideo, GpuStart, GpuFail,
     GpuDone, GpuAnswer, VideoCrash, FinishVideo, VerifyStart, VerifyEnd, VerifyCancelled,
     CategoryEnd, CategoryCancelled, PlaceFailed, PlaceDecided, PlaceCrash, Ended,
     IndInv, TypeOK
(* Only a video that is not decided gets a result.                          *)
<1>3. \A v \in Videos : video[v] = "done" => result'[v] = result[v]
  BY DEF Next, GroupStep, VideoStep, VerifyStep, CategoryStep, PlaceStep, Idle, vars,
     StartObserve, ObserveFailed, ObserveRead, Observe, BeginVideo, GpuStart, GpuFail,
     GpuDone, GpuAnswer, VideoCrash, FinishVideo, VerifyStart, VerifyEnd, VerifyCancelled,
     CategoryEnd, CategoryCancelled, PlaceFailed, PlaceDecided, PlaceCrash, SetResult,
     IndInv, TypeOK
<1>4. \A v \in Videos : Verdict'[v] = Verdict[v]
  BY <1>2, <1>3 DEF Verdict, Ended, VideoOutcome, DecidedInv
<1> QED BY <1>1, <1>4 DEF Verdict

(* Every behaviour of the tasks is a behaviour of the contract: verdicts    *)
(* appear group by group and never change, and a request is answered once,  *)
(* complete, with those verdicts (analyze_videos, _process_group).          *)
THEOREM ImplementsContract == Spec => Contract
<1>1. Init => IndInv /\ DecidedInv
  BY InitInv, DecidedInit
<1>2. IndInv /\ DecidedInv /\ [Next]_vars => (IndInv /\ DecidedInv)'
  BY StepInv, DecidedStep
<1>3. IndInv /\ DecidedInv /\ [Next]_vars
        => [BatchContract!ContractNext]_<<Verdict, response>>
  BY GroupEnds, Answered, OtherSteps DEF BatchContract!ContractNext
<1> QED BY <1>1, <1>2, <1>3, ContractInitial, PTL
        DEF Spec, Contract, BatchContract!Spec

-----------------------------------------------------------------------------
(* A sent verdict is that of a group that has ended.                        *)
AnswerInv ==
    \A v \in Videos : response[v] # Pending =>
        \/ group[GroupOf[v]] = "done" /\ video[v] = "done" /\ response[v] = result[v]
        \/ group[GroupOf[v]] = "crashed" /\ response[v].status = "failed"

LEMMA AnswerStep == IndInv /\ EvidenceInv /\ DecidedInv /\ AnswerInv /\ [Next]_vars => AnswerInv'
<1> SUFFICES ASSUME IndInv, EvidenceInv, DecidedInv, AnswerInv, [Next]_vars,
                    NEW v \in Videos, response'[v] # Pending
             PROVE  \/ group'[GroupOf[v]] = "done" /\ video'[v] = "done"
                       /\ response'[v] = result'[v]
                    \/ group'[GroupOf[v]] = "crashed" /\ response'[v].status = "failed"
  BY DEF AnswerInv
<1> USE AnalyzeAssumption, PlaceFacts
<1> USE DEF slots, videoVars, placeVars
<1>1. Ended(GroupOf[v]) => group'[GroupOf[v]] = group[GroupOf[v]]
  BY DEF Ended, Next, GroupStep, VideoStep, VerifyStep, CategoryStep, PlaceStep, Idle, vars,
     StartObserve, ObserveFailed, ObserveRead, Observe, ObserveCrash, GroupDone,
     GroupCrashed, BeginVideo, GpuStart, GpuFail, GpuDone, GpuAnswer, VideoCrash,
     FinishVideo, VerifyStart, VerifyEnd, VerifyCancelled, CategoryEnd,
     CategoryCancelled, PlaceFailed, PlaceDecided, PlaceCrash, Respond, IndInv, TypeOK
<1>2. video[v] = "done" /\ Ended(GroupOf[v]) => video'[v] = "done"
  BY DEF Ended, Next, GroupStep, VideoStep, VerifyStep, CategoryStep, PlaceStep, Idle, vars,
     StartObserve, ObserveFailed, ObserveRead, Observe, ObserveCrash, GroupDone,
     GroupCrashed, BeginVideo, GpuStart, GpuFail, GpuDone, GpuAnswer, VideoCrash,
     FinishVideo, VerifyStart, VerifyEnd, VerifyCancelled, CategoryEnd, SetResult,
     CategoryCancelled, PlaceFailed, PlaceDecided, PlaceCrash, Respond, IndInv, TypeOK,
     VideoInv
<1>3. CASE response[v] # Pending
  <2>1. response'[v] = response[v]
    BY <1>3 DEF Next, GroupStep, VideoStep, VerifyStep, CategoryStep, PlaceStep, Idle, vars,
     StartObserve, ObserveFailed, ObserveRead, Observe, ObserveCrash, GroupDone,
     GroupCrashed, BeginVideo, GpuStart, GpuFail, GpuDone, GpuAnswer, VideoCrash,
     FinishVideo, VerifyStart, VerifyEnd, VerifyCancelled, CategoryEnd,
     CategoryCancelled, PlaceFailed, PlaceDecided, PlaceCrash, Respond, Sent,
     DecidedInv
  <2>2. video[v] = "done" => result'[v] = result[v]
    BY FaultStable
  <2> QED BY <1>1, <1>2, <1>3, <2>1, <2>2 DEF AnswerInv, Ended
<1>4. CASE response[v] = Pending
  <2>1. PICK r \in Requests : Respond(r) /\ RequestOf[GroupOf[v]] = r
    BY <1>4 DEF Next, GroupStep, VideoStep, VerifyStep, CategoryStep, PlaceStep, Idle, vars,
     StartObserve, ObserveFailed, ObserveRead, Observe, ObserveCrash, GroupDone,
     GroupCrashed, BeginVideo, GpuStart, GpuFail, GpuDone, GpuAnswer, VideoCrash,
     FinishVideo, VerifyStart, VerifyEnd, VerifyCancelled, CategoryEnd,
     CategoryCancelled, PlaceFailed, PlaceDecided, PlaceCrash, Respond
  <2>2. Ended(GroupOf[v]) /\ response'[v] = VideoOutcome(v)
    BY <2>1 DEF Respond, GroupsOf
  <2>3. group[GroupOf[v]] = "done" => video[v] = "done"
    BY DEF DecidedInv
  <2>4. UNCHANGED <<group, video, result>>
    BY <2>1 DEF Respond
  <2> QED BY <2>2, <2>3, <2>4, StatusOf DEF Ended, VideoOutcome
<1> QED BY <1>3, <1>4

(* For any number of requests, groups, videos and places: a video is        *)
(* answered failed exactly when one of its own calls failed for good or its *)
(* own group crashed, so no failure is passed off as not_found and none     *)
(* spreads to another group (_verify, _finish_video, analyze_videos).       *)
THEOREM FaultsAreReported == Spec => []FaultsReported
<1> DEFINE Inv == IndInv /\ EvidenceInv /\ FaultInv /\ DecidedInv /\ AnswerInv
<1>1. Init => Inv
  <2> SUFFICES ASSUME Init PROVE EvidenceInv /\ FaultInv /\ AnswerInv
    BY InitInv, DecidedInit
  <2> QED BY PlaceFacts DEF Init, EvidenceInv, FaultInv, AnswerInv
<1>2. Inv /\ [Next]_vars => Inv'
  BY StepInv, EvidenceStep, FaultStep, DecidedStep, AnswerStep
<1>3. Inv => FaultsReported
  BY StatusOf, AnalyzeAssumption DEF FaultInv, AnswerInv, FaultsReported
<1> QED BY <1>1, <1>2, <1>3, PTL DEF Spec

-----------------------------------------------------------------------------
(* What a place is published on: the two values of its tasks.               *)
Confirmed(p) ==
    \/ vtask[p] = "hours" /\ ctask[p] \in CategoryOk
    \/ vtask[p] = "nohours" /\ ctask[p] = "open"

(* The verdict on a place is what its tasks ended with.                     *)
VerdictInv ==
    \A p \in Places :
        /\ place[p] = "success" => Confirmed(p)
        /\ place[p] \in {"none", "not_found", "failed"} => ~Confirmed(p)

(* The confirmed places of a decided video are those of its result.         *)
PublishedBy(v, r) ==
    r.status = "success" =>
        /\ r.places # {}
        /\ \A i \in 1..MaxPlaces : i \in r.places <=> Confirmed(<<v, i>>)

PublishInv == \A v \in Videos : video[v] = "done" => PublishedBy(v, result[v])

(* The tasks of a place that is not under verification keep their values:   *)
(* a cancellation is delivered only to a task that has none.                *)
LEMMA ConfirmedStable ==
    ASSUME IndInv, [Next]_vars, NEW p \in Places, place[p] \notin {"none", "checking"}
    PROVE  Confirmed(p)' <=> Confirmed(p)
<1> USE AnalyzeAssumption, PlaceFacts
<1> USE DEF slots, videoVars, placeVars
<1>1. vtask[p] \notin {"queued", "running"} /\ ctask[p] # "running"
  BY DEF IndInv, PlaceInv
<1>2. ASSUME NEW q \in Places, VerifyStep(q) \/ CategoryStep(q) PROVE Confirmed(p)' <=> Confirmed(p)
  BY <1>1, <1>2 DEF VerifyStep, VerifyStart, VerifyEnd, VerifyCancelled, CategoryStep, CategoryEnd,
                    CategoryCancelled, Confirmed, CategoryOk, IndInv, TypeOK
<1>3. ASSUME NEW q \in Places, PlaceStep(q) PROVE Confirmed(p)' <=> Confirmed(p)
  <2>1. vtask'[p] = vtask[p] /\ ctask'[p] = ctask[p]
    BY <1>3 DEF PlaceStep, PlaceFailed, PlaceDecided, PlaceCrash, IndInv, TypeOK
  <2> QED BY <2>1 DEF Confirmed
<1>4. ASSUME NEW v \in Videos, GpuDone(v) PROVE Confirmed(p)' <=> Confirmed(p)
  <2>1. p[1] # v
    BY <1>4 DEF GpuDone, GpuAnswer, IndInv, VideoInv, Unextracted
  <2>2. vtask'[p] = vtask[p] /\ ctask'[p] = ctask[p]
    BY <1>4, <2>1 DEF GpuDone, GpuAnswer
  <2> QED BY <2>2 DEF Confirmed
<1>5. ASSUME NEW v \in Videos, VideoStep(v), ~GpuDone(v) PROVE Confirmed(p)' <=> Confirmed(p)
  BY <1>5 DEF VideoStep, BeginVideo, GpuStart, GpuFail, VideoCrash, FinishVideo, Confirmed
<1>6. ASSUME NEW g \in Groups, GroupStep(g) PROVE Confirmed(p)' <=> Confirmed(p)
  BY <1>6 DEF GroupStep, StartObserve, ObserveFailed, ObserveRead, Observe, ObserveCrash,
              GroupDone, GroupCrashed, Confirmed
<1>7. CASE (\E r \in Requests : Respond(r)) \/ UNCHANGED vars
  BY <1>7 DEF Respond, vars, Confirmed
<1> QED BY <1>2, <1>3, <1>4, <1>5, <1>6, <1>7 DEF Next, Idle

LEMMA VerdictStep ==
    IndInv /\ EvidenceInv /\ VerdictInv /\ [Next]_vars => VerdictInv'
<1> SUFFICES ASSUME IndInv, EvidenceInv, VerdictInv, [Next]_vars, NEW p \in Places
             PROVE  /\ place'[p] = "success" => Confirmed(p)'
                    /\ place'[p] \in {"none", "not_found", "failed"} => ~Confirmed(p)'
  BY DEF VerdictInv
<1> USE AnalyzeAssumption, PlaceFacts
<1> USE DEF slots, videoVars, placeVars
<1>1. CASE place'[p] = place[p]
  <2>1. CASE place[p] = "none"
    (* A place that was not extracted has no task, and gets none.           *)
    <3>1. vtask'[p] = "none"
      <4>1. vtask[p] = "none" /\ ctask[p] = "none"
        BY <2>1 DEF IndInv, NewPlaceInv
      <4>2. ASSUME NEW v \in Videos, VideoStep(v) PROVE vtask'[p] = "none"
        BY <1>1, <2>1, <4>1, <4>2
           DEF VideoStep, BeginVideo, GpuStart, GpuFail, GpuDone, GpuAnswer, VideoCrash, FinishVideo
      <4>3. ASSUME NEW q \in Places, VerifyStep(q) \/ CategoryStep(q) \/ PlaceStep(q)
            PROVE  vtask'[p] = "none"
        BY <2>1, <4>1, <4>3
           DEF VerifyStep, CategoryStep, PlaceStep, VerifyStart, VerifyEnd, VerifyCancelled,
               CategoryEnd, CategoryCancelled, PlaceFailed, CancelVerify, PlaceDecided, PlaceCrash,
               IndInv, TypeOK
      <4>4. ASSUME NEW g \in Groups, GroupStep(g) PROVE vtask'[p] = "none"
        BY <4>1, <4>4 DEF GroupStep, StartObserve, ObserveFailed, ObserveRead, Observe,
                          ObserveCrash, GroupDone, GroupCrashed
      <4>5. CASE (\E r \in Requests : Respond(r)) \/ UNCHANGED vars
        BY <4>1, <4>5 DEF Respond, vars
      <4> QED BY <4>2, <4>3, <4>4, <4>5 DEF Next, Idle
    <3> QED BY <1>1, <2>1, <3>1 DEF Confirmed
  <2>2. CASE place[p] = "checking"
    BY <1>1, <2>2
  <2>3. CASE place[p] \notin {"none", "checking"}
    BY <1>1, <2>3, ConfirmedStable DEF VerdictInv
  <2> QED BY <2>1, <2>2, <2>3
<1>2. CASE place'[p] # place[p]
  <2>1. ASSUME NEW v \in Videos, GpuDone(v)
        PROVE  place'[p] = "checking" \/ (place'[p] = "not_found" /\ vtask'[p] = "none")
    <3>0. PICK n \in 1..MaxPlaces : \E named \in SUBSET (1..n) : GpuAnswer(v, n, named)
      BY <2>1 DEF GpuDone
    <3>1. PICK named \in SUBSET (1..n) : GpuAnswer(v, n, named)
      BY <3>0
    <3>2. p[1] = v /\ place[p] = "none"
      BY <1>2, <3>1 DEF GpuAnswer, IndInv, VideoInv, Unextracted
    <3>3. vtask[p] = "none"
      BY <3>2 DEF IndInv, NewPlaceInv
    <3> QED BY <1>2, <3>1, <3>2, <3>3 DEF GpuAnswer
  <2>2. ASSUME PlaceFailed(p) PROVE place'[p] = "failed" /\ ~Confirmed(p)'
    BY <2>2 DEF PlaceFailed, CancelVerify, CancelCategory, Confirmed, CategoryOk, IndInv, TypeOK
  <2>3. ASSUME PlaceDecided(p) PROVE place'[p] = PlaceVerdict(p) /\ UNCHANGED <<vtask, ctask>>
                                     /\ ctask[p] \in CategoryOk
    BY <2>3 DEF PlaceDecided, IndInv, TypeOK
  <2>4. ASSUME PlaceCrash(p) PROVE place'[p] = "crashed"
    BY <2>4 DEF PlaceCrash, IndInv, TypeOK
  <2>5. (\E v \in Videos : GpuDone(v)) \/ PlaceFailed(p) \/ PlaceDecided(p) \/ PlaceCrash(p)
    BY <1>2 DEF Next, GroupStep, VideoStep, VerifyStep, CategoryStep, PlaceStep, Idle, vars,
       StartObserve, ObserveFailed, ObserveRead, Observe, ObserveCrash, GroupDone, GroupCrashed,
       BeginVideo, GpuStart, GpuFail, VideoCrash, FinishVideo, VerifyStart, VerifyEnd,
       VerifyCancelled, CategoryEnd, CategoryCancelled, PlaceFailed, PlaceDecided, PlaceCrash,
       Respond, IndInv, TypeOK
  <2>6. CASE PlaceDecided(p)
    BY <2>3, <2>6 DEF PlaceVerdict, Confirmed
  <2> QED BY <2>1, <2>2, <2>4, <2>5, <2>6 DEF Confirmed
<1> QED BY <1>1, <1>2

(* FinishVideo lists the confirmed places, and what it listed stands.       *)
LEMMA PublishStep ==
    IndInv /\ EvidenceInv /\ VerdictInv /\ PublishInv /\ [Next]_vars => PublishInv'
<1> SUFFICES ASSUME IndInv, EvidenceInv, VerdictInv, PublishInv, [Next]_vars,
                    NEW v \in Videos, video'[v] = "done", result'[v].status = "success"
             PROVE  /\ result'[v].places # {}
                    /\ \A i \in 1..MaxPlaces :
                         i \in result'[v].places <=> Confirmed(<<v, i>>)'
  BY DEF PublishInv, PublishedBy
<1> USE AnalyzeAssumption, PlaceFacts
<1>0. \A i \in 1..MaxPlaces : <<v, i>> \in PlacesOf(v) /\ <<v, i>> \in Places
  BY DEF PlacesOf, Places
<1>1. CASE video[v] = "done"
  <2>1. result'[v] = result[v]
    BY <1>1, FaultStable
  <2>2. ASSUME NEW i \in 1..MaxPlaces PROVE Confirmed(<<v, i>>)' <=> Confirmed(<<v, i>>)
    <3>1. place[<<v, i>>] # "checking"
      BY <1>0, <1>1 DEF IndInv, VideoInv
    <3>2. CASE place[<<v, i>>] # "none"
      BY <1>0, <3>1, <3>2, ConfirmedStable
    <3>3. CASE place[<<v, i>>] = "none"
      (* No answer comes for a video that is decided.                       *)
      <4>1. place'[<<v, i>>] = "none"
        BY <1>0, <1>1, <3>3
           DEF Next, GroupStep, VideoStep, VerifyStep, CategoryStep, PlaceStep, Idle, vars,
           StartObserve, ObserveFailed, ObserveRead, Observe, ObserveCrash, GroupDone, GroupCrashed,
           BeginVideo, GpuStart, GpuFail, GpuDone, GpuAnswer, VideoCrash, FinishVideo, VerifyStart,
           VerifyEnd, VerifyCancelled, CategoryEnd, CategoryCancelled, PlaceFailed, PlaceDecided,
           PlaceCrash, Respond, slots, videoVars, placeVars, IndInv, TypeOK
      <4>2. VerdictInv'
        BY VerdictStep
      <4> QED BY <1>0, <3>3, <4>1, <4>2 DEF VerdictInv
    <3> QED BY <3>2, <3>3
  <2>3. PublishedBy(v, result[v])
    BY <1>1 DEF PublishInv
  <2> QED BY <2>1, <2>2, <2>3 DEF PublishedBy
<1>2. CASE video[v] # "done"
  <2>1. BeginVideo(v) \/ GpuFail(v) \/ FinishVideo(v)
    BY <1>2
       DEF Next, GroupStep, VideoStep, VerifyStep, CategoryStep, PlaceStep, Idle, vars,
       StartObserve, ObserveFailed, ObserveRead, Observe, ObserveCrash, GroupDone,
       GroupCrashed, BeginVideo, GpuStart, GpuFail, GpuDone, GpuAnswer, VideoCrash,
       FinishVideo, VerifyStart, VerifyEnd, VerifyCancelled, CategoryEnd,
       CategoryCancelled, PlaceFailed, PlaceDecided, PlaceCrash, Respond, SetResult,
       IndInv, TypeOK, slots, placeVars, videoVars
  <2>2. ~(BeginVideo(v) \/ GpuFail(v))
    BY StatusOf DEF BeginVideo, GpuFail, SetResult, IndInv, TypeOK
  <2>3. /\ result'[v] = Summary(v) /\ UNCHANGED <<place, vtask, ctask>>
        /\ \A p \in PlacesOf(v) : place[p] \notin {"checking", "crashed"}
    BY <2>1, <2>2 DEF FinishVideo, SetResult, IndInv, TypeOK, placeVars
  <2> DEFINE listed == {p[2] : p \in ConfirmedPlaces(v)}
  <2>4. result'[v] = Success(listed) /\ ConfirmedPlaces(v) # {}
    BY <2>3, StatusOf DEF Summary
  <2>5. result'[v].places = listed
    BY <2>4 DEF Success
  <2>6. ASSUME NEW i \in 1..MaxPlaces PROVE i \in listed <=> Confirmed(<<v, i>>)'
    <3>1. i \in listed <=> place[<<v, i>>] = "success"
      BY <1>0 DEF ConfirmedPlaces, PlacesOf
    <3>2. place[<<v, i>>] \in {"success", "none", "not_found", "failed"}
      BY <1>0, <2>3 DEF IndInv, TypeOK
    <3>3. Confirmed(<<v, i>>)' <=> Confirmed(<<v, i>>)
      BY <2>3 DEF Confirmed
    <3> QED BY <1>0, <3>1, <3>2, <3>3 DEF VerdictInv
  <2>7. listed # {}
    <3>1. PICK p \in ConfirmedPlaces(v) : TRUE
      BY <2>4
    <3>2. p[2] \in listed
      BY <3>1
    <3> QED BY <3>2
  <2> HIDE DEF listed
  <2> QED BY <2>5, <2>6, <2>7
<1> QED BY <1>1, <1>2

(* For any number of videos, places and slots: the places of an answer are  *)
(* exactly those that were verified to exist, with opening hours of their   *)
(* own or of a category that is always open (_verify, _finish_video).       *)
THEOREM PlacesAreVerified == Spec => []PublishedPlacesVerified
<1> DEFINE Inv == IndInv /\ EvidenceInv /\ DecidedInv /\ AnswerInv /\ VerdictInv /\ PublishInv
<1>1. Init => Inv
  <2> SUFFICES ASSUME Init PROVE EvidenceInv /\ AnswerInv /\ VerdictInv /\ PublishInv
    BY InitInv, DecidedInit
  <2> QED BY PlaceFacts DEF Init, EvidenceInv, AnswerInv, VerdictInv, PublishInv, Confirmed
<1>2. Inv /\ [Next]_vars => Inv'
  BY StepInv, EvidenceStep, DecidedStep, AnswerStep, VerdictStep, PublishStep
<1>3. Inv => PublishedPlacesVerified
  <2> SUFFICES ASSUME Inv, NEW v \in Videos, response[v].status = "success"
               PROVE  PublishedBy(v, response[v])
    BY DEF PublishedPlacesVerified, PublishedBy, Confirmed
  <2>1. video[v] = "done" /\ response[v] = result[v]
    BY StatusOf DEF AnswerInv
  <2> QED BY <2>1 DEF PublishInv
<1> QED BY <1>1, <1>2, <1>3, PTL DEF Spec
=============================================================================
