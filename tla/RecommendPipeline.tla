-------------------------- MODULE RecommendPipeline -------------------------
(***************************************************************************)
(* One course recommendation against its deadline                          *)
(* (services/recommend_courses.py, _recommend and recommend_courses;       *)
(* models/factory.py, invoke_gpu_first).                                   *)
(*                                                                         *)
(* Four stages share one deadline: compression of the candidates, rerank   *)
(* by Jev, composition by an LLM (GPU first, then Gemini), travel times    *)
(* from the map API.  Each takes its budget from the time that is left,    *)
(* keeps a part for the stages behind it, and falls back to code when it   *)
(* fails or when its budget is too small.                                  *)
(*                                                                         *)
(* Time is counted in ticks since the request started.  A wait with a      *)
(* budget ends at any tick up to its budget, or later when the event loop  *)
(* is late; "late" is the sum of those delays, the time the code itself    *)
(* keeps the loop busy included.                                           *)
(***************************************************************************)
EXTENDS Integers, FiniteSets

CONSTANTS
    N,              \* bound on the candidates of the request
    TopK,           \* RECOMMEND_TOP_K
    Timeout,        \* TIMEOUT_RECOMMEND_COURSES
    Safety,         \* _SAFETY_SECONDS
    Retrieval,      \* RECOMMEND_BUDGET_RETRIEVAL
    RerankCap,      \* RECOMMEND_BUDGET_RERANK
    MinLLM,         \* RECOMMEND_MIN_LLM_SECONDS
    GeminiReserve,  \* RECOMMEND_GEMINI_RESERVE
    MapCap,         \* RECOMMEND_BUDGET_MAP
    MapReserve,     \* _MAP_RESERVE_SECONDS
    MaxLate         \* bound on the lateness of the event loop

ASSUME CountAssumption ==
    N \in Nat /\ TopK \in Nat \ {0} /\ MaxLate \in Nat

ASSUME BudgetAssumption ==
    /\ {Timeout, Retrieval, RerankCap, MinLLM, GeminiReserve, MapCap} \subseteq Nat \ {0}
    /\ {Safety, MapReserve} \subseteq Nat \ {0}

(* What config.py's values satisfy: a compression that uses all of its      *)
(* budget leaves the least the composition and the map API need, and the    *)
(* rerank's cap is not below what an LLM call needs.                        *)
ASSUME ShareAssumption ==
    /\ Retrieval + MinLLM + MapReserve =< Timeout - Safety
    /\ MinLLM =< RerankCap

VARIABLES
    stage,      \* where _recommend is
    now,        \* ticks since the request started
    late,       \* by how much the event loop ran late, in total
    candidates, \* places of the request, by their place in its order
    open,       \* those _is_closed does not exclude
    compressed, \* what _compress returned
    ranked,     \* what _rerank returned
    drafts,     \* places of the composed courses
    until,      \* tick at which the budget of the composition ends
    share,      \* history: the time each remote call was given
    called,     \* history: the remote calls that were made
    skipped,    \* history: stages left out for lack of time
    outcome     \* courses, empty, or the error of the response

data == <<candidates, open>>
vars == <<stage, now, late, data, compressed, ranked, drafts, until,
          share, called, skipped, outcome>>

Remote   == {"jev", "gpu", "gemini", "map"}
Deadline == Timeout - Safety        \* _Deadline._until
Left(t)  == Deadline - t            \* _Deadline.left() at tick t
MinOf(a, b) == IF a < b THEN a ELSE b
FirstK(S)   == {c \in S : c =< TopK}

Init ==
    /\ stage = "compress"
    /\ now = 0 /\ late = 0
    /\ \E n \in 0..N : candidates = 1..n
    /\ open \in SUBSET candidates
    /\ compressed = {} /\ ranked = {} /\ drafts = {}
    /\ until = 0
    /\ share = [r \in Remote |-> 0]
    /\ called = {} /\ skipped = {}
    /\ outcome = "none"

-----------------------------------------------------------------------------
(* A wait with a budget is over, after at most its budget or late.  A wait  *)
(* whose budget is gone cancels what it was given and raises.               *)
Wait(budget) ==
    \E lag \in 0..(MaxLate - late), d \in 0..(IF budget < 0 THEN 0 ELSE budget) :
        /\ lag > 0 => d >= budget
        /\ late' = late + lag
        /\ now' = now + d + lag

Call(r, budget) ==
    /\ called' = called \cup {r}
    /\ share' = [share EXCEPT ![r] = budget]
    /\ Wait(budget)

NoCall == UNCHANGED <<now, late, share, called>>

Continue(s) == stage' = s /\ UNCHANGED outcome

End(o) == stage' = "done" /\ outcome' = o

EndEmpty == End("empty")

(* The outer wait_for of recommend_courses cancels the stage that waits     *)
(* when the time of the request has run out.                                *)
TimedOut == /\ now' >= Timeout
            /\ End("llm_timeout")

-----------------------------------------------------------------------------
NoCandidates ==
    /\ stage = "compress" /\ candidates = {}
    /\ EndEmpty
    /\ NoCall
    /\ UNCHANGED <<data, compressed, ranked, drafts, until, skipped>>

(* _compress: the nearest TopK, completed with places not embedded yet; all *)
(* of them when there is nothing to compare with; the first TopK of the     *)
(* request when the search fails or takes too long.                         *)
Compress ==
    /\ stage = "compress" /\ candidates # {}
    /\ Wait(MinOf(Retrieval, Left(now)))
    /\ \/ TimedOut /\ UNCHANGED compressed
       \/ /\ \/ \E S \in SUBSET candidates :
                   /\ Cardinality(S) = MinOf(TopK, Cardinality(candidates))
                   /\ compressed' = S
             \/ compressed' = candidates
             \/ compressed' = FirstK(candidates)
          /\ Continue("rerank")
    /\ UNCHANGED <<data, ranked, drafts, until, share, called, skipped>>

-----------------------------------------------------------------------------
(* Mutant of RerankBudget: all that is left, nothing for the composition.   *)
RerankBudgetGreedy == Left(now)

(* What _rerank may take: the composition keeps its least.                  *)
RerankBudget == MinOf(RerankCap, Left(now) - MinLLM - MapReserve)

opened == compressed \cap open

NothingOpen ==
    /\ stage = "rerank" /\ opened = {}
    /\ EndEmpty
    /\ NoCall
    /\ UNCHANGED <<data, compressed, ranked, drafts, until, skipped>>

SkipRerank ==
    /\ stage = "rerank" /\ opened # {}
    /\ RerankBudget < MinLLM
    /\ ranked' = opened
    /\ skipped' = skipped \cup {"rerank"}
    /\ Continue("compose")
    /\ NoCall
    /\ UNCHANGED <<data, compressed, drafts, until>>

(* Jev scores the open candidates and those that score low are dropped;     *)
(* when it fails or takes too long they all stay.  A score that is no       *)
(* number is met after the call, and fails the request.                     *)
Rerank ==
    /\ stage = "rerank" /\ opened # {}
    /\ RerankBudget >= MinLLM
    /\ Call("jev", RerankBudget)
    /\ \/ TimedOut /\ UNCHANGED ranked
       \/ /\ ranked' = opened
          /\ Continue("compose")
       \/ \E kept \in SUBSET opened :
            /\ ranked' = kept
            /\ IF kept = {} THEN EndEmpty ELSE Continue("compose")
       \/ End("internal_server_error") /\ UNCHANGED ranked
    /\ UNCHANGED <<data, compressed, drafts, until, skipped>>

-----------------------------------------------------------------------------
(* Mutant of ComposeBudget: nothing is kept for the map API.                *)
ComposeBudgetGreedy == Left(now)

ComposeBudget == Left(now) - MapReserve

(* Mutant of Rules: the fallback starts over from the compressed places.    *)
RulesFromCompressed == \E D \in (SUBSET compressed) \ {{}} : drafts' = D

(* _rule_based: courses from the ranked places, without a model.            *)
Rules == \E D \in (SUBSET ranked) \ {{}} : drafts' = D

(* Mutant of Parsed: an id the model made up is taken for a candidate.      *)
ParsedUnchecked ==
    \E answer \in SUBSET (1..N) :
        IF answer = {} THEN Rules ELSE drafts' = answer

(* The model names places; unknown ones are left out, and an answer with no *)
(* valid place counts as a failure.                                         *)
Parsed ==
    \E answer \in SUBSET (1..N) :
        IF answer \cap ranked = {} THEN Rules ELSE drafts' = answer \cap ranked

SkipCompose ==
    /\ stage = "compose" /\ ComposeBudget < MinLLM
    /\ Rules
    /\ skipped' = skipped \cup {"compose"}
    /\ Continue("travel")
    /\ NoCall
    /\ UNCHANGED <<data, compressed, ranked, until>>

GpuTimeout == ComposeBudget - GeminiReserve

(* A model's answer that parses, or one that does not (LLMInvalidResponse). *)
Answered == (Parsed \/ Rules) /\ Continue("travel")

(* invoke_gpu_first: the GPU answers, or it fails or takes too long and     *)
(* Gemini is asked with what is left of the budget.                         *)
AskGpu ==
    /\ stage = "compose" /\ ComposeBudget >= MinLLM
    /\ GpuTimeout > 0
    /\ until' = now + ComposeBudget
    /\ Call("gpu", MinOf(GpuTimeout, ComposeBudget))
    /\ \/ TimedOut /\ UNCHANGED drafts
       \/ Answered
       \/ Continue("gemini") /\ UNCHANGED drafts
    /\ UNCHANGED <<data, compressed, ranked, skipped>>

(* The GPU is off, or the budget is too small for it.                       *)
SkipGpu ==
    /\ stage = "compose" /\ ComposeBudget >= MinLLM
    /\ until' = now + ComposeBudget
    /\ Continue("gemini")
    /\ NoCall
    /\ UNCHANGED <<data, compressed, ranked, drafts, skipped>>

(* total - (time.monotonic() - started) *)
GeminiTimeout == until - now

AskGemini ==
    /\ stage = "gemini"
    /\ Call("gemini", GeminiTimeout)
    /\ \/ TimedOut /\ UNCHANGED drafts
       \/ Answered
       \/ Rules /\ Continue("travel")
    /\ UNCHANGED <<data, compressed, ranked, until, skipped>>

-----------------------------------------------------------------------------
(* Mutant of MapBudget: the cap alone.                                      *)
MapBudgetFixed == MapCap

MapBudget == MinOf(MapCap, Left(now))

(* build_course trims what does not fit the available time; courses may     *)
(* lose all of their places to it.                                          *)
Assemble ==
    \/ End("courses")
    \/ EndEmpty

(* No leg is long enough for the map API, or its budget is gone.            *)
Estimate ==
    /\ stage = "travel"
    /\ Assemble
    /\ skipped' = IF MapBudget =< 0 THEN skipped \cup {"map"} ELSE skipped
    /\ NoCall
    /\ UNCHANGED <<data, compressed, ranked, drafts, until>>

(* The legs are asked for in parallel; one that is late keeps its estimate, *)
(* one that fails fails the request.                                        *)
Travel ==
    /\ stage = "travel" /\ MapBudget > 0
    /\ Call("map", MapBudget)
    /\ \/ TimedOut
       \/ Assemble
       \/ \E e \in {"map_api_error", "internal_server_error"} : End(e)
    /\ UNCHANGED <<data, compressed, ranked, drafts, until, skipped>>

Next ==
    \/ NoCandidates \/ Compress
    \/ NothingOpen \/ SkipRerank \/ Rerank
    \/ SkipCompose \/ AskGpu \/ SkipGpu \/ AskGemini
    \/ Estimate \/ Travel

Spec == Init /\ [][Next]_vars

-----------------------------------------------------------------------------
(* The variables keep their types; whatever a model or a fallback names is  *)
(* a place of the request.                                                  *)
TypeOK ==
    /\ stage \in {"compress", "rerank", "compose", "gemini", "travel", "done"}
    /\ now \in Nat /\ late \in 0..MaxLate
    /\ candidates \subseteq 1..N /\ open \subseteq candidates
    /\ compressed \subseteq candidates /\ ranked \subseteq candidates
    /\ drafts \subseteq candidates
    /\ until \in Int
    /\ share \in [Remote -> Int] /\ called \subseteq Remote
    /\ skipped \subseteq {"rerank", "compose", "map"}
    /\ outcome \in {"none", "courses", "empty", "llm_timeout",
                    "map_api_error", "internal_server_error"}

(* However the stages end, the request is cut by its own deadline only if   *)
(* the event loop ran late by the safety margin: no combination of slow     *)
(* services makes recommend_courses answer llm_timeout.                     *)
TimeoutMeansLate == outcome = "llm_timeout" => late >= Safety

(* A stage is left out for lack of time only if the loop ran late: slow     *)
(* stages alone never take the least an LLM call needs (_rerank's budget    *)
(* leaves it to _compose) nor the part kept for the map API.                *)
SkippedMeansLate ==
    /\ "rerank" \in skipped => late + Retrieval + 2 * MinLLM + MapReserve > Deadline
    /\ "compose" \in skipped => late > 0
    /\ "map" \in skipped => late >= MapReserve

(* What the calls are given when all before them took as long as they may,  *)
(* less the lateness of the loop: the GPU what config.py counts on, Gemini  *)
(* its reserve when it stands in for the GPU.                               *)
LLMShares ==
    /\ "gpu" \in called =>
         share["gpu"] + late >=
            Deadline - Retrieval - RerankCap - MapReserve - GeminiReserve
    /\ {"gpu", "gemini"} \subseteq called => share["gemini"] + late >= GeminiReserve

(* The map API gets its reserve, however long the models took.              *)
MapShare == "map" \in called => share["map"] + late >= MinOf(MapCap, MapReserve)

(* No stage lives on what another one was promised: every remote call is    *)
(* given its share, whatever the calls before it took.                      *)
SharesKept == LLMShares /\ MapShare

(* A place that is closed at the visit, that the compression left out or    *)
(* that Jev dropped is in no course, whichever fallbacks were taken.        *)
NoDroppedPlace == drafts \subseteq ranked /\ ranked \subseteq compressed \cap open
=============================================================================
