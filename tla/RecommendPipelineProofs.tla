----------------------- MODULE RecommendPipelineProofs ----------------------
(***************************************************************************)
(* What holds of the deadline of a recommendation for every budget that    *)
(* satisfies the assumptions of RecommendPipeline.  The argument: at the   *)
(* start of every stage the request is behind its plan by at most the      *)
(* lateness of the event loop (OnPlan).                                    *)
(***************************************************************************)
EXTENDS RecommendPipeline, TLAPS

(* How far the request may be at the start of each stage.                   *)
OnPlan ==
    /\ stage = "compress" => now = 0 /\ late = 0
    /\ stage = "rerank" => now =< Retrieval + late
    /\ stage = "compose" => /\ now =< Deadline - MinLLM - MapReserve + late
                            /\ now =< Retrieval + RerankCap + late
    /\ stage = "gemini" => /\ until =< Deadline - MapReserve
                           /\ now =< until + late
                           /\ "gpu" \in called => now + GeminiReserve =< until + late
    /\ stage = "travel" => now =< Deadline - MapReserve + late

(* Which calls are still to come at each stage.                             *)
CallOrder ==
    /\ stage \in {"compress", "rerank", "compose"} => called \subseteq {"jev"}
    /\ stage = "gemini" => called \subseteq {"jev", "gpu"}
    /\ stage = "travel" => "map" \notin called

BudgetInv == /\ TypeOK /\ OnPlan /\ CallOrder
             /\ TimeoutMeansLate /\ SkippedMeansLate /\ LLMShares /\ MapShare

(* The budgets are integers, and those that are caps are positive.          *)
LEMMA Budgets ==
    /\ Timeout \in Nat /\ Retrieval \in Nat /\ RerankCap \in Nat /\ MinLLM \in Nat
    /\ GeminiReserve \in Nat /\ MapCap \in Nat /\ Safety \in Nat /\ MapReserve \in Nat
    /\ RerankCap > 0 /\ MinLLM > 0 /\ GeminiReserve > 0 /\ MapCap > 0
    /\ Safety > 0 /\ MapReserve > 0
    /\ MaxLate \in Nat
    /\ Deadline \in Int /\ Deadline = Timeout - Safety
    /\ Retrieval + MinLLM + MapReserve =< Deadline
    /\ MinLLM =< RerankCap
  BY BudgetAssumption, ShareAssumption, CountAssumption DEF Deadline

(* A wait ends by its budget plus what the loop is late by.                 *)
LEMMA WaitEnds ==
  ASSUME now \in Nat, late \in 0..MaxLate, NEW b \in Int, Wait(b)
  PROVE  \E n \in Nat, l \in 0..MaxLate :
            /\ now' = n /\ late' = l /\ l >= late
            /\ b >= 0 => n - l =< now - late + b
            /\ b < 0 => n - l =< now - late
<1>1. PICK lag \in 0..(MaxLate - late), d \in 0..(IF b < 0 THEN 0 ELSE b) :
        late' = late + lag /\ now' = now + d + lag
  BY DEF Wait
<1>2. now + d + lag \in Nat /\ late + lag \in 0..MaxLate
  BY Budgets
<1>3. /\ late + lag >= late
      /\ b >= 0 => (now + d + lag) - (late + lag) =< now - late + b
      /\ b < 0 => (now + d + lag) - (late + lag) =< now - late
  BY Budgets
<1> QED BY <1>1, <1>2, <1>3

LEMMA InitBudget == Init => BudgetInv
<1> SUFFICES ASSUME Init PROVE BudgetInv
  OBVIOUS
<1>1. PICK n \in 0..N : candidates = 1..n
  BY DEF Init
<1>2. candidates \subseteq 1..N
  BY <1>1, CountAssumption
<1>3. TypeOK
  BY <1>2, Budgets DEF Init, TypeOK, Remote
<1> QED BY <1>3, Budgets DEF Init, BudgetInv, OnPlan, CallOrder, TimeoutMeansLate,
        SkippedMeansLate, LLMShares, MapShare

(* The places that Rules and Parsed draft are places of the request.        *)
LEMMA DraftTypes ==
  ASSUME TypeOK
  PROVE  /\ Rules => drafts' \subseteq ranked /\ drafts' \subseteq candidates
         /\ Parsed => drafts' \subseteq ranked /\ drafts' \subseteq candidates
  BY DEF TypeOK, Rules, Parsed

LEMMA NextBudget == BudgetInv /\ [Next]_vars => BudgetInv'
<1> SUFFICES ASSUME BudgetInv, [Next]_vars PROVE BudgetInv'
  OBVIOUS
<1> USE Budgets DEF Deadline
<1>t. TypeOK
  BY DEF BudgetInv
<1>i. OnPlan /\ CallOrder /\ TimeoutMeansLate /\ SkippedMeansLate /\ LLMShares /\ MapShare
  BY DEF BudgetInv
<1>n. /\ now \in Int /\ late \in Int /\ until \in Int /\ late >= 0
      /\ share["gpu"] \in Int /\ share["gemini"] \in Int /\ share["map"] \in Int
  BY <1>t DEF TypeOK, Remote
<1>0. CASE UNCHANGED vars
  BY <1>0 DEF vars, data, BudgetInv, TypeOK, OnPlan, CallOrder, TimeoutMeansLate,
     SkippedMeansLate, LLMShares, MapShare
<1>1. CASE NoCandidates
  BY <1>1 DEF NoCandidates, EndEmpty, End, NoCall, data, BudgetInv, TypeOK, OnPlan,
     CallOrder, TimeoutMeansLate, SkippedMeansLate, LLMShares, MapShare
<1>2. CASE Compress
  <2> DEFINE b == MinOf(Retrieval, Left(now))
  <2>1. b \in Int /\ b =< Retrieval /\ b =< Deadline - now /\ b >= 0
    BY <1>2, <1>t DEF BudgetInv, OnPlan, Compress, MinOf, Left, TypeOK
  <2>2. PICK n \in Nat, l \in 0..MaxLate :
           /\ now' = n /\ late' = l /\ l >= late
           /\ n - l =< now - late + b
    BY <1>2, <1>t, <2>1, WaitEnds DEF Compress, TypeOK
  <2>3. compressed' \subseteq candidates
    BY <1>2, <1>t DEF Compress, FirstK, TypeOK
  <2>4. TypeOK'
    BY <1>2, <1>t, <2>2, <2>3 DEF Compress, TypeOK, TimedOut, End, Continue, data
  <2> HIDE DEF b
  <2>5. /\ stage = "compress"
        /\ UNCHANGED <<share, called, skipped>>
        /\ \/ stage' = "done" /\ outcome' = "llm_timeout" /\ now' >= Timeout
           \/ stage' = "rerank" /\ outcome' = outcome
    BY <1>2 DEF Compress, TimedOut, End, Continue
  <2>6. now = 0 /\ late = 0
    BY <1>i, <2>5 DEF OnPlan
  <2>7. n =< Retrieval + l /\ (n >= Timeout => l >= Safety)
    BY <1>n, <2>1, <2>2, <2>6
  <2>8. OnPlan'
    BY <2>2, <2>5, <2>7 DEF OnPlan
  <2>9. TimeoutMeansLate'
    BY <1>i, <2>2, <2>5, <2>6, <2>7 DEF TimeoutMeansLate
  <2>10. CallOrder'
    BY <1>i, <2>5 DEF CallOrder
  <2>11. SkippedMeansLate'
    BY <1>i, <1>n, <2>2, <2>5, <2>6 DEF SkippedMeansLate
  <2>12. LLMShares' /\ MapShare'
    BY <1>i, <2>5 DEF CallOrder, LLMShares, MapShare
  <2> QED BY <2>4, <2>8, <2>9, <2>10, <2>11, <2>12 DEF BudgetInv
<1>3. CASE NothingOpen
  BY <1>3 DEF NothingOpen, EndEmpty, End, NoCall, data, BudgetInv, TypeOK, OnPlan,
     CallOrder, TimeoutMeansLate, SkippedMeansLate, LLMShares, MapShare
<1>4. CASE SkipRerank
  <2>1. late + Retrieval + 2 * MinLLM + MapReserve > Deadline
    BY <1>4, <1>t DEF SkipRerank, RerankBudget, MinOf, Left, BudgetInv, OnPlan, TypeOK
  <2>2. TypeOK'
    BY <1>4, <1>t DEF SkipRerank, opened, Continue, NoCall, data, TypeOK
  <2> QED BY <1>4, <1>t, <2>1, <2>2 DEF SkipRerank, Continue, NoCall, BudgetInv, TypeOK, OnPlan,
     CallOrder, TimeoutMeansLate, SkippedMeansLate, LLMShares, MapShare
<1>5. CASE Rerank
  <2> DEFINE b == RerankBudget
  <2>1. b \in Int /\ b =< RerankCap /\ b =< Deadline - now - MinLLM - MapReserve /\ b >= 0
    BY <1>5, <1>t DEF Rerank, RerankBudget, MinOf, Left, TypeOK
  <2>2. PICK n \in Nat, l \in 0..MaxLate :
           /\ now' = n /\ late' = l /\ l >= late
           /\ n - l =< now - late + b
    BY <1>5, <1>t, <2>1, WaitEnds DEF Rerank, Call, TypeOK
  <2>3. ranked' \subseteq candidates
    BY <1>5, <1>t DEF Rerank, opened, TypeOK
  <2>4. /\ called' = called \cup {"jev"}
        /\ share' \in [Remote -> Int]
        /\ \A r \in Remote \ {"jev"} : share'[r] = share[r]
    BY <1>5, <1>t, <2>1 DEF Rerank, Call, TypeOK
  <2>5. /\ stage = "rerank"
        /\ UNCHANGED <<candidates, open, compressed, drafts, until, skipped>>
        /\ \/ stage' = "done" /\ outcome' = "llm_timeout" /\ now' >= Timeout
           \/ stage' = "compose" /\ UNCHANGED outcome
           \/ stage' = "done" /\ outcome' \in {"empty", "internal_server_error"}
    BY <1>5 DEF Rerank, TimedOut, Continue, End, EndEmpty, data
  <2> HIDE DEF b
  <2>6. TypeOK'
    BY <1>t, <2>2, <2>3, <2>4, <2>5 DEF TypeOK, Remote
  <2>7. /\ n =< Deadline - MinLLM - MapReserve + l
        /\ n =< Retrieval + RerankCap + l
        /\ n >= Timeout => l >= Safety
    BY <1>i, <1>n, <2>1, <2>2, <2>5 DEF OnPlan
  <2>8. OnPlan'
    BY <2>2, <2>5, <2>7 DEF OnPlan
  <2>9. TimeoutMeansLate'
    BY <1>i, <1>n, <2>2, <2>5, <2>7 DEF TimeoutMeansLate
  <2>10. CallOrder'
    BY <1>i, <2>4, <2>5 DEF CallOrder
  <2>11. SkippedMeansLate'
    BY <1>i, <1>n, <2>2, <2>5, <2>7 DEF SkippedMeansLate
  <2>12. LLMShares' /\ MapShare'
    BY <1>i, <2>4, <2>5 DEF CallOrder, LLMShares, MapShare
  <2> QED BY <2>6, <2>8, <2>9, <2>10, <2>11, <2>12 DEF BudgetInv
<1>6. CASE SkipCompose
  <2>1. late > 0
    BY <1>6, <1>t DEF SkipCompose, ComposeBudget, Left, BudgetInv, OnPlan, TypeOK
  <2>2. TypeOK'
    BY <1>6, <1>t, DraftTypes DEF SkipCompose, Continue, NoCall, data, TypeOK
  <2> QED BY <1>6, <1>t, <2>1, <2>2 DEF SkipCompose, Continue, NoCall, BudgetInv, TypeOK, OnPlan,
     CallOrder, TimeoutMeansLate, SkippedMeansLate, LLMShares, MapShare
<1>7. CASE AskGpu
  <2> DEFINE b == MinOf(GpuTimeout, ComposeBudget)
  <2>1. /\ b \in Int /\ b >= 0
        /\ b = Deadline - now - MapReserve - GeminiReserve
        /\ until' = Deadline - MapReserve
    BY <1>7, <1>t DEF AskGpu, GpuTimeout, ComposeBudget, MinOf, Left, TypeOK
  <2>2. PICK n \in Nat, l \in 0..MaxLate :
           /\ now' = n /\ late' = l /\ l >= late
           /\ n - l =< now - late + b
    BY <1>7, <1>t, <2>1, WaitEnds DEF AskGpu, Call, TypeOK
  <2>3. drafts' \subseteq candidates
    BY <1>7, <1>t, DraftTypes DEF AskGpu, Answered, TypeOK
  <2>4. /\ called' = called \cup {"gpu"}
        /\ share' \in [Remote -> Int]
        /\ share'["gpu"] = b
        /\ \A r \in Remote \ {"gpu"} : share'[r] = share[r]
    BY <1>7, <1>t, <2>1 DEF AskGpu, Call, TypeOK, Remote
  <2>5. /\ stage = "compose"
        /\ UNCHANGED <<candidates, open, compressed, ranked, skipped>>
        /\ \/ stage' = "done" /\ outcome' = "llm_timeout" /\ now' >= Timeout
           \/ stage' \in {"travel", "gemini"} /\ UNCHANGED outcome
    BY <1>7 DEF AskGpu, TimedOut, Answered, Continue, End, data
  <2> HIDE DEF b
  <2>6. TypeOK'
    BY <1>t, <2>1, <2>2, <2>3, <2>4, <2>5 DEF TypeOK, Remote
  <2>7. /\ now =< Deadline - MinLLM - MapReserve + late
        /\ now =< Retrieval + RerankCap + late /\ called \subseteq {"jev"}
    BY <1>i, <2>5 DEF OnPlan, CallOrder
  <2>8. /\ n + GeminiReserve =< Deadline - MapReserve + l
        /\ n =< Deadline - MapReserve + l
        /\ n >= Timeout => l >= Safety
    BY <1>n, <2>1, <2>2, <2>7
  <2>9. OnPlan'
    BY <2>1, <2>2, <2>5, <2>8 DEF OnPlan
  <2>10. TimeoutMeansLate'
    BY <1>i, <1>n, <2>2, <2>5, <2>8 DEF TimeoutMeansLate
  <2>11. CallOrder'
    BY <2>4, <2>5, <2>7 DEF CallOrder
  <2>12. SkippedMeansLate'
    BY <1>i, <1>n, <2>2, <2>5, <2>8 DEF SkippedMeansLate
  <2>13. b + l >= Deadline - Retrieval - RerankCap - MapReserve - GeminiReserve
    BY <1>n, <2>1, <2>2, <2>7
  <2>14. LLMShares' /\ MapShare'
    BY <2>2, <2>4, <2>7, <2>13 DEF LLMShares, MapShare
  <2> QED BY <2>6, <2>9, <2>10, <2>11, <2>12, <2>14 DEF BudgetInv
<1>8. CASE SkipGpu
  <2>1. until' = Deadline - MapReserve
    BY <1>8, <1>t DEF SkipGpu, ComposeBudget, Left, TypeOK
  <2> QED BY <1>8, <1>t, <2>1 DEF SkipGpu, Continue, NoCall, data, BudgetInv, TypeOK, OnPlan,
     CallOrder, TimeoutMeansLate, SkippedMeansLate, LLMShares, MapShare
<1>9. CASE AskGemini
  <2> DEFINE b == GeminiTimeout
  <2>1. b \in Int /\ b = until - now
    BY <1>9, <1>t DEF GeminiTimeout, TypeOK
  <2>2. PICK n \in Nat, l \in 0..MaxLate :
           /\ now' = n /\ late' = l /\ l >= late
           /\ b >= 0 => n - l =< now - late + b
           /\ b < 0 => n - l =< now - late
    BY <1>9, <1>t, <2>1, WaitEnds DEF AskGemini, Call, TypeOK
  <2>3. drafts' \subseteq candidates
    BY <1>9, <1>t, DraftTypes DEF AskGemini, Answered, TypeOK
  <2>4. /\ called' = called \cup {"gemini"}
        /\ share' \in [Remote -> Int]
        /\ share'["gemini"] = b
        /\ \A r \in Remote \ {"gemini"} : share'[r] = share[r]
    BY <1>9, <1>t, <2>1 DEF AskGemini, Call, TypeOK, Remote
  <2>5. /\ stage = "gemini"
        /\ UNCHANGED <<candidates, open, compressed, ranked, until, skipped>>
        /\ \/ stage' = "done" /\ outcome' = "llm_timeout" /\ now' >= Timeout
           \/ stage' = "travel" /\ UNCHANGED outcome
    BY <1>9 DEF AskGemini, TimedOut, Answered, Continue, End, data
  <2> HIDE DEF b
  <2>6. TypeOK'
    BY <1>t, <2>1, <2>2, <2>3, <2>4, <2>5 DEF TypeOK, Remote
  <2>7. /\ until =< Deadline - MapReserve /\ now =< until + late
        /\ "gpu" \in called => now + GeminiReserve =< until + late
        /\ called \subseteq {"jev", "gpu"}
    BY <1>i, <2>5 DEF OnPlan, CallOrder
  <2>8. /\ n =< Deadline - MapReserve + l
        /\ n >= Timeout => l >= Safety
    BY <1>n, <2>1, <2>2, <2>7
  <2>9. OnPlan'
    BY <2>2, <2>5, <2>8 DEF OnPlan
  <2>10. TimeoutMeansLate'
    BY <1>i, <1>n, <2>2, <2>5, <2>8 DEF TimeoutMeansLate
  <2>11. CallOrder'
    BY <2>4, <2>5, <2>7 DEF CallOrder
  <2>12. SkippedMeansLate'
    BY <1>i, <1>n, <2>2, <2>5, <2>8 DEF SkippedMeansLate
  <2>13. "gpu" \in called => b + l >= GeminiReserve
    BY <1>n, <2>1, <2>2, <2>7
  <2>14. share'["gpu"] = share["gpu"]
    BY <2>4 DEF Remote
  <2>15. LLMShares' /\ MapShare'
    BY <1>i, <1>n, <2>2, <2>4, <2>7, <2>8, <2>13, <2>14 DEF LLMShares, MapShare
  <2> QED BY <2>6, <2>9, <2>10, <2>11, <2>12, <2>15 DEF BudgetInv
<1>10. CASE Estimate
  <2>1. /\ stage' = "done" /\ outcome' \in {"courses", "empty"}
        /\ UNCHANGED <<now, late, candidates, open, compressed, ranked, drafts, until,
                       share, called>>
    BY <1>10 DEF Estimate, Assemble, End, EndEmpty, NoCall, data
  <2>2. /\ skipped' \in {skipped, skipped \cup {"map"}}
        /\ skipped' # skipped => late >= MapReserve
    BY <1>10, <1>t DEF Estimate, MapBudget, MinOf, Left, BudgetInv, OnPlan, TypeOK
  <2>3. TypeOK'
    BY <1>t, <2>1, <2>2 DEF TypeOK
  <2> QED BY <1>t, <2>1, <2>2, <2>3 DEF BudgetInv, TypeOK, OnPlan,
     CallOrder, TimeoutMeansLate, SkippedMeansLate, LLMShares, MapShare
<1>11. CASE Travel
  <2> DEFINE b == MapBudget
  <2>1. /\ b \in Int /\ b >= 0 /\ b =< Deadline - now
        /\ b = MapCap \/ b = Deadline - now
    BY <1>11, <1>t DEF Travel, MapBudget, MinOf, Left, TypeOK
  <2>2. PICK n \in Nat, l \in 0..MaxLate :
           /\ now' = n /\ late' = l /\ l >= late
           /\ n - l =< now - late + b
    BY <1>11, <1>t, <2>1, WaitEnds DEF Travel, Call, TypeOK
  <2>3. /\ called' = called \cup {"map"}
        /\ share' \in [Remote -> Int]
        /\ share'["map"] = b
        /\ \A r \in Remote \ {"map"} : share'[r] = share[r]
    BY <1>11, <1>t, <2>1 DEF Travel, Call, TypeOK, Remote
  <2>4. /\ stage = "travel" /\ stage' = "done"
        /\ UNCHANGED <<candidates, open, compressed, ranked, drafts, until, skipped>>
        /\ \/ outcome' = "llm_timeout" /\ now' >= Timeout
           \/ outcome' \in {"courses", "empty", "map_api_error", "internal_server_error"}
    BY <1>11 DEF Travel, TimedOut, Assemble, End, EndEmpty, data
  <2> HIDE DEF b
  <2>5. TypeOK'
    BY <1>t, <2>1, <2>2, <2>3, <2>4 DEF TypeOK, Remote
  <2>6. now =< Deadline - MapReserve + late
    BY <1>i, <2>4 DEF OnPlan
  <2>7. n >= Timeout => l >= Safety
    BY <1>n, <2>1, <2>2, <2>6
  <2>8. OnPlan' /\ CallOrder'
    BY <2>4 DEF OnPlan, CallOrder
  <2>9. TimeoutMeansLate'
    BY <2>2, <2>4, <2>7 DEF TimeoutMeansLate
  <2>10. SkippedMeansLate'
    BY <1>i, <1>n, <2>2, <2>4, <2>7 DEF SkippedMeansLate
  <2>11. b + l >= MinOf(MapCap, MapReserve)
    BY <1>n, <2>1, <2>2, <2>6 DEF MinOf
  <2>12. share'["gpu"] = share["gpu"] /\ share'["gemini"] = share["gemini"]
    BY <2>3 DEF Remote
  <2>13. LLMShares' /\ MapShare'
    BY <1>i, <1>n, <2>2, <2>3, <2>7, <2>11, <2>12 DEF LLMShares, MapShare
  <2> QED BY <2>5, <2>8, <2>9, <2>10, <2>13 DEF BudgetInv
<1> QED BY <1>0, <1>1, <1>2, <1>3, <1>4, <1>5, <1>6, <1>7, <1>8, <1>9, <1>10, <1>11 DEF Next

(* At the start of every stage a request is behind its plan by no more than *)
(* the lateness of the event loop, and the stages have had their shares.    *)
THEOREM BudgetInvariant == Spec => []BudgetInv
  BY InitBudget, NextBudget, PTL DEF Spec

(* The stages pass on lists of the request's own places only, and every     *)
(* share that is given to a call is a number (_recommend).                  *)
THEOREM TypeCorrect == Spec => []TypeOK
<1>1. BudgetInv => TypeOK
  BY DEF BudgetInv
<1> QED BY <1>1, BudgetInvariant, PTL

(* recommend_courses answers llm_timeout only when the event loop was late  *)
(* by the safety margin, for all budgets that satisfy the assumptions.      *)
THEOREM TimeoutIsLateness == Spec => []TimeoutMeansLate
<1>1. BudgetInv => TimeoutMeansLate
  BY DEF BudgetInv
<1> QED BY <1>1, BudgetInvariant, PTL

(* No stage is left out for lack of time unless the loop was late.          *)
THEOREM SkippingIsLateness == Spec => []SkippedMeansLate
<1>1. BudgetInv => SkippedMeansLate
  BY DEF BudgetInv
<1> QED BY <1>1, BudgetInvariant, PTL

(* The GPU, Gemini and the map API are given their shares.                  *)
THEOREM SharesAreKept == Spec => []SharesKept
<1>1. BudgetInv => SharesKept
  BY DEF BudgetInv, SharesKept
<1> QED BY <1>1, BudgetInvariant, PTL

-----------------------------------------------------------------------------
(* No course holds a place that an earlier stage left out.  What a stage    *)
(* has not filled yet is empty, so a later stage only narrows it.           *)
NarrowInv ==
    /\ NoDroppedPlace
    /\ stage = "compress" => ranked = {}
    /\ stage \in {"compress", "rerank", "compose", "gemini"} => drafts = {}

(* A course holds only places that the search found near, the open filter   *)
(* kept and the compression and the rerank named.                           *)
THEOREM DroppedPlacesStayOut == Spec => []NoDroppedPlace
<1>1. Init => NarrowInv
  BY DEF Init, NarrowInv, NoDroppedPlace
<1>2. NarrowInv /\ [Next]_vars => NarrowInv'
  <2> SUFFICES ASSUME NarrowInv, [Next]_vars PROVE NarrowInv'
    OBVIOUS
  <2>r. (Rules => drafts' \subseteq ranked) /\ (Parsed => drafts' \subseteq ranked)
    BY DEF Rules, Parsed
  <2>1. CASE UNCHANGED vars
    BY <2>1 DEF vars, data, NarrowInv, NoDroppedPlace
  <2>2. CASE NoCandidates \/ NothingOpen
    BY <2>2 DEF NoCandidates, NothingOpen, EndEmpty, End, data, NarrowInv, NoDroppedPlace
  <2>3. CASE Compress
    BY <2>3 DEF Compress, Continue, TimedOut, End, data, NarrowInv, NoDroppedPlace
  <2>4. CASE SkipRerank
    BY <2>4 DEF SkipRerank, opened, Continue, data, NarrowInv, NoDroppedPlace
  <2>5. CASE Rerank
    <3>1. /\ stage = "rerank" /\ stage' \in {"compose", "done"}
          /\ UNCHANGED <<open, compressed, drafts>>
          /\ ranked' \in {ranked} \cup SUBSET (compressed \cap open)
      BY <2>5 DEF Rerank, opened, Continue, EndEmpty, TimedOut, End, data
    <3> QED BY <3>1 DEF NarrowInv, NoDroppedPlace
  <2>6. CASE SkipCompose
    BY <2>6, <2>r DEF SkipCompose, Continue, data, NarrowInv, NoDroppedPlace
  <2>7. CASE AskGpu
    <3>1. /\ stage = "compose" /\ stage' \in {"gemini", "travel", "done"}
          /\ UNCHANGED <<open, compressed, ranked>>
          /\ drafts' = drafts \/ (drafts' \subseteq ranked /\ stage' = "travel")
      BY <2>7, <2>r DEF AskGpu, Answered, Continue, TimedOut, End, data
    <3> QED BY <3>1 DEF NarrowInv, NoDroppedPlace
  <2>8. CASE SkipGpu
    BY <2>8 DEF SkipGpu, Continue, data, NarrowInv, NoDroppedPlace
  <2>9. CASE AskGemini
    <3>1. /\ stage = "gemini" /\ stage' \in {"travel", "done"}
          /\ UNCHANGED <<open, compressed, ranked>>
          /\ drafts' = drafts \/ (drafts' \subseteq ranked /\ stage' = "travel")
      BY <2>9, <2>r DEF AskGemini, Answered, Continue, TimedOut, End, data
    <3> QED BY <3>1 DEF NarrowInv, NoDroppedPlace
  <2>10. CASE Estimate \/ Travel
    <3>1. stage' = "done" /\ UNCHANGED <<open, compressed, ranked, drafts>>
      BY <2>10 DEF Estimate, Travel, Assemble, EndEmpty, End, TimedOut, data
    <3> QED BY <3>1 DEF NarrowInv, NoDroppedPlace
  <2> QED BY <2>1, <2>2, <2>3, <2>4, <2>5, <2>6, <2>7, <2>8, <2>9, <2>10 DEF Next
<1>3. NarrowInv => NoDroppedPlace
  BY DEF NarrowInv
<1> QED BY <1>1, <1>2, <1>3, PTL DEF Spec
=============================================================================
