# Verification of the KeepGo AI server

TLA+ models of the AI server of KeepGo (FastAPI, one asyncio process), model-checked with TLC,
with theorems about the core modules checked by TLAPS. The models are translated from the code
under `src/app`; docs and comments only supply the promises that are checked.

A backend (another repository) is the only client. It sends video links to be turned into places,
place summaries to be indexed, chat turns, and requests for outing courses. It retries what is
answered as failed and never what is answered as not found, so most of what can go wrong here is
one of: a failure answered as an absence, an absence answered as a failure, an answer that
describes work which ran on, and a slot, task or registry entry which is left behind.

## 1. The system

| Component | State | Operations | Works with |
|---|---|---|---|
| Batch video analysis, `services/analyze_video.py` | three semaphores of the process; per request a task per group, video and place | `analyze_videos`, `_process_group`, `_observe_group`, `_extract`, `_finish_video`, `_verify`, `_verify_in_slot` | Gemini, the GPU model, place verification, Jev |
| Place verification, `services/verify_place.py`, `verify_place_parser.py` | none but its own coroutine | `verify_place`, `_search_and_parse`, `parse` | Gemini search, map API; called by the batch under a slot |
| Cancellable recommendation, `recommend_courses.py` (`run_cancellable`, `cancel`) | registry `_running`: id to task | start, end, cancel | the endpoint, clients that go away |
| Recommendation pipeline, `recommend_courses.py` (`_recommend`) | a deadline per request; the cache of category vectors | compress, rerank, compose, travel times, each with a fallback | vector index, Jev, GPU then Gemini, map API |
| Opening hours, `schemas/business_hours.py`, `_is_closed` | none; the backend stores the hours | read from text, repair, judge | the parser writes them, the backend cuts and returns them, the rerank filters by them |
| Vector index, `services/embed_places.py`, `retrieval/chroma_store.py` | the Chroma collection on disk | embed, delete, search, look up | embedding model, worker threads, the pipeline |
| Chat slots, `services/extract.py`, `slot_datetime.py`, `slot_merge.py` | none; slots travel with the request | one turn: extract, resolve the date, merge | GPU then Gemini, map API |
| Course builder, `services/course_builder.py`, and course assembly, `_compose`, `_travel_times`, `_assemble` of `recommend_courses.py` | a task per far leg | order, estimate, cut to the time, rule-based groups; choose the courses | the end of the pipeline; map API |
| Model access, `models/factory.py` | none | `invoke_gpu_first`, `wake_gpu`, `to_domain_error` | all services |
| Map and Jev clients, `integrations/` | none | geocode, reverse geocode, directions; classify with three attempts | all services |
| HTTP layer, metrics and reports, `main.py`, `core/metrics.py`, `core/logging.py` | counters; time and count per throttled report | middleware, error handlers, lifespan, reports | all endpoints |
| GPU service, `infra/modal/gemma.py` | another process | serves the model | seen from here as calls |

Everything runs on one event loop: a step is the code between two awaits, and what can interleave
is what the awaits separate. Only Chroma calls leave the loop (worker threads). The semaphores,
the registry, the index and the vector cache are shared by all requests; everything else belongs
to one.

**The hard behaviours** (`PROJECT.json`, "hazards", has them by line): two tasks of one place that
race and cancel each other while one may wait for a slot or hold it; exceptions that go up through
`gather` while siblings run on; a second call with the id of the first; a cancelled task and a
cancelled handler, told apart at the same await; budgets computed from what is left of a deadline;
far legs asked of the map API side by side, one of which may fail while the budget runs out; index
calls of several requests in between each other; hours that make a round trip through a backend
which cuts them at midnight; responses that fail before, while or after they are sent.

**What makes each component correct**

- *Batch*: the limits hold for the process; every request is answered; `failed` if and only if a
  call for that video failed for good or its group crashed; only verified places are published; no
  work runs on for a decided video; every slot comes back.
- *Verification*: absent means absent, never an outage or an unreadable text; the first candidate
  is the first one of the text that has an address; nothing is left running.
- *Cancellation*: the endpoint finds the newest live call of an id and nothing else; an answer says
  "cancelled" exactly when the endpoint cancelled; handlers end, each after its own task.
- *Pipeline*: the outer timeout never fires as long as the loop is on time; later stages keep the
  shares that the configuration promises; places that were dropped stay out.
- *Hours*: the verdict agrees with the hours and the notices as they were written.
- *Index*: what was answered last is what it holds, for each id.
- *Chat slots*: a turn changes what was said and nothing else, in whatever order date and time are
  said; an origin that cannot be found is not replaced by an old one.
- *Course assembly*: a course fits the available time and its times add up; no course is within
  another; courses of the rules come out as they were planned; answers of the map API count, on
  their own leg; calls that are late are told to stop.
- *HTTP layer and reports*: the metrics say what the clients were told; an exception is in the
  error log also when no status can show it; the throttled reports add up and come on time.

## 2. The modules

| Module | Models | Runs (cfg) | Proofs |
|---|---|---|---|
| `AnalyzeVideo` | tasks, semaphores and answers of batch requests | analyze_places, analyze_groups | `AnalyzeVideoProofs` |
| `AnalyzeContract` | abstract: what a batch request promises | refined by `AnalyzeVideo` (`Contract`) | `AnalyzeVideoProofs` |
| `RecommendCancel` | handlers, tasks and the registry | recommend_cancel | `RecommendCoursesProofs` |
| `RecommendPipeline` | one recommendation against its deadline | recommend_budget | `RecommendPipelineProofs` |
| `CourseBuilder` | the computations on places and times | through `CourseAssembly` | `RecommendCoursesProofs` |
| `CourseAssembly` | drafts, legs and courses of one recommendation | course_assembly | `RecommendCoursesProofs` |
| `EmbedStore` | index requests, their Chroma calls, restarts | embed_store | `EmbedStoreProofs` |
| `VerifyPlace` | one verification with its geocode tasks | verify_place, verify_unreadable | `VerifyPlaceProofs` |
| `OpeningHours` | hours and notices from the text to the verdict | opening_hours, closed_day | `OpeningHoursProofs` |
| `ChatTurn` | the date, time and origin of a chat over its turns | chat_turns | `ChatTurnProofs` |
| `RequestEdge` | requests between the layers of the framework; metrics and reports | request_edge | `RequestEdgeProofs` |
| `MCAnalyzeVideo`, `MCRecommendCancel`, `MCEmbedStore`, `MCChatTurn`, `MCOpeningHours`, `MCCourseAssembly`, `MCRequestEdge` | values of CONSTANTS for TLC, symmetry | | |

How they fit together: `VerifyEnd` of `AnalyzeVideo` is one verification as `VerifyPlace` models it
(`absent`, a value with or without hours, or a failure), and `VerifyCancelled` is its outcome
`cancelled`. `TaskEnds` of `RecommendCancel` is one run of `RecommendPipeline`, whose stages compose
and travel are `CourseAssembly` seen by the clock: the one has the deadline, the other the places,
legs and courses. `opened` of `RecommendPipeline` is the set of places that `OpeningHours` does not
judge closed. `GpuFails` of `RequestEdge` is the way from the GPU to Gemini in `invoke_gpu_first`.
The components share no other state, so they are checked one by one; `AnalyzeVideo` composes groups,
videos, places and requests in one module, for these share the semaphores.

### AnalyzeVideo

| State | Code |
|---|---|
| `batchFree`, `gpuFree`, `verifyFree` | `_BATCH_SLOTS`, `_GPU_SLOTS`, `_VERIFY_SLOTS` |
| `group`, `video`, `place` | coroutines of `_process_group`, `_finish_video` with `_extract`, `_verify` |
| `vtask`, `ctask` | `verify_task` and `category_task` of `_verify`; `queued` waits for a slot, `stopping` was told to cancel and has not run since |
| `observed`, `code`, `attempts`, `placeCode` | what `_observe_group` found, the code of the last failure, Gemma calls so far, the code of a failed place |
| `result`, `response` | what `_finish_video` returned, the items that were sent |

An action is the code from one await to the next: `StartObserve` takes the slot, `ObserveRead`,
`ObserveFailed` and `ObserveCrash` are the ways out of it; `GpuStart`, `GpuFail`, `GpuDone` and
`VideoCrash` are one attempt of `_extract`; `PlaceFailed` is the return of `asyncio.wait` with a
failed task and both `cancel()` calls; `VerifyCancelled` and `CategoryCancelled` are the delivery
of a cancellation; `GroupCrashed` is `gather` raising while siblings run on; `Respond` is the outer
`gather(return_exceptions=True)`. `MayCrash` allows the exceptions that no handler expects.

### RecommendCancel

`handler` and `task` are the endpoint's coroutine and the task `run_cancellable` creates; `running`
is `_running`; `dropped` is `current_task().cancelling() > 0`; `asked` and `newest` are history. A
step is `Enter` (create and register), `TaskEnds`, `Resume` (the handler gets the outcome, runs
`finally`, answers), `Drop` (the handler is cancelled from outside and passes it on), `Cancel`. `TaskEndsFirst` speaks of the
task that `run_cancellable` made and of no other: what that task has started itself may run on, as
the legs of `_travel_times` do (`Interrupt` of `CourseAssembly`).

### RecommendPipeline

`now` counts ticks since the request came; `Wait(budget)` is a wait that ends at any tick up to its
budget or later by a lateness that `late` sums up. One action per stage and way out of it, in the
order of `_recommend`; `AskGpu`, `SkipGpu` and `AskGemini` are `invoke_gpu_first`. `share`,
`called` and `skipped` are history. Which places are near, open, good or named by the model is a
nondeterministic choice, so the properties hold for every answer of the services. A fallback that
takes computing time shows as lateness.

### CourseBuilder and CourseAssembly

`CourseBuilder` has the operators of `course_builder.py` and no state. Places lie on a line: the
code uses coordinates only through great-circle distances, and along one line these add up. Distances
are whole metres and rounding is half up; Python rounds halves to even and the positions of the
instance give none. What the code computes by loops is given by recursive functions over the number
of steps; `Fitting` is the longest front that fits, which is what taking places off the end leaves.

`CourseAssembly` takes the answer of the model (`Compose`: `FromModel`, else `FromRules`), puts each
draft in order (`plans`) and starts a task per far leg (`leg`), or none when no time is left for the
map API. `LegEnds` is one answer, in any order; `Assemble` is the return of `asyncio.wait`, by the
end of all legs or of the budget, with `cancel()` on those that run, the error of a failed
one, and the choice of courses. A leg that was told to stop is `stopping` until `LegCancelled`, its
own next step, so the answer may go out before it has ended. `Interrupt` is a cancellation of the
request meanwhile: `asyncio.wait` does not cancel what it waits for, so these legs run on until they
end by themselves. No property says that no call is left: after `Interrupt` some are. Titles and
match scores are left out.

### EmbedStore

`store` maps an id to the request whose vector it holds, and to the number of the summary in it.
`latest` and `ids` are what `_prepare` keeps of the list. `Upsert`, `DeleteLook` and `DeleteStore`
are the Chroma calls, each atomic, as the steps between which threads interleave. `Restart` loses
all requests and keeps `store`. `before`, `asked` and `removed` are history.

### VerifyPlace

`text` is an abstract search result: a verdict line and a list of blocks, each complete, with an
empty field, not in the form, or with a date that no calendar has. `Parse` says what the parser
makes of it. `geo` is the tasks of `gather`; `Interrupted` is the timeout or the caller's
cancellation, at any await. When a geocode call has failed already, `gather` may have ended and its
tasks be out of reach; `StopCalls` allows both.

### OpeningHours

`week` and `exceptions` go through `Publish` (`_hhmm`, and the notices of past dates are dropped),
`Store` (the backend: external; it keeps the weekly hours or cuts them at midnight, as the comment
of `_merge_split_midnight` reports it; of notices the comment says nothing, so they are kept),
`Receive` (`_merge_split_midnight`) and `Judge` (`_is_closed`). `hours` and `notices` keep what the
text said, against which the verdict is judged. Only two dates matter for a visit, its own and the
one before. The search prompt makes 00:00-23:59 the form of a place that never closes; other ranges
of a whole day are not in `TextRanges`.

The comment does not say what becomes of the rest of a night when nothing is known of the next
weekday (null): that day may stay unknown or be filled with the rest alone, so `CutWeek` has both.
A filled day looks known to `_is_closed`, which then judges a place closed on a day of which the
text says nothing, against its docstring (`recommend_courses.py:227`) and the meaning of null
(`business_hours.py:52`). `RestOnUnknownDay` names these days, and `LeftOutMeansClosed` allows a
verdict there; whether they occur is for the backend to say.

When the backend has cut the regular night between two dates and a notice stands for one of them,
the code has lost track of the night: a notice for the second date hides its rest, a notice for the
first leaves it. `NightUnknown` names these hours, and the two properties leave them out.

### ChatTurn

`slot` is what the backend holds and sends again with every turn; `depart` is what the regular
expression of `slot_datetime.py:19` finds in `prev_query`. `Turn` is one call of `extract`: the
expression, time and origin that the model copied are a free choice, `ResolveDate` is
`_resolve_date`, `Visit` is `resolve_visit` followed by the merge, `Origin` the merge and the reset
after it. `Departs` is what the rules of the prompt let the model write into the query. `lastDate`,
`lastTime` and `wanted` are history: what the user meant by the rules at the head of
`slot_datetime.py`, not what the code computed. `NextDay` lets the date of the request advance
between turns. `Calendar` gives each day its year and its month and day, some of them leap days.
`far` notes a turn that names a 29 February further away than the next year: line 33 searches two
years only, so the date of an earlier turn stays, or none, though line 8 of the file promises the
nearest such date. `DateAsSaid` leaves these turns out.

### RequestEdge

`at` is where a request is on its way through the layers: from the outside `ServerErrorMiddleware`
(external), `MetricsMiddleware`, the exception handlers, router and endpoints. `Answer`, `Fail` and
`Raise` are the ways out of an endpoint; `Start` notes the status and hands the start of the
response on, `Begun` is when it is on the wire, and `Complete` when the body is, with `Raise` and
`Cancel` possible before, between and after; `Record` leaves the middleware. `wire`, `cut`, `failed`
and `seen` are history: what the client got, whether a send was cut off in progress, whether
an exception has left the endpoint or come of a send, and whether it is in the error log. `Routes`
has one path of each kind: without metrics, without a route, failures answered with a status of
their own, failures answered 200. `ExceptionSeen` is about exceptions that go up through the layers.
Failures that an endpoint catches and answers itself (`AIServerError`, the 200 `recommend_failed`,
the failed items of `/v1/analyze-video`) are reported, where they are, by the statement before the
answer; no property speaks of them. `GpuFails` is a throttled report: `lastReported` is `_last_reported`,
`told` and `reportedAt` are history.

## 3. What is checked

All bounds are in the `.cfg` files. Deadlock is checked in every run but those of
`RecommendPipeline`, `OpeningHours` and `CourseAssembly`, which model one computation that stops
when it is done, and of `RequestEdge`, whose time ends at its bound. The other modules have an
`Idle` step which is enabled only when all work has ended, so TLC reports a task that waits for
ever.

| Run | Instance | States | Shows |
|---|---|---|---|
| analyze_places | 1 video, 2 places, 1 verification slot, 2 attempts, crashes, fair | 29,906 | `TypeOK` with the attempts bound; `FaultsReported`, `PublishedPlacesVerified`, `NoWorkLeft` in every order of answers, failures and cancellations; `NoSearchForFailedPlace`; `EveryRequestAnswered` and `SlotsReturned`, also after crashes that leave tasks without a parent |
| analyze_groups | 1 request, 2 groups, 3 videos, 1 slot of each kind | 844,491 | `SlotsConserved` across groups, and the refinement `Contract` |
| recommend_cancel | 3 calls with one id, 1 without, 1 unused id, fair | 244,405 | `RegistryLive`, `NewestCancellable`, `CancellationTold`, `TaskEndsFirst`, `EveryCallEnds` |
| recommend_budget | 2 candidates, top 1, deadline of 16 ticks, lateness up to 9 | 1,031,954 | `TypeOK`, `TimeoutMeansLate`, `SkippedMeansLate`, `SharesKept`, `NoDroppedPlace` |
| course_assembly | 4 places, up to 3 drafts, 2 courses of 3 places | 358,272 | `CoursesFit`, `ChoicesDiffer`, `FallbackWhole`, `MapAnswersCount` |
| embed_store | 2 ids, 2 embeds, 2 deletes, 1 restart, symmetric | 2,990,061 | `LastAnswerHolds`, `CountExplained` |
| verify_place | up to 3 candidates, 2 searches | 7,627 | `AbsentMeansAbsent`, `FirstIsBest`, `CallsStopped`, the bound on searches in `TypeOK` |
| opening_hours | 3 weekdays of 12 kinds, 4 ticks a day, notices for 2 dates | 1,638,144 | `LeftOutMeansClosed`, `ClosedIsLeftOut` |
| chat_turns | 4 days, weeks of 3 days, a leap day every third year, 3 times, 2 origins, symmetric | 2,505 | `DateAsSaid`, `TimeAsSaid`, `OriginAsSaid`, `OriginKept` |
| request_edge | 2 requests, 4 routes, 4 ticks, window of 2, 3 failures of a key, symmetric | 1,536,793 | `CountedAsSent`, `ExceptionSeen`, `FaultsTold`, `ReportsOnTime` |
| verify_unreadable | as verify_place | | finding 1 |
| closed_day | as opening_hours | | finding 2 |

**Why these bounds are enough.** A race needs two tasks and one slot: two places give the two
kinds of tasks, a queue and a holder; two groups with two videos in one of them a sibling that is
abandoned while another group runs. Requests share nothing but the slots, and what holds of the
slots is proved for any number. Three calls with one id give an overwritten entry whose owner is
overwritten in turn. The deadline needs the order of the budgets and not their sizes: the values
keep the relations of `config.py` (`ShareAssumption`), with room for a stage which takes all it
may, and the proofs cover every other size. Four places on a line give walks and drives, ways back
and ties; three drafts with room for two courses give one that is alike, one that does not fit and
one that takes its room; among them are repeated and unknown places, too many, and stays of zero;
visits are in the morning and late enough to pass midnight. A delete and an embed need one rival
each; a second id tells a lost write from a misplaced one. Three candidates are the least with a
first, a best and a failed one. Three weekdays tell today from yesterday and tomorrow; four ticks
have a midnight, a last minute, and two times between them. A chat is checked over any number of
turns: its slots are few, and the days end at the fourth, so that today is every weekday and the
week changes; with two or three days to a year a date can lie in this year, in the next one, or
beyond both. Two requests make a sum that is not its only summand; three failures in a window of
two ticks give two reports with skipped ones between them.

**Fairness.** `AnalyzeVideo` and `RecommendCancel` assume weak fairness of each task: the event
loop runs every ready task, and each external call has a timeout (`TIMEOUT_*`, the per-attempt limit
of Jev, the HTTP client's limit). A wait for a slot is weakly fair only while a slot stays free;
that is enough, since the work of an instance is finite and every holder gives its slot back. The
arrival of requests, cancellations and crashes is not assumed. No other module claims liveness.

Each property has a mutant in `PROJECT.json` that breaks it: a changed definition of the code's
model, kept beside the definition in the module under a comment "Mutant of".

### Findings

1. `UnreadableIsInvalid` (`verify_place_parser.py:63`): a date that no calendar has raises a
   `ValueError` that is not a `ParseError`, so there is no second search and the verification ends
   as `internal_server_error`. The parser's docstring promises `ParseError` and
   `verify_place.py:55` a second search, then `llm_invalid_response`.
2. `ClosedDayIsLeftOut` (`recommend_courses.py:232`): a closed day after a night of opening past
   midnight comes back from the backend with the rest of the night, so its list is not empty and
   the place is kept on a visit without a time. The comment in line 231 says that closed days are
   left out. It rests on the backend's behaviour as the comment of `_merge_split_midnight` reports
   it.

## 4. What is proved

TLAPS checks these for every value of the constants that the named assumptions allow.

| Theorem | Says | Rests on |
|---|---|---|
| `TypeCorrect` of `AnalyzeVideoProofs`, `NoWorkIsLeft`, `NoSearchStarts` | `TypeOK`, `NoWorkLeft`, `NoSearchForFailedPlace` | `IndInv` |
| `SlotsAreConserved` | `SlotsConserved` | `IndInv` and one counting lemma per semaphore |
| `FaultsAreReported` | `FaultsReported` | `IndInv`, `EvidenceInv`, `FaultInv`, `DecidedInv`, `AnswerInv` |
| `PlacesAreVerified` | `PublishedPlacesVerified` | `IndInv`, `VerdictInv`, `PublishInv` |
| `ImplementsContract` | `Spec => Contract` | `IndInv`, `DecidedInv` |
| `TypeCorrect` of the other proof modules, `SearchesAreBounded`, `HoursTyped`, `CoursesTyped` | the type invariants of these modules | their inductive invariants |
| `RegistryIsLive`, `NewestIsCancellable`, `CancellationIsTold`, `TasksEndFirst` | the invariants of `RecommendCancel` | its `IndInv` |
| `TimeoutIsLateness`, `SkippingIsLateness`, `SharesAreKept` | the deadline properties of `RecommendPipeline` | `BudgetInv` |
| `DroppedPlacesStayOut` | `NoDroppedPlace` | `NarrowInv`: nothing is ranked before the compression, nothing drafted before the composition |
| `AnswersHold` | `LastAnswerHolds` | `BaseInv`, `HoldsInv`, `PrepareKeepsLast` |
| `CountsAreExplained` | `CountExplained` | `BaseInv`, `FoundInv` |
| `FaultsAreTold`, `ReportsAreOnTime`, `ExceptionsAreSeen` | `FaultsTold`, `ReportsOnTime`, `ExceptionSeen` | `IndInv` of `RequestEdgeProofs` |
| `MetricsAreTrue` | `CountedAsSent` | `WireInv`, `CountInv`, `SumCounts` |
| `OutagesAreNotAbsence`, `OrderOfTextWins`, `NoCallIsForgotten` | `AbsentMeansAbsent`, `FirstIsBest`, `CallsStopped` | `StageInv`, `FinishedInv`, `SettledInv`, `LocatedFirst` |
| `OpenPlacesStay`, `ClosedPlacesGo` | `LeftOutMeansClosed`, `ClosedIsLeftOut` | `WrittenInv`, `HoursInv`, `JudgedAsSaid`, `JudgedCut` |
| `DatesAreMeant`, `TimesAreKept`, `NoOldOrigin`, `OriginsAreKept` | `DateAsSaid`, `TimeAsSaid`, `OriginAsSaid`, `OriginKept` | `DateMeant`, `QueryInv`, `OriginIs` |
| `CoursesAddUp`, `FallbackIsWhole` | `CoursesFit`, `FallbackWhole` | `CourseInv`, `BuiltFits`, `RulesAreWhole` |
| `ChoicesAreDifferent` | `ChoicesDiffer` | `CourseInv`, `ChosenIs` |
| `AnswersAreUsed` | `MapAnswersCount` | `PhaseInv`, `AnswerInv` |

**The batch** (`AnalyzeVideoProofs`, assumption `AnalyzeAssumption`: finite sets of groups and
videos, total maps, at least one slot and attempt). None of the properties is inductive alone. A
cancellation is safe only because tasks work for a place under verification and for no other
(`PlaceInv`), because a video that may still call Gemma has no place yet (`VideoInv`), and because
a group that has not been read has started no video (`UnreadInv`). `SlotsConserved` counts holders:
an action adds or removes one member of a finite set, by `HolderAdded` and `HolderRemoved`; that
`stopping` is a holder and `dropped` is not is what the cancellation has to get right. For
`FaultsReported`, the evidence of a failure never disappears (`FaultStable`), and what
`_finish_video` decides agrees with it at that moment (`FaultDecided`). For
`PublishedPlacesVerified`, the verdict on a place is what its two tasks ended with (`VerdictInv`),
these values stay (`ConfirmedStable`), and the result of a decided video has the confirmed places
and no other (`PublishInv`).

**The contract** (`AnalyzeVideoProofs`). The refinement maps the verdict of a video to its
outcome once its group has ended, and to "pending" before. `GroupDone`, `GroupCrashed` and
`ObserveCrash` are `Settle`, `Respond` is `Send`, every other step stutters (`OtherSteps`), among
them those of abandoned videos of a crashed group, whose outcome is fixed.

**The registry** (`RecommendCoursesProofs`, assumption `CancelAssumption`). `TaskInv` ties the task
to its handler and says why a task is cancelled: its handler was, or the endpoint asked.

**The deadline** (`RecommendPipelineProofs`, assumptions `CountAssumption`, `BudgetAssumption`,
`ShareAssumption`). The argument is a plan: at the start of every stage the request is behind it by
at most the lateness of the loop (`OnPlan`). `WaitEnds` is the one lemma about time. The assumption
`ShareAssumption` is what the values of `config.py` satisfy: the search's budget, the least of an
LLM call and the map's reserve fit into the deadline.

**The index** (`EmbedStoreProofs`, assumption `EmbedAssumption`). `PrepareKeepsLast` says what the
loop of `_prepare` computes for every list: since induction over data is out of the prover's reach,
the proof takes the least number of places at which the loop has gone wrong (`LeastNumber`, from the
well-foundedness of `<`) and refutes it. `LastAnswerHolds` speaks of answered requests, but what
keeps it true is `HoldsInv`: from the moment a request has settled an id (written it, or found that
it is not there: `Settled`), the index holds what the request says, as long as it has no rival. By
`Writes` only two steps change the index, each on its own ids; whoever takes one has not ended, so
by `BeforeInv` it is a rival. `Settles` lists the steps by which an id becomes settled. For
`CountExplained`, an id that a delete found stays in the index until it is taken out, or a delete
that overlaps takes it (`FoundInv`, `TakenOut`), and that explanation stays (`ExplainedKept`).

**The edge** (`RequestEdgeProofs`, assumption `EdgeAssumption`). The throttle remembers the time of
its last report (`ReportInv`), and `FaultsTold` is inductive with it. An exception that is not in
the log yet is of a request on its way to the layer that logs it (`OnTheWay`); the layers' order
decides that it gets there (`ExceptionInv`). For `CountedAsSent`, what the middleware noted is what was sent, or was about
to be sent when the send was cut off (`WireInv`), and each counter is the number of requests that
were recorded under its labels (`CountInv`); `SumCounts` adds these up over the statuses of a path,
by removing one label after another from the least set for which the sum would be wrong.

**Verification** (`VerifyPlaceProofs`, assumption `VerifyAssumption`). `LocatedFirst` says what the
loop over the candidates keeps: those that have coordinates, in the order of the text and not in
the order the calls end. Around it, a stage determines which variables are set (`StageInv`), and
whoever has an answer has waited for every call (`SettledInv`), so no failure is among the calls of
an answer `absent`.

**Hours** (`OpeningHoursProofs`, assumption `HoursAssumption`). `HoursInv` follows the hours through
the round trip: published they are the ranges of the text on the clock (`Regular`), stored these or
their pieces cut at midnight (`Stored`), received these or the pieces without the empty ones
(`Cut`): ranges that end at midnight, and the rests of the nights on the next day; both for a
backend that leaves unknown days alone and for one that fills them (`filled`). The verdict is
compared with the text three times: a range on the clock covers the ticks of the range as written,
by cases on where it lies to midnight (`ClockCovers`), and so do its two pieces (`PartsCover`,
`CutCovers`); then a day with its notice and the night before (`JudgedAsSaid`, `JudgedCut`); then a
visit with or without a time (`Verdict`). `NightUnknown` is needed only where the hours were cut and
a notice stands for one of the two dates, and `RestOnUnknownDay` only where the text is silent and
the day was filled by the night before (`FilledByNight`).

**Chat slots** (`ChatTurnProofs`, assumption `ChatAssumption`: the days are numbered, the years do
not fall, and the calendar reaches two weeks past the last day of a request). The week is
arithmetic: a day is a Monday and less than a week (`HasWeek`), a weekday is met once in any week
(`DayOfWeek`), and a weekday on its own is the next one after today (`AloneIsNext`). `DateMeant`
puts these together with the month and day: what `_resolve_date` finds is the least day that is
meant, or the date is too far. Then `DateAsSaid` and `TimeAsSaid` are inductive with `QueryInv`: a
time found again in the query is the time said last. Whether date or time is said first, the other
one is taken from there.

**Courses** (`RecommendCoursesProofs`, assumptions `BuilderAssumption` and `AssemblyAssumption`:
stays are integers, limits and times natural numbers, or there is none). The module first shows that a
recursive function over the number of steps exists and has its values (`RecursionExists`); every
loop of the builder is one, and gets a lemma that says what it computes:

- `TotalAdds`, `TotalCompare`: the time of a course adds up, and grows with its stays and legs;
- `FittingIs`, `StopIs`, `BuiltFits`: the cut keeps the longest front that fits the time, with
  arrivals that follow from stays and travel on a clock of a day;
- `IsChoice`, `ChosenIs`: of the plans that fit, those not within an earlier one are kept, until the
  courses are enough;
- `NearestIs`, `TourIs`, `OrderIs`: the order of visits is made of places, the nearest next, and
  keeps a list in which every place already is the nearest of those after it;
- `GrowIs`, `GroupsAre`, `FromRulesIs`: the groups of the rules are disjoint if the candidates are
  different, fit the time by the estimate, and each member is the nearest to the one before of all
  that come after it.

The invariant `CourseInv` then says who has drafted, which legs have been asked, and what an answer
is made of. `FallbackWhole` is where three counts of time must agree: `RulesAreWhole` shows that a
group in the order it was grown is already in the order of visits, and that legs no longer than
their estimate cannot make the cut take a place off what `rule_based_groups` admitted. It needs
candidates that are different, which `AssemblyAssumption` says of the ranked ones:
`recommend_courses.py:438` has removed repeated ids before anything is ranked.

## 5. What is only model-checked, and what is not modelled

The liveness properties (`EveryRequestAnswered`, `SlotsReturned`, `EveryCallEnds`) stay with TLC:
liveness under fairness is out of the prover's reach. Every other property that a passing run checks
is stated by a theorem. The two properties of the findings are false, so TLC has the last word on
them too.

The type invariants of `RecommendCancel`, `EmbedStore`, `RequestEdge`, `OpeningHours`, `ChatTurn` and
`CourseAssembly` are proved, and no run repeats them. What the theorems do not say is what the
modules leave out.

Abstractions that bound what the results say:

- External services are any answer or failure; their texts, scores and vectors are left out.
- Semaphores hand a free slot to any waiter; asyncio's are first in, first out. No property depends
  on the order.
- `ChatTurn` leaves out region, available time and categories, which are copied or kept by the same
  merge, and assumes that the model follows the rules of its prompt when it writes the query.
- `RecommendPipeline` keeps the cut to the first `RECOMMEND_TOP_K` before the open filter: a request
  may be answered empty with open places behind the cut, and no property says otherwise.
- `CourseAssembly` has places on a line, whole metres, and a few drafts in place of every answer of
  a model.
- `OpeningHours` drops the notices of past dates as `_to_business_hours` does and takes what is left
  as what the text says: a notice of yesterday is forgotten for the hours after midnight.
- `VerifyPlace` leaves out the fields of a candidate, with the request's own event dates.
- `RequestEdge` has one throttled key per endpoint, and leaves out the lifespan, which starts and
  stops the listener of the metrics.
- `EmbedStore` has no cancellation of a handler: a call that is on a thread then
  (`embed_places.py:65` and `92`) would run on after its request has ended and could still write.
  `LastAnswerHolds` says nothing of that case.
- The liveness run of `AnalyzeVideo` has one request with one video: it shows that its own tasks,
  which need up to two kinds of slot, get them and give them back. Of several requests it says
  nothing; that a task holds at most one slot at a time is seen in the actions.
- `AnalyzeVideo` does not model an exception in making the `VerifyPlaceRequest`
  (`analyze_video.py:177`): its fields come from a `VideoAnalysis` that has been validated already.
- A group that crashes (`analyze_video.py:309`) becomes failed items of a
  200 answer without an error log, though `logging.py:12` counts failed videos among the failures
  that are reported. `AnalyzeVideo` models the answer, `RequestEdge` does not have the route.
- The head of `verify_place.py` (lines 23 to 26) still says that candidates without coordinates end
  as `map_api_error`; lines 178 to 190 answer that the place does not exist, and so does the model.
- The index of one process: `chroma_store.py:5` excludes several.
- The three attempts of the Jev client are inside one call, which its caller may cut at any time.
- `wake_gpu` starts a call that nobody waits for and whose outcome changes nothing here.
- Prompts, schemas, configuration of services, the Modal deployment and the benchmark outputs keep
  no state of this server.

## 6. Plan

The order is by what matters most; the first seven lines are done.

1. `AnalyzeVideo` with `AnalyzeContract`: races, slots, failures; theorems on all their invariants
   and the refinement.
2. `RecommendCancel` and `RecommendPipeline`: registry, deadline; theorems on all their invariants.
3. `EmbedStore`, `VerifyPlace`, `OpeningHours`: theorems on all their invariants.
4. `ChatTurn`: theorems on all its invariants and its action property.
5. `CourseBuilder` with `CourseAssembly`: order, legs, cut and choice of courses; theorems on all
   its invariants and the lemmas on the builder's operators.
6. `RequestEdge`: metrics, reports and error log; theorems on all its properties.
7. Proofs of every safety and action property that a passing run checks.
8. Models: the fields of a candidate in `VerifyPlace`, the other slots in `ChatTurn`, the clock of a
   chat turn (`extract.py:47`), and their proofs.
9. Abstract specifications of the verification and of the chat slots, refined by `VerifyPlace` and
   `ChatTurn`, with the refinements proved as for the batch.
