----------------------------- MODULE RequestEdge -----------------------------
(***************************************************************************)
(* What the operator of the service gets to see: the metrics middleware    *)
(* (core/metrics.py) between the layers of the web framework, the handlers *)
(* of exceptions (main.py), and the reports of the GPU's failures          *)
(* (core/logging.py), which are throttled per key.                         *)
(*                                                                         *)
(* The layers, from the outside: ServerErrorMiddleware of the framework,   *)
(* MetricsMiddleware, the handlers of main.py, the router and endpoints.   *)
(***************************************************************************)
EXTENDS Integers, FiniteSets, FiniteSetsExt

CONSTANTS
    Requests,
    ErrorCodes,     \* statuses of the failures that have a code of their own
    Window,         \* ticks in which a key is reported once
    MaxNow,         \* bound on time
    MaxFaults       \* bound on the GPU failures of a key

Health    == "/health"
Unmatched == "unmatched"
Extract   == "/v1/extract"
Recommend == "/v1/recommend-courses"
Routes    == {Health, Unmatched, Extract, Recommend}    \* one of each kind
Keys      == {Extract, Recommend}      \* who calls invoke_gpu_first
Statuses  == {"200", "404", "422", "500"} \cup ErrorCodes
Noted     == Statuses \cup {"unknown"}

ASSUME EdgeAssumption ==
    /\ IsFiniteSet(Requests) /\ IsFiniteSet(ErrorCodes)
    /\ Window \in Nat \ {0} /\ MaxNow \in Nat /\ MaxFaults \in Nat
    /\ "unknown" \notin ErrorCodes /\ "nothing" \notin ErrorCodes

VARIABLES
    now,            \* time.monotonic()
    lastReported,   \* _last_reported: per key the time, 0 for none, and the number skipped
    faults,         \* history: the GPU failures of each key
    told,           \* history: those that the reports of the key add up to
    reportedAt,     \* history: the time of the last report of the key, 0 for none
    requestsTotal,  \* HTTP_REQUESTS: route and status -> count
    durations,      \* HTTP_DURATION: route -> count
    at,             \* where each request is
    route,          \* its route, for the labels
    answer,         \* the status of its response, once there is one
    status,         \* status of MetricsMiddleware.__call__
    wire,           \* history: the status the client was sent
    cut,            \* history: a send was cut off while it was in progress
    failed,         \* history: an exception has left the endpoint, or a send
    seen            \* history: it is in the error log

reports == <<lastReported, faults, told, reportedAt>>
metrics == <<requestsTotal, durations>>
history == <<wire, cut, failed, seen>>
vars    == <<now, reports, metrics, at, route, answer, status, history>>

Init ==
    /\ now = 1
    /\ lastReported = [k \in Keys |-> [last |-> 0, skipped |-> 0]]
    /\ faults = [k \in Keys |-> 0] /\ told = [k \in Keys |-> 0]
    /\ reportedAt = [k \in Keys |-> 0]
    /\ requestsTotal = [l \in Routes \X Noted |-> 0]
    /\ durations = [t \in Routes |-> 0]
    /\ at = [r \in Requests |-> "new"]
    /\ route = [r \in Requests |-> Unmatched]
    /\ answer = [r \in Requests |-> "unknown"]
    /\ status = [r \in Requests |-> "unknown"]
    /\ wire = [r \in Requests |-> "nothing"]
    /\ cut = [r \in Requests |-> FALSE]
    /\ failed = [r \in Requests |-> FALSE] /\ seen = [r \in Requests |-> FALSE]

Move(r, from, to) == at[r] \in from /\ at' = [at EXCEPT ![r] = to]

-----------------------------------------------------------------------------
(* The router matches the path, or none: no route is put in the scope.      *)
Arrive(r) ==
    /\ Move(r, {"new"}, "handling")
    /\ \E t \in Routes : route' = [route EXCEPT ![r] = t]
    /\ UNCHANGED <<now, reports, metrics, answer, status, history>>

(* Mutant of Skip: the window starts over with each failure that is left    *)
(* out.                                                                     *)
SkipRestarts(k) == [last |-> now, skipped |-> lastReported[k].skipped + 1]

Skip(k) == [lastReported[k] EXCEPT !.skipped = @ + 1]

(* Mutant of Fresh: the number that was skipped is not reset.               *)
FreshKeepsSkipped(k) == [lastReported[k] EXCEPT !.last = now]

Fresh(k) == [last |-> now, skipped |-> 0]

(* report_handled_error_throttled: one report, with the number that was     *)
(* left out since the one before.                                           *)
ReportThrottled(k) ==
    LET last == lastReported[k].last
        due  == last = 0 \/ now - last >= Window
    IN  /\ lastReported' = [lastReported EXCEPT ![k] = IF due THEN Fresh(k) ELSE Skip(k)]
        /\ told' = [told EXCEPT ![k] = IF due THEN @ + 1 + lastReported[k].skipped ELSE @]
        /\ reportedAt' = [reportedAt EXCEPT ![k] = IF due THEN now ELSE @]

(* invoke_gpu_first: the GPU fails with an error and Gemini is asked; the   *)
(* request goes on.                                                         *)
GpuFails(r) ==
    /\ at[r] = "handling" /\ route[r] \in Keys
    /\ faults[route[r]] < MaxFaults
    /\ faults' = [faults EXCEPT ![route[r]] = @ + 1]
    /\ ReportThrottled(route[r])
    /\ UNCHANGED <<now, metrics, at, route, answer, status, history>>

Reply(r, code) ==
    /\ Move(r, {"handling"}, "replying")
    /\ answer' = [answer EXCEPT ![r] = code]
    /\ UNCHANGED <<now, reports, metrics, route, status, history>>

(* An answer without a failure: also 404 of no route, and 422 of a request  *)
(* that is not valid.                                                       *)
Answer(r) ==
    \E code \in CASE route[r] = Health    -> {"200"}
                  [] route[r] = Unmatched -> {"404"}
                  [] OTHER                -> {"200", "422"} :
        Reply(r, code)

(* An AIServerError: handle_ai_server_error answers its code; the           *)
(* recommendation answers 200 recommend_failed.  Both log it first.         *)
Fail(r) ==
    /\ route[r] \in Keys
    /\ \E code \in IF route[r] = Recommend THEN {"200"} ELSE ErrorCodes : Reply(r, code)

(* Any other exception, in the endpoint or in a send.                       *)
Raise(r) ==
    /\ Move(r, {"handling", "sending", "begun"}, "raised")
    /\ at[r] = "handling" => route[r] \in Keys
    /\ failed' = [failed EXCEPT ![r] = TRUE]
    /\ cut' = [cut EXCEPT ![r] = at[r] = "sending"]
    /\ UNCHANGED <<now, reports, metrics, route, answer, status, wire, seen>>

(* The task of the request is cancelled.                                    *)
Cancel(r) ==
    /\ Move(r, {"handling", "replying", "sending", "begun"}, "cancelled")
    /\ cut' = [cut EXCEPT ![r] = at[r] = "sending"]
    /\ UNCHANGED <<now, reports, metrics, route, answer, status, wire, failed, seen>>

-----------------------------------------------------------------------------
(* send_with_status: the status is noted, then the start is sent.           *)
Start(r) ==
    /\ Move(r, {"replying"}, "sending")
    /\ status' = [status EXCEPT ![r] = answer[r]]
    /\ UNCHANGED <<now, reports, metrics, route, answer, history>>

Begun(r) ==
    /\ Move(r, {"sending"}, "begun")
    /\ wire' = [wire EXCEPT ![r] = answer[r]]
    /\ UNCHANGED <<now, reports, metrics, route, answer, status, cut, failed, seen>>

Complete(r) ==
    /\ Move(r, {"begun"}, "complete")
    /\ UNCHANGED <<now, reports, metrics, route, answer, status, history>>

(* Mutant of Final: an exception is left unknown.                           *)
FinalUnknown(r) == status[r]

(* The status that is recorded: 500 for an exception before the start.      *)
Final(r) == IF at[r] = "raised" /\ status[r] = "unknown" THEN "500" ELSE status[r]

(* Mutant of RaisedTo: an exception is handed on only if it can still be    *)
(* answered.                                                                *)
RaisedToAnswer(r) == IF status[r] = "unknown" THEN "erring" ELSE "over"

(* An exception goes on to the ServerErrorMiddleware.                       *)
RaisedTo(r) == IF status[r] = "unknown" THEN "erring" ELSE "logging"

(* The middleware is left: _record, once, for all but /health.              *)
Record(r) ==
    /\ \/ Move(r, {"complete", "cancelled"}, "over")
       \/ Move(r, {"raised"}, RaisedTo(r))
    /\ status' = [status EXCEPT ![r] = Final(r)]
    /\ IF route[r] = Health THEN UNCHANGED metrics
       ELSE /\ requestsTotal' = [requestsTotal EXCEPT ![<<route[r], Final(r)>>] = @ + 1]
            /\ durations' = [durations EXCEPT ![route[r]] = @ + 1]
    /\ UNCHANGED <<now, reports, route, answer, history>>

(* External, and handle_unexpected_error: the exception is logged, and      *)
(* answered if no response has been started.                                *)
ServerError(r) ==
    /\ seen' = [seen EXCEPT ![r] = TRUE]
    /\ \/ /\ Move(r, {"logging"}, "over")
          /\ UNCHANGED <<wire, cut>>
       \/ /\ Move(r, {"erring"}, "over")
          /\ \/ wire' = [wire EXCEPT ![r] = "500"] /\ cut' = cut
             \/ cut' = [cut EXCEPT ![r] = TRUE] /\ wire' = wire
    /\ UNCHANGED <<now, reports, metrics, route, answer, status, failed>>

Tick ==
    /\ now < MaxNow
    /\ now' = now + 1
    /\ UNCHANGED <<reports, metrics, at, route, answer, status, history>>

Step(r) ==
    \/ Arrive(r) \/ GpuFails(r) \/ Answer(r) \/ Fail(r) \/ Raise(r) \/ Cancel(r)
    \/ Start(r) \/ Begun(r) \/ Complete(r) \/ Record(r) \/ ServerError(r)

Next == Tick \/ \E r \in Requests : Step(r)

Spec == Init /\ [][Next]_vars

-----------------------------------------------------------------------------
(* The variables keep their types.                                          *)
TypeOK ==
    /\ now \in Nat
    /\ lastReported \in [Keys -> [last : Nat, skipped : Nat]]
    /\ faults \in [Keys -> Nat] /\ told \in [Keys -> Nat] /\ reportedAt \in [Keys -> Nat]
    /\ requestsTotal \in [Routes \X Noted -> Nat] /\ durations \in [Routes -> Nat]
    /\ at \in [Requests -> {"new", "handling", "replying", "sending", "begun", "complete",
                            "raised", "cancelled", "erring", "logging", "over"}]
    /\ route \in [Requests -> Routes]
    /\ answer \in [Requests -> Noted] /\ status \in [Requests -> Noted]
    /\ wire \in [Requests -> Statuses \cup {"nothing"}]
    /\ cut \in [Requests -> BOOLEAN]
    /\ failed \in [Requests -> BOOLEAN] /\ seen \in [Requests -> BOOLEAN]

Over(t) == {r \in Requests : at[r] = "over" /\ route[r] = t}

(* The metrics say what the clients were told.  When no request is between  *)
(* the middleware and its end, each has been counted once under its route   *)
(* in both metrics, /health not at all; a status counts at least the        *)
(* responses that were sent with it and, besides these, only sends that     *)
(* were cut off; "unknown" counts those that never began to answer          *)
(* (metrics.py:80, 85 and 90).                                              *)
CountedAsSent ==
    (\A r \in Requests : at[r] \notin {"erring", "logging"}) =>
        /\ durations[Health] = 0
        /\ \A t \in Routes \ {Health} :
             LET sent(s)  == Cardinality({r \in Over(t) : wire[r] = s})
                 cuts     == Cardinality({r \in Over(t) : wire[r] = "nothing" /\ cut[r]})
                 count(s) == requestsTotal[<<t, s>>]
             IN  /\ durations[t] = Cardinality(Over(t))
                 /\ MapThenSumSet(count, Noted) = Cardinality(Over(t))
                 /\ \A s \in Statuses : sent(s) =< count(s) /\ count(s) =< sent(s) + cuts
                 /\ count("unknown") = sent("nothing") - cuts

(* An exception that leaves an endpoint or comes of a send is in the error  *)
(* log when the request is over, also when the response had begun and no    *)
(* status can show it any more (metrics.py:87, main.py:105).                *)
ExceptionSeen == \A r \in Requests : at[r] = "over" /\ failed[r] => seen[r]

(* Of the GPU's failures none is forgotten and none is told twice: the      *)
(* reports of a key and what they say was left out before them, with what   *)
(* has been left out since, are all its failures (logging.py:36).           *)
FaultsTold == \A k \in Keys : faults[k] = told[k] + lastReported[k].skipped

(* A failure is reported when a window has passed since the last report of  *)
(* its key, however many came between, and never before: failures in a row  *)
(* do not put the report off.                                               *)
ReportsOnTime ==
    [][\A k \in Keys : faults'[k] # faults[k] =>
          (told'[k] # told[k] <=> reportedAt[k] = 0 \/ now - reportedAt[k] >= Window)]_vars
=============================================================================
