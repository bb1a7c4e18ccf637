-------------------------- MODULE RequestEdgeProofs --------------------------
(***************************************************************************)
(* Theorems about RequestEdge, for any number of requests, any window of   *)
(* the throttle and any bounds.                                            *)
(***************************************************************************)
EXTENDS RequestEdge, FiniteSetTheorems, WellFoundedInduction, TLAPS

(* The time of the last report is the one that the throttle remembers.      *)
ReportInv == \A k \in Keys : reportedAt[k] = lastReported[k].last

(* An exception is in the error log, or still on its way to the layer that  *)
(* logs it.                                                                 *)
OnTheWay     == {"raised", "erring", "logging"}
ExceptionInv == \A r \in Requests : failed[r] => seen[r] \/ at[r] \in OnTheWay

(* What is sent is a status.                                                *)
AnswerInv == \A r \in Requests : at[r] \in {"replying", "sending"} => answer[r] \in Statuses

(* What the middleware noted is what was sent, or was about to be sent when *)
(* the send was cut off; 500 is noted before the ServerErrorMiddleware.     *)
Sent(r)    == status[r] \in Statuses /\ wire[r] = status[r] /\ ~cut[r]
CutOff(r)  == status[r] \in Statuses /\ wire[r] = "nothing" /\ cut[r]
Silent(r)  == status[r] = "unknown" /\ wire[r] = "nothing" /\ ~cut[r]
WireInv == \A r \in Requests :
    /\ at[r] \in {"new", "handling", "replying"} => Silent(r)
    /\ at[r] = "sending" => /\ status[r] = answer[r] /\ status[r] \in Statuses
                            /\ wire[r] = "nothing" /\ ~cut[r]
    /\ at[r] = "begun" => Sent(r)
    /\ at[r] = "complete" => Sent(r)
    /\ at[r] \in {"raised", "cancelled", "over"} => Sent(r) \/ CutOff(r) \/ Silent(r)
    /\ at[r] = "erring" => status[r] = "500" /\ wire[r] = "nothing" /\ ~cut[r]
    /\ at[r] = "logging" => Sent(r) \/ CutOff(r)

(* The requests that the middleware has recorded are what its metrics count.*)
Recorded   == {"over", "erring", "logging"}
Of(t)      == {r \in Requests : at[r] \in Recorded /\ route[r] = t}
With(t, s) == {r \in Of(t) : status[r] = s}
CountInv ==
    /\ durations[Health] = 0
    /\ \A t \in Routes \ {Health} :
          /\ durations[t] = Cardinality(Of(t))
          /\ \A s \in Noted : requestsTotal[<<t, s>>] = Cardinality(With(t, s))

IndInv == /\ TypeOK /\ AnswerInv /\ ReportInv /\ FaultsTold /\ ExceptionInv
          /\ WireInv /\ CountInv

-----------------------------------------------------------------------------
(* What a failure of the GPU does to the throttle of its key.               *)
Due(k) == lastReported[k].last = 0 \/ now - lastReported[k].last >= Window

LEMMA Throttle ==
    ASSUME TypeOK, NEW k \in Keys, ReportThrottled(k)
    PROVE  /\ lastReported' = [lastReported EXCEPT ![k] =
                                 IF Due(k) THEN [last |-> now, skipped |-> 0]
                                 ELSE [last |-> lastReported[k].last,
                                       skipped |-> lastReported[k].skipped + 1]]
           /\ told' = [told EXCEPT ![k] =
                         IF Due(k) THEN told[k] + 1 + lastReported[k].skipped ELSE told[k]]
           /\ reportedAt' = [reportedAt EXCEPT ![k] = IF Due(k) THEN now ELSE reportedAt[k]]
  <1>1. lastReported[k] \in [last : Nat, skipped : Nat]
    BY DEF TypeOK
  <1>2. Skip(k) = [last |-> lastReported[k].last, skipped |-> lastReported[k].skipped + 1]
    BY <1>1 DEF Skip
  <1> QED
    BY <1>2 DEF ReportThrottled, Fresh, Due

LEMMA InitInv == Init => IndInv
  <1> SUFFICES ASSUME Init PROVE IndInv
    OBVIOUS
  <1>1. TypeOK
    BY DEF Init, TypeOK, Noted, Statuses, Routes, Unmatched, Health, Extract, Recommend
  <1>2. AnswerInv /\ ReportInv /\ FaultsTold /\ ExceptionInv
    BY DEF Init, AnswerInv, ReportInv, FaultsTold, ExceptionInv
  <1>3. WireInv
    BY DEF Init, WireInv, Silent
  <1>4. CountInv
    <2>1. \A t \in Routes : Of(t) = {} /\ \A s : With(t, s) = {}
      BY DEF Init, Of, With, Recorded
    <2>2. Cardinality({}) = 0
      BY FS_EmptySet
    <2> QED BY <2>1, <2>2 DEF Init, CountInv, Routes, Health
  <1> QED BY <1>1, <1>2, <1>3, <1>4 DEF IndInv

-----------------------------------------------------------------------------
LEMMA Replied ==
    ASSUME TypeOK, NEW r \in Requests, NEW code \in Statuses, Reply(r, code)
    PROVE  /\ at[r] = "handling" /\ at' = [at EXCEPT ![r] = "replying"]
           /\ answer' \in [Requests -> Noted]
           /\ UNCHANGED <<now, reports, metrics, route, status, history>>
  BY DEF Reply, Move, TypeOK, Noted

LEMMA AnswerReplies ==
    ASSUME NEW r \in Requests, TypeOK, Answer(r) \/ Fail(r)
    PROVE  \E code \in Statuses : Reply(r, code)
  BY DEF Answer, Fail, TypeOK, Statuses, Routes

LEMMA TypeStep == TypeOK /\ AnswerInv /\ [Next]_vars => TypeOK'
  <1> SUFFICES ASSUME TypeOK, AnswerInv, [Next]_vars PROVE TypeOK'
    OBVIOUS
  <1>0. CASE UNCHANGED vars
    BY <1>0 DEF TypeOK, vars, reports, metrics, history
  <1>1. CASE Tick
    BY <1>1 DEF Tick, TypeOK, reports, metrics, history
  <1>2. ASSUME NEW r \in Requests, Step(r) PROVE TypeOK'
    <2>1. CASE Arrive(r)
      BY <2>1 DEF Arrive, Move, TypeOK, reports, metrics, history
    <2>2. CASE GpuFails(r)
      <3> DEFINE k == route[r]
      <3>1. k \in Keys /\ ReportThrottled(k) /\ faults' = [faults EXCEPT ![k] = @ + 1]
        BY <2>2 DEF GpuFails
      <3>2. lastReported[k] \in [last : Nat, skipped : Nat] /\ now \in Nat
            /\ told[k] \in Nat /\ faults[k] \in Nat
        BY <3>1 DEF TypeOK
      <3> DEFINE entry == IF Due(k) THEN [last |-> now, skipped |-> 0]
                          ELSE [last |-> lastReported[k].last,
                                skipped |-> lastReported[k].skipped + 1]
      <3>3. entry \in [last : Nat, skipped : Nat]
        BY <3>2
      <3>4. lastReported' = [lastReported EXCEPT ![k] = entry]
        BY <3>1, Throttle
      <3>5. lastReported' \in [Keys -> [last : Nat, skipped : Nat]]
        <4> HIDE DEF entry
        <4> QED BY <3>1, <3>3, <3>4 DEF TypeOK
      <3>6. told' \in [Keys -> Nat] /\ reportedAt' \in [Keys -> Nat] /\ faults' \in [Keys -> Nat]
        BY <3>1, <3>2, Throttle DEF TypeOK
      <3> QED BY <2>2, <3>5, <3>6 DEF GpuFails, TypeOK, metrics, history
    <2>3. CASE Answer(r) \/ Fail(r)
      <3>1. PICK code \in Statuses : Reply(r, code)
        BY <2>3, AnswerReplies
      <3> QED BY <3>1, Replied DEF TypeOK, reports, metrics, history
    <2>4. CASE Raise(r)
      BY <2>4 DEF Raise, Move, TypeOK, reports, metrics
    <2>5. CASE Cancel(r)
      BY <2>5 DEF Cancel, Move, TypeOK, reports, metrics
    <2>6. CASE Start(r)
      BY <2>6 DEF Start, Move, TypeOK, reports, metrics, history
    <2>7. CASE Begun(r)
      <3>1. answer[r] \in Statuses
        BY <2>7 DEF Begun, Move, AnswerInv
      <3>2. wire' \in [Requests -> Statuses \cup {"nothing"}]
        BY <2>7, <3>1 DEF Begun, TypeOK
      <3> QED BY <2>7, <3>2 DEF Begun, Move, TypeOK, reports, metrics
    <2>8. CASE Complete(r)
      BY <2>8 DEF Complete, Move, TypeOK, reports, metrics, history
    <2>9. CASE Record(r)
      <3>1. Final(r) \in Noted
        BY DEF Final, TypeOK, Noted, Statuses
      <3>2. status' \in [Requests -> Noted] /\ at' \in [Requests ->
              {"new", "handling", "replying", "sending", "begun", "complete",
               "raised", "cancelled", "erring", "logging", "over"}]
        BY <2>9, <3>1 DEF Record, RaisedTo, Move, TypeOK
      <3>3. requestsTotal' \in [Routes \X Noted -> Nat] /\ durations' \in [Routes -> Nat]
        <4> DEFINE cell == <<route[r], Final(r)>>
        <4>1. cell \in Routes \X Noted /\ route[r] \in Routes
          BY <3>1 DEF TypeOK
        <4>2. requestsTotal[cell] \in Nat /\ durations[route[r]] \in Nat
          BY <4>1 DEF TypeOK
        <4>3. CASE UNCHANGED metrics
          BY <4>3 DEF TypeOK, metrics
        <4>4. CASE /\ requestsTotal' = [requestsTotal EXCEPT ![cell] = @ + 1]
                   /\ durations' = [durations EXCEPT ![route[r]] = @ + 1]
          <5> HIDE DEF cell
          <5> QED BY <4>1, <4>2, <4>4 DEF TypeOK
        <4> QED BY <2>9, <4>3, <4>4 DEF Record, RaisedTo
      <3> QED BY <2>9, <3>2, <3>3 DEF Record, RaisedTo, TypeOK, reports, history
    <2>10. CASE ServerError(r)
      BY <2>10 DEF ServerError, Move, TypeOK, reports, metrics, Statuses
    <2> QED BY <1>2, <2>1, <2>2, <2>3, <2>4, <2>5, <2>6, <2>7, <2>8, <2>9, <2>10 DEF Step
  <1> QED BY <1>0, <1>1, <1>2 DEF Next

-----------------------------------------------------------------------------
LEMMA AnswerStep == TypeOK /\ AnswerInv /\ [Next]_vars => AnswerInv'
  <1> SUFFICES ASSUME TypeOK, AnswerInv, [Next]_vars PROVE AnswerInv'
    OBVIOUS
  <1>0. CASE UNCHANGED vars
    BY <1>0 DEF AnswerInv, vars
  <1>1. CASE Tick
    BY <1>1 DEF Tick, AnswerInv
  <1>2. ASSUME NEW r \in Requests, Step(r) PROVE AnswerInv'
    <2>1. CASE Answer(r) \/ Fail(r)
      <3>1. PICK code \in Statuses : Reply(r, code)
        BY <2>1, AnswerReplies
      <3> QED BY <3>1 DEF Reply, Move, TypeOK, AnswerInv
    <2>2. CASE Start(r)
      BY <2>2 DEF Start, Move, TypeOK, AnswerInv
    <2>3. CASE GpuFails(r)
      BY <2>3 DEF GpuFails, AnswerInv
    <2>4. CASE Arrive(r) \/ Raise(r) \/ Cancel(r) \/ Begun(r)
      BY <2>4 DEF Arrive, Raise, Cancel, Begun, Move, TypeOK, AnswerInv
    <2>5. CASE Complete(r) \/ Record(r) \/ ServerError(r)
      BY <2>5 DEF Complete, Record, RaisedTo, ServerError, Move, TypeOK, AnswerInv
    <2> QED BY <1>2, <2>1, <2>2, <2>3, <2>4, <2>5 DEF Step
  <1> QED BY <1>0, <1>1, <1>2 DEF Next

(* Only a failure of the GPU touches the throttle.                          *)
LEMMA ReportsStay ==
    ASSUME [Next]_vars, ~ \E r \in Requests : GpuFails(r)
    PROVE  UNCHANGED reports
  <1>1. ASSUME NEW r \in Requests, Step(r) PROVE UNCHANGED reports
    <2>1. CASE Arrive(r) \/ Answer(r) \/ Fail(r) \/ Raise(r) \/ Cancel(r)
      BY <2>1 DEF Arrive, Answer, Fail, Reply, Raise, Cancel
    <2>2. CASE Start(r) \/ Begun(r) \/ Complete(r) \/ Record(r) \/ ServerError(r)
      BY <2>2 DEF Start, Begun, Complete, Record, RaisedTo, ServerError
    <2> QED BY <1>1, <2>1, <2>2 DEF Step
  <1> QED BY <1>1 DEF Next, Tick, vars

LEMMA ReportStep ==
    TypeOK /\ ReportInv /\ FaultsTold /\ [Next]_vars => ReportInv' /\ FaultsTold'
  <1> SUFFICES ASSUME TypeOK, ReportInv, FaultsTold, [Next]_vars
               PROVE  ReportInv' /\ FaultsTold'
    OBVIOUS
  <1>1. CASE ~ \E r \in Requests : GpuFails(r)
    BY <1>1, ReportsStay DEF reports, ReportInv, FaultsTold
  <1>2. ASSUME NEW r \in Requests, GpuFails(r) PROVE ReportInv' /\ FaultsTold'
    <2> DEFINE k == route[r]
    <2>1. k \in Keys /\ ReportThrottled(k) /\ faults' = [faults EXCEPT ![k] = faults[k] + 1]
      BY <1>2 DEF GpuFails
    <2>2. /\ lastReported \in [Keys -> [last : Nat, skipped : Nat]]
          /\ faults \in [Keys -> Nat] /\ told \in [Keys -> Nat]
          /\ reportedAt \in [Keys -> Nat] /\ now \in Nat
      BY DEF TypeOK
    <2> HIDE DEF k
    <2> SUFFICES ASSUME NEW j \in Keys
                 PROVE  /\ reportedAt'[j] = lastReported'[j].last
                        /\ faults'[j] = told'[j] + lastReported'[j].skipped
      BY DEF ReportInv, FaultsTold
    <2>3. reportedAt[j] = lastReported[j].last
          /\ faults[j] = told[j] + lastReported[j].skipped
      BY DEF ReportInv, FaultsTold
    <2>4. CASE j # k
      BY <2>1, <2>2, <2>3, <2>4, Throttle
    <2>5. CASE j = k /\ Due(k)
      BY <2>1, <2>2, <2>3, <2>5, Throttle
    <2>6. CASE j = k /\ ~Due(k)
      BY <2>1, <2>2, <2>3, <2>6, Throttle
    <2> QED BY <2>4, <2>5, <2>6
  <1> QED BY <1>1, <1>2

LEMMA ExceptionStep == TypeOK /\ ExceptionInv /\ [Next]_vars => ExceptionInv'
  <1> SUFFICES ASSUME TypeOK, ExceptionInv, [Next]_vars PROVE ExceptionInv'
    OBVIOUS
  <1>0. CASE UNCHANGED vars
    BY <1>0 DEF ExceptionInv, vars, history
  <1>1. CASE Tick
    BY <1>1 DEF Tick, ExceptionInv, history
  <1>2. ASSUME NEW r \in Requests, Step(r) PROVE ExceptionInv'
    <2>1. CASE Arrive(r) \/ Start(r) \/ Complete(r) \/ Begun(r)
      BY <2>1 DEF Arrive, Start, Complete, Begun, Move, TypeOK, ExceptionInv, OnTheWay, history
    <2>2. CASE GpuFails(r)
      BY <2>2 DEF GpuFails, ExceptionInv, history
    <2>3. CASE Answer(r) \/ Fail(r)
      <3>1. \E code \in Statuses : Reply(r, code)
        BY <2>3, AnswerReplies
      <3>2. at[r] = "handling" /\ at' = [at EXCEPT ![r] = "replying"] /\ UNCHANGED <<failed, seen>>
        BY <3>1 DEF Reply, Move, history
      <3> QED BY <3>2 DEF TypeOK, ExceptionInv, OnTheWay
    <2>4. CASE Raise(r)
      BY <2>4 DEF Raise, Move, TypeOK, ExceptionInv, OnTheWay
    <2>5. CASE Cancel(r)
      BY <2>5 DEF Cancel, Move, TypeOK, ExceptionInv, OnTheWay
    <2>6. CASE Record(r)
      BY <2>6 DEF Record, RaisedTo, Move, TypeOK, ExceptionInv, OnTheWay, history
    <2>7. CASE ServerError(r)
      BY <2>7 DEF ServerError, Move, TypeOK, ExceptionInv, OnTheWay
    <2> QED BY <1>2, <2>1, <2>2, <2>3, <2>4, <2>5, <2>6, <2>7 DEF Step
  <1> QED BY <1>0, <1>1, <1>2 DEF Next

(* What is on the wire and what was noted of it go together.                *)
LEMMA WireStep == TypeOK /\ AnswerInv /\ WireInv /\ [Next]_vars => WireInv'
  <1> SUFFICES ASSUME TypeOK, AnswerInv, WireInv, [Next]_vars PROVE WireInv'
    OBVIOUS
  <1> USE DEF Sent, CutOff, Silent
  <1>0. CASE UNCHANGED vars
    BY <1>0 DEF WireInv, vars, history
  <1>1. CASE Tick
    BY <1>1 DEF Tick, WireInv, history
  <1>2. ASSUME NEW r \in Requests, Step(r) PROVE WireInv'
    <2>1. CASE Arrive(r)
      BY <2>1 DEF Arrive, Move, TypeOK, WireInv, history
    <2>2. CASE GpuFails(r)
      BY <2>2 DEF GpuFails, WireInv, history
    <2>3. CASE Answer(r) \/ Fail(r)
      <3>1. PICK code \in Statuses : Reply(r, code)
        BY <2>3, AnswerReplies
      <3>2. /\ at[r] = "handling" /\ at' = [at EXCEPT ![r] = "replying"]
            /\ \A q \in Requests : q # r => answer'[q] = answer[q]
            /\ UNCHANGED <<status, wire, cut>>
        BY <3>1 DEF Reply, Move, TypeOK, history
      <3> QED BY <3>2 DEF TypeOK, WireInv
    <2>4. CASE Raise(r)
      <3>1. cut'[r] = (at[r] = "sending") /\ \A q \in Requests : q # r => cut'[q] = cut[q]
        BY <2>4 DEF Raise, TypeOK
      <3>2. /\ at[r] \in {"handling", "sending", "begun"} /\ at' = [at EXCEPT ![r] = "raised"]
            /\ UNCHANGED <<answer, status, wire>>
        BY <2>4 DEF Raise, Move
      <3>3. at'[r] = "raised" /\ \A q \in Requests : q # r => at'[q] = at[q]
        BY <3>2 DEF TypeOK
      <3>4. Sent(r)' \/ CutOff(r)' \/ Silent(r)'
        BY <3>1, <3>2 DEF WireInv
      <3> QED BY <3>1, <3>2, <3>3, <3>4 DEF WireInv
    <2>5. CASE Cancel(r)
      <3>1. cut'[r] = (at[r] = "sending") /\ \A q \in Requests : q # r => cut'[q] = cut[q]
        BY <2>5 DEF Cancel, TypeOK
      <3>2. /\ at[r] \in {"handling", "replying", "sending", "begun"}
            /\ at' = [at EXCEPT ![r] = "cancelled"]
            /\ UNCHANGED <<answer, status, wire>>
        BY <2>5 DEF Cancel, Move
      <3>3. at'[r] = "cancelled" /\ \A q \in Requests : q # r => at'[q] = at[q]
        BY <3>2 DEF TypeOK
      <3>4. Sent(r)' \/ CutOff(r)' \/ Silent(r)'
        BY <3>1, <3>2 DEF WireInv
      <3> QED BY <3>1, <3>2, <3>3, <3>4 DEF WireInv
    <2>6. CASE Start(r)
      <3>1. /\ at[r] = "replying" /\ at' = [at EXCEPT ![r] = "sending"]
            /\ status' = [status EXCEPT ![r] = answer[r]]
            /\ UNCHANGED <<answer, wire, cut>>
        BY <2>6 DEF Start, Move, history
      <3>2. answer[r] \in Statuses /\ wire[r] = "nothing" /\ ~cut[r]
        BY <3>1 DEF AnswerInv, WireInv
      <3>3. /\ at'[r] = "sending" /\ status'[r] = answer[r]
            /\ \A q \in Requests : q # r => at'[q] = at[q] /\ status'[q] = status[q]
        BY <3>1 DEF TypeOK
      <3> QED BY <3>1, <3>2, <3>3 DEF WireInv
    <2>7. CASE Begun(r)
      BY <2>7 DEF Begun, Move, TypeOK, WireInv
    <2>8. CASE Complete(r)
      BY <2>8 DEF Complete, Move, TypeOK, WireInv, history
    <2>9. CASE Record(r)
      <3>1. /\ status' = [status EXCEPT ![r] = Final(r)]
            /\ UNCHANGED <<answer, wire, cut>>
        BY <2>9 DEF Record, RaisedTo, history
      <3>2. CASE at[r] \in {"complete", "cancelled"} /\ at' = [at EXCEPT ![r] = "over"]
        <4>1. status' = status
          BY <3>1, <3>2 DEF Final, TypeOK
        <4> QED BY <3>1, <3>2, <4>1 DEF TypeOK, WireInv
      <3>3. CASE at[r] = "raised" /\ status[r] = "unknown" /\ at' = [at EXCEPT ![r] = "erring"]
        <4>1. status' = [status EXCEPT ![r] = "500"]
          BY <3>1, <3>3 DEF Final
        <4>2. "unknown" \notin Statuses
          BY EdgeAssumption DEF Statuses
        <4> QED BY <3>1, <3>3, <4>1, <4>2 DEF TypeOK, WireInv
      <3>4. CASE at[r] = "raised" /\ status[r] # "unknown" /\ at' = [at EXCEPT ![r] = "logging"]
        <4>1. status' = status
          BY <3>1, <3>4 DEF Final, TypeOK
        <4> QED BY <3>1, <3>4, <4>1 DEF TypeOK, WireInv
      <3> QED BY <2>9, <3>2, <3>3, <3>4 DEF Record, RaisedTo, Move
    <2>10. CASE ServerError(r)
      <3>1. "500" \in Statuses
        BY DEF Statuses
      <3> QED BY <2>10, <3>1 DEF ServerError, Move, TypeOK, WireInv
    <2> QED BY <1>2, <2>1, <2>2, <2>3, <2>4, <2>5, <2>6, <2>7, <2>8, <2>9, <2>10 DEF Step
  <1> QED BY <1>0, <1>1, <1>2 DEF Next

(* A step that records no request leaves what the metrics count.            *)
LEMMA CountStays ==
    ASSUME CountInv, UNCHANGED metrics,
           \A r \in Requests :
              /\ at'[r] \in Recorded <=> at[r] \in Recorded
              /\ at[r] \in Recorded => route'[r] = route[r] /\ status'[r] = status[r]
    PROVE  CountInv'
  <1>1. \A t : Of(t)' = Of(t)
    BY DEF Of
  <1>2. \A t, s : With(t, s)' = With(t, s)
    BY <1>1 DEF With, Of
  <1> QED BY <1>1, <1>2 DEF CountInv, metrics

LEMMA OneMore ==
    ASSUME NEW S, IsFiniteSet(S), NEW r, r \notin S
    PROVE  Cardinality(S \cup {r}) = Cardinality(S) + 1
  BY FS_AddElement

LEMMA RecordCounts ==
    ASSUME TypeOK, CountInv, NEW r \in Requests, Record(r)
    PROVE  CountInv'
  <1>1. Final(r) \in Noted /\ route[r] \in Routes
    BY DEF Final, TypeOK, Noted, Statuses
  <1>2. PICK k \in Routes, f \in Noted : k = route[r] /\ f = Final(r)
    BY <1>1
  <1>3. /\ at[r] \notin Recorded /\ at'[r] \in Recorded
        /\ \A q \in Requests : q # r => at'[q] = at[q] /\ status'[q] = status[q]
        /\ status'[r] = f /\ UNCHANGED route
    BY <1>2 DEF Record, RaisedTo, Move, TypeOK, Recorded
  <1>4. \A t : IsFiniteSet(Of(t)) /\ \A s : IsFiniteSet(With(t, s))
    <2>1. \A t : Of(t) \subseteq Requests /\ \A s : With(t, s) \subseteq Requests
      BY DEF Of, With
    <2> QED BY <2>1, EdgeAssumption, FS_Subset
  <1>5. /\ \A t : t # k => Of(t)' = Of(t) /\ \A s : With(t, s)' = With(t, s)
        /\ Of(k)' = Of(k) \cup {r} /\ r \notin Of(k)
        /\ \A s : s # f => With(k, s)' = With(k, s)
        /\ With(k, f)' = With(k, f) \cup {r} /\ r \notin With(k, f)
    <2>1. \A t : t # k => Of(t)' = Of(t)
      BY <1>3, <1>2 DEF Of
    <2>2. Of(k)' = Of(k) \cup {r} /\ r \notin Of(k)
      BY <1>3, <1>2 DEF Of
    <2>3. \A t, s : t # k => With(t, s)' = With(t, s)
      BY <1>3, <1>2, <2>1 DEF With, Of
    <2>4. \A s : s # f => With(k, s)' = With(k, s)
      BY <1>3, <1>2, <2>2 DEF With, Of
    <2>5. With(k, f)' = With(k, f) \cup {r} /\ r \notin With(k, f)
      BY <1>3, <1>2, <2>2 DEF With, Of
    <2> QED BY <2>1, <2>2, <2>3, <2>4, <2>5
  <1>6. CASE k = Health
    <2>1. UNCHANGED metrics
      BY <1>2, <1>6 DEF Record, RaisedTo
    <2> QED BY <1>5, <1>6, <2>1 DEF CountInv, metrics
  <1>7. CASE k # Health
    <2>1. /\ requestsTotal' = [requestsTotal EXCEPT ![<<k, f>>] = @ + 1]
          /\ durations' = [durations EXCEPT ![k] = @ + 1]
      BY <1>2, <1>7 DEF Record, RaisedTo
    <2>2. /\ durations'[k] = durations[k] + 1
          /\ \A t \in Routes : t # k => durations'[t] = durations[t]
      BY <1>2, <2>1 DEF TypeOK
    <2>3. /\ requestsTotal'[<<k, f>>] = requestsTotal[<<k, f>>] + 1
          /\ \A t \in Routes, s \in Noted :
               ~(t = k /\ s = f) => requestsTotal'[<<t, s>>] = requestsTotal[<<t, s>>]
      BY <1>2, <2>1 DEF TypeOK
    <2>4. Cardinality(Of(k)') = Cardinality(Of(k)) + 1
          /\ Cardinality(With(k, f)') = Cardinality(With(k, f)) + 1
      BY <1>4, <1>5, OneMore
    <2>5. Cardinality(Of(k))' = Cardinality(Of(k)) + 1
          /\ Cardinality(With(k, f))' = Cardinality(With(k, f)) + 1
      BY <2>4
    <2>6. Health \in Routes
      BY DEF Routes
    <2>7. durations'[Health] = 0
      BY <1>7, <2>2, <2>6 DEF CountInv
    <2>8. ASSUME NEW t \in Routes \ {Health}
          PROVE  /\ durations'[t] = Cardinality(Of(t))'
                 /\ \A s \in Noted : requestsTotal'[<<t, s>>] = Cardinality(With(t, s))'
      <3>1. /\ durations[t] = Cardinality(Of(t))
            /\ \A s \in Noted : requestsTotal[<<t, s>>] = Cardinality(With(t, s))
        BY DEF CountInv
      <3>2. CASE t # k
        BY <1>5, <2>2, <2>3, <3>1, <3>2
      <3>3. CASE t = k
        <4>1. durations'[t] = Cardinality(Of(t))'
          BY <2>2, <2>5, <3>1, <3>3
        <4>2. ASSUME NEW s \in Noted
              PROVE  requestsTotal'[<<t, s>>] = Cardinality(With(t, s))'
          <5>1. CASE s = f
            BY <2>3, <2>5, <3>1, <3>3, <5>1
          <5>2. CASE s # f
            BY <1>5, <2>3, <3>1, <3>3, <5>2
          <5> QED BY <5>1, <5>2
        <4> QED BY <4>1, <4>2
      <3> QED BY <3>2, <3>3
    <2> QED BY <2>7, <2>8 DEF CountInv
  <1> QED BY <1>6, <1>7

LEMMA CountStep == TypeOK /\ CountInv /\ [Next]_vars => CountInv'
  <1> SUFFICES ASSUME TypeOK, CountInv, [Next]_vars PROVE CountInv'
    OBVIOUS
  <1>0. CASE UNCHANGED vars \/ Tick
    <2>1. UNCHANGED <<metrics, at, route, status>>
      BY <1>0 DEF vars, metrics, Tick
    <2> QED BY <2>1, CountStays
  <1>2. ASSUME NEW r \in Requests, Step(r) PROVE CountInv'
    <2> DEFINE Same ==
          /\ UNCHANGED metrics
          /\ \A q \in Requests :
               /\ at'[q] \in Recorded <=> at[q] \in Recorded
               /\ at[q] \in Recorded => route'[q] = route[q] /\ status'[q] = status[q]
    <2>1. CASE Arrive(r)
      <3>1. Same
        BY <2>1 DEF Arrive, Move, TypeOK, Recorded
      <3> QED BY <3>1, CountStays
    <2>2. CASE GpuFails(r)
      <3>1. Same
        BY <2>2 DEF GpuFails
      <3> QED BY <3>1, CountStays
    <2>3. CASE Answer(r) \/ Fail(r)
      <3>1. \E code \in Statuses : Reply(r, code)
        BY <2>3, AnswerReplies
      <3>2. Same
        BY <3>1 DEF Reply, Move, TypeOK, Recorded
      <3> QED BY <3>2, CountStays
    <2>4. CASE Raise(r) \/ Cancel(r) \/ Begun(r) \/ Complete(r)
      <3>1. Same
        BY <2>4 DEF Raise, Cancel, Begun, Complete, Move, TypeOK, Recorded
      <3> QED BY <3>1, CountStays
    <2>5. CASE Start(r)
      <3>1. Same
        BY <2>5 DEF Start, Move, TypeOK, Recorded
      <3> QED BY <3>1, CountStays
    <2>6. CASE Record(r)
      BY <2>6, RecordCounts
    <2>7. CASE ServerError(r)
      <3>1. Same
        BY <2>7 DEF ServerError, Move, TypeOK, Recorded
      <3> QED BY <3>1, CountStays
    <2> QED BY <1>2, <2>1, <2>2, <2>3, <2>4, <2>5, <2>6, <2>7 DEF Step
  <1> QED BY <1>0, <1>2 DEF Next

LEMMA Invariance == Spec => []IndInv
  <1>1. IndInv /\ [Next]_vars => IndInv'
    BY TypeStep, AnswerStep, ReportStep, ExceptionStep, WireStep, CountStep DEF IndInv
  <1> QED BY <1>1, InitInv, PTL DEF Spec

-----------------------------------------------------------------------------
(* The types of all variables (TypeOK).                                     *)
THEOREM TypeCorrect == Spec => []TypeOK
  <1>1. IndInv => TypeOK
    BY DEF IndInv
  <1> QED BY <1>1, Invariance, PTL

(* The reports of a key and what they left out are all failures of its GPU  *)
(* calls, whatever the window.                                              *)
THEOREM FaultsAreTold == Spec => []FaultsTold
  <1>1. IndInv => FaultsTold
    BY DEF IndInv
  <1> QED BY <1>1, Invariance, PTL

(* An exception of an endpoint or of a send passes every layer and is in    *)
(* the error log when its request is over, whether the response had begun,  *)
(* was cut off or was never started.                                        *)
THEOREM ExceptionsAreSeen == Spec => []ExceptionSeen
  <1>1. IndInv => ExceptionSeen
    BY DEF IndInv, ExceptionInv, ExceptionSeen, OnTheWay
  <1> QED BY <1>1, Invariance, PTL

(* A failure is reported exactly when a window has passed since the last    *)
(* report of its key.                                                       *)
THEOREM ReportsAreOnTime == Spec => ReportsOnTime
  <1> DEFINE OnTime ==
        \A k \in Keys : faults'[k] # faults[k] =>
            (told'[k] # told[k] <=> reportedAt[k] = 0 \/ now - reportedAt[k] >= Window)
  <1>1. ASSUME IndInv, [Next]_vars PROVE OnTime
    <2>1. CASE ~ \E r \in Requests : GpuFails(r)
      BY <1>1, <2>1, ReportsStay DEF reports
    <2>2. ASSUME NEW r \in Requests, GpuFails(r), NEW j \in Keys, faults'[j] # faults[j]
          PROVE  told'[j] # told[j] <=> reportedAt[j] = 0 \/ now - reportedAt[j] >= Window
      <3> DEFINE k == route[r]
      <3>1. k \in Keys /\ ReportThrottled(k) /\ faults' = [faults EXCEPT ![k] = faults[k] + 1]
        BY <2>2 DEF GpuFails
      <3>2. /\ lastReported \in [Keys -> [last : Nat, skipped : Nat]]
            /\ faults \in [Keys -> Nat] /\ told \in [Keys -> Nat]
        BY <1>1 DEF IndInv, TypeOK
      <3>3. TypeOK
        BY <1>1 DEF IndInv
      <3> HIDE DEF k
      <3>4. j = k
        BY <2>2, <3>1, <3>2
      <3>5. reportedAt[j] = lastReported[j].last
        BY <1>1 DEF IndInv, ReportInv
      <3>6. told'[j] # told[j] <=> Due(k)
        BY <3>1, <3>2, <3>3, <3>4, Throttle
      <3> QED BY <3>4, <3>5, <3>6 DEF Due
    <2> QED BY <2>1, <2>2
  <1>2. IndInv /\ [Next]_vars => [OnTime]_vars
    BY <1>1
  <1> QED BY <1>2, Invariance, PTL DEF Spec, ReportsOnTime

-----------------------------------------------------------------------------
(* The counts of a route's statuses add up to its requests: MapThenSumSet   *)
(* takes the statuses out one by one, and each takes its requests with it.  *)
InSet(t, S) == {r \in Of(t) : status[r] \in S}
IsSum(f, t) ==
    f = [S \in SUBSET Noted |->
           IF S = {} THEN 0
           ELSE LET s == CHOOSE x \in S : TRUE IN requestsTotal[<<t, s>>] + f[S \ {s}]]

LEMMA NotedFinite == IsFiniteSet(Noted)
  <1> USE EdgeAssumption
  <1>1. Noted = ErrorCodes \cup {"200"} \cup {"404"} \cup {"422"} \cup {"500"} \cup {"unknown"}
    BY DEF Noted, Statuses
  <1>2. IsFiniteSet(ErrorCodes \cup {"200"} \cup {"404"} \cup {"422"} \cup {"500"}
                      \cup {"unknown"})
    BY FS_AddElement
  <1> QED BY <1>1, <1>2

LEMMA OfFinite ==
    ASSUME NEW t, NEW S
    PROVE  IsFiniteSet(InSet(t, S)) /\ Cardinality(InSet(t, S)) \in Nat
  <1>1. InSet(t, S) \subseteq Requests
    BY DEF InSet, Of
  <1> QED BY <1>1, EdgeAssumption, FS_Subset, FS_CardinalityType

LEMMA TakeOut ==
    ASSUME CountInv, NEW t \in Routes \ {Health}, NEW S \in SUBSET Noted, NEW s \in S
    PROVE  Cardinality(InSet(t, S)) =
             requestsTotal[<<t, s>>] + Cardinality(InSet(t, S \ {s}))
  <1>1. With(t, s) = InSet(t, {s})
    BY DEF With, InSet
  <1>2. requestsTotal[<<t, s>>] = Cardinality(InSet(t, {s}))
    BY <1>1 DEF CountInv
  <1>3. InSet(t, S) = InSet(t, {s}) \cup InSet(t, S \ {s})
        /\ InSet(t, {s}) \cap InSet(t, S \ {s}) = {}
    BY DEF InSet
  <1>4. Cardinality(InSet(t, S)) =
          Cardinality(InSet(t, {s})) + Cardinality(InSet(t, S \ {s})) - Cardinality({})
    BY <1>3, OfFinite, FS_Union
  <1> QED BY <1>2, <1>4, OfFinite, FS_EmptySet

LEMMA SumExists ==
    ASSUME CountInv, NEW t \in Routes \ {Health}
    PROVE  \E f : IsSum(f, t)
  <1> DEFINE f == [S \in SUBSET Noted |-> Cardinality(InSet(t, S))]
  <1>1. ASSUME NEW S \in SUBSET Noted
        PROVE  f[S] = IF S = {} THEN 0
                      ELSE LET s == CHOOSE x \in S : TRUE
                           IN  requestsTotal[<<t, s>>] + f[S \ {s}]
    <2>1. CASE S = {}
      <3>1. InSet(t, S) = {}
        BY <2>1 DEF InSet
      <3> QED BY <2>1, <3>1, FS_EmptySet
    <2>2. CASE S # {}
      <3> DEFINE s == CHOOSE x \in S : TRUE
      <3>1. s \in S
        BY <2>2
      <3> HIDE DEF s
      <3>2. S \ {s} \in SUBSET Noted
        OBVIOUS
      <3>3. f[S] = requestsTotal[<<t, s>>] + f[S \ {s}]
        BY <3>1, <3>2, TakeOut
      <3> QED BY <2>2, <3>3 DEF s
    <2> QED BY <2>1, <2>2
  <1>2. f = [S \in SUBSET Noted |-> f[S]]
    OBVIOUS
  <1> HIDE DEF f
  <1>3. IsSum(f, t)
    BY <1>1, <1>2, Zenon DEF IsSum
  <1> QED BY <1>3

LEMMA SumCounts ==
    ASSUME CountInv, NEW t \in Routes \ {Health}, NEW f, IsSum(f, t)
    PROVE  \A S \in SUBSET Noted : f[S] = Cardinality(InSet(t, S))
  <1> DEFINE Wrong == {S \in SUBSET Noted : f[S] # Cardinality(InSet(t, S))}
             Sizes == {n \in Nat : \E S \in Wrong : Cardinality(S) = n}
  <1>1. ASSUME NEW S \in SUBSET Noted
        PROVE  IsFiniteSet(S) /\ Cardinality(S) \in Nat
    BY NotedFinite, FS_Subset, FS_CardinalityType
  <1> SUFFICES ASSUME Wrong # {} PROVE FALSE
    OBVIOUS
  <1>2. Sizes # {} /\ Sizes \subseteq Nat
    <2>1. PICK S \in Wrong : TRUE
      OBVIOUS
    <2>2. Cardinality(S) \in Sizes
      BY <1>1, <2>1
    <2> QED BY <2>2
  <1>3. PICK n \in Sizes : \A m \in Sizes : <<m, n>> \notin OpToRel(<, Nat)
    <2> HIDE DEF Sizes
    <2> QED BY <1>2, NatLessThanWellFounded, WFMin
  <1>4. \A m \in Sizes : ~ (m < n)
    BY <1>2, <1>3 DEF OpToRel
  <1>5. PICK S \in Wrong : Cardinality(S) = n
    OBVIOUS
  <1>6. f[S] = IF S = {} THEN 0
               ELSE LET s == CHOOSE x \in S : TRUE
                    IN  requestsTotal[<<t, s>>] + f[S \ {s}]
    BY Zenon DEF IsSum
  <1>7. CASE S = {}
    <2>1. InSet(t, S) = {}
      BY <1>7 DEF InSet
    <2> QED BY <1>6, <1>7, <2>1, FS_EmptySet
  <1>8. CASE S # {}
    <2> DEFINE s == CHOOSE x \in S : TRUE
    <2>1. s \in S
      BY <1>8
    <2>2. f[S] = requestsTotal[<<t, s>>] + f[S \ {s}]
      BY <1>6, <1>8
    <2> HIDE DEF s
    <2>3. S \ {s} \in SUBSET Noted
      OBVIOUS
    <2>4. Cardinality(S \ {s}) = n - 1 /\ n \in Nat
      BY <1>1, <1>5, <2>1, FS_RemoveElement
    <2>5. Cardinality(S \ {s}) \in Nat
      BY <1>1, <2>3
    <2>6. S \ {s} \notin Wrong
      BY <1>4, <2>4, <2>5
    <2>7. f[S \ {s}] = Cardinality(InSet(t, S \ {s}))
      BY <2>3, <2>6
    <2> QED BY <2>1, <2>2, <2>7, TakeOut
  <1> QED BY <1>7, <1>8

LEMMA StatusesAddUp ==
    ASSUME CountInv, TypeOK, NEW t \in Routes \ {Health}
    PROVE  LET count(s) == requestsTotal[<<t, s>>]
           IN  MapThenSumSet(count, Noted) = Cardinality(Of(t))
  <1> DEFINE f == CHOOSE g : IsSum(g, t)
  <1>1. LET count(s) == requestsTotal[<<t, s>>]
        IN  MapThenSumSet(count, Noted) = f[Noted]
    BY Zenon DEF MapThenSumSet, MapThenFoldSet, IsSum
  <1>2. IsSum(f, t)
    BY SumExists
  <1> HIDE DEF f
  <1>3. f[Noted] = Cardinality(InSet(t, Noted))
    BY <1>2, SumCounts
  <1>4. InSet(t, Noted) = Of(t)
    BY DEF InSet, Of, TypeOK
  <1> QED BY <1>1, <1>3, <1>4

(* Once no request is between the middleware and its end, the metrics say   *)
(* what the clients were told, for any number of requests, any codes and    *)
(* any point at which a send is cut off (_record, send_with_status).        *)
THEOREM MetricsAreTrue == Spec => []CountedAsSent
  <1>1. IndInv => CountedAsSent
    <2> SUFFICES ASSUME TypeOK, WireInv, CountInv,
                        \A r \in Requests : at[r] \notin {"erring", "logging"}
                 PROVE  /\ durations[Health] = 0
                        /\ \A t \in Routes \ {Health} :
                             LET sent(s)  == Cardinality({r \in Over(t) : wire[r] = s})
                                 cuts     == Cardinality({r \in Over(t) : wire[r] = "nothing" /\ cut[r]})
                                 count(s) == requestsTotal[<<t, s>>]
                             IN  /\ durations[t] = Cardinality(Over(t))
                                 /\ MapThenSumSet(count, Noted) = Cardinality(Over(t))
                                 /\ \A s \in Statuses : sent(s) =< count(s) /\ count(s) =< sent(s) + cuts
                                 /\ count("unknown") = sent("nothing") - cuts
      BY DEF IndInv, CountedAsSent
    <2>1. durations[Health] = 0
      BY DEF CountInv
    <2>2. ASSUME NEW t \in Routes \ {Health}
          PROVE  LET sent(s)  == Cardinality({r \in Over(t) : wire[r] = s})
                     cuts     == Cardinality({r \in Over(t) : wire[r] = "nothing" /\ cut[r]})
                     count(s) == requestsTotal[<<t, s>>]
                 IN  /\ durations[t] = Cardinality(Over(t))
                     /\ MapThenSumSet(count, Noted) = Cardinality(Over(t))
                     /\ \A s \in Statuses : sent(s) =< count(s) /\ count(s) =< sent(s) + cuts
                     /\ count("unknown") = sent("nothing") - cuts
      <3> DEFINE SentWith(s) == {r \in Over(t) : wire[r] = s}
                 Cuts        == {r \in Over(t) : wire[r] = "nothing" /\ cut[r]}
      <3>1. Over(t) = Of(t)
        BY DEF Over, Of, Recorded
      <3>2. /\ durations[t] = Cardinality(Of(t))
            /\ \A s \in Noted : requestsTotal[<<t, s>>] = Cardinality(With(t, s))
        BY DEF CountInv
      <3>3. \A r \in Over(t) : Sent(r) \/ CutOff(r) \/ Silent(r)
        BY DEF Over, WireInv
      <3>4. /\ \A s : SentWith(s) \in SUBSET Requests /\ With(t, s) \in SUBSET Requests
            /\ Cuts \in SUBSET Requests
        BY DEF Over, With, Of
      <3>5. \A S \in SUBSET Requests : IsFiniteSet(S) /\ Cardinality(S) \in Nat
        BY EdgeAssumption, FS_Subset, FS_CardinalityType
      <3>6. "unknown" \in Noted /\ "unknown" \notin Statuses /\ "nothing" \notin Statuses
            /\ Statuses \subseteq Noted
        BY EdgeAssumption DEF Noted, Statuses
      <3>7. ASSUME NEW s \in Statuses
            PROVE  /\ SentWith(s) \subseteq With(t, s)
                   /\ With(t, s) \subseteq SentWith(s) \cup Cuts
        BY <3>1, <3>3, <3>6 DEF Sent, CutOff, Silent, With
      <3>8. /\ SentWith("nothing") = With(t, "unknown") \cup Cuts
            /\ With(t, "unknown") \cap Cuts = {}
        BY <3>1, <3>3, <3>6 DEF Sent, CutOff, Silent, With
      <3> HIDE DEF SentWith, Cuts
      <3>9. ASSUME NEW s \in Statuses
            PROVE  /\ Cardinality(SentWith(s)) =< requestsTotal[<<t, s>>]
                   /\ requestsTotal[<<t, s>>] =< Cardinality(SentWith(s)) + Cardinality(Cuts)
        <4>1. Cardinality(SentWith(s)) =< Cardinality(With(t, s))
          BY <3>4, <3>5, <3>7, FS_Subset
        <4>2. SentWith(s) \cup Cuts \in SUBSET Requests
              /\ SentWith(s) \cap Cuts \in SUBSET Requests
          BY <3>4
        <4>3. Cardinality(With(t, s)) =< Cardinality(SentWith(s) \cup Cuts)
          BY <3>5, <3>7, <4>2, FS_Subset
        <4>4. Cardinality(SentWith(s) \cup Cuts) =
                Cardinality(SentWith(s)) + Cardinality(Cuts)
                  - Cardinality(SentWith(s) \cap Cuts)
          BY <3>4, <3>5, FS_Union
        <4>5. requestsTotal[<<t, s>>] = Cardinality(With(t, s))
          BY <3>2, <3>6
        <4>6. PICK a \in Nat, b \in Nat, c \in Nat, d \in Nat, e \in Nat :
                /\ a = Cardinality(SentWith(s)) /\ b = Cardinality(Cuts)
                /\ c = Cardinality(SentWith(s) \cup Cuts)
                /\ d = Cardinality(SentWith(s) \cap Cuts) /\ e = Cardinality(With(t, s))
          BY <3>4, <3>5, <4>2
        <4> QED BY <4>1, <4>3, <4>4, <4>5, <4>6
      <3>10. requestsTotal[<<t, "unknown">>] =
               Cardinality(SentWith("nothing")) - Cardinality(Cuts)
        <4>1. Cardinality(SentWith("nothing")) =
                Cardinality(With(t, "unknown")) + Cardinality(Cuts) - Cardinality({})
          BY <3>4, <3>5, <3>8, FS_Union
        <4>2. Cardinality({}) = 0
          BY FS_EmptySet
        <4>3. requestsTotal[<<t, "unknown">>] = Cardinality(With(t, "unknown"))
          BY <3>2, <3>6
        <4> QED BY <3>4, <3>5, <4>1, <4>2, <4>3
      <3>11. LET count(s) == requestsTotal[<<t, s>>]
             IN  MapThenSumSet(count, Noted) = Cardinality(Of(t))
        BY StatusesAddUp
      <3> QED BY <3>1, <3>2, <3>9, <3>10, <3>11 DEF SentWith, Cuts
    <2> QED BY <2>1, <2>2
  <1> QED BY <1>1, Invariance, PTL
=============================================================================
