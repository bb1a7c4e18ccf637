--------------------------- MODULE RecommendCancel --------------------------
(***************************************************************************)
(* Cancelling a course recommendation (services/recommend_courses.py,      *)
(* run_cancellable and cancel; api/recommend_courses.py).                  *)
(*                                                                         *)
(* The handler of a call with an id runs the work in a task of its own and *)
(* enters the task in the registry _running; the cancel endpoint looks the *)
(* id up there.  Two calls may come with the same id.  A call without an   *)
(* id runs the work in its handler and cannot be cancelled by the endpoint.*)
(* Any handler may be cancelled from outside (the client goes away).       *)
(* Task.cancel() only asks: the task ends when the loop next runs it.      *)
(***************************************************************************)
EXTENDS Naturals

CONSTANTS
    Calls,      \* calls to POST /v1/recommend-courses
    Ids,        \* values of the X-Request-Id header
    IdOf,       \* call -> its id, or NoId
    NoId,       \* no X-Request-Id header
    NoCall      \* no entry in the registry

ASSUME CancelAssumption ==
    /\ NoId \notin Ids
    /\ NoCall \notin Calls
    /\ IdOf \in [Calls -> Ids \cup {NoId}]

VARIABLES
    handler,    \* the endpoint's coroutine
    task,       \* the work of the call
    dropped,    \* the handler was cancelled: current_task().cancelling() > 0
    running,    \* _running
    reply,      \* the message of the response
    asked,      \* history: calls that cancel() found in progress
    newest      \* history: the latest call that came with an id

vars == <<handler, task, dropped, running, reply, asked, newest>>

Live    == {"pending", "cancelling"}
Results == {"courses", "empty", "failed"}

(* The endpoint's response for what run_cancellable returned or raised.     *)
Message(t) ==
    CASE t = "courses"   -> "recommend_success"
      [] t = "empty"     -> "recommend_not_found"
      [] t = "failed"    -> "recommend_failed"
      [] t = "cancelled" -> "recommend_cancel_accepted"

Init ==
    /\ handler = [c \in Calls |-> "new"]
    /\ task = [c \in Calls |-> "none"]
    /\ dropped = [c \in Calls |-> FALSE]
    /\ running = [i \in Ids |-> NoCall]
    /\ reply = [c \in Calls |-> "none"]
    /\ asked = {}
    /\ newest = [i \in Ids |-> NoCall]

-----------------------------------------------------------------------------
(* run_cancellable with an id: an earlier call of the same id loses its     *)
(* entry.                                                                   *)
Enter(c) ==
    /\ handler[c] = "new" /\ IdOf[c] # NoId
    /\ handler' = [handler EXCEPT ![c] = "running"]
    /\ task' = [task EXCEPT ![c] = "pending"]
    /\ running' = [running EXCEPT ![IdOf[c]] = c]
    /\ newest' = [newest EXCEPT ![IdOf[c]] = c]
    /\ UNCHANGED <<dropped, reply, asked>>

EnterDirect(c) ==
    /\ handler[c] = "new" /\ IdOf[c] = NoId
    /\ handler' = [handler EXCEPT ![c] = "running"]
    /\ task' = [task EXCEPT ![c] = "pending"]
    /\ UNCHANGED <<dropped, running, reply, asked, newest>>

(* The task ends; its handler is resumed later.  A task that was told to    *)
(* cancel catches CancelledError nowhere on its way out.                    *)
TaskEnds(c) ==
    /\ task[c] \in Live /\ IdOf[c] # NoId
    /\ \/ /\ task[c] = "pending"
          /\ \E r \in Results : task' = [task EXCEPT ![c] = r]
       \/ /\ task[c] = "cancelling"
          /\ task' = [task EXCEPT ![c] = "cancelled"]
    /\ UNCHANGED <<handler, dropped, running, reply, asked, newest>>

(* Without an id the work is a part of the handler and ends with it.        *)
DirectEnds(c) ==
    /\ task[c] \in Live /\ IdOf[c] = NoId
    /\ handler' = [handler EXCEPT ![c] = "ended"]
    /\ \/ /\ task[c] = "pending"
          /\ \E r \in Results : /\ task' = [task EXCEPT ![c] = r]
                                /\ reply' = [reply EXCEPT ![c] = Message(r)]
       \/ /\ task[c] = "cancelling"
          /\ task' = [task EXCEPT ![c] = "cancelled"]
          /\ reply' = [reply EXCEPT ![c] = "raised"]
    /\ UNCHANGED <<dropped, running, asked, newest>>

(* Mutants of Forget: the entry is removed whoever owns it; the entry is    *)
(* removed on the normal way out only.                                      *)
ForgetAny(c)        == running' = [running EXCEPT ![IdOf[c]] = NoCall]
ForgetUncancelled(c) ==
    running' = IF task[c] # "cancelled" /\ running[IdOf[c]] = c
               THEN [running EXCEPT ![IdOf[c]] = NoCall] ELSE running

(* The finally block: only the owner of the entry removes it.               *)
Forget(c) ==
    running' = IF running[IdOf[c]] = c
               THEN [running EXCEPT ![IdOf[c]] = NoCall] ELSE running

(* Mutant of Answer: a cancelled task is taken for a cancel request.        *)
AnswerCancelled(c) == Message(task[c])

(* What the handler makes of its finished task: its own cancellation goes   *)
(* up as an exception, even if the task has a result by then.               *)
Answer(c) == IF dropped[c] THEN "raised" ELSE Message(task[c])

(* Mutant of Resume: waits for the entry of its id, not for its own task.   *)
ResumeRegistered(c) ==
    /\ handler[c] = "running" /\ IdOf[c] # NoId
    /\ running[IdOf[c]] = c /\ task[c] \notin Live
    /\ handler' = [handler EXCEPT ![c] = "ended"]
    /\ reply' = [reply EXCEPT ![c] = Answer(c)]
    /\ Forget(c)
    /\ UNCHANGED <<task, dropped, asked, newest>>

Resume(c) ==
    /\ handler[c] = "running" /\ IdOf[c] # NoId
    /\ task[c] \notin Live
    /\ handler' = [handler EXCEPT ![c] = "ended"]
    /\ reply' = [reply EXCEPT ![c] = Answer(c)]
    /\ Forget(c)
    /\ UNCHANGED <<task, dropped, asked, newest>>

(* Mutant of Drop: the handler leaves without waiting for its task.         *)
DropAtOnce(c) ==
    /\ handler[c] = "running" /\ ~dropped[c]
    /\ dropped' = [dropped EXCEPT ![c] = TRUE]
    /\ handler' = [handler EXCEPT ![c] = "ended"]
    /\ reply' = [reply EXCEPT ![c] = "raised"]
    /\ UNCHANGED <<task, running, asked, newest>>

(* The handler is cancelled from outside: the cancellation is passed on to  *)
(* the task it awaits, if that has not ended.                               *)
Drop(c) ==
    /\ handler[c] = "running" /\ ~dropped[c]
    /\ dropped' = [dropped EXCEPT ![c] = TRUE]
    /\ task' = [task EXCEPT ![c] = IF @ = "pending" THEN "cancelling" ELSE @]
    /\ UNCHANGED <<handler, running, reply, asked, newest>>

(* POST /v1/recommend-courses/{request_id}/cancel: it may come at any time, *)
(* more than once, and for an id that is not or no longer in progress.      *)
Cancel(i) ==
    /\ running[i] # NoCall
    /\ task[running[i]] \in Live
    /\ task' = [task EXCEPT ![running[i]] = "cancelling"]
    /\ asked' = asked \cup {running[i]}
    /\ UNCHANGED <<handler, dropped, running, reply, newest>>

CancelNothing(i) ==
    /\ running[i] # NoCall => task[running[i]] \notin Live
    /\ UNCHANGED vars

CallStep(c) == TaskEnds(c) \/ DirectEnds(c) \/ Resume(c)

Next ==
    \/ \E c \in Calls : Enter(c) \/ EnterDirect(c) \/ CallStep(c) \/ Drop(c)
    \/ \E i \in Ids : Cancel(i) \/ CancelNothing(i)

Spec == Init /\ [][Next]_vars

(* The loop runs every task that can run, and the work has a time limit of  *)
(* its own (TIMEOUT_RECOMMEND_COURSES).                                     *)
FairSpec == Spec /\ \A c \in Calls : WF_vars(CallStep(c))

-----------------------------------------------------------------------------
Replies == {"none", "raised", "recommend_success", "recommend_not_found",
            "recommend_failed", "recommend_cancel_accepted"}

(* Every variable keeps its type; in particular the registry has at most    *)
(* one entry per id.                                                        *)
TypeOK ==
    /\ handler \in [Calls -> {"new", "running", "ended"}]
    /\ task \in [Calls -> {"none", "cancelled"} \cup Live \cup Results]
    /\ dropped \in [Calls -> BOOLEAN]
    /\ running \in [Ids -> Calls \cup {NoCall}]
    /\ reply \in [Calls -> Replies]
    /\ asked \in SUBSET Calls
    /\ newest \in [Ids -> Calls \cup {NoCall}]

(* The registry never keeps a call whose handler has ended: no entry leaks, *)
(* whatever the order of ends, cancellations and later calls of the same id *)
(* (the finally block of run_cancellable).                                  *)
RegistryLive ==
    \A i \in Ids : running[i] # NoCall =>
        handler[running[i]] = "running" /\ IdOf[running[i]] = i

(* As long as the latest call of an id is in progress, the id finds it: the *)
(* end of an earlier call of the same id never takes its entry away.        *)
NewestCancellable ==
    \A i \in Ids : newest[i] # NoCall /\ handler[newest[i]] = "running"
        => running[i] = newest[i]

(* An ended call is answered recommend_cancel_accepted exactly when the     *)
(* endpoint cancelled it and its client was still there, and its handler    *)
(* ends with an exception exactly when it was cancelled itself: neither     *)
(* cancellation is taken for the other, and no cancelled call is answered   *)
(* with courses or with an error.                                           *)
CancellationTold ==
    \A c \in Calls : handler[c] = "ended" =>
        /\ reply[c] = "recommend_cancel_accepted" <=> c \in asked /\ ~dropped[c]
        /\ reply[c] = "raised" <=> dropped[c]

(* A handler does not end before the task that run_cancellable made for it, *)
(* also when it was cancelled, and with it the task.  Of other tasks that   *)
(* the work has started this says nothing: the legs of _travel_times may    *)
(* run on after both.                                                       *)
TaskEndsFirst == \A c \in Calls : handler[c] = "ended" => task[c] \notin Live

(* Every call in progress ends.                                             *)
EveryCallEnds == \A c \in Calls : handler[c] = "running" ~> handler[c] = "ended"
=============================================================================
