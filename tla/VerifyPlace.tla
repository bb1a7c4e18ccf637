----------------------------- MODULE VerifyPlace -----------------------------
(***************************************************************************)
(* The verification of one place (services/verify_place.py,                *)
(* services/verify_place_parser.py, geocode of                             *)
(* integrations/map_client.py).                                            *)
(*                                                                         *)
(* A web search returns a text in a fixed form; a text that cannot be read *)
(* is searched for once more.  The candidates it names are geocoded side   *)
(* by side.  All of it runs under one timeout, and the caller may cancel   *)
(* it at any await.                                                        *)
(***************************************************************************)
EXTENDS Naturals, Sequences, FiniteSets

CONSTANTS
    MaxBlocks,      \* bound on the candidates a text names
    SearchAttempts, \* _SEARCH_ATTEMPTS
    SearchCodes     \* error codes a failing search is mapped to

ASSUME VerifyAssumption ==
    /\ MaxBlocks \in Nat
    /\ SearchAttempts \in Nat \ {0}
    /\ SearchCodes # {}
    /\ SearchCodes \cap {"none", "absent", "exists", "cancelled"} = {}

VARIABLES
    stage,      \* where _verify is
    attempt,    \* searches made
    text,       \* what the last search returned
    geo,        \* the geocode task of each candidate, in the text's order
    finished,   \* history: the geocode tasks in the order they ended
    outcome,    \* what verify_place returned or raised
    candidates  \* the candidates of the answer, by their place in the text

vars == <<stage, attempt, text, geo, finished, outcome, candidates>>

-----------------------------------------------------------------------------
(* verify_place_parser.  A text has a verdict line or none, and a block per *)
(* candidate: complete, with an empty field, with a line not in the form,   *)
(* or with a date that no calendar has.                                     *)
Blocks == {"complete", "incomplete", "unreadable", "no_such_date"}
Texts  == [verdict : {"missing", "none", "found"},
           blocks : UNION {[1..n -> Blocks] : n \in 0..MaxBlocks}]

NoText == [verdict |-> "missing", blocks |-> <<>>]

Complete(t) == {k \in DOMAIN t.blocks : t.blocks[k] = "complete"}

(* The first block that is not in the form decides what parse raises:       *)
(* date() raises a ValueError that is no ParseError.                        *)
Broken(t) == {k \in DOMAIN t.blocks : t.blocks[k] \in {"unreadable", "no_such_date"}}
FirstBroken(t) == CHOOSE k \in Broken(t) : \A j \in Broken(t) : k =< j

Parse(t) ==
    CASE t.verdict = "missing" -> "parse_error"
      [] t.verdict = "none"    -> "absent"
      [] OTHER ->
           IF Broken(t) # {}
           THEN IF t.blocks[FirstBroken(t)] = "unreadable" THEN "parse_error"
                                                           ELSE "value_error"
           ELSE IF Complete(t) = {} THEN "parse_error" ELSE "places"

-----------------------------------------------------------------------------
Init ==
    /\ stage = "search"
    /\ attempt = 0
    /\ text = NoText
    /\ geo = <<>> /\ finished = <<>>
    /\ outcome = "none" /\ candidates = <<>>

End(o) == stage' = "done" /\ outcome' = o

(* _search raises: to_domain_error.                                         *)
SearchFails ==
    /\ stage = "search"
    /\ attempt' = attempt + 1
    /\ \E c \in SearchCodes : End(c)
    /\ UNCHANGED <<text, geo, finished, candidates>>

(* Mutant of Unreadable: one search too many.                               *)
UnreadableOnceMore ==
    IF attempt =< SearchAttempts THEN UNCHANGED <<stage, outcome>>
                                 ELSE End("llm_invalid_response")

(* _search_and_parse: once more, or llm_invalid_response.                   *)
Unreadable ==
    IF attempt + 1 < SearchAttempts THEN UNCHANGED <<stage, outcome>>
                                    ELSE End("llm_invalid_response")

(* The search returned a text: _parse, and the geocode tasks of gather.     *)
SearchReturns ==
    /\ stage = "search"
    /\ attempt' = attempt + 1
    /\ \E t \in Texts :
         /\ text' = t
         /\ \/ Parse(t) = "parse_error" /\ Unreadable /\ UNCHANGED geo
            \/ /\ Parse(t) = "value_error"
               /\ End("internal_server_error") /\ UNCHANGED geo
            \/ Parse(t) = "absent" /\ End("absent") /\ UNCHANGED geo
            \/ /\ Parse(t) = "places"
               /\ geo' = [k \in 1..Cardinality(Complete(t)) |-> "running"]
               /\ stage' = "geocode" /\ UNCHANGED outcome
    /\ UNCHANGED <<finished, candidates>>

-----------------------------------------------------------------------------
Failures == {"map_api_error", "internal_server_error"}

(* geocode: coordinates, no such address, the map API failed (HTTP error,   *)
(* status, timeout), or an answer it does not expect.                       *)
GeocodeEnds(k) ==
    /\ geo[k] = "running"
    /\ \E r \in {"found", "unresolved"} \cup Failures :
         geo' = [geo EXCEPT ![k] = r]
    /\ finished' = Append(finished, k)
    /\ UNCHANGED <<stage, attempt, text, outcome, candidates>>

(* Task.cancel() was called; the loop runs the task once more.              *)
GeocodeCancelled(k) ==
    /\ geo[k] = "stopping"
    /\ geo' = [geo EXCEPT ![k] = "cancelled"]
    /\ UNCHANGED <<stage, attempt, text, finished, outcome, candidates>>

(* gather passes the first exception on at once; the other tasks run on.    *)
GatherFails ==
    /\ stage = "geocode"
    /\ \E k \in DOMAIN geo : geo[k] \in Failures
    /\ LET first == CHOOSE n \in DOMAIN finished :
                      /\ geo[finished[n]] \in Failures
                      /\ \A m \in 1..(n - 1) : geo[finished[m]] \notin Failures
       IN  End(geo[finished[first]])
    /\ UNCHANGED <<attempt, text, geo, finished, candidates>>

(* Mutant of Located: the candidates in the order their addresses were      *)
(* found.                                                                   *)
LocatedAsFinished == SelectSeq(finished, LAMBDA k : geo[k] = "found")

(* Those with coordinates, in the order of the text.                        *)
Located ==
    LET upto[k \in 0..Len(geo)] ==
          IF k = 0 THEN <<>>
          ELSE IF geo[k] = "found" THEN Append(upto[k - 1], k) ELSE upto[k - 1]
    IN  upto[Len(geo)]

(* Mutant of GatherDone: a failed geocode is an address that was not found. *)
GatherDoneAnyway ==
    /\ stage = "geocode"
    /\ \A k \in DOMAIN geo : geo[k] # "running"
    /\ candidates' = Located
    /\ End(IF Located = <<>> THEN "absent" ELSE "exists")
    /\ UNCHANGED <<attempt, text, geo, finished>>

GatherDone ==
    /\ stage = "geocode"
    /\ \A k \in DOMAIN geo : geo[k] \in {"found", "unresolved"}
    /\ candidates' = Located
    /\ End(IF Located = <<>> THEN "absent" ELSE "exists")
    /\ UNCHANGED <<attempt, text, geo, finished>>

(* Mutant of StopCalls: the wait is given up, its calls are not.            *)
StopNoCalls == UNCHANGED geo

(* Cancelling the wait cancels gather and gather its tasks, unless it has   *)
(* ended by the failure of one of them.                                     *)
StopCalls ==
    \/ geo' = [k \in DOMAIN geo |-> IF geo[k] = "running" THEN "stopping" ELSE geo[k]]
    \/ (\E k \in DOMAIN geo : geo[k] \in Failures) /\ UNCHANGED geo

(* TIMEOUT_VERIFY_PLACE has passed, or the caller cancels: at any await.    *)
Interrupted ==
    /\ stage \in {"search", "geocode"}
    /\ StopCalls
    /\ End("llm_timeout") \/ End("cancelled")
    /\ UNCHANGED <<attempt, text, finished, candidates>>

CallsOver == \A k \in DOMAIN geo : geo[k] \notin {"running", "stopping"}
Idle == stage = "done" /\ CallsOver /\ UNCHANGED vars

VerifyStep == SearchFails \/ SearchReturns \/ GatherFails \/ GatherDone \/ Interrupted
CallStep   == \E k \in DOMAIN geo : GeocodeEnds(k) \/ GeocodeCancelled(k)

Next == VerifyStep \/ CallStep \/ Idle

Spec == Init /\ [][Next]_vars

-----------------------------------------------------------------------------
Calls == {"running", "stopping", "cancelled", "found", "unresolved"} \cup Failures
Codes == SearchCodes \cup Failures \cup {"llm_invalid_response", "llm_timeout"}

(* The variables keep their types; a place is searched for at most          *)
(* _SEARCH_ATTEMPTS times, whatever the texts.                              *)
TypeOK ==
    /\ stage \in {"search", "geocode", "done"}
    /\ attempt \in 0..SearchAttempts
    /\ text \in Texts
    /\ geo \in UNION {[1..n -> Calls] : n \in 0..MaxBlocks}
    /\ outcome \in {"none", "absent", "exists", "cancelled"} \cup Codes
    /\ \A n \in DOMAIN candidates : candidates[n] \in DOMAIN geo

(* A place is answered as not existing only when a text said so or none of  *)
(* the addresses it names was found: an outage of the search or of the map  *)
(* API and a text that cannot be read are errors, which the backend asks    *)
(* about again (docstring of geocode, comments of _verify).                 *)
AbsentMeansAbsent ==
    outcome = "absent" =>
        \/ text.verdict = "none" /\ geo = <<>>
        \/ geo # <<>> /\ \A k \in DOMAIN geo : geo[k] = "unresolved"

(* The first candidate, which the caller takes without asking, is the first *)
(* of the text whose address was found, in whatever order the addresses     *)
(* were found; and none is answered as long as one of them is open.         *)
FirstIsBest ==
    outcome = "exists" =>
        /\ candidates # <<>>
        /\ geo[candidates[1]] = "found"
        /\ \A k \in 1..(candidates[1] - 1) : geo[k] = "unresolved"

(* A verification that has ended has no geocode call left that nobody told  *)
(* to stop, but for the siblings of one that failed (gather).               *)
CallsStopped ==
    stage = "done" /\ (\A k \in DOMAIN geo : geo[k] \notin Failures) =>
        \A k \in DOMAIN geo : geo[k] # "running"

(* verify_place.py:55 and the docstring of the parser: a text whose form    *)
(* cannot be read is searched for again and in the end answered             *)
(* llm_invalid_response; it is never an internal error.                     *)
UnreadableIsInvalid ==
    stage = "done" /\ outcome = "internal_server_error" /\ geo = <<>> =>
        Parse(text) # "value_error"
=============================================================================
