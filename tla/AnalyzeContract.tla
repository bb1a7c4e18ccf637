-------------------------- MODULE AnalyzeContract --------------------------
(***************************************************************************)
(* What POST /v1/analyze-video promises to the backend, without the tasks, *)
(* semaphores and calls behind it: the videos of a group are decided       *)
(* together, each as one failed item, one not_found item or its confirmed  *)
(* places; a request is answered once, when all its groups are decided,    *)
(* with the verdicts of its own videos.                                    *)
(***************************************************************************)
EXTENDS Naturals

CONSTANTS Requests, Groups, Videos, RequestOf, GroupOf, MaxPlaces, CallCodes

VARIABLES
    verdict,   \* video -> its items, or pending
    sent       \* video -> its items in the response that was sent, or pending

Undecided == [status |-> "pending", code |-> "none", places |-> {}]

FailedWith(c) == [status |-> "failed", code |-> c, places |-> {}]

AnswerCodes == CallCodes \cup {"llm_invalid_response", "internal_server_error"}

Verdicts ==
    {FailedWith(c) : c \in AnswerCodes}
      \cup {[status |-> "not_found", code |-> "none", places |-> {}]}
      \cup {[status |-> "success", code |-> "none", places |-> s] :
              s \in (SUBSET (1..MaxPlaces)) \ {{}}}

OfRequest(r) == {v \in Videos : RequestOf[GroupOf[v]] = r}

ContractInit ==
    /\ verdict = [v \in Videos |-> Undecided]
    /\ sent = [v \in Videos |-> Undecided]

(* A group ends: each of its videos gets its verdict, no other changes.     *)
Settle(g) ==
    /\ \A v \in Videos :
         IF GroupOf[v] = g
         THEN verdict[v] = Undecided /\ verdict'[v] \in Verdicts
         ELSE verdict'[v] = verdict[v]
    /\ sent' = sent

(* A request is answered once, with the verdict of each of its videos.      *)
Send(r) ==
    /\ \A v \in OfRequest(r) : verdict[v] # Undecided /\ sent[v] = Undecided
    /\ sent' = [v \in Videos |-> IF v \in OfRequest(r) THEN verdict[v] ELSE sent[v]]
    /\ verdict' = verdict

ContractNext ==
    \/ \E g \in Groups : Settle(g)
    \/ \E r \in Requests : Send(r)

Spec == ContractInit /\ [][ContractNext]_<<verdict, sent>>
=============================================================================
