------------------------------ MODULE EmbedStore ------------------------------
(***************************************************************************)
(* The vector index of places: POST /v1/embed-places and                   *)
(* /v1/embed-places/delete (services/embed_places.py,                      *)
(* retrieval/chroma_store.py).                                             *)
(*                                                                         *)
(* An embed request computes its vectors and then upserts them in one      *)
(* Chroma call on a worker thread.  A delete request looks up which ids    *)
(* there are and then deletes those, two Chroma calls on a worker thread.  *)
(* The calls of several requests interleave.  The process may be restarted *)
(* at any time: its requests are lost, the index on disk stays.            *)
(***************************************************************************)
EXTENDS Naturals, Sequences, FiniteSets

CONSTANTS
    Ids,            \* place ids
    Embeds,         \* embed requests
    Deletes,        \* delete requests
    PlaceLists,     \* what an embed request may bring
    MaxRestarts,    \* bound on restarts of the process
    Absent          \* no vector for the id

ASSUME EmbedAssumption ==
    /\ Embeds \cap Deletes = {}
    /\ Absent \notin Embeds \X Nat
    /\ IsFiniteSet(Ids) /\ IsFiniteSet(Deletes)
    /\ PlaceLists \subseteq Seq([id : Ids, blank : BOOLEAN])
    /\ MaxRestarts \in Nat

VARIABLES
    store,      \* the collection: id -> the request its vector came from, and
                \* which of the request's summaries it was made of
    stage,      \* where a request is
    ids,        \* the ids a request is about, after _prepare / dict.fromkeys
    latest,     \* latest of _prepare: id -> number of its place in the request
    found,      \* what a delete's lookup returned
    count,      \* embedded_count or deleted_count of the answer
    restarts,   \* restarts so far
    before,     \* history: the requests that had ended when this one came
    asked,      \* history: the places of an embed request
    removed     \* history: the ids a delete really took out of the store

input == <<ids, latest, asked, before>>
vars  == <<store, stage, input, found, count, restarts, removed>>

Calls == Embeds \cup Deletes
Over  == {"answered", "failed", "lost"}
Ended == {r \in Calls : stage[r] \in Over}

Init ==
    /\ store = [i \in Ids |-> Absent]
    /\ stage = [r \in Calls |-> "new"]
    /\ ids = [r \in Calls |-> {}]
    /\ latest = [e \in Embeds |-> [i \in Ids |-> 0]]
    /\ asked = [e \in Embeds |-> <<>>]
    /\ found = [d \in Deletes |-> {}]
    /\ count = [r \in Calls |-> 0]
    /\ restarts = 0
    /\ before = [r \in Calls |-> {}]
    /\ removed = [d \in Deletes |-> {}]

Move(r, s) == stage' = [stage EXCEPT ![r] = s]

-----------------------------------------------------------------------------
(* _prepare: blank summaries are left out, and of a repeated id the last    *)
(* one stays.  A place is an id, and whether its summary is blank.          *)
Prepare(places) ==
    LET kept[n \in 0..Len(places)] ==
          IF n = 0 THEN [i \in Ids |-> 0]
          ELSE IF places[n].blank THEN kept[n - 1]
               ELSE [kept[n - 1] EXCEPT ![places[n].id] = n]
    IN  kept[Len(places)]

(* An empty request is answered without a call.                             *)
Begin(r, s, next) ==
    /\ stage[r] = "new"
    /\ ids' = [ids EXCEPT ![r] = s]
    /\ before' = [before EXCEPT ![r] = Ended]
    /\ Move(r, IF s = {} THEN "answered" ELSE next)
    /\ UNCHANGED <<store, found, count, restarts, removed>>

EmbedBegin(e) ==
    \E places \in PlaceLists :
        LET kept == Prepare(places) IN
        /\ Begin(e, {i \in Ids : kept[i] # 0}, "embedding")
        /\ latest' = [latest EXCEPT ![e] = kept]
        /\ asked' = [asked EXCEPT ![e] = places]

(* The embedding call ends: with vectors, or with a failure or a timeout    *)
(* (wait_for), which ends the request.                                      *)
EmbedEnd(e) ==
    /\ stage[e] = "embedding"
    /\ Move(e, "storing") \/ Move(e, "failed")
    /\ UNCHANGED <<store, input, found, count, restarts, removed>>

(* Mutant of Upsert: add() in place of upsert() keeps the vectors there are. *)
UpsertAdds(e) ==
    /\ stage[e] = "storing"
    /\ store' = [i \in Ids |-> IF i \in ids[e] /\ store[i] = Absent THEN <<e, latest[e][i]>>
                             ELSE store[i]]
    /\ Move(e, "stored")

(* upsert_places on the worker thread: all places of the request at once.   *)
Upsert(e) ==
    /\ stage[e] = "storing"
    /\ store' = [i \in Ids |-> IF i \in ids[e] THEN <<e, latest[e][i]>> ELSE store[i]]
    /\ Move(e, "stored")

StoreVectors(e) ==
    /\ Upsert(e)
    /\ UNCHANGED <<input, found, count, restarts, removed>>

(* A call of Chroma raises and changes nothing.                             *)
StoreFails(r) ==
    /\ stage[r] \in {"storing", "looking", "deleting"}
    /\ Move(r, "failed")
    /\ UNCHANGED <<store, input, found, count, restarts, removed>>

EmbedAnswer(e) ==
    /\ stage[e] = "stored"
    /\ count' = [count EXCEPT ![e] = Cardinality(ids[e])]
    /\ Move(e, "answered")
    /\ UNCHANGED <<store, input, found, restarts, removed>>

-----------------------------------------------------------------------------
DeleteBegin(d) ==
    /\ \E s \in SUBSET Ids : Begin(d, s, "looking")
    /\ UNCHANGED <<latest, asked>>

(* Mutant of Found: what was asked for.                                     *)
FoundAsked(d) == ids[d]

(* The ids that are there, by get().                                        *)
Found(d) == {i \in ids[d] : store[i] # Absent}

(* delete_places, first call; nothing found is nothing to delete.           *)
DeleteLook(d) ==
    /\ stage[d] = "looking"
    /\ found' = [found EXCEPT ![d] = Found(d)]
    /\ Move(d, IF Found(d) = {} THEN "deleted" ELSE "deleting")
    /\ UNCHANGED <<store, input, count, restarts, removed>>

(* delete(ids=found): also what was stored for these ids since the lookup.  *)
Delete(d) == store' = [i \in Ids |-> IF i \in found[d] THEN Absent ELSE store[i]]

DeleteStore(d) ==
    /\ stage[d] = "deleting"
    /\ Delete(d)
    /\ removed' = [removed EXCEPT ![d] = {i \in found[d] : store[i] # Absent}]
    /\ Move(d, "deleted")
    /\ UNCHANGED <<input, found, count, restarts>>

DeleteAnswer(d) ==
    /\ stage[d] = "deleted"
    /\ count' = [count EXCEPT ![d] = Cardinality(found[d])]
    /\ Move(d, "answered")
    /\ UNCHANGED <<store, input, found, restarts, removed>>

(* The process is restarted: nothing of its requests is left to run.        *)
Restart ==
    /\ restarts < MaxRestarts
    /\ restarts' = restarts + 1
    /\ stage' = [r \in Calls |-> IF stage[r] \in Over \cup {"new"} THEN stage[r]
                                 ELSE "lost"]
    /\ UNCHANGED <<store, input, found, count, removed>>

Idle == Ended = Calls /\ UNCHANGED vars

Next ==
    \/ \E e \in Embeds : EmbedBegin(e) \/ EmbedEnd(e) \/ StoreVectors(e)
                           \/ StoreFails(e) \/ EmbedAnswer(e)
    \/ \E d \in Deletes : DeleteBegin(d) \/ DeleteLook(d) \/ DeleteStore(d)
                            \/ StoreFails(d) \/ DeleteAnswer(d)
    \/ Restart
    \/ Idle

Spec == Init /\ [][Next]_vars

-----------------------------------------------------------------------------
(* Every variable keeps its type; a delete finds only what it asked for, so *)
(* that it never takes out more.                                            *)
TypeOK ==
    /\ store \in [Ids -> (Embeds \X Nat) \cup {Absent}]
    /\ stage \in [Calls -> {"new", "embedding", "storing", "stored", "looking",
                            "deleting", "deleted"} \cup Over]
    /\ ids \in [Calls -> SUBSET Ids]
    /\ latest \in [Embeds -> [Ids -> Nat]]
    /\ asked \in [Embeds -> PlaceLists \cup {<<>>}]
    /\ found \in [Deletes -> SUBSET Ids]
    /\ count \in [Calls -> Nat]
    /\ restarts \in 0..MaxRestarts
    /\ before \in [Calls -> SUBSET Calls]
    /\ removed \in [Deletes -> SUBSET Ids]
    /\ \A d \in Deletes : found[d] \subseteq ids[d]

Overlap(r, s) == r \notin before[s] /\ s \notin before[r]

(* The other requests for an id that had not ended when this one came.      *)
Rivals(r, i) == {s \in Calls \ {r} :
                    stage[s] # "new" /\ i \in ids[s] /\ s \notin before[r]}

(* The number of the last place of a request for an id that has a summary.  *)
LastSaid(places, i) ==
    CHOOSE j \in DOMAIN places :
        /\ places[j].id = i /\ ~places[j].blank
        /\ \A k \in DOMAIN places : k > j => places[k].id # i \/ places[k].blank

(* What the backend was told last is what the index holds, id by id: after  *)
(* an answered embed the index has the vectors of its last summaries (of an *)
(* id that comes again, and is not blank then) and after an answered delete *)
(* it has none, unless another request for the same id overlapped with it   *)
(* or came later.  In particular a request that failed or was lost in a     *)
(* restart writes nothing afterwards, so the backend may simply call again  *)
(* (comments at the end of embed_places and delete_places).  A handler that *)
(* is cancelled while a call of it is on a thread is not in the model.      *)
LastAnswerHolds ==
    \A r \in Calls : stage[r] = "answered" =>
        \A i \in ids[r] : Rivals(r, i) = {} =>
            store[i] = IF r \in Embeds THEN <<r, LastSaid(asked[r], i)>> ELSE Absent

(* deleted_count counts what was there: an id it counts was taken out by    *)
(* this delete, or in between by another delete that overlapped with it     *)
(* (the caveat in the docstring of delete_places), and an id it took out is *)
(* always counted, also one embedded anew after the lookup.                 *)
CountExplained ==
    \A d \in Deletes : stage[d] = "answered" =>
        /\ Cardinality(removed[d]) =< count[d]
        /\ count[d] > Cardinality(removed[d]) =>
             \E o \in Deletes \ {d} : Overlap(o, d) /\ removed[o] \cap ids[d] # {}
=============================================================================
