--------------------------- MODULE EmbedStoreProofs ---------------------------
(***************************************************************************)
(* Theorems about EmbedStore, for any ids, requests and lists of places.   *)
(***************************************************************************)
EXTENDS EmbedStore, FiniteSetTheorems, WellFoundedInduction, TLAPS

-----------------------------------------------------------------------------
(* _prepare keeps the last place of each id that has a summary.  The loop   *)
(* of Prepare, as an equation that a function on 0..m satisfies.            *)
After(kept, places, n) ==
    IF n = 0 THEN [i \in Ids |-> 0]
    ELSE IF places[n].blank THEN kept[n - 1]
         ELSE [kept[n - 1] EXCEPT ![places[n].id] = n]

IsLoop(kept, places, m) == kept = [n \in 0..m |-> After(kept, places, n)]

LEMMA LeastNumber ==
    ASSUME NEW S \in SUBSET Nat, S # {}
    PROVE  \E n \in S : \A m \in S : n =< m
  <1>1. PICK n \in S : \A m \in S : <<m, n>> \notin OpToRel(<, Nat)
    BY NatLessThanWellFounded, WFMin
  <1>2. \A m \in S : ~ (m < n)
    BY <1>1 DEF OpToRel
  <1> QED BY <1>2

(* The loop has a result for any number of steps.                           *)
LEMMA LoopEnds ==
    ASSUME NEW places, NEW m \in Nat
    PROVE  \E kept : IsLoop(kept, places, m)
  <1> DEFINE Stuck == {k \in Nat : ~ \E kept : IsLoop(kept, places, k)}
  <1> SUFFICES ASSUME Stuck # {} PROVE FALSE
    OBVIOUS
  <1>1. PICK k \in Stuck : \A j \in Stuck : k =< j
    BY LeastNumber
  <1>2. CASE k = 0
    <2>1. IsLoop([n \in 0..0 |-> [i \in Ids |-> 0]], places, 0)
      BY DEF IsLoop, After
    <2> QED BY <1>1, <1>2, <2>1
  <1>3. CASE k # 0
    <2>1. k - 1 \in Nat /\ k - 1 \notin Stuck
      BY <1>1, <1>3
    <2>2. PICK kept : IsLoop(kept, places, k - 1)
      BY <2>1
    <2> DEFINE more == [n \in 0..k |-> IF n < k THEN kept[n] ELSE After(kept, places, k)]
    <2>3. ASSUME NEW n \in 0..k PROVE more[n] = After(more, places, n)
      <3>1. CASE n = 0
        <4>1. more[n] = kept[n] /\ kept[n] = After(kept, places, n)
          BY <1>3, <2>1, <2>2, <3>1 DEF IsLoop
        <4> QED BY <3>1, <4>1 DEF After
      <3>2. CASE n # 0
        <4>1. n - 1 \in 0..k /\ n - 1 < k
          BY <3>2
        <4>2. more[n - 1] = kept[n - 1]
          BY <4>1
        <4>3. more[n] = After(kept, places, n)
          <5>1. CASE n < k
            <6>1. n \in 0..(k - 1)
              BY <5>1, <2>1
            <6> QED BY <5>1, <6>1, <2>2 DEF IsLoop
          <5>2. CASE n = k
            BY <5>2
          <5> QED BY <5>1, <5>2
        <4> QED BY <3>2, <4>2, <4>3 DEF After
      <3> QED BY <3>1, <3>2
    <2>4. IsLoop(more, places, k)
      <3>1. more = [n \in 0..k |-> more[n]]
        OBVIOUS
      <3> HIDE DEF more
      <3> QED BY <2>3, <3>1 DEF IsLoop
    <2> HIDE DEF more
    <2> QED BY <1>1, <2>4
  <1> QED BY <1>2, <1>3

(* After n places an id has the number of its last one that is not blank.   *)
Last(places, n, i, j) ==
    /\ j \in 0..n
    /\ j # 0 => places[j].id = i /\ ~places[j].blank
    /\ \A k \in 1..n : k > j => places[k].id # i \/ places[k].blank

LEMMA Element ==
    ASSUME NEW S, NEW s \in Seq(S), NEW k \in 1..Len(s)
    PROVE  s[k] \in S
  OBVIOUS

LEMMA LoopKeepsLast ==
    ASSUME NEW places \in Seq([id : Ids, blank : BOOLEAN]), NEW kept,
           IsLoop(kept, places, Len(places)), NEW n \in 0..Len(places)
    PROVE  /\ kept[n] \in [Ids -> Nat]
           /\ \A i \in Ids : Last(places, n, i, kept[n][i])
  <1> DEFINE Good(m) == /\ kept[m] \in [Ids -> Nat]
                        /\ \A i \in Ids : Last(places, m, i, kept[m][i])
             Bad == {m \in 0..Len(places) : ~Good(m)}
  <1> SUFFICES ASSUME Bad # {} PROVE FALSE
    OBVIOUS
  <1>0. Len(places) \in Nat /\ Bad \in SUBSET Nat
    <2> HIDE DEF Good
    <2> QED OBVIOUS
  <1>1. PICK m \in Bad : \A j \in Bad : m =< j
    <2> HIDE DEF Bad
    <2> QED BY <1>0, LeastNumber
  <1>2. m \in 0..Len(places) /\ ~Good(m) /\ kept[m] = After(kept, places, m)
    BY <1>1 DEF IsLoop
  <1>3. CASE m = 0
    <2>1. kept[m] = [i \in Ids |-> 0]
      BY <1>2, <1>3 DEF After
    <2>2. \A i \in Ids : Last(places, 0, i, 0)
      BY DEF Last
    <2> QED BY <1>2, <1>3, <2>1, <2>2
  <1>4. CASE m # 0
    <2>1. m - 1 \in 0..Len(places) /\ m - 1 \notin Bad /\ m \in 1..Len(places)
      BY <1>1, <1>2, <1>4
    <2>2. kept[m - 1] \in [Ids -> Nat]
          /\ \A i \in Ids : Last(places, m - 1, i, kept[m - 1][i])
      BY <2>1
    <2>3. places[m] \in [id : Ids, blank : BOOLEAN]
      BY <2>1, Element
    <2>4. CASE places[m].blank
      <3>1. kept[m] = kept[m - 1]
        BY <1>2, <1>4, <2>4 DEF After
      <3>2. ASSUME NEW i \in Ids PROVE Last(places, m, i, kept[m - 1][i])
        <4>1. Last(places, m - 1, i, kept[m - 1][i])
          BY <2>2
        <4>2. \A k \in 1..m : k = m \/ k \in 1..(m - 1)
          BY <2>1
        <4>3. kept[m - 1][i] \in 0..m
          BY <2>1, <4>1 DEF Last
        <4> QED BY <2>4, <4>1, <4>2, <4>3 DEF Last
      <3> QED BY <1>2, <2>2, <3>1, <3>2
    <2>5. CASE ~places[m].blank
      <3>1. kept[m] = [kept[m - 1] EXCEPT ![places[m].id] = m]
        BY <1>2, <1>4, <2>5 DEF After
      <3>2. kept[m] \in [Ids -> Nat]
        <4>1. m \in Nat
          BY <1>0, <2>1
        <4> QED BY <2>2, <3>1, <4>1
      <3>3. ASSUME NEW i \in Ids PROVE Last(places, m, i, kept[m][i])
        <4>1. CASE i = places[m].id
          <5>1. kept[m][i] = m
            BY <2>2, <2>3, <3>1, <4>1
          <5>2. m \in 0..m /\ \A k \in 1..m : ~ (k > m)
            BY <2>1
          <5> QED BY <2>5, <4>1, <5>1, <5>2 DEF Last
        <4>2. CASE i # places[m].id
          <5>1. kept[m][i] = kept[m - 1][i]
            BY <2>2, <2>3, <3>1, <4>2
          <5>2. Last(places, m - 1, i, kept[m - 1][i])
            BY <2>2
          <5>3. \A k \in 1..m : k = m \/ k \in 1..(m - 1)
            BY <2>1
          <5>4. kept[m - 1][i] \in 0..m
            BY <2>1, <5>2 DEF Last
          <5> QED BY <4>2, <5>1, <5>2, <5>3, <5>4 DEF Last
        <4> QED BY <4>1, <4>2
      <3> QED BY <1>2, <3>2, <3>3
    <2> QED BY <2>4, <2>5
  <1> QED BY <1>3, <1>4

LEMMA PrepareKeepsLast ==
    ASSUME NEW places \in Seq([id : Ids, blank : BOOLEAN])
    PROVE  /\ Prepare(places) \in [Ids -> Nat]
           /\ \A i \in Ids : Prepare(places)[i] # 0 => Prepare(places)[i] = LastSaid(places, i)
  <1> DEFINE kept == CHOOSE f : f = [n \in 0..Len(places) |-> After(f, places, n)]
  <1>1. Len(places) \in Nat /\ Len(places) \in 0..Len(places)
    OBVIOUS
  <1>2. IsLoop(kept, places, Len(places))
    BY <1>1, LoopEnds DEF IsLoop
  <1>3. Prepare(places) = kept[Len(places)]
    BY Zenon DEF Prepare, After
  <1> HIDE DEF kept
  <1>4. /\ Prepare(places) \in [Ids -> Nat]
        /\ \A i \in Ids : Last(places, Len(places), i, Prepare(places)[i])
    BY <1>1, <1>2, <1>3, LoopKeepsLast
  <1>5. ASSUME NEW i \in Ids, Prepare(places)[i] # 0
        PROVE  Prepare(places)[i] = LastSaid(places, i)
    <2> DEFINE p == Prepare(places)[i]
               IsLast(j) == /\ places[j].id = i /\ ~places[j].blank
                            /\ \A k \in DOMAIN places : k > j => places[k].id # i \/ places[k].blank
    <2>1. p \in DOMAIN places /\ IsLast(p)
      BY <1>4, <1>5 DEF Last
    <2>2. \A j \in DOMAIN places : IsLast(j) => j = p
      BY <2>1
    <2> QED BY <2>1, <2>2 DEF LastSaid
  <1> QED BY <1>4, <1>5

-----------------------------------------------------------------------------
(* The stages of each kind of request; a delete has found nothing before it *)
(* looks.  What a request is about once it has come.                        *)
StageInv ==
    /\ \A e \in Embeds : stage[e] \in {"new", "embedding", "storing", "stored"} \cup Over
    /\ \A d \in Deletes : /\ stage[d] \in {"new", "looking", "deleting", "deleted"} \cup Over
                          /\ stage[d] \in {"new", "looking"} => found[d] = {}

InputInv ==
    \A e \in Embeds : stage[e] # "new" =>
        /\ asked[e] \in PlaceLists
        /\ latest[e] = Prepare(asked[e])
        /\ ids[e] = {i \in Ids : latest[e][i] # 0}

(* A request that had ended before another came has ended.                  *)
BeforeInv == \A r \in Calls : before[r] \subseteq Ended

(* What an id should hold after a request, and from when on: once it has    *)
(* been written, or found not to be there.                                  *)
Expected(r, i) == IF r \in Embeds THEN <<r, latest[r][i]>> ELSE Absent
Settled(r, i)  == \/ stage[r] \in {"stored", "deleted", "answered"}
                  \/ stage[r] = "deleting" /\ i \notin found[r]

HoldsInv ==
    \A r \in Calls : \A i \in ids[r] :
        Rivals(r, i) = {} /\ Settled(r, i) => store[i] = Expected(r, i)

(* An id that a delete found, and that is gone, was taken out by another    *)
(* delete that overlapped with it.                                          *)
Explained(d, i) == \E o \in Deletes \ {d} : Overlap(o, d) /\ i \in removed[o]

FoundInv ==
    \A d \in Deletes :
        /\ stage[d] \in {"new", "looking", "deleting"} => removed[d] = {}
        /\ removed[d] \subseteq found[d]
        /\ stage[d] = "deleting" => \A i \in found[d] : store[i] # Absent \/ Explained(d, i)
        /\ stage[d] \in {"deleted", "answered"} =>
              \A i \in found[d] \ removed[d] : Explained(d, i)
        /\ stage[d] = "new" => count[d] = 0
        /\ stage[d] = "answered" => count[d] = Cardinality(found[d])

BaseInv == TypeOK /\ StageInv /\ InputInv /\ BeforeInv
IndInv  == BaseInv /\ HoldsInv /\ FoundInv

LEMMA InitInv == Init => IndInv
  <1> SUFFICES ASSUME Init PROVE IndInv
    OBVIOUS
  <1>1. TypeOK
    BY EmbedAssumption DEF Init, TypeOK, Over, Calls
  <1>2. StageInv /\ InputInv /\ BeforeInv /\ HoldsInv
    BY DEF Init, StageInv, InputInv, BeforeInv, HoldsInv, Calls
  <1>3. FoundInv
    BY DEF Init, FoundInv, Calls
  <1> QED BY <1>1, <1>2, <1>3 DEF IndInv, BaseInv

-----------------------------------------------------------------------------
(* Type correctness and the stages, action by action.                       *)
LEMMA CountIsNat ==
    ASSUME NEW S \in SUBSET Ids
    PROVE  Cardinality(S) \in Nat
  BY EmbedAssumption, FS_Subset, FS_CardinalityType

LEMMA PlacesAreLists ==
    ASSUME NEW places \in PlaceLists
    PROVE  /\ Prepare(places) \in [Ids -> Nat]
           /\ \A i \in Ids : Prepare(places)[i] # 0 => Prepare(places)[i] = LastSaid(places, i)
  BY EmbedAssumption, PrepareKeepsLast

LEMMA EmbedTypes ==
    ASSUME BaseInv, NEW e \in Embeds,
           \/ EmbedBegin(e) \/ EmbedEnd(e) \/ StoreVectors(e) \/ StoreFails(e) \/ EmbedAnswer(e)
    PROVE  TypeOK' /\ StageInv'
  <1>1. e \in Calls /\ e \notin Deletes
    BY EmbedAssumption DEF Calls
  <1>2. CASE EmbedBegin(e)
    <2>1. PICK places \in PlaceLists :
            /\ Begin(e, {i \in Ids : Prepare(places)[i] # 0}, "embedding")
            /\ latest' = [latest EXCEPT ![e] = Prepare(places)]
            /\ asked' = [asked EXCEPT ![e] = places]
      BY <1>2 DEF EmbedBegin
    <2>2. Prepare(places) \in [Ids -> Nat]
      BY PlacesAreLists
    <2>3. latest' \in [Embeds -> [Ids -> Nat]] /\ asked' \in [Embeds -> PlaceLists \cup {<<>>}]
      BY <2>1, <2>2 DEF BaseInv, TypeOK
    <2> HIDE DEF Prepare
    <2> QED BY <1>1, <2>1, <2>3 DEF Begin, Move, BaseInv, TypeOK, StageInv, Over, Ended
  <1>3. CASE EmbedEnd(e) \/ StoreFails(e)
    <2>1. PICK s \in {"storing", "failed"} : stage' = [stage EXCEPT ![e] = s]
      BY <1>3 DEF EmbedEnd, StoreFails, Move
    <2>2. UNCHANGED <<store, input, found, count, restarts, removed>>
      BY <1>3 DEF EmbedEnd, StoreFails
    <2> QED BY <1>1, <2>1, <2>2 DEF BaseInv, TypeOK, StageInv, Over, input
  <1>4. CASE StoreVectors(e)
    <2>1. store' \in [Ids -> (Embeds \X Nat) \cup {Absent}]
      BY <1>4 DEF StoreVectors, Upsert, BaseInv, TypeOK
    <2>2. stage' = [stage EXCEPT ![e] = "stored"]
      BY <1>4 DEF StoreVectors, Upsert, Move
    <2> QED BY <1>1, <1>4, <2>1, <2>2 DEF StoreVectors, BaseInv, TypeOK, StageInv, Over, input
  <1>5. CASE EmbedAnswer(e)
    <2>1. Cardinality(ids[e]) \in Nat
      BY <1>1, CountIsNat DEF BaseInv, TypeOK
    <2> QED BY <1>1, <1>5, <2>1 DEF EmbedAnswer, Move, BaseInv, TypeOK, StageInv, Over, input
  <1> QED BY <1>2, <1>3, <1>4, <1>5

LEMMA DeleteTypes ==
    ASSUME BaseInv, NEW d \in Deletes,
           \/ DeleteBegin(d) \/ DeleteLook(d) \/ DeleteStore(d) \/ StoreFails(d) \/ DeleteAnswer(d)
    PROVE  TypeOK' /\ StageInv'
  <1>1. d \in Calls /\ d \notin Embeds
    BY EmbedAssumption DEF Calls
  <1>2. CASE DeleteBegin(d)
    <2>1. PICK s \in SUBSET Ids : Begin(d, s, "looking")
      BY <1>2 DEF DeleteBegin
    <2>2. UNCHANGED <<latest, asked>>
      BY <1>2 DEF DeleteBegin
    <2>3. PICK t \in {"answered", "looking"} : stage' = [stage EXCEPT ![d] = t]
      BY <2>1 DEF Begin, Move
    <2>4. ids' \in [Calls -> SUBSET Ids] /\ before' \in [Calls -> SUBSET Calls]
      BY <1>1, <2>1 DEF Begin, Ended, BaseInv, TypeOK
    <2>5. found' = found /\ found[d] = {} /\ found'[d] = {}
      BY <2>1 DEF Begin, BaseInv, StageInv
    <2>6. stage' \in [Calls -> {"new", "embedding", "storing", "stored", "looking",
                               "deleting", "deleted"} \cup Over]
      BY <2>3 DEF BaseInv, TypeOK, Over
    <2>7. StageInv'
      BY <1>1, <2>3, <2>5 DEF BaseInv, TypeOK, StageInv, Over, Calls
    <2>8. \A e \in Deletes : found'[e] \subseteq ids'[e]
      BY <1>1, <2>1, <2>5 DEF Begin, BaseInv, TypeOK, Calls
    <2>9. UNCHANGED <<store, latest, asked, found, count, restarts, removed>>
      BY <2>1, <2>2 DEF Begin
    <2> QED BY <2>4, <2>6, <2>7, <2>8, <2>9 DEF BaseInv, TypeOK
  <1>3. CASE DeleteLook(d)
    BY <1>1, <1>3 DEF DeleteLook, Found, Move, BaseInv, TypeOK, StageInv, Over, input
  <1>4. CASE DeleteStore(d)
    <2>1. store' \in [Ids -> (Embeds \X Nat) \cup {Absent}]
      BY <1>4 DEF DeleteStore, Delete, BaseInv, TypeOK
    <2>2. removed' \in [Deletes -> SUBSET Ids]
      BY <1>4 DEF DeleteStore, BaseInv, TypeOK
    <2> QED BY <1>1, <1>4, <2>1, <2>2 DEF DeleteStore, Move, BaseInv, TypeOK, StageInv, Over, input
  <1>5. CASE StoreFails(d)
    BY <1>1, <1>5 DEF StoreFails, Move, BaseInv, TypeOK, StageInv, Over, input
  <1>6. CASE DeleteAnswer(d)
    <2>1. Cardinality(found[d]) \in Nat
      BY <1>1, CountIsNat DEF BaseInv, TypeOK
    <2> QED BY <1>1, <1>6, <2>1 DEF DeleteAnswer, Move, BaseInv, TypeOK, StageInv, Over, input
  <1> QED BY <1>2, <1>3, <1>4, <1>5, <1>6

LEMMA TypeStep == BaseInv /\ [Next]_vars => TypeOK' /\ StageInv'
  <1> SUFFICES ASSUME BaseInv, [Next]_vars PROVE TypeOK' /\ StageInv'
    OBVIOUS
  <1>1. CASE Restart
    <2>1. restarts' \in 0..MaxRestarts
      BY <1>1, EmbedAssumption DEF Restart, BaseInv, TypeOK
    <2> QED BY <1>1, <2>1 DEF Restart, BaseInv, TypeOK, StageInv, Over, Calls, input
  <1>2. CASE UNCHANGED vars
    BY <1>2 DEF BaseInv, TypeOK, StageInv, vars, input
  <1> QED BY <1>1, <1>2, EmbedTypes, DeleteTypes DEF Next, Idle

-----------------------------------------------------------------------------
(* A request is about the same ids to its end; an ended one stays ended.    *)
Fixed(r) ==
    /\ stage'[r] # "new" /\ (stage[r] \in Over => stage'[r] = stage[r])
    /\ ids'[r] = ids[r] /\ before'[r] = before[r]
    /\ r \in Embeds => latest'[r] = latest[r] /\ asked'[r] = asked[r]

LEMMA InputFixed ==
    ASSUME BaseInv, [Next]_vars, NEW r \in Calls, stage[r] # "new"
    PROVE  Fixed(r)
  <1>0. stage \in [Calls -> {"new", "embedding", "storing", "stored", "looking",
                            "deleting", "deleted"} \cup Over]
        /\ ids \in [Calls -> SUBSET Ids] /\ before \in [Calls -> SUBSET Calls]
        /\ latest \in [Embeds -> [Ids -> Nat]] /\ asked \in [Embeds -> PlaceLists \cup {<<>>}]
    BY DEF BaseInv, TypeOK
  <1>1. ASSUME NEW s \in Calls, NEW t, t # "new", stage' = [stage EXCEPT ![s] = t],
               stage[s] \notin Over \cup {"new"}, UNCHANGED input
        PROVE  Fixed(r)
    BY <1>0, <1>1 DEF Fixed, input
  <1>2. ASSUME NEW e \in Embeds, EmbedBegin(e) PROVE Fixed(r)
    <2>1. PICK places \in PlaceLists :
            /\ Begin(e, {i \in Ids : Prepare(places)[i] # 0}, "embedding")
            /\ latest' = [latest EXCEPT ![e] = Prepare(places)]
            /\ asked' = [asked EXCEPT ![e] = places]
      BY <1>2 DEF EmbedBegin
    <2>2. stage[e] = "new" /\ e # r
      BY <2>1 DEF Begin
    <2> QED BY <1>0, <2>1, <2>2 DEF Begin, Move, Fixed
  <1>3. ASSUME NEW d \in Deletes, DeleteBegin(d) PROVE Fixed(r)
    <2>1. stage[d] = "new" /\ d # r
      BY <1>3 DEF DeleteBegin, Begin
    <2> QED BY <1>0, <1>3, <2>1 DEF DeleteBegin, Begin, Move, Fixed
  <1>4. ASSUME NEW e \in Embeds, EmbedEnd(e) \/ StoreVectors(e) \/ StoreFails(e) \/ EmbedAnswer(e)
        PROVE  Fixed(r)
    <2>1. e \in Calls /\ stage[e] \notin Over \cup {"new"}
      BY <1>4 DEF Calls, EmbedEnd, StoreVectors, Upsert, StoreFails, EmbedAnswer, Over
    <2>2. \E t \in {"storing", "stored", "failed", "answered"} : stage' = [stage EXCEPT ![e] = t]
      BY <1>4 DEF EmbedEnd, StoreVectors, Upsert, StoreFails, EmbedAnswer, Move
    <2>3. UNCHANGED input
      BY <1>4 DEF EmbedEnd, StoreVectors, StoreFails, EmbedAnswer
    <2> QED BY <1>1, <2>1, <2>2, <2>3
  <1>5. ASSUME NEW d \in Deletes, DeleteLook(d) \/ DeleteStore(d) \/ StoreFails(d) \/ DeleteAnswer(d)
        PROVE  Fixed(r)
    <2>1. d \in Calls /\ stage[d] \notin Over \cup {"new"}
      BY <1>5 DEF Calls, DeleteLook, DeleteStore, StoreFails, DeleteAnswer, Over
    <2>2. \E t \in {"deleting", "deleted", "failed", "answered"} : stage' = [stage EXCEPT ![d] = t]
      BY <1>5 DEF DeleteLook, DeleteStore, StoreFails, DeleteAnswer, Move
    <2>3. UNCHANGED input
      BY <1>5 DEF DeleteLook, DeleteStore, StoreFails, DeleteAnswer
    <2> QED BY <1>1, <2>1, <2>2, <2>3
  <1>6. CASE Restart
    BY <1>0, <1>6 DEF Restart, Fixed, input, Over
  <1>7. CASE UNCHANGED vars
    BY <1>7 DEF Fixed, vars, input
  <1> QED BY <1>2, <1>3, <1>4, <1>5, <1>6, <1>7 DEF Next, Idle

(* A request that comes brings a list of places, or ids to delete.          *)
LEMMA InputComes ==
    ASSUME BaseInv, [Next]_vars, NEW r \in Calls, stage[r] = "new", stage'[r] # "new"
    PROVE  /\ before'[r] = Ended
           /\ stage'[r] = "answered" => ids'[r] = {}
           /\ stage'[r] \in {"answered", "embedding", "looking"}
           /\ r \in Embeds => /\ asked'[r] \in PlaceLists
                             /\ latest'[r] = Prepare(asked'[r])
                             /\ ids'[r] = {i \in Ids : latest'[r][i] # 0}
  <1>0. stage \in [Calls -> {"new", "embedding", "storing", "stored", "looking",
                            "deleting", "deleted"} \cup Over]
        /\ ids \in [Calls -> SUBSET Ids] /\ before \in [Calls -> SUBSET Calls]
        /\ latest \in [Embeds -> [Ids -> Nat]] /\ asked \in [Embeds -> PlaceLists \cup {<<>>}]
    BY DEF BaseInv, TypeOK
  <1>1. ASSUME NEW s \in Calls, stage[s] # "new", NEW t, stage' = [stage EXCEPT ![s] = t]
        PROVE  FALSE
    BY <1>0, <1>1
  <1>2. ASSUME NEW e \in Embeds,
               EmbedEnd(e) \/ StoreVectors(e) \/ StoreFails(e) \/ EmbedAnswer(e)
        PROVE  FALSE
    <2>1. e \in Calls /\ stage[e] # "new"
      BY <1>2 DEF Calls, EmbedEnd, StoreVectors, Upsert, StoreFails, EmbedAnswer
    <2>2. \E t \in {"storing", "stored", "failed", "answered"} : stage' = [stage EXCEPT ![e] = t]
      BY <1>2 DEF EmbedEnd, StoreVectors, Upsert, StoreFails, EmbedAnswer, Move
    <2> QED BY <1>1, <2>1, <2>2
  <1>3. ASSUME NEW d \in Deletes,
               DeleteLook(d) \/ DeleteStore(d) \/ StoreFails(d) \/ DeleteAnswer(d)
        PROVE  FALSE
    <2>1. d \in Calls /\ stage[d] # "new"
      BY <1>3 DEF Calls, DeleteLook, DeleteStore, StoreFails, DeleteAnswer
    <2>2. \E t \in {"deleting", "deleted", "failed", "answered"} : stage' = [stage EXCEPT ![d] = t]
      BY <1>3 DEF DeleteLook, DeleteStore, StoreFails, DeleteAnswer, Move
    <2> QED BY <1>1, <2>1, <2>2
  <1>4. CASE Restart \/ UNCHANGED vars
    BY <1>4, <1>0 DEF Restart, vars
  <1>5. CASE \E e \in Embeds : EmbedBegin(e)
    <2>1. PICK e \in Embeds : EmbedBegin(e)
      BY <1>5
    <2>2. PICK places \in PlaceLists :
            /\ Begin(e, {i \in Ids : Prepare(places)[i] # 0}, "embedding")
            /\ latest' = [latest EXCEPT ![e] = Prepare(places)]
            /\ asked' = [asked EXCEPT ![e] = places]
      BY <2>1 DEF EmbedBegin
    <2>3. r = e
      BY <1>0, <2>2 DEF Begin, Move
    <2>4. latest'[e] = Prepare(places) /\ asked'[e] = places
      BY <1>0, <2>2
    <2>5. ids'[e] = {i \in Ids : Prepare(places)[i] # 0} /\ before'[e] = Ended
          /\ stage'[e] = IF ids'[e] = {} THEN "answered" ELSE "embedding"
      BY <1>0, <2>2, <2>3 DEF Begin, Move
    <2> HIDE DEF Prepare
    <2> QED BY <2>3, <2>4, <2>5
  <1>6. CASE \E d \in Deletes : DeleteBegin(d)
    <2>1. PICK d \in Deletes : DeleteBegin(d)
      BY <1>6
    <2>2. PICK s \in SUBSET Ids : Begin(d, s, "looking")
      BY <2>1 DEF DeleteBegin
    <2>3. r = d /\ d \notin Embeds
      BY <1>0, <2>2, EmbedAssumption DEF Begin, Move
    <2> QED BY <1>0, <2>2, <2>3 DEF Begin, Move
  <1> QED BY <1>2, <1>3, <1>4, <1>5, <1>6 DEF Next, Idle

LEMMA BaseStep == BaseInv /\ [Next]_vars => BaseInv'
  <1> SUFFICES ASSUME BaseInv, [Next]_vars PROVE BaseInv'
    OBVIOUS
  <1>1. TypeOK' /\ StageInv'
    BY TypeStep
  <1>2. InputInv'
    <2> SUFFICES ASSUME NEW e \in Embeds, stage'[e] # "new"
                 PROVE  /\ asked'[e] \in PlaceLists
                        /\ latest'[e] = Prepare(asked'[e])
                        /\ ids'[e] = {i \in Ids : latest'[e][i] # 0}
      BY DEF InputInv
    <2>1. e \in Calls
      BY DEF Calls
    <2>2. CASE stage[e] = "new"
      BY <2>1, <2>2, InputComes
    <2>3. CASE stage[e] # "new"
      BY <2>1, <2>3, InputFixed DEF Fixed, BaseInv, InputInv
    <2> QED BY <2>2, <2>3
  <1>3. BeforeInv'
    <2>1. Ended \subseteq Ended'
      BY InputFixed DEF Ended, Fixed, Over
    <2> SUFFICES ASSUME NEW r \in Calls PROVE before'[r] \subseteq Ended'
      BY DEF BeforeInv
    <2>2. before \in [Calls -> SUBSET Calls] /\ before[r] \subseteq Ended
      BY DEF BaseInv, TypeOK, BeforeInv
    <2>3. before' = before \/ \E q \in Calls : before' = [before EXCEPT ![q] = Ended]
      BY DEF Next, Calls, EmbedBegin, DeleteBegin, Begin, EmbedEnd, StoreVectors, StoreFails,
             EmbedAnswer, DeleteLook, DeleteStore, DeleteAnswer, Restart, Idle, vars, input
    <2> QED BY <2>1, <2>2, <2>3
  <1> QED BY <1>1, <1>2, <1>3 DEF BaseInv

-----------------------------------------------------------------------------
(* Only these two steps write to the store, and each but to its own ids.    *)
LEMMA Writes ==
    ASSUME BaseInv, [Next]_vars, NEW i \in Ids, store'[i] # store[i]
    PROVE  \/ \E e \in Embeds : /\ StoreVectors(e) /\ i \in ids[e]
                               /\ store'[i] = <<e, latest[e][i]>> /\ store'[i] # Absent
           \/ \E d \in Deletes : DeleteStore(d) /\ i \in found[d] /\ i \in ids[d]
  <1>1. ASSUME NEW e \in Embeds, StoreVectors(e)
        PROVE  i \in ids[e] /\ store'[i] = <<e, latest[e][i]>> /\ store'[i] # Absent
    <2>1. i \in ids[e] /\ store'[i] = <<e, latest[e][i]>>
      BY <1>1 DEF StoreVectors, Upsert
    <2>2. latest[e][i] \in Nat
      BY DEF BaseInv, TypeOK
    <2> QED BY <2>1, <2>2, EmbedAssumption
  <1>2. ASSUME NEW d \in Deletes, DeleteStore(d)
        PROVE  i \in found[d] /\ i \in ids[d]
    <2>1. i \in found[d]
      BY <1>2 DEF DeleteStore, Delete
    <2> QED BY <2>1 DEF BaseInv, TypeOK
  <1>3. CASE \/ \E e \in Embeds : EmbedBegin(e) \/ EmbedEnd(e) \/ StoreFails(e) \/ EmbedAnswer(e)
             \/ \E d \in Deletes : DeleteBegin(d) \/ DeleteLook(d) \/ StoreFails(d) \/ DeleteAnswer(d)
             \/ Restart \/ UNCHANGED vars
    BY <1>3 DEF EmbedBegin, EmbedEnd, StoreFails, EmbedAnswer, DeleteBegin, Begin, DeleteLook,
                DeleteAnswer, Restart, vars
  <1> QED BY <1>1, <1>2, <1>3 DEF Next, Idle

(* The steps by which an id becomes settled.                                *)
LEMMA Settles ==
    ASSUME BaseInv, [Next]_vars, NEW r \in Calls, NEW i \in ids[r], stage[r] # "new",
           ~Settled(r, i), Settled(r, i)'
    PROVE  store'[i] = Expected(r, i)
  <1>0. /\ stage \in [Calls -> {"new", "embedding", "storing", "stored", "looking",
                               "deleting", "deleted"} \cup Over]
        /\ i \in Ids /\ store \in [Ids -> (Embeds \X Nat) \cup {Absent}]
        /\ found \in [Deletes -> SUBSET Ids]
    BY DEF BaseInv, TypeOK
  <1>1. r \in Embeds => r \notin Deletes
    BY EmbedAssumption
  <1>2. stage'[r] # stage[r] \/ found' # found
    BY DEF Settled
  <1>3. ASSUME NEW e \in Embeds,
               \/ EmbedBegin(e) \/ EmbedEnd(e) \/ StoreVectors(e) \/ StoreFails(e) \/ EmbedAnswer(e)
        PROVE  store'[i] = Expected(r, i)
    <2>1. found' = found
      BY <1>3 DEF EmbedBegin, Begin, EmbedEnd, StoreVectors, StoreFails, EmbedAnswer
    <2>2. \E t : stage' = [stage EXCEPT ![e] = t]
      BY <1>3 DEF EmbedBegin, Begin, EmbedEnd, StoreVectors, Upsert, StoreFails, EmbedAnswer, Move
    <2>3. r = e
      BY <1>0, <1>2, <2>1, <2>2
    <2>4. CASE EmbedBegin(e)
      BY <2>3, <2>4 DEF EmbedBegin, Begin
    <2>5. CASE EmbedEnd(e) \/ StoreFails(e)
      BY <1>0, <2>3, <2>5 DEF EmbedEnd, StoreFails, Move, Settled
    <2>6. CASE StoreVectors(e)
      BY <1>0, <2>3, <2>6 DEF StoreVectors, Upsert, Expected
    <2>7. CASE EmbedAnswer(e)
      BY <2>3, <2>7 DEF EmbedAnswer, Settled
    <2> QED BY <1>3, <2>4, <2>5, <2>6, <2>7
  <1>4. ASSUME NEW d \in Deletes,
               \/ DeleteBegin(d) \/ DeleteLook(d) \/ DeleteStore(d) \/ StoreFails(d) \/ DeleteAnswer(d)
        PROVE  store'[i] = Expected(r, i)
    <2>1. \E t : stage' = [stage EXCEPT ![d] = t]
      BY <1>4 DEF DeleteBegin, Begin, DeleteLook, DeleteStore, StoreFails, DeleteAnswer, Move
    <2>2. found' = found \/ \E f : found' = [found EXCEPT ![d] = f]
      BY <1>4 DEF DeleteBegin, Begin, DeleteLook, DeleteStore, StoreFails, DeleteAnswer
    <2>3. r = d /\ r \notin Embeds
      <3>1. ASSUME r # d PROVE FALSE
        <4>1. stage'[r] = stage[r] /\ (r \in Deletes => found'[r] = found[r])
          BY <1>0, <2>1, <2>2, <3>1
        <4>2. stage[r] = "deleting" => r \in Deletes
          BY DEF BaseInv, StageInv, Calls, Over
        <4> QED BY <4>1, <4>2 DEF Settled
      <3> QED BY <3>1, <1>1
    <2>4. CASE DeleteBegin(d)
      BY <2>3, <2>4 DEF DeleteBegin, Begin
    <2>5. CASE DeleteLook(d)
      <3>1. found'[d] = Found(d) /\ store' = store
            /\ stage'[d] = IF Found(d) = {} THEN "deleted" ELSE "deleting"
        BY <1>0, <2>3, <2>5 DEF DeleteLook, Move
      <3>2. i \notin Found(d)
        BY <2>3, <3>1 DEF Settled
      <3> QED BY <1>0, <2>3, <3>1, <3>2 DEF Found, Expected
    <2>6. CASE DeleteStore(d)
      <3>1. i \in found[d]
        BY <2>3, <2>6 DEF DeleteStore, Settled
      <3> QED BY <1>0, <2>3, <2>6, <3>1 DEF DeleteStore, Delete, Expected
    <2>7. CASE StoreFails(d)
      BY <1>0, <2>3, <2>7 DEF StoreFails, Move, Settled
    <2>8. CASE DeleteAnswer(d)
      BY <2>3, <2>8 DEF DeleteAnswer, Settled
    <2> QED BY <1>4, <2>4, <2>5, <2>6, <2>7, <2>8
  <1>5. CASE Restart
    BY <1>0, <1>2, <1>5 DEF Restart, Settled, Over
  <1>6. CASE UNCHANGED vars
    BY <1>2, <1>6 DEF vars
  <1> QED BY <1>3, <1>4, <1>5, <1>6 DEF Next, Idle

LEMMA HoldsStep == BaseInv /\ HoldsInv /\ [Next]_vars => HoldsInv'
  <1> SUFFICES ASSUME BaseInv, HoldsInv, [Next]_vars,
                      NEW r \in Calls, NEW i \in ids'[r],
                      Rivals(r, i)' = {}, Settled(r, i)'
               PROVE  store'[i] = Expected(r, i)'
    BY DEF HoldsInv
  <1>1. stage[r] # "new"
    <2> SUFFICES ASSUME stage[r] = "new" PROVE FALSE
      OBVIOUS
    <2>1. stage'[r] # "new"
      BY DEF Settled
    <2>2. stage'[r] = "answered"
      BY <2>1, InputComes DEF Settled
    <2> QED BY <2>1, <2>2, InputComes
  <1>2. Fixed(r) /\ i \in ids[r] /\ i \in Ids
    <2>1. Fixed(r)
      BY <1>1, InputFixed
    <2> QED BY <2>1 DEF Fixed, BaseInv, TypeOK
  <1>3. Expected(r, i)' = Expected(r, i)
    BY <1>2 DEF Expected, Fixed
  <1>4. ASSUME NEW s \in Calls, s # r, stage[s] # "new", i \in ids[s]
        PROVE  s \in before[r]
    <2>1. Fixed(s)
      BY <1>4, InputFixed
    <2> QED BY <1>2, <1>4, <2>1 DEF Rivals, Fixed
  <1>5. Rivals(r, i) = {}
    BY <1>4 DEF Rivals
  <1>6. CASE ~Settled(r, i)
    BY <1>1, <1>2, <1>3, <1>6, Settles
  <1>7. CASE Settled(r, i)
    <2>1. store[i] = Expected(r, i)
      BY <1>2, <1>5, <1>7 DEF HoldsInv
    <2> SUFFICES ASSUME store'[i] # store[i] PROVE FALSE
      BY <1>3, <2>1
    <2>2. ASSUME NEW e \in Embeds, StoreVectors(e), i \in ids[e] PROVE FALSE
      <3>1. e \in Calls /\ stage[e] = "storing"
        BY <2>2 DEF Calls, StoreVectors, Upsert
      <3>2. e # r
        BY <3>1, <1>7 DEF Settled
      <3>3. e \in Ended
        BY <1>4, <2>2, <3>1, <3>2 DEF BaseInv, BeforeInv
      <3> QED BY <3>1, <3>3 DEF Ended, Over
    <2>3. ASSUME NEW d \in Deletes, DeleteStore(d), i \in ids[d], i \in found[d] PROVE FALSE
      <3>1. d \in Calls /\ stage[d] = "deleting"
        BY <2>3 DEF Calls, DeleteStore
      <3>2. d # r
        BY <2>3, <3>1, <1>7 DEF Settled
      <3>3. d \in Ended
        BY <1>4, <2>3, <3>1, <3>2 DEF BaseInv, BeforeInv
      <3> QED BY <3>1, <3>3 DEF Ended, Over
    <2> QED BY <1>2, <2>2, <2>3, Writes
  <1> QED BY <1>6, <1>7

-----------------------------------------------------------------------------
(* What a delete has taken out is history, and so is what it explains.      *)
LEMMA RemovedKept ==
    ASSUME BaseInv, FoundInv, [Next]_vars, NEW o \in Deletes
    PROVE  removed[o] \subseteq removed'[o]
  <1>1. ASSUME NEW d \in Deletes, DeleteStore(d)
        PROVE  removed[o] \subseteq removed'[o]
    <2>1. removed[d] = {}
      BY <1>1 DEF DeleteStore, FoundInv
    <2>2. \E s : removed' = [removed EXCEPT ![d] = s]
      BY <1>1 DEF DeleteStore
    <2>3. removed \in [Deletes -> SUBSET Ids]
      BY DEF BaseInv, TypeOK
    <2> QED BY <2>1, <2>2, <2>3
  <1>2. CASE \/ \E e \in Embeds : EmbedBegin(e) \/ EmbedEnd(e) \/ StoreVectors(e)
                                   \/ StoreFails(e) \/ EmbedAnswer(e)
             \/ \E d \in Deletes : DeleteBegin(d) \/ DeleteLook(d) \/ StoreFails(d) \/ DeleteAnswer(d)
             \/ Restart \/ UNCHANGED vars
    BY <1>2 DEF EmbedBegin, EmbedEnd, StoreVectors, StoreFails, EmbedAnswer, DeleteBegin, Begin,
                DeleteLook, DeleteAnswer, Restart, vars
  <1> QED BY <1>1, <1>2 DEF Next, Idle

LEMMA ExplainedKept ==
    ASSUME BaseInv, FoundInv, [Next]_vars, NEW d \in Deletes, NEW i, stage[d] # "new",
           Explained(d, i)
    PROVE  Explained(d, i)'
  <1>1. PICK o \in Deletes \ {d} : Overlap(o, d) /\ i \in removed[o]
    BY DEF Explained
  <1>2. stage[o] # "new"
    BY <1>1 DEF FoundInv
  <1>3. Fixed(o) /\ Fixed(d)
    BY <1>2, InputFixed DEF Calls
  <1>4. i \in removed'[o]
    BY <1>1, RemovedKept
  <1> QED BY <1>1, <1>3, <1>4 DEF Explained, Overlap, Fixed

(* An id that goes while a delete is about to take it out.                  *)
LEMMA TakenOut ==
    ASSUME BaseInv, [Next]_vars, NEW d \in Deletes, NEW i \in Ids,
           stage[d] = "deleting", stage'[d] = "deleting", store[i] # Absent, store'[i] = Absent
    PROVE  Explained(d, i)'
  <1>1. PICK s \in Deletes : DeleteStore(s) /\ i \in found[s]
    BY Writes
  <1>2. /\ stage \in [Calls -> {"new", "embedding", "storing", "stored", "looking",
                               "deleting", "deleted"} \cup Over]
        /\ removed \in [Deletes -> SUBSET Ids] /\ s \in Calls /\ d \in Calls
    BY DEF BaseInv, TypeOK, Calls
  <1>3. s # d
    BY <1>1, <1>2 DEF DeleteStore, Move
  <1>4. i \in removed'[s]
    BY <1>1, <1>2 DEF DeleteStore
  <1>5. before' = before /\ stage[s] = "deleting"
    BY <1>1 DEF DeleteStore, input
  <1>6. s \notin before[d] /\ d \notin before[s]
    BY <1>2, <1>5 DEF BaseInv, BeforeInv, Ended, Over
  <1> QED BY <1>3, <1>4, <1>5, <1>6 DEF Explained, Overlap

(* The conjuncts of FoundInv for one delete.                                *)
FoundOf(d) ==
    /\ stage[d] \in {"new", "looking", "deleting"} => removed[d] = {}
    /\ removed[d] \subseteq found[d]
    /\ stage[d] = "deleting" => \A i \in found[d] : store[i] # Absent \/ Explained(d, i)
    /\ stage[d] \in {"deleted", "answered"} =>
          \A i \in found[d] \ removed[d] : Explained(d, i)
    /\ stage[d] = "new" => count[d] = 0
    /\ stage[d] = "answered" => count[d] = Cardinality(found[d])

(* A step that is not its own leaves a delete what it has.                  *)
LEMMA NotItsOwn ==
    ASSUME BaseInv, FoundInv, [Next]_vars, NEW d \in Deletes,
           stage'[d] = stage[d], found'[d] = found[d], removed'[d] = removed[d],
           count'[d] = count[d]
    PROVE  FoundOf(d)'
  <1>1. FoundOf(d) /\ found[d] \subseteq Ids
    BY DEF FoundInv, FoundOf, BaseInv, TypeOK
  <1>2. ASSUME NEW i \in found[d], stage[d] = "deleting"
        PROVE  store'[i] # Absent \/ Explained(d, i)'
    <2>1. CASE Explained(d, i)
      BY <1>2, <2>1, ExplainedKept
    <2>2. CASE store[i] # Absent
      BY <1>1, <1>2, <2>2, TakenOut
    <2> QED BY <1>1, <1>2, <2>1, <2>2 DEF FoundOf
  <1>3. ASSUME NEW i \in found[d] \ removed[d], stage[d] \in {"deleted", "answered"}
        PROVE  Explained(d, i)'
    BY <1>1, <1>3, ExplainedKept DEF FoundOf
  <1> QED BY <1>1, <1>2, <1>3 DEF FoundOf

(* Its own steps.                                                           *)
LEMMA ItsOwn ==
    ASSUME BaseInv, FoundInv, [Next]_vars, NEW d \in Deletes,
           DeleteBegin(d) \/ DeleteLook(d) \/ DeleteStore(d) \/ StoreFails(d) \/ DeleteAnswer(d)
    PROVE  FoundOf(d)'
  <1>0. /\ d \in Calls /\ FoundOf(d) /\ found[d] \subseteq Ids
        /\ stage \in [Calls -> {"new", "embedding", "storing", "stored", "looking",
                               "deleting", "deleted"} \cup Over]
        /\ found \in [Deletes -> SUBSET Ids] /\ removed \in [Deletes -> SUBSET Ids]
        /\ count \in [Calls -> Nat]
    BY DEF FoundInv, FoundOf, BaseInv, TypeOK, Calls
  <1>1. CASE DeleteBegin(d)
    <2>1. stage[d] = "new" /\ stage'[d] \in {"answered", "looking"}
          /\ UNCHANGED <<found, count, removed>>
      BY <1>0, <1>1 DEF DeleteBegin, Begin, Move
    <2>2. found[d] = {} /\ removed[d] = {} /\ count[d] = 0
      BY <1>0, <2>1 DEF BaseInv, StageInv, FoundOf
    <2>3. Cardinality({}) = 0
      BY FS_EmptySet
    <2> QED BY <2>1, <2>2, <2>3 DEF FoundOf
  <1>2. CASE DeleteLook(d)
    <2>1. /\ stage[d] = "looking" /\ found'[d] = Found(d)
          /\ stage'[d] = IF Found(d) = {} THEN "deleted" ELSE "deleting"
          /\ UNCHANGED <<store, removed>>
      BY <1>0, <1>2 DEF DeleteLook, Move
    <2>2. removed[d] = {}
      BY <1>0, <2>1 DEF FoundOf
    <2> QED BY <2>1, <2>2 DEF FoundOf, Found
  <1>3. CASE DeleteStore(d)
    <2>1. /\ stage[d] = "deleting" /\ stage'[d] = "deleted" /\ found' = found
          /\ removed'[d] = {i \in found[d] : store[i] # Absent}
      BY <1>0, <1>3 DEF DeleteStore, Move
    <2>2. ASSUME NEW i \in found[d] \ removed'[d] PROVE Explained(d, i)'
      <3>1. Explained(d, i)
        BY <1>0, <2>1, <2>2 DEF FoundOf
      <3> QED BY <2>1, <3>1, ExplainedKept
    <2> QED BY <2>1, <2>2 DEF FoundOf
  <1>4. CASE StoreFails(d)
    <2>1. stage'[d] = "failed" /\ UNCHANGED <<found, count, removed>>
      BY <1>0, <1>4 DEF StoreFails, Move
    <2> QED BY <1>0, <2>1 DEF FoundOf
  <1>5. CASE DeleteAnswer(d)
    <2>1. /\ stage[d] = "deleted" /\ stage'[d] = "answered" /\ UNCHANGED <<found, removed>>
          /\ count'[d] = Cardinality(found[d])
      BY <1>0, <1>5 DEF DeleteAnswer, Move
    <2>2. ASSUME NEW i \in found[d] \ removed[d] PROVE Explained(d, i)'
      <3>1. Explained(d, i)
        BY <1>0, <2>1, <2>2 DEF FoundOf
      <3> QED BY <2>1, <3>1, ExplainedKept
    <2> QED BY <1>0, <2>1, <2>2 DEF FoundOf
  <1> QED BY <1>1, <1>2, <1>3, <1>4, <1>5

LEMMA FoundStep == BaseInv /\ FoundInv /\ [Next]_vars => FoundInv'
  <1> SUFFICES ASSUME BaseInv, FoundInv, [Next]_vars, NEW d \in Deletes
               PROVE  FoundOf(d)'
    BY DEF FoundInv, FoundOf
  <1>0. /\ d \in Calls /\ d \notin Embeds
        /\ stage \in [Calls -> {"new", "embedding", "storing", "stored", "looking",
                               "deleting", "deleted"} \cup Over]
        /\ found \in [Deletes -> SUBSET Ids] /\ removed \in [Deletes -> SUBSET Ids]
        /\ count \in [Calls -> Nat]
    BY EmbedAssumption DEF BaseInv, TypeOK, Calls
  <1>1. ASSUME NEW e \in Embeds,
               \/ EmbedBegin(e) \/ EmbedEnd(e) \/ StoreVectors(e) \/ StoreFails(e) \/ EmbedAnswer(e)
        PROVE  FoundOf(d)'
    <2>1. UNCHANGED <<found, removed>> /\ \E n : count' = [count EXCEPT ![e] = n] \/ count' = count
      BY <1>1 DEF EmbedBegin, Begin, EmbedEnd, StoreVectors, StoreFails, EmbedAnswer
    <2>2. \E t : stage' = [stage EXCEPT ![e] = t]
      BY <1>1 DEF EmbedBegin, Begin, EmbedEnd, StoreVectors, Upsert, StoreFails, EmbedAnswer, Move
    <2> QED BY <1>0, <2>1, <2>2, NotItsOwn
  <1>2. ASSUME NEW s \in Deletes, s # d,
               \/ DeleteBegin(s) \/ DeleteLook(s) \/ DeleteStore(s) \/ StoreFails(s) \/ DeleteAnswer(s)
        PROVE  FoundOf(d)'
    <2>1. \E t : stage' = [stage EXCEPT ![s] = t]
      BY <1>2 DEF DeleteBegin, Begin, DeleteLook, DeleteStore, StoreFails, DeleteAnswer, Move
    <2>2. \E f : found' = [found EXCEPT ![s] = f] \/ found' = found
      BY <1>2 DEF DeleteBegin, Begin, DeleteLook, DeleteStore, StoreFails, DeleteAnswer
    <2>3. \E f : removed' = [removed EXCEPT ![s] = f] \/ removed' = removed
      BY <1>2 DEF DeleteBegin, Begin, DeleteLook, DeleteStore, StoreFails, DeleteAnswer
    <2>4. \E n : count' = [count EXCEPT ![s] = n] \/ count' = count
      BY <1>2 DEF DeleteBegin, Begin, DeleteLook, DeleteStore, StoreFails, DeleteAnswer
    <2> QED BY <1>0, <1>2, <2>1, <2>2, <2>3, <2>4, NotItsOwn
  <1>3. CASE Restart
    <2>1. UNCHANGED <<found, removed, count>> /\ stage'[d] \in {stage[d], "lost"}
      BY <1>0, <1>3 DEF Restart
    <2>2. CASE stage'[d] = stage[d]
      BY <2>1, <2>2, NotItsOwn
    <2>3. CASE stage'[d] = "lost"
      BY <2>1, <2>3 DEF FoundInv, FoundOf
    <2> QED BY <2>1, <2>2, <2>3
  <1>4. CASE UNCHANGED vars
    BY <1>4, NotItsOwn DEF vars
  <1> QED BY <1>1, <1>2, <1>3, <1>4, ItsOwn DEF Next, Idle

-----------------------------------------------------------------------------
(* The parts of the invariant hold together: types, what requests have read *)
(* before they write, what is settled, and what a delete has found.         *)
THEOREM Invariance == Spec => []IndInv
  <1>1. IndInv /\ [Next]_vars => IndInv'
    BY BaseStep, HoldsStep, FoundStep DEF IndInv
  <1> QED BY <1>1, InitInv, PTL DEF Spec

(* The variables of the index keep their types; a delete finds only ids it  *)
(* was asked to delete (delete_places deletes what get() returned).         *)
THEOREM TypeCorrect == Spec => []TypeOK
  <1>1. IndInv => TypeOK
    BY DEF IndInv, BaseInv
  <1> QED BY <1>1, Invariance, PTL

(* What the backend was told last is what the index holds, id by id, unless *)
(* another request for the id overlapped or came later: for any number of   *)
(* requests, restarts, and lists of places (embed_places, delete_places).   *)
THEOREM AnswersHold == Spec => []LastAnswerHolds
  <1>1. IndInv => LastAnswerHolds
    <2> SUFFICES ASSUME IndInv, NEW r \in Calls, stage[r] = "answered",
                        NEW i \in ids[r], Rivals(r, i) = {}
                 PROVE  store[i] = IF r \in Embeds THEN <<r, LastSaid(asked[r], i)>> ELSE Absent
      BY DEF LastAnswerHolds
    <2>1. store[i] = Expected(r, i)
      BY DEF IndInv, HoldsInv, Settled
    <2>2. ASSUME r \in Embeds PROVE latest[r][i] = LastSaid(asked[r], i)
      <3>1. /\ asked[r] \in PlaceLists /\ latest[r] = Prepare(asked[r])
            /\ i \in Ids /\ latest[r][i] # 0
        BY <2>2 DEF IndInv, BaseInv, InputInv
      <3> HIDE DEF Prepare, LastSaid
      <3> QED BY <3>1, PlacesAreLists
    <2> QED BY <2>1, <2>2 DEF Expected
  <1> QED BY <1>1, Invariance, PTL

(* deleted_count never counts less than the delete took out, and more only  *)
(* where another delete that overlapped took the id out in between          *)
(* (the caveat in the docstring of delete_places).                          *)
THEOREM CountsAreExplained == Spec => []CountExplained
  <1>1. IndInv => CountExplained
    <2> SUFFICES ASSUME IndInv, NEW d \in Deletes, stage[d] = "answered"
                 PROVE  /\ Cardinality(removed[d]) =< count[d]
                        /\ count[d] > Cardinality(removed[d]) =>
                             \E o \in Deletes \ {d} : Overlap(o, d) /\ removed[o] \cap ids[d] # {}
      BY DEF CountExplained
    <2>1. /\ removed[d] \subseteq found[d] /\ count[d] = Cardinality(found[d])
          /\ \A i \in found[d] \ removed[d] : Explained(d, i)
      BY DEF IndInv, FoundInv
    <2>2. found[d] \subseteq ids[d] /\ found[d] \subseteq Ids
      BY DEF IndInv, BaseInv, TypeOK
    <2>3. IsFiniteSet(found[d])
      BY <2>2, EmbedAssumption, FS_Subset
    <2>4. Cardinality(removed[d]) =< Cardinality(found[d])
      BY <2>1, <2>3, FS_Subset
    <2>5. ASSUME count[d] > Cardinality(removed[d])
          PROVE  \E o \in Deletes \ {d} : Overlap(o, d) /\ removed[o] \cap ids[d] # {}
      <3>1. Cardinality(found[d]) \in Nat
        BY <2>3, FS_CardinalityType
      <3>2. removed[d] # found[d]
        BY <2>1, <2>5, <3>1
      <3>3. PICK i \in found[d] : i \notin removed[d]
        BY <2>1, <3>2
      <3>4. PICK o \in Deletes \ {d} : Overlap(o, d) /\ i \in removed[o]
        BY <2>1, <3>3 DEF Explained
      <3> QED BY <2>2, <3>3, <3>4
    <2> QED BY <2>1, <2>4, <2>5
  <1> QED BY <1>1, Invariance, PTL
=============================================================================
