--------------------------- MODULE VerifyPlaceProofs ---------------------------
(***************************************************************************)
(* Theorems about VerifyPlace, for any number of candidates, searches and  *)
(* error codes.                                                            *)
(***************************************************************************)
EXTENDS VerifyPlace, FiniteSetTheorems, WellFoundedInduction, TLAPS

-----------------------------------------------------------------------------
(* What the loop of Located computes: the candidates whose address was      *)
(* found, the first of the text first.                                      *)
LEMMA LeastNumber ==
    ASSUME NEW S \in SUBSET Nat, S # {}
    PROVE  \E n \in S : \A m \in S : n =< m
  <1>1. PICK n \in S : \A m \in S : <<m, n>> \notin OpToRel(<, Nat)
    BY NatLessThanWellFounded, WFMin
  <1>2. \A m \in S : ~ (m < n)
    BY <1>1 DEF OpToRel
  <1> QED BY <1>2

Taken(upto, k) ==
    IF k = 0 THEN <<>>
    ELSE IF geo[k] = "found" THEN Append(upto[k - 1], k) ELSE upto[k - 1]

IsLoop(upto, m) == upto = [k \in 0..m |-> Taken(upto, k)]

LEMMA LoopEnds ==
    ASSUME NEW m \in Nat
    PROVE  \E upto : IsLoop(upto, m)
  <1> DEFINE Stuck == {k \in Nat : ~ \E upto : IsLoop(upto, k)}
  <1> SUFFICES ASSUME Stuck # {} PROVE FALSE
    OBVIOUS
  <1>1. PICK k \in Stuck : \A j \in Stuck : k =< j
    BY LeastNumber
  <1>2. CASE k = 0
    <2>1. IsLoop([j \in 0..0 |-> <<>>], 0)
      BY DEF IsLoop, Taken
    <2> QED BY <1>1, <1>2, <2>1
  <1>3. CASE k # 0
    <2>1. k - 1 \in Nat /\ k - 1 \notin Stuck
      BY <1>1, <1>3
    <2>2. PICK upto : IsLoop(upto, k - 1)
      BY <2>1
    <2> DEFINE more == [j \in 0..k |-> IF j < k THEN upto[j] ELSE Taken(upto, k)]
    <2>3. ASSUME NEW j \in 0..k PROVE more[j] = Taken(more, j)
      <3>1. CASE j = 0
        <4>1. more[j] = upto[j] /\ upto[j] = Taken(upto, j)
          BY <1>3, <2>1, <2>2, <3>1 DEF IsLoop
        <4> QED BY <3>1, <4>1 DEF Taken
      <3>2. CASE j # 0
        <4>1. j - 1 \in 0..k /\ j - 1 < k
          BY <3>2
        <4>2. more[j - 1] = upto[j - 1]
          BY <4>1
        <4>3. more[j] = Taken(upto, j)
          <5>1. CASE j < k
            <6>1. j \in 0..(k - 1)
              BY <5>1, <2>1
            <6> QED BY <5>1, <6>1, <2>2 DEF IsLoop
          <5>2. CASE j = k
            BY <5>2
          <5> QED BY <5>1, <5>2
        <4> QED BY <3>2, <4>2, <4>3 DEF Taken
      <3> QED BY <3>1, <3>2
    <2>4. IsLoop(more, k)
      <3>1. more = [j \in 0..k |-> more[j]]
        OBVIOUS
      <3> HIDE DEF more
      <3> QED BY <2>3, <3>1 DEF IsLoop
    <2> HIDE DEF more
    <2> QED BY <1>1, <2>4
  <1> QED BY <1>2, <1>3

(* The result of n steps.                                                   *)
IsFound(s, n) ==
    /\ s \in Seq(1..n)
    /\ s = <<>> => \A k \in 1..n : geo[k] # "found"
    /\ s # <<>> => /\ geo[s[1]] = "found"
                   /\ \A k \in 1..(s[1] - 1) : geo[k] # "found"

LEMMA LoopFinds ==
    ASSUME NEW n \in Nat, NEW upto, IsLoop(upto, n), NEW m \in 0..n
    PROVE  IsFound(upto[m], m)
  <1> DEFINE Bad == {k \in 0..n : ~IsFound(upto[k], k)}
  <1> SUFFICES ASSUME Bad # {} PROVE FALSE
    OBVIOUS
  <1>1. PICK k \in Bad : \A j \in Bad : k =< j
    <2>1. Bad \in SUBSET Nat
      OBVIOUS
    <2> HIDE DEF Bad
    <2> QED BY <2>1, LeastNumber
  <1>2. k \in 0..n /\ ~IsFound(upto[k], k) /\ upto[k] = Taken(upto, k)
    BY <1>1 DEF IsLoop
  <1>3. CASE k = 0
    BY <1>2, <1>3 DEF Taken, IsFound
  <1>4. CASE k # 0
    <2>1. k - 1 \in 0..n /\ k \in Nat /\ IsFound(upto[k - 1], k - 1)
      BY <1>1, <1>2, <1>4
    <2> DEFINE s == upto[k - 1]
    <2>2. s \in Seq(1..(k - 1)) /\ s \in Seq(1..k)
      <3>1. s \in Seq(1..(k - 1)) /\ 1..(k - 1) \subseteq 1..k
        BY <2>1 DEF IsFound
      <3> QED BY <3>1
    <2>3. \A j \in 1..k : j = k \/ j \in 1..(k - 1)
      BY <2>1
    <2>4. CASE geo[k] # "found"
      <3>1. upto[k] = s
        BY <1>2, <1>4, <2>4 DEF Taken
      <3> QED BY <1>2, <2>1, <2>2, <2>3, <2>4, <3>1 DEF IsFound
    <2>5. CASE geo[k] = "found"
      <3>1. upto[k] = Append(s, k) /\ k \in 1..k
        BY <1>2, <1>4, <2>1, <2>5 DEF Taken
      <3>2. upto[k] \in Seq(1..k) /\ upto[k] # <<>>
        BY <2>2, <3>1
      <3>3. CASE s = <<>>
        <4>1. upto[k][1] = k
          BY <2>2, <3>1, <3>3
        <4>2. \A j \in 1..(k - 1) : geo[j] # "found"
          BY <2>1, <3>3 DEF IsFound
        <4> QED BY <1>2, <2>5, <3>2, <4>1, <4>2 DEF IsFound
      <3>4. CASE s # <<>>
        <4>1. upto[k][1] = s[1]
          BY <2>2, <3>1, <3>4
        <4> QED BY <1>2, <2>1, <3>2, <3>4, <4>1 DEF IsFound
      <3> QED BY <3>3, <3>4
    <2> QED BY <2>4, <2>5
  <1> QED BY <1>3, <1>4

LEMMA LocatedFirst ==
    ASSUME NEW n \in Nat, geo \in [1..n -> Calls]
    PROVE  IsFound(Located, n)
  <1> DEFINE upto == CHOOSE f : f = [k \in 0..n |-> Taken(f, k)]
  <1>1. Len(geo) = n
    OBVIOUS
  <1>2. IsLoop(upto, n)
    BY LoopEnds DEF IsLoop
  <1>3. Located = upto[n]
    BY <1>1, Zenon DEF Located, Taken
  <1> HIDE DEF upto
  <1> QED BY <1>2, <1>3, LoopFinds

-----------------------------------------------------------------------------
(* A search has no geocode calls yet and searches left; a text without a    *)
(* complete candidate does not get to the geocoding; a verification has an  *)
(* outcome when it has ended, and candidates only then.                     *)
StageInv ==
    /\ stage = "search" => geo = <<>> /\ attempt < SearchAttempts
    /\ stage = "geocode" => geo # <<>>
    /\ stage = "done" <=> outcome # "none"
    /\ stage # "done" => candidates = <<>>

(* Every call that has ended by itself is in the order they ended.          *)
Finished == {"found", "unresolved"} \cup Failures
FinishedInv ==
    /\ finished \in Seq(Nat)
    /\ \A k \in DOMAIN geo : geo[k] \in Finished => \E n \in DOMAIN finished : finished[n] = k

(* Whoever has an answer has waited for all calls.                          *)
SettledInv ==
    outcome \in {"absent", "exists"} => \A k \in DOMAIN geo : geo[k] \in {"found", "unresolved"}

IndInv == /\ TypeOK /\ StageInv /\ FinishedInv /\ SettledInv
          /\ AbsentMeansAbsent /\ FirstIsBest /\ CallsStopped

LEMMA InitInv == Init => IndInv
  <1> SUFFICES ASSUME Init PROVE IndInv
    OBVIOUS
  <1> USE DEF Init
  <1>1. TypeOK
    <2>1. NoText \in Texts
      <3>1. <<>> \in [1..0 -> Blocks] /\ 0 \in 0..MaxBlocks
        BY VerifyAssumption
      <3> QED BY <3>1 DEF NoText, Texts
    <2>2. geo \in [1..0 -> Calls] /\ 0 \in 0..MaxBlocks
      BY VerifyAssumption
    <2>3. attempt \in 0..SearchAttempts
      BY VerifyAssumption
    <2> QED BY <2>1, <2>2, <2>3 DEF TypeOK
  <1>2. StageInv
    BY VerifyAssumption DEF StageInv
  <1>3. FinishedInv
    BY DEF FinishedInv
  <1>4. SettledInv /\ AbsentMeansAbsent /\ FirstIsBest /\ CallsStopped
    BY DEF SettledInv, AbsentMeansAbsent, FirstIsBest, CallsStopped
  <1> QED BY <1>1, <1>2, <1>3, <1>4 DEF IndInv

(* No step ends with the code of a state that is none.                      *)
LEMMA CodesAreErrors == Codes \cap {"none", "absent", "exists", "cancelled"} = {}
  BY VerifyAssumption DEF Codes, Failures

LEMMA SearchFailsStep == IndInv /\ SearchFails => IndInv'
  <1> SUFFICES ASSUME IndInv, SearchFails PROVE IndInv'
    OBVIOUS
  <1>1. PICK c \in SearchCodes : stage' = "done" /\ outcome' = c
    BY DEF SearchFails, End
  <1>2. c \in Codes /\ c \notin {"none", "absent", "exists", "cancelled"}
    BY CodesAreErrors DEF Codes
  <1>3. geo = <<>> /\ UNCHANGED <<text, geo, finished, candidates>>
    BY DEF IndInv, StageInv, SearchFails
  <1>4. attempt' \in 0..SearchAttempts
    BY VerifyAssumption DEF IndInv, StageInv, TypeOK, SearchFails
  <1>5. TypeOK'
    BY <1>1, <1>2, <1>3, <1>4 DEF IndInv, TypeOK
  <1>6. StageInv' /\ SettledInv' /\ AbsentMeansAbsent' /\ FirstIsBest' /\ CallsStopped'
    BY <1>1, <1>2, <1>3 DEF StageInv, SettledInv, AbsentMeansAbsent, FirstIsBest, CallsStopped
  <1>7. FinishedInv'
    BY <1>3 DEF IndInv, FinishedInv
  <1> QED BY <1>5, <1>6, <1>7 DEF IndInv

LEMMA SearchReturnsStep == IndInv /\ SearchReturns => IndInv'
  <1> SUFFICES ASSUME IndInv, SearchReturns PROVE IndInv'
    OBVIOUS
  <1>1. PICK t \in Texts :
          /\ text' = t
          /\ \/ Parse(t) = "parse_error" /\ Unreadable /\ UNCHANGED geo
             \/ /\ Parse(t) = "value_error"
                /\ End("internal_server_error") /\ UNCHANGED geo
             \/ Parse(t) = "absent" /\ End("absent") /\ UNCHANGED geo
             \/ /\ Parse(t) = "places"
                /\ geo' = [k \in 1..Cardinality(Complete(t)) |-> "running"]
                /\ stage' = "geocode" /\ UNCHANGED outcome
    BY DEF SearchReturns
  <1>2. /\ stage = "search" /\ geo = <<>> /\ attempt < SearchAttempts
        /\ outcome = "none" /\ candidates = <<>>
        /\ attempt' = attempt + 1 /\ UNCHANGED <<finished, candidates>>
    BY DEF IndInv, StageInv, SearchReturns
  <1>3. attempt \in Nat /\ attempt' \in 0..SearchAttempts
    BY <1>2, VerifyAssumption DEF IndInv, TypeOK
  <1>4. FinishedInv /\ TypeOK
    BY DEF IndInv
  <1>5. CASE UNCHANGED geo /\ (UNCHANGED <<stage, outcome>> => attempt + 1 < SearchAttempts)
             /\ (UNCHANGED <<stage, outcome>> \/ End("internal_server_error")
                  \/ End("llm_invalid_response") \/ (Parse(t) = "absent" /\ End("absent")))
    <2>1. TypeOK'
      BY <1>1, <1>2, <1>3, <1>4, <1>5 DEF TypeOK, End, Codes, Failures
    <2>2. StageInv' /\ FinishedInv' /\ SettledInv' /\ FirstIsBest' /\ CallsStopped'
      BY <1>2, <1>4, <1>5 DEF StageInv, FinishedInv, SettledInv, FirstIsBest, CallsStopped, End
    <2>3. AbsentMeansAbsent'
      <3>1. Parse(t) = "absent" => t.verdict = "none"
        BY DEF Parse
      <3> QED BY <1>1, <1>2, <1>5, <3>1 DEF AbsentMeansAbsent, End
    <2> QED BY <2>1, <2>2, <2>3 DEF IndInv
  <1>6. CASE /\ Parse(t) = "places"
             /\ geo' = [k \in 1..Cardinality(Complete(t)) |-> "running"]
             /\ stage' = "geocode" /\ UNCHANGED outcome
    <2> DEFINE n == Cardinality(Complete(t))
    <2>1. n \in 1..MaxBlocks
      <3>1. PICK m \in 0..MaxBlocks : t.blocks \in [1..m -> Blocks]
        BY DEF Texts
      <3>2. m \in Nat /\ m =< MaxBlocks /\ Complete(t) \subseteq 1..m
        BY <3>1, VerifyAssumption DEF Complete
      <3>3. IsFiniteSet(1..m) /\ Cardinality(1..m) =< m
        <4>1. 1 \in Int /\ m \in Int
          BY <3>2
        <4>2. IsFiniteSet(1..m) /\ Cardinality(1..m) = IF 1 > m THEN 0 ELSE m - 1 + 1
          BY <4>1, FS_Interval, Zenon
        <4> QED BY <3>2, <4>2
      <3>4. IsFiniteSet(Complete(t)) /\ n =< Cardinality(1..m)
        BY <3>2, <3>3, FS_Subset
      <3>5. n \in Nat /\ Cardinality(1..m) \in Nat
        BY <3>3, <3>4, FS_CardinalityType
      <3>6. Complete(t) # {}
        BY <1>6 DEF Parse
      <3>7. n # 0
        BY <3>4, <3>6, FS_EmptySet
      <3> HIDE DEF n
      <3> QED BY <3>2, <3>3, <3>4, <3>5, <3>7, VerifyAssumption
    <2>2. geo' = [k \in 1..n |-> "running"]
      BY <1>6
    <2> HIDE DEF n
    <2>3. geo' \in [1..n -> Calls] /\ n \in 0..MaxBlocks /\ 1 \in DOMAIN geo'
      BY <2>1, <2>2, VerifyAssumption DEF Calls
    <2>4. geo' # <<>> /\ \A k \in DOMAIN geo' : geo'[k] = "running"
      BY <2>2, <2>3
    <2>5. geo' \in UNION {[1..i -> Calls] : i \in 0..MaxBlocks}
      BY <2>3
    <2>6. TypeOK'
      BY <1>1, <1>2, <1>3, <1>4, <1>6, <2>5 DEF TypeOK
    <2>7. StageInv'
      BY <1>2, <1>6, <2>4 DEF StageInv
    <2>8. FinishedInv'
      BY <1>2, <1>4, <2>4 DEF FinishedInv, Finished, Failures
    <2>9. SettledInv' /\ AbsentMeansAbsent' /\ FirstIsBest' /\ CallsStopped'
      BY <1>2, <1>6 DEF SettledInv, AbsentMeansAbsent, FirstIsBest, CallsStopped
    <2> QED BY <2>6, <2>7, <2>8, <2>9 DEF IndInv
  <1>7. UNCHANGED <<stage, outcome>> => ~End("llm_invalid_response")
                                        /\ ~End("internal_server_error") /\ ~End("absent")
    BY <1>2 DEF End
  <1> QED BY <1>1, <1>5, <1>6, <1>7 DEF Unreadable

(* The value of a call is one of Calls.                                     *)
LEMMA GeoType ==
    ASSUME TypeOK
    PROVE  \E n \in 0..MaxBlocks : n \in Nat /\ geo \in [1..n -> Calls]
  BY VerifyAssumption DEF TypeOK

LEMMA GeocodeEndsStep ==
    ASSUME IndInv, NEW k \in DOMAIN geo, GeocodeEnds(k)
    PROVE  IndInv'
  <1>1. PICK n \in 0..MaxBlocks : n \in Nat /\ geo \in [1..n -> Calls]
    BY GeoType DEF IndInv
  <1>2. PICK r \in Finished : geo' = [geo EXCEPT ![k] = r]
    BY DEF GeocodeEnds, Finished
  <1>3. /\ geo[k] = "running" /\ finished' = Append(finished, k)
        /\ UNCHANGED <<stage, attempt, text, outcome, candidates>>
    BY DEF GeocodeEnds
  <1>4. k \in Nat /\ r \in Calls
    BY <1>1, <1>2 DEF Finished, Calls
  <1>5. /\ geo' \in [1..n -> Calls] /\ DOMAIN geo' = DOMAIN geo /\ geo'[k] = r
        /\ \A j \in DOMAIN geo : j # k => geo'[j] = geo[j]
    BY <1>1, <1>2, <1>4
  <1>6. TypeOK /\ StageInv /\ FinishedInv /\ SettledInv /\ CallsStopped
    BY DEF IndInv
  <1>7. TypeOK'
    <2>1. geo' \in UNION {[1..i -> Calls] : i \in 0..MaxBlocks}
      BY <1>5
    <2> QED BY <1>3, <1>5, <1>6, <2>1 DEF TypeOK
  <1>8. StageInv'
    BY <1>3, <1>5, <1>6 DEF StageInv
  <1>9. FinishedInv'
    <2>1. finished' \in Seq(Nat) /\ Len(finished') = Len(finished) + 1
      BY <1>3, <1>4, <1>6 DEF FinishedInv
    <2>2. /\ Len(finished) + 1 \in DOMAIN finished'
          /\ finished'[Len(finished) + 1] = k
          /\ \A m \in DOMAIN finished : m \in DOMAIN finished' /\ finished'[m] = finished[m]
      BY <1>3, <1>4, <1>6, <2>1 DEF FinishedInv
    <2> QED BY <1>5, <1>6, <2>1, <2>2 DEF FinishedInv
  <1>10. outcome \notin {"absent", "exists"}
    BY <1>3, <1>6 DEF SettledInv
  <1>11. SettledInv' /\ AbsentMeansAbsent' /\ FirstIsBest'
    BY <1>3, <1>10 DEF SettledInv, AbsentMeansAbsent, FirstIsBest
  <1>12. CallsStopped'
    <2> SUFFICES ASSUME stage = "done" PROVE \E j \in DOMAIN geo' : geo'[j] \in Failures
      BY <1>3 DEF CallsStopped
    <2>1. PICK j \in DOMAIN geo : geo[j] \in Failures
      BY <1>3, <1>6 DEF CallsStopped
    <2>2. j # k
      BY <1>3, <2>1 DEF Failures
    <2> QED BY <1>5, <2>1, <2>2
  <1> QED BY <1>7, <1>8, <1>9, <1>11, <1>12 DEF IndInv

LEMMA GeocodeCancelledStep ==
    ASSUME IndInv, NEW k \in DOMAIN geo, GeocodeCancelled(k)
    PROVE  IndInv'
  <1>1. PICK n \in 0..MaxBlocks : n \in Nat /\ geo \in [1..n -> Calls]
    BY GeoType DEF IndInv
  <1>2. /\ geo[k] = "stopping" /\ geo' = [geo EXCEPT ![k] = "cancelled"]
        /\ UNCHANGED <<stage, attempt, text, finished, outcome, candidates>>
    BY DEF GeocodeCancelled
  <1>3. /\ geo' \in [1..n -> Calls] /\ DOMAIN geo' = DOMAIN geo /\ geo'[k] = "cancelled"
        /\ \A j \in DOMAIN geo : j # k => geo'[j] = geo[j]
    BY <1>1, <1>2 DEF Calls
  <1>4. TypeOK /\ StageInv /\ FinishedInv /\ SettledInv /\ CallsStopped
    BY DEF IndInv
  <1>5. TypeOK'
    <2>1. geo' \in UNION {[1..i -> Calls] : i \in 0..MaxBlocks}
      BY <1>3
    <2> QED BY <1>2, <1>3, <1>4, <2>1 DEF TypeOK
  <1>6. StageInv'
    BY <1>2, <1>3, <1>4 DEF StageInv
  <1>7. FinishedInv'
    BY <1>2, <1>3, <1>4 DEF FinishedInv, Finished, Failures
  <1>8. outcome \notin {"absent", "exists"}
    BY <1>2, <1>4 DEF SettledInv
  <1>9. SettledInv' /\ AbsentMeansAbsent' /\ FirstIsBest'
    BY <1>2, <1>8 DEF SettledInv, AbsentMeansAbsent, FirstIsBest
  <1>10. CallsStopped'
    <2>1. geo[k] \notin Failures /\ geo'[k] # "running"
      BY <1>2, <1>3 DEF Failures
    <2> QED BY <1>2, <1>3, <1>4, <2>1 DEF CallsStopped
  <1> QED BY <1>5, <1>6, <1>7, <1>9, <1>10 DEF IndInv

(* gather passes on the exception of the task that failed first, and there  *)
(* is one.                                                                  *)
LEMMA GatherFailsStep == IndInv /\ GatherFails => IndInv'
  <1> SUFFICES ASSUME IndInv, GatherFails PROVE IndInv'
    OBVIOUS
  <1> DEFINE isFirst(n) == /\ geo[finished[n]] \in Failures
                           /\ \A m \in 1..(n - 1) : geo[finished[m]] \notin Failures
             first == CHOOSE n \in DOMAIN finished : isFirst(n)
  <1>1. TypeOK /\ StageInv /\ FinishedInv
    BY DEF IndInv
  <1>2. PICK k \in DOMAIN geo : geo[k] \in Failures
    BY DEF GatherFails
  <1>3. \E n \in DOMAIN finished : isFirst(n)
    <2> DEFINE failed == {n \in DOMAIN finished : geo[finished[n]] \in Failures}
    <2>1. DOMAIN finished = 1..Len(finished) /\ Len(finished) \in Nat
      BY <1>1 DEF FinishedInv
    <2>2. failed \in SUBSET Nat
      BY <2>1
    <2>3. failed # {}
      BY <1>1, <1>2 DEF FinishedInv, Finished
    <2>4. PICK n \in failed : \A m \in failed : n =< m
      <3> HIDE DEF failed
      <3> QED BY <2>2, <2>3, LeastNumber
    <2>5. ASSUME NEW m \in 1..(n - 1) PROVE geo[finished[m]] \notin Failures
      <3>1. n \in Nat /\ n =< Len(finished)
        BY <2>1
      <3>2. m \in DOMAIN finished /\ ~ (n =< m)
        BY <2>1, <3>1
      <3> QED BY <2>4, <3>2
    <2> QED BY <2>4, <2>5
  <1>4. isFirst(first)
    BY <1>3
  <1>5. stage' = "done" /\ outcome' = geo[finished[first]]
    BY DEF GatherFails, End
  <1>6. outcome' \in Failures
    BY <1>4, <1>5
  <1> HIDE DEF first, isFirst
  <1>7. UNCHANGED <<attempt, text, geo, finished, candidates>>
    BY DEF GatherFails
  <1>8. TypeOK'
    BY <1>1, <1>5, <1>6, <1>7 DEF TypeOK, Codes
  <1>9. outcome' \notin {"none", "absent", "exists"}
    BY <1>6 DEF Failures
  <1>10. StageInv' /\ SettledInv' /\ AbsentMeansAbsent' /\ FirstIsBest'
    BY <1>5, <1>9 DEF StageInv, SettledInv, AbsentMeansAbsent, FirstIsBest
  <1>11. FinishedInv' /\ CallsStopped'
    BY <1>1, <1>2, <1>7 DEF FinishedInv, CallsStopped
  <1> QED BY <1>8, <1>10, <1>11 DEF IndInv

LEMMA GatherDoneStep == IndInv /\ GatherDone => IndInv'
  <1> SUFFICES ASSUME IndInv, GatherDone PROVE IndInv'
    OBVIOUS
  <1>1. PICK n \in 0..MaxBlocks : n \in Nat /\ geo \in [1..n -> Calls]
    BY GeoType DEF IndInv
  <1>2. IsFound(Located, n)
    BY <1>1, LocatedFirst
  <1>3. /\ stage = "geocode" /\ stage' = "done" /\ candidates' = Located
        /\ outcome' = IF Located = <<>> THEN "absent" ELSE "exists"
        /\ \A k \in DOMAIN geo : geo[k] \in {"found", "unresolved"}
        /\ UNCHANGED <<attempt, text, geo, finished>>
    BY DEF GatherDone, End
  <1>4. TypeOK /\ FinishedInv /\ geo # <<>> /\ DOMAIN geo = 1..n
    BY <1>1, <1>3 DEF IndInv, StageInv
  <1>5. TypeOK'
    <2>1. \A j \in DOMAIN candidates' : candidates'[j] \in DOMAIN geo'
      BY <1>2, <1>3, <1>4 DEF IsFound
    <2>2. outcome' \in {"absent", "exists"}
      BY <1>3
    <2> QED BY <1>3, <1>4, <2>1, <2>2 DEF TypeOK
  <1>6. StageInv' /\ FinishedInv' /\ SettledInv' /\ CallsStopped'
    BY <1>3, <1>4 DEF StageInv, FinishedInv, SettledInv, CallsStopped
  <1>7. AbsentMeansAbsent'
    BY <1>2, <1>3, <1>4 DEF AbsentMeansAbsent, IsFound
  <1>8. FirstIsBest'
    <2> SUFFICES ASSUME Located # <<>>
                 PROVE  /\ geo[Located[1]] = "found"
                        /\ \A k \in 1..(Located[1] - 1) : geo[k] = "unresolved"
      BY <1>3 DEF FirstIsBest
    <2>1. Located[1] \in 1..n
      BY <1>2 DEF IsFound
    <2>2. \A k \in 1..(Located[1] - 1) : k \in DOMAIN geo
      BY <1>1, <1>4, <2>1
    <2> QED BY <1>2, <1>3, <2>2 DEF IsFound
  <1> QED BY <1>5, <1>6, <1>7, <1>8 DEF IndInv

LEMMA InterruptedStep == IndInv /\ Interrupted => IndInv'
  <1> SUFFICES ASSUME IndInv, Interrupted PROVE IndInv'
    OBVIOUS
  <1>1. PICK n \in 0..MaxBlocks : n \in Nat /\ geo \in [1..n -> Calls]
    BY GeoType DEF IndInv
  <1>2. /\ stage' = "done" /\ outcome' \in {"llm_timeout", "cancelled"}
        /\ UNCHANGED <<attempt, text, finished, candidates>> /\ StopCalls
    BY DEF Interrupted, End
  <1>3. TypeOK /\ FinishedInv
    BY DEF IndInv
  <1>4. /\ geo' \in [1..n -> Calls] /\ DOMAIN geo' = DOMAIN geo
        /\ \A k \in DOMAIN geo : geo[k] # "running" => geo'[k] = geo[k]
        /\ \A k \in DOMAIN geo : geo'[k] # geo[k] => geo'[k] = "stopping"
        /\ (\A k \in DOMAIN geo : geo[k] \notin Failures) =>
              \A k \in DOMAIN geo : geo'[k] # "running"
    BY <1>1, <1>2 DEF StopCalls, Calls
  <1>5. TypeOK'
    <2>1. geo' \in UNION {[1..i -> Calls] : i \in 0..MaxBlocks}
      BY <1>4
    <2> QED BY <1>2, <1>3, <1>4, <2>1 DEF TypeOK, Codes
  <1>6. StageInv' /\ SettledInv' /\ AbsentMeansAbsent' /\ FirstIsBest'
    BY <1>2 DEF StageInv, SettledInv, AbsentMeansAbsent, FirstIsBest
  <1>7. FinishedInv'
    BY <1>2, <1>3, <1>4 DEF FinishedInv, Finished, Failures
  <1>8. CallsStopped'
    <2>1. \A k \in DOMAIN geo : geo[k] \in Failures => geo'[k] \in Failures
      BY <1>4 DEF Failures
    <2> QED BY <1>4, <2>1 DEF CallsStopped
  <1> QED BY <1>5, <1>6, <1>7, <1>8 DEF IndInv

LEMMA Invariance == Spec => []IndInv
  <1>1. IndInv /\ [Next]_vars => IndInv'
    <2> SUFFICES ASSUME IndInv, [Next]_vars PROVE IndInv'
      OBVIOUS
    <2>1. CASE VerifyStep
      BY <2>1, SearchFailsStep, SearchReturnsStep, GatherFailsStep, GatherDoneStep,
         InterruptedStep DEF VerifyStep
    <2>2. CASE CallStep
      BY <2>2, GeocodeEndsStep, GeocodeCancelledStep DEF CallStep
    <2>3. CASE UNCHANGED vars
      BY <2>3 DEF vars, IndInv, TypeOK, StageInv, FinishedInv, SettledInv,
                  AbsentMeansAbsent, FirstIsBest, CallsStopped
    <2> QED BY <2>1, <2>2, <2>3 DEF Next, Idle
  <1> QED BY InitInv, <1>1, PTL DEF Spec

-----------------------------------------------------------------------------
(* Whatever the texts, a place is searched for at most _SEARCH_ATTEMPTS     *)
(* times (_search_and_parse), and the other variables keep their types.     *)
THEOREM SearchesAreBounded == Spec => []TypeOK
  <1>1. IndInv => TypeOK
    BY DEF IndInv
  <1> QED BY <1>1, Invariance, PTL

(* An outage of the search or of the map API, a timeout and a text that     *)
(* cannot be read never make a place one that does not exist: that takes a  *)
(* text that says so, or a geocoding of every candidate that found none     *)
(* (_verify, geocode).                                                      *)
THEOREM OutagesAreNotAbsence == Spec => []AbsentMeansAbsent
  <1>1. IndInv => AbsentMeansAbsent
    BY DEF IndInv
  <1> QED BY <1>1, Invariance, PTL

(* However the geocode calls of gather are interleaved, the first candidate *)
(* of an answer is the first of the text that has coordinates.              *)
THEOREM OrderOfTextWins == Spec => []FirstIsBest
  <1>1. IndInv => FirstIsBest
    BY DEF IndInv
  <1> QED BY <1>1, Invariance, PTL

(* A verification that ended, by a timeout or a cancel too, has told its    *)
(* geocode calls to stop, unless one of them has failed (gather).           *)
THEOREM NoCallIsForgotten == Spec => []CallsStopped
  <1>1. IndInv => CallsStopped
    BY DEF IndInv
  <1> QED BY <1>1, Invariance, PTL
=============================================================================
